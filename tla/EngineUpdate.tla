---------------------------- MODULE EngineUpdate ----------------------------
(***************************************************************************)
(* Replacing the worker engine under running workers, and bringing back    *)
(* the workers that were stopped for it.                                   *)
(*                                                                         *)
(* Two routes stop workers: the update Swarm makes by itself               *)
(* (idle_engine_update.rs) and the operator's card (maintenance.rs).  Both *)
(* hold the API's worker lifecycle lock from their first to their last     *)
(* step, as does every start, so one record, task, is whoever holds it.    *)
(* The package (packaging/linux/swarm-package) is another process: it      *)
(* drains, counts and restarts the engine under a file lock of its own.    *)
(* The engine's drain flag has no owner: either side sets and clears it.   *)
(*                                                                         *)
(* A worker stopped for an update is owed a return, a row in the API's     *)
(* store that outlives the API.  Every step between two requests, or       *)
(* between a request and a write to the store, is an action of its own,    *)
(* and the API may be restarted between any two.                           *)
(***************************************************************************)
EXTENDS Naturals, FiniteSets

CONSTANTS
    Workers,
    Autostart,      \* the workers the supervisor starts whenever they are down
    MaxFaults,      \* bound: lost requests and replies, failed stops and writes
    MaxCrashes      \* bound: restarts of the API, kills of the package step

ASSUME EngineUpdateAssumption ==
    /\ Autostart \subseteq Workers
    /\ MaxFaults \in Nat /\ MaxCrashes \in Nat

VARIABLES
    behind,     \* the engine running is not the one this API wants
    draining,   \* the engine refuses starts
    session,    \* what each worker's profile is bound to
    strays,     \* workers with a running session nobody bound
    promise,    \* each worker's return: worker_revival_intents and _attempts
    row,        \* the history row of the latest attempt at this update
    request,    \* the maintenance request file exists
    task,       \* who holds worker_lifecycle, and how far it is
    restarted,  \* whom Swarm set aside for this update (process memory)
    package,    \* the package step holding the package lock
    faults, crashes,
    taken       \* history: workers an update stopped, until they run again or
                \* the operator puts them to sleep

engine == <<behind, draining, session, strays>>
memory == <<task, restarted>>
bounds == <<faults, crashes>>
vars == <<behind, draining, session, strays, promise, row, request, task,
          restarted, package, faults, crashes, taken>>

Running == {w \in Workers : session[w] = "running"}

(* A binding whose process has ended is released by the next reconcile.    *)
Reconciled == [w \in Workers |-> IF session[w] = "dead" THEN "none" ELSE session[w]]

Idle == [pc |-> "idle", then |-> "nothing", listed |-> {}, older |-> {},
         aside |-> {}, stopped |-> {}, todo |-> {}, now |-> {}]

At(pc) == task.pc = pc
Step(pc) == [task EXCEPT !.pc = pc]
Ending(then) == [task EXCEPT !.pc = "cancel", !.then = then, !.todo = {}]

Faulted == faults < MaxFaults /\ faults' = faults + 1

Init ==
    /\ behind = TRUE /\ draining = FALSE
    /\ session \in [Workers -> {"none", "running"}]
    /\ strays = {}
    /\ promise = [w \in Workers |-> "none"]
    /\ row = "none" /\ request = FALSE
    /\ task = Idle /\ restarted = {}
    /\ package = "idle"
    /\ faults = 0 /\ crashes = 0
    /\ taken = {}

-----------------------------------------------------------------------------
(* The update Swarm makes by itself.                                       *)

(* advance and ready: an update waits, nobody drains, the package is not   *)
(* at work, and no earlier attempt at it stopped workers without finishing.*)
Look ==
    /\ At("idle") /\ behind /\ ~draining
    /\ package = "idle"
    /\ row \in {"none", "succeeded"}
    /\ task' = [Idle EXCEPT !.pc = "drain", !.listed = Running]
    /\ UNCHANGED <<engine, promise, row, request, restarted, package, bounds, taken>>

(* A lost answer ends the attempt without cancelling the drain it asked    *)
(* for, which the engine may have begun.                                   *)
BeginDrain ==
    /\ At("drain")
    /\ \/ draining' = TRUE /\ task' = Step("record") /\ UNCHANGED faults
       \/ Faulted /\ draining' \in {draining, TRUE} /\ task' = Idle
    /\ UNCHANGED <<behind, session, strays, promise, row, request, restarted,
                   package, crashes, taken>>

(* Returns::record: one transaction, after which every listed worker is    *)
(* owed a fresh return; refused when some running session has no worker.   *)
Record ==
    /\ At("record")
    /\ \/ /\ strays = {}
          /\ promise' = [w \in Workers |-> IF w \in task.listed THEN "owed" ELSE promise[w]]
          /\ task' = [Step("admit") EXCEPT
                        !.older = {w \in task.listed : promise[w] = "owed"}]
          /\ UNCHANGED faults
       \/ /\ \/ strays # {} /\ UNCHANGED faults
             \/ Faulted
          /\ task' = Ending("refuse") /\ UNCHANGED promise
    /\ UNCHANGED <<engine, row, request, restarted, package, crashes, taken>>

Asked == task.listed \ task.aside

(* The engine's stops, made while it holds its registry.                   *)
Stop(stopped) ==
    /\ session' = [w \in Workers |-> IF w \in stopped THEN "dead" ELSE session[w]]
    /\ taken' = taken \cup stopped

(* The engine admits only the exact running set, while it drains.          *)
Admissible == draining /\ Asked = Running /\ strays = {}

AdmitAnswered ==
    \/ /\ task' = Ending("giveup")                  \* refused without a session
       /\ UNCHANGED <<session, taken, faults>>
    \/ /\ Admissible /\ task.aside = {}             \* refused for these
       /\ \E holders \in (SUBSET Asked) \ {{}} :
              task' = [Step("settle") EXCEPT !.todo = holders]
       /\ UNCHANGED <<session, taken, faults>>
    \/ /\ Admissible /\ Stop(Asked)
       /\ task' = [Step("release") EXCEPT !.then = "ask", !.stopped = Asked]
       /\ UNCHANGED faults
    \/ /\ Admissible /\ Faulted                     \* Partial
       /\ \E stopped \in (SUBSET Asked) \ {Asked} :
              /\ Stop(stopped)
              /\ task' = [Ending("partway") EXCEPT !.stopped = stopped]

AdmitLost ==
    /\ Faulted /\ task' = Step("relist")
    /\ \/ Admissible /\ \E stopped \in SUBSET Asked : Stop(stopped)
       \/ UNCHANGED <<session, taken>>

Admit ==
    /\ At("admit")
    /\ \/ /\ Asked = {}                             \* Swarm set every one aside
          /\ task' = [Step("release") EXCEPT !.then = "ask"]
          /\ UNCHANGED <<session, taken, faults>>
       \/ Asked # {} /\ (AdmitAnswered \/ AdmitLost)
    /\ UNCHANGED <<behind, draining, strays, promise, row, request, restarted,
                   package, crashes>>

(* answer_lost: what the engine still runs says whom the admission stopped.*)
Relist ==
    /\ At("relist")
    /\ \/ /\ LET stopped == Asked \ Running IN
             task' = IF stopped = {} THEN Ending("giveup")
                     ELSE IF stopped = Asked
                     THEN [Step("release") EXCEPT !.then = "ask", !.stopped = stopped]
                     ELSE [Ending("partway") EXCEPT !.stopped = stopped]
          /\ UNCHANGED faults
       \/ Faulted /\ task' = Ending("refuse")       \* every return stays owed
    /\ UNCHANGED <<engine, promise, row, request, restarted, package, crashes, taken>>

(* settle: Swarm vouches for every session the engine named, or for none.  *)
Settle ==
    /\ At("settle")
    /\ \/ task' = Ending("giveup")
       \/ task.todo \cap restarted = {} /\ task' = Step("aside")
    /\ UNCHANGED <<engine, promise, row, request, restarted, package, bounds, taken>>

SetAside ==
    /\ At("aside")
    /\ \E w \in task.todo :
        LET aside == task.aside \cup {w}
            left == task.todo \ {w}
        IN \/ /\ session' = [session EXCEPT ![w] = "none"]
              /\ taken' = taken \cup {w}
              /\ task' = [task EXCEPT !.aside = aside, !.todo = left,
                              !.pc = IF left = {} THEN "admit" ELSE "aside"]
              /\ restarted' = IF left = {} THEN restarted \cup aside ELSE restarted
              /\ UNCHANGED faults
           \/ /\ Faulted                            \* it may have stopped all the same
              /\ \/ UNCHANGED <<session, taken>>
                 \/ Stop({w})
              /\ restarted' = restarted \cup aside
              /\ task' = [Ending("giveup") EXCEPT !.aside = aside]
    /\ UNCHANGED <<behind, draining, strays, promise, row, request, package, crashes>>

(* cancel_drain, the first step of every ending that replaces nothing, and *)
(* what follows it.  abandon closes its history row here.                  *)
CancelDrain ==
    /\ At("cancel")
    /\ \/ draining' = FALSE /\ UNCHANGED faults
       \/ Faulted /\ UNCHANGED draining
    /\ task' = IF task.then \in {"giveup", "partway"} THEN Step("withdraw") ELSE Idle
    /\ row' = IF task.then = "abandon" THEN "failed" ELSE row
    /\ UNCHANGED <<behind, session, strays, promise, request, restarted, package,
                   crashes, taken>>

(* Returns::withdraw: whoever this attempt did not stop owes it nothing,   *)
(* unless the promise is older than the attempt.                           *)
WithdrawAllBut(kept) ==
    /\ At("withdraw")
    /\ promise' = [w \in Workers |->
                      IF w \in task.listed \ kept THEN "none" ELSE promise[w]]
    /\ task' = IF task.then = "giveup"
               THEN [Idle EXCEPT !.pc = "claim", !.todo = task.aside]
               ELSE Step("release")
    /\ UNCHANGED <<engine, row, request, restarted, package, bounds, taken>>

(* Mistake: the promises of those set aside are withdrawn as well.         *)
WithdrawAside == WithdrawAllBut(task.stopped \cup task.older)

Withdraw == WithdrawAllBut(task.aside \cup task.stopped \cup task.older)

(* release, and the history row: open when the swap comes next.            *)
Release ==
    /\ At("release")
    /\ session' = [w \in Workers |->
                      IF w \in task.stopped /\ session[w] = "dead" THEN "none" ELSE session[w]]
    /\ IF task.then = "ask"
       THEN row' = "open" /\ task' = [Idle EXCEPT !.pc = "ask", !.then = "abandon"]
       ELSE row' = "failed" /\ task' = Idle
    /\ UNCHANGED <<behind, draining, strays, promise, request, restarted, package,
                   bounds, taken>>

-----------------------------------------------------------------------------
(* The operator's card: the returns and an open row first, then a stop for *)
(* each running session, drained or not.                                   *)
Card ==
    /\ At("idle") /\ behind
    /\ promise' = [w \in Workers |-> IF w \in Running THEN "owed" ELSE promise[w]]
    /\ row' = "open"
    /\ task' = [Idle EXCEPT !.pc = "stops", !.then = "card", !.todo = Running]
    /\ UNCHANGED <<engine, request, restarted, package, bounds, taken>>

CardStop ==
    /\ At("stops")
    /\ \/ /\ task.todo # {} /\ UNCHANGED <<strays, row, faults>>
          /\ \E w \in task.todo :
                 /\ session' = [session EXCEPT ![w] = "none"]
                 /\ taken' = taken \cup {w}
                 /\ task' = [task EXCEPT !.todo = @ \ {w}]
       \/ /\ task.todo = {} /\ strays' = {}
          /\ task' = [Step("ask") EXCEPT !.todo = {}]
          /\ UNCHANGED <<session, taken, row, faults>>
       \/ /\ Faulted /\ row' = "failed" /\ task' = Idle
          /\ \/ UNCHANGED <<session, taken>>
             \/ \E w \in task.todo : Stop({w})
          /\ UNCHANGED strays
    /\ UNCHANGED <<behind, draining, promise, request, restarted, package, crashes>>

(* The request file, then the wait for the engine that was asked for.      *)
Ask ==
    /\ At("ask")
    /\ \/ request' = TRUE /\ task' = Step("await") /\ UNCHANGED <<row, faults>>
       \/ /\ Faulted /\ UNCHANGED request
          /\ IF task.then = "card"
             THEN row' = "failed" /\ task' = Idle
             ELSE task' = Ending("abandon") /\ UNCHANGED row
    /\ UNCHANGED <<engine, promise, restarted, package, crashes, taken>>

(* await_expected_engine.  A timeout cancels no drain.                     *)
Await ==
    /\ At("await")
    /\ row' = IF behind \/ draining THEN "timed_out" ELSE "succeeded"
    /\ request' = FALSE /\ task' = Idle
    /\ UNCHANGED <<engine, promise, restarted, package, bounds, taken>>

-----------------------------------------------------------------------------
(* start_owed_return_unlocked, for each worker in task.todo: by bring_back *)
(* at the end of an attempt, or for one worker by the supervisor.          *)
Claim ==
    /\ At("claim")
    /\ \/ task.todo = {} /\ task' = Idle /\ UNCHANGED promise
       \/ \E w \in task.todo :
            LET left == [task EXCEPT !.todo = @ \ {w}] IN
            IF promise[w] = "owed"
            THEN /\ promise' = [promise EXCEPT ![w] = "started"]
                 /\ task' = [left EXCEPT !.pc = "launch", !.now = {w}]
            ELSE task' = left /\ UNCHANGED promise
    /\ UNCHANGED <<engine, row, request, restarted, package, bounds, taken>>

(* The reconcile every start begins with, then the start.  A worker found  *)
(* running is a start that succeeded.                                      *)
Launch ==
    /\ At("launch")
    /\ \E w \in task.now :
        \/ /\ session[w] = "running" /\ session' = Reconciled
           /\ task' = Step("returned") /\ UNCHANGED <<strays, taken, faults>>
        \/ /\ session[w] # "running" /\ ~draining
           /\ session' = [Reconciled EXCEPT ![w] = "running"]
           /\ taken' = taken \ {w}
           /\ task' = Step("returned") /\ UNCHANGED <<strays, faults>>
        \/ /\ session[w] # "running" /\ draining    \* HostDraining
           /\ session' = Reconciled
           /\ task' = Step("refused") /\ UNCHANGED <<strays, taken, faults>>
        \/ /\ session[w] # "running" /\ Faulted     \* the spawn failed
           /\ session' = Reconciled
           /\ task' = Step("refused") /\ UNCHANGED <<strays, taken>>
        \/ /\ Faulted                               \* the list was not answered
           /\ task' = Step("unsure") /\ UNCHANGED <<session, strays, taken>>
        \/ /\ session[w] # "running" /\ Faulted     \* the start was not answered
           /\ session' = Reconciled
           /\ \/ UNCHANGED strays
              \/ ~draining /\ strays' = strays \cup {w}
           /\ task' = Step("unsure") /\ UNCHANGED taken
    /\ UNCHANGED <<behind, draining, promise, row, request, restarted, package, crashes>>

Answers == {"returned", "refused", "unsure"}

(* Mistake: a start in doubt goes back into the queue.                     *)
OutcomeRetried == [returned |-> "none", refused |-> "failed", unsure |-> "owed"]

(* Mistake: a start in doubt leaves its claim as it is.                    *)
OutcomeUnread == [returned |-> "none", refused |-> "failed", unsure |-> "unsure"]

(* What each answer leaves of the promise: doubt is not failure, and       *)
(* neither is retried.                                                     *)
Outcome == [returned |-> "none", refused |-> "failed", unsure |-> "unconfirmed"]

SettleReturn ==
    /\ task.pc \in Answers
    /\ promise' = [w \in Workers |-> IF w \in task.now THEN Outcome[task.pc] ELSE promise[w]]
    /\ task' = [Step("claim") EXCEPT !.now = {}]
    /\ UNCHANGED <<engine, row, request, restarted, package, bounds, taken>>

-----------------------------------------------------------------------------
(* The supervisor's pass.  Each takes the lifecycle lock when it is free.  *)

Reconcile ==
    /\ At("idle") /\ session # Reconciled /\ session' = Reconciled
    /\ UNCHANGED <<behind, draining, strays, promise, row, request, memory, package,
                   bounds, taken>>

(* A claim with nobody holding the lock was interrupted, and is not retried.*)
RecoverInterrupted ==
    /\ At("idle") /\ \E w \in Workers : promise[w] = "started"
    /\ promise' = [w \in Workers |->
                      IF promise[w] = "started" THEN "unconfirmed" ELSE promise[w]]
    /\ UNCHANGED <<engine, row, request, memory, package, bounds, taken>>

(* Mistake: returns wait for an update that reported success.              *)
ReviveAfterSuccess(w) ==
    /\ At("idle") /\ promise[w] = "owed" /\ ~behind /\ ~draining
    /\ row \in {"none", "succeeded"}
    /\ task' = [Idle EXCEPT !.pc = "claim", !.todo = {w}]
    /\ UNCHANGED <<engine, promise, row, request, restarted, package, bounds, taken>>

(* revive_workers_owed_a_return and revive_worker_process: on an engine    *)
(* that is current and takes starts.                                       *)
Revive(w) ==
    /\ At("idle") /\ promise[w] = "owed" /\ ~behind /\ ~draining
    /\ task' = [Idle EXCEPT !.pc = "claim", !.todo = {w}]
    /\ UNCHANGED <<engine, promise, row, request, restarted, package, bounds, taken>>

(* try_autostart_recovery asks about returns under way or in doubt, and    *)
(* not whether the engine is behind.                                       *)
AutostartWorker(w) ==
    /\ At("idle") /\ w \in Autostart
    /\ session[w] = "none" /\ promise[w] \in {"none", "owed"}
    /\ ~draining
    /\ session' = [Reconciled EXCEPT ![w] = "running"]
    /\ taken' = taken \ {w}
    /\ UNCHANGED <<behind, draining, strays, promise, row, request, memory, package, bounds>>

(* Mistake: a drain is lifted only while an update waits.                  *)
LiftLookIfBehind ==
    /\ At("idle") /\ draining /\ package = "idle" /\ ~request /\ behind
    /\ task' = [Idle EXCEPT !.pc = "lift"]
    /\ UNCHANGED <<engine, promise, row, request, restarted, package, bounds, taken>>

(* lift_stale_drain: three looks, then a request.                          *)
LiftLook ==
    /\ At("idle") /\ draining /\ package = "idle" /\ ~request
    /\ task' = [Idle EXCEPT !.pc = "lift"]
    /\ UNCHANGED <<engine, promise, row, request, restarted, package, bounds, taken>>

LiftCancel ==
    /\ At("lift") /\ task' = Idle
    /\ \/ draining' = FALSE /\ UNCHANGED faults
       \/ Faulted /\ UNCHANGED draining
    /\ UNCHANGED <<behind, session, strays, promise, row, request, restarted, package,
                   crashes, taken>>

-----------------------------------------------------------------------------
(* The operator, and what happens by itself.                               *)

(* start_worker_process: a success clears what was in doubt.               *)
OperatorStart(w) ==
    /\ At("idle") /\ (session[w] = "running" \/ ~draining)
    /\ session' = [Reconciled EXCEPT ![w] = "running"]
    /\ taken' = taken \ {w}
    /\ promise' = IF promise[w] \in {"failed", "unconfirmed"}
                  THEN [promise EXCEPT ![w] = "none"] ELSE promise
    /\ UNCHANGED <<behind, draining, strays, row, request, memory, package, bounds>>

(* stand_worker_down, and a terminal's Stop, cancel the promise.           *)
Sleep(w) ==
    /\ At("idle")
    /\ promise' = [promise EXCEPT ![w] = "none"]
    /\ session' = [session EXCEPT ![w] = "none"]
    /\ taken' = taken \ {w}
    /\ UNCHANGED <<behind, draining, strays, row, request, memory, package, bounds>>

Exit(w) ==
    /\ \/ /\ session[w] = "running"
          /\ session' = [session EXCEPT ![w] = "dead"] /\ UNCHANGED strays
       \/ w \in strays /\ strays' = strays \ {w} /\ UNCHANGED session
    /\ UNCHANGED <<behind, draining, promise, row, request, memory, package, bounds, taken>>

(* The API is restarted: the lock and its memory go, the rest stays.       *)
Crash ==
    /\ crashes < MaxCrashes /\ crashes' = crashes + 1
    /\ ~At("idle") \/ restarted # {}
    /\ task' = Idle /\ restarted' = {}
    /\ UNCHANGED <<engine, promise, row, request, package, faults, taken>>

-----------------------------------------------------------------------------
(* The package step on its timer, or asked for by the request file.        *)

package_frame == <<session, strays, promise, row, memory, taken>>

(* An engine already current is left alone, and the request consumed.      *)
PackageCurrent ==
    /\ package = "idle" /\ ~behind /\ request /\ request' = FALSE
    /\ UNCHANGED <<behind, draining, package, package_frame, bounds>>

(* A request older than its five minutes, longer than any API waits, is    *)
(* discarded, and the step goes on as the timer's.                         *)
PackageLock ==
    /\ package = "idle" /\ behind /\ package' = "locked"
    /\ request' \in {request} \cup (IF At("await") THEN {} ELSE {FALSE})
    /\ UNCHANGED <<behind, draining, package_frame, bounds>>

PackageDrain ==
    /\ package = "locked" /\ package' = "drained" /\ draining' = TRUE
    /\ UNCHANGED <<behind, request, package_frame, bounds>>

PackageCensus ==
    /\ package = "drained"
    /\ package' \in {"refusing"} \cup (IF Running = {} /\ strays = {} THEN {"empty"} ELSE {})
    /\ UNCHANGED <<behind, draining, request, package_frame, bounds>>

PackageRefuse ==
    /\ package = "refusing" /\ package' = "idle"
    /\ \/ draining' = FALSE /\ UNCHANGED faults
       \/ Faulted /\ UNCHANGED draining
    /\ UNCHANGED <<behind, request, package_frame, crashes>>

(* The engine is restarted on the census of a moment ago.  One that does   *)
(* not come up is restarted as it was.                                     *)
PackageSwap ==
    /\ package = "empty" /\ package' = "idle"
    /\ \/ behind' = FALSE /\ request' \in {request, FALSE} /\ UNCHANGED faults
       \/ Faulted /\ UNCHANGED <<behind, request>>
    /\ draining' = FALSE
    /\ session' = [w \in Workers |-> IF session[w] = "running" THEN "dead" ELSE session[w]]
    /\ strays' = {}
    /\ UNCHANGED <<promise, row, memory, crashes, taken>>

(* Killed outright, before the trap that cancels its drain could run.      *)
PackageKilled ==
    /\ crashes < MaxCrashes /\ crashes' = crashes + 1
    /\ package # "idle" /\ package' = "idle"
    /\ UNCHANGED <<behind, draining, request, package_frame, faults>>

-----------------------------------------------------------------------------
Attempt ==
    \/ BeginDrain \/ Record \/ Admit \/ Relist \/ Settle \/ SetAside \/ CancelDrain
    \/ Withdraw \/ Release \/ CardStop \/ Ask \/ Await
    \/ Claim \/ Launch \/ SettleReturn \/ LiftCancel

Supervisor ==
    \/ Look \/ Reconcile \/ RecoverInterrupted \/ LiftLook
    \/ \E w \in Workers : Revive(w) \/ AutostartWorker(w)

Operator == Card \/ \E w \in Workers : OperatorStart(w) \/ Sleep(w)

PackageStep ==
    \/ PackageCurrent \/ PackageLock \/ PackageDrain \/ PackageCensus
    \/ PackageRefuse \/ PackageSwap

Environment == Crash \/ PackageKilled \/ \E w \in Workers : Exit(w)

Next == Attempt \/ Supervisor \/ Operator \/ PackageStep \/ Environment

(* Whoever holds the lifecycle lock goes on; the package's timer goes on;  *)
(* the supervisor's pass comes round, and its tries for the lock and for a *)
(* moment between two package steps succeed in the end.                    *)
Fairness ==
    /\ WF_vars(Attempt)
    /\ WF_vars(PackageStep)
    /\ SF_vars(LiftLook)
    /\ \A w \in Workers : SF_vars(Revive(w))

Spec == Init /\ [][Next]_vars
FairSpec == Spec /\ Fairness

-----------------------------------------------------------------------------
Pcs == {"idle", "drain", "record", "admit", "relist", "settle", "aside", "cancel",
        "withdraw", "release", "stops", "ask", "await", "claim", "launch", "lift"}
           \cup Answers

Tasks == [pc : Pcs,
          then : {"nothing", "refuse", "giveup", "partway", "abandon", "ask", "card"},
          listed : SUBSET Workers, older : SUBSET Workers,
          aside : SUBSET Workers, stopped : SUBSET Workers,
          todo : SUBSET Workers, now : SUBSET Workers]

WorldTypes ==
    /\ behind \in BOOLEAN /\ draining \in BOOLEAN /\ request \in BOOLEAN
    /\ session \in [Workers -> {"none", "running", "dead"}]
    /\ promise \in [Workers -> {"none", "owed", "started", "failed", "unconfirmed"}]
    /\ row \in {"none", "open", "failed", "timed_out", "succeeded"}
    /\ package \in {"idle", "locked", "drained", "empty", "refusing"}
    /\ faults \in 0..MaxFaults /\ crashes \in 0..MaxCrashes
    /\ strays \subseteq Workers /\ restarted \subseteq Workers /\ taken \subseteq Workers

TypeOK == WorldTypes /\ task \in Tasks

(* A worker an update stopped, and that does not run again, is recorded:   *)
(* owed, being returned, or held for the operator.  Through lost answers,  *)
(* partial stops, refusals after a stop, and restarts of the API, no       *)
(* stopped worker is forgotten (stopped_partway, answer_lost, give_up).    *)
StoppedAreOwed == \A w \in taken : promise[w] # "none"

(* A return never starts a second process for a worker one of whose starts *)
(* went unanswered and did launch (start_owed_return_unlocked's attention, *)
(* recover_interrupted_worker_returns, the refusal of unowned sessions).   *)
ReturnsStartOne ==
    [][\A w \in strays :
          At("launch") => ~(session[w] # "running" /\ session'[w] = "running")]_vars

(* What the whole promises (module OwedReturn): since it was stopped, a    *)
(* worker is owed what its rows in the store say.                          *)
DueOf == [w \in Workers |-> IF w \in taken THEN promise[w] ELSE "nothing"]

Returns == INSTANCE OwedReturn WITH due <- DueOf

(* Whatever is lost or restarted, a stopped worker is started for its      *)
(* return at most once, and never after that start failed or came into     *)
(* doubt (recover_interrupted, start_owed_return_unlocked, withdraw).      *)
KeepsReturns == Returns!Spec

(* A drain ends: nobody's crash, kill, lost answer or timeout leaves the   *)
(* engine refusing starts for ever (lift_stale_drain, PackageRefuse).      *)
DrainEnds == draining ~> ~draining

(* Once the engine is current, whoever is owed a return is tried: none is  *)
(* left waiting behind a drain, a lock or a request nobody owns            *)
(* (revive_workers_owed_a_return).                                         *)
OwedAreTried == \A w \in Workers : (promise[w] = "owed" /\ ~behind) ~> promise[w] # "owed"

(* The package ends no live work: an unattended swap stops no session that *)
(* runs.  swarm-package: "An unattended sweep must not end live work on a  *)
(* guess, so the timer defers."                                            *)
SwapEndsNothing == [][PackageSwap => Running = {} /\ strays = {}]_vars
=============================================================================
