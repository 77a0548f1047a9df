----------------------------- MODULE ControlGate -----------------------------
(* The gate in front of one terminal session                               *)
(* (swarm-terminal/src/control_gate.rs): threads of the engine claim,      *)
(* write, resize, renew and release under the `control` mutex, while an    *)
(* explicit stop or a maintenance admission ends the process under the     *)
(* `stop_effect` mutex.  The `stopped` flag is all that the two sides      *)
(* share, so an effect that began before a stop may land after it.         *)
(*                                                                         *)
(* A call of a thread is admitted (mutex taken, session running, authority *)
(* checked and a proposed control computed), then its effect lands on the  *)
(* terminal or fails, then it returns: it looks at `stopped` once more and *)
(* commits.  A refused call changes nothing and is no step of the model.   *)
(* A poisoned mutex (a panic while it was held) is left out.               *)
EXTENDS TerminalControl

CONSTANTS
    Threads,    \* host threads, one blocking request each
    Free        \* a mutex nobody holds

ASSUME ThreadsAssumption == Free \notin Threads

ASSUME ViewsAssumption ==
    NoOwner \notin Identities /\ "engine" \notin Identities \cup {NoOwner}

VARIABLES
    control,        \* the guarded TerminalControl
    stopped,        \* the atomic flag
    killed,         \* a stop effect has succeeded: the process is gone
    controlLock,    \* holder of the `control` mutex
    stopLock,       \* holder of the `stop_effect` mutex
    now,            \* engine-local monotonic tick
    call            \* what each thread is doing

vars == <<control, stopped, killed, controlLock, stopLock, now, call>>

Effects == {"claim", "input", "resize", "takeover", "legacy"}
Outcomes == {"none", "ok", "failed", "interrupted"}
Call == [op: Effects \cup {"none", "renew", "stop", "maintenance"},
         phase: {"idle", "admitted", "landed", "waiting", "held", "eligible",
                 "killing"},
         by: Identities \cup {NoOwner},     \* the view it acts for, if any
         proposed: Control,
         alive: BOOLEAN,        \* the effect landed on a living process
         outcome: Outcomes]

Idle(outcome) ==
    [op |-> "none", phase |-> "idle", by |-> NoOwner,
     proposed |-> FreshControl, alive |-> FALSE, outcome |-> outcome]
Begun(op, phase, i, proposed) ==
    [op |-> op, phase |-> phase, by |-> i, proposed |-> proposed,
     alive |-> FALSE, outcome |-> "none"]

IsIdle(t) == call[t].phase = "idle"
At(t, op, phase) == call[t].op = op /\ call[t].phase = phase

Init ==
    /\ control = FreshControl
    /\ stopped = FALSE
    /\ killed = FALSE
    /\ controlLock = Free
    /\ stopLock = Free
    /\ now = 0
    /\ call = [t \in Threads |-> Idle("none")]

-----------------------------------------------------------------------------
(* Calls under the control mutex.                                          *)

\* The mutex is taken and require_running passed; `proposed` is the copy of
\* the control as the authority check left it.
Admit(t, op, i, proposed) ==
    /\ IsIdle(t)
    /\ controlLock = Free
    /\ ~stopped
    /\ controlLock' = t
    /\ call' = [call EXCEPT ![t] = Begun(op, "admitted", i, proposed)]
    /\ UNCHANGED <<control, stopped, killed, stopLock, now>>

\* Automatic resume.
Acquire(t, i) == \E c \in Acquisitions(control, i, now) : Admit(t, "claim", i, c)

\* Explicit Resume Here, with the generation the view last saw.
TakeOver(t, i, observed) ==
    \E c \in Takeovers(control, i, observed, now) : Admit(t, "claim", i, c)

Input(t, i, g) ==
    \E c \in Renewals(control, i, g, now, TypingLease) : Admit(t, "input", i, c)

Resize(t, i, g) ==
    /\ Authorized(control, i, g, now)
    /\ Admit(t, "resize", i, control)

Renew(t, i, g) ==
    \E c \in Renewals(control, i, g, now, ViewingLease) : Admit(t, "renew", i, c)

\* Mistake: the owner is not looked for again, as the registry has no owner.
TakeoverInputUnasked(t) == Admit(t, "takeover", NoOwner, control)

\* Input under a remote takeover, which the registry verified.
TakeoverInput(t) ==
    /\ ~Live(control, now)
    /\ Admit(t, "takeover", NoOwner, control)

\* Operator or coordination input that names no generation.
LegacyInput(t, coordination) ==
    /\ control.generation # 0 => coordination /\ ~Live(control, now)
    /\ Admit(t, "legacy", NoOwner, control)

\* The write or resize happens, or the terminal reports an error.
Land(t, outcome) ==
    /\ call[t].phase = "admitted"
    /\ call[t].op \in Effects
    /\ call' = [call EXCEPT ![t] = [@ EXCEPT !.phase = "landed",
                                             !.alive = ~killed,
                                             !.outcome = outcome]]
    /\ UNCHANGED <<control, stopped, killed, controlLock, stopLock, now>>

\* Mistake: the effect's own outcome is reported.
CompletedUnseen(t) == call[t].outcome

\* complete_effect: a stop that came in meanwhile makes the outcome uncertain.
Completed(t) == IF stopped THEN "interrupted" ELSE call[t].outcome

\* Commit what a claim or an input proposed, and let go of the mutex.
Return(t) ==
    /\ call[t].phase = "landed"
    /\ control' = IF Completed(t) = "ok" /\ call[t].op \in {"claim", "input"}
                  THEN call[t].proposed ELSE control
    /\ controlLock' = Free
    /\ call' = [call EXCEPT ![t] = Idle(Completed(t))]
    /\ UNCHANGED <<stopped, killed, stopLock, now>>

\* A presence renewal has no effect to wait for.
ReturnRenewal(t) ==
    /\ At(t, "renew", "admitted")
    /\ control' = call[t].proposed
    /\ controlLock' = Free
    /\ call' = [call EXCEPT ![t] = Idle("ok")]
    /\ UNCHANGED <<stopped, killed, stopLock, now>>

\* Release asks neither for a running process nor for an effect.
Release(t, i, g) ==
    /\ IsIdle(t)
    /\ controlLock = Free
    /\ control' \in Releases(control, i, g, now)
    /\ call' = [call EXCEPT ![t] = Idle("ok")]
    /\ UNCHANGED <<stopped, killed, controlLock, stopLock, now>>

-----------------------------------------------------------------------------
(* Explicit stop: only the stop_effect mutex.                              *)

RequestStop(t) ==
    /\ IsIdle(t)
    /\ call' = [call EXCEPT ![t] = Begun("stop", "waiting", NoOwner, FreshControl)]
    /\ UNCHANGED <<control, stopped, killed, controlLock, stopLock, now>>

\* Mistake: a stop waits until no effect is in flight.
EnterStopBehindWriters(t) ==
    /\ call[t].phase = "waiting"
    /\ stopLock = Free
    /\ controlLock = Free
    /\ ~stopped
    /\ stopped' = TRUE
    /\ stopLock' = t
    /\ call' = [call EXCEPT ![t] = [@ EXCEPT !.phase = "killing"]]
    /\ UNCHANGED <<control, killed, controlLock, now>>

\* stop_held: new effects are fenced before the process is killed.
EnterStop(t) ==
    /\ call[t].phase = "waiting"
    /\ stopLock = Free
    /\ ~stopped
    /\ stopped' = TRUE
    /\ stopLock' = t
    /\ call' = [call EXCEPT ![t] = [@ EXCEPT !.phase = "killing"]]
    /\ UNCHANGED <<control, killed, controlLock, now>>

\* A session already stopped needs no second effect.
StopAgain(t) ==
    /\ call[t].phase = "waiting"
    /\ stopLock = Free
    /\ stopped
    /\ call' = [call EXCEPT ![t] = Idle("ok")]
    /\ UNCHANGED <<control, stopped, killed, controlLock, stopLock, now>>

\* Both guards of a maintenance admission are let go of as it ends.
LetGo(t) ==
    /\ stopLock' = Free
    /\ controlLock' = IF call[t].op = "maintenance" THEN Free ELSE controlLock

StopSucceeds(t) ==
    /\ call[t].phase = "killing"
    /\ killed' = TRUE
    /\ LetGo(t)
    /\ call' = [call EXCEPT ![t] = Idle("ok")]
    /\ UNCHANGED <<control, stopped, now>>

\* The process lives on and ordinary calls are admitted again.
StopFails(t) ==
    /\ call[t].phase = "killing"
    /\ stopped' = FALSE
    /\ LetGo(t)
    /\ call' = [call EXCEPT ![t] = Idle("failed")]
    /\ UNCHANGED <<control, killed, now>>

-----------------------------------------------------------------------------
(* Maintenance admission: both mutexes, tried and never waited for.        *)

\* Mistake: only other stops are kept out.
TryMaintenanceBesideWriters(t) ==
    /\ IsIdle(t)
    /\ stopLock = Free
    /\ ~stopped
    /\ stopLock' = t
    /\ call' = [call EXCEPT ![t] = Begun("maintenance", "held", NoOwner,
                                             FreshControl)]
    /\ UNCHANGED <<control, stopped, killed, controlLock, now>>

TryMaintenance(t) ==
    /\ IsIdle(t)
    /\ stopLock = Free
    /\ controlLock = Free
    /\ ~stopped
    /\ stopLock' = t
    /\ controlLock' = t
    /\ call' = [call EXCEPT ![t] = Begun("maintenance", "held", NoOwner,
                                             FreshControl)]
    /\ UNCHANGED <<control, stopped, killed, now>>

\* has_owner, asked once while the guard is held.
FindUnowned(t) ==
    /\ call[t].phase = "held"
    /\ ~Live(control, now)
    /\ call' = [call EXCEPT ![t] = [@ EXCEPT !.phase = "eligible"]]
    /\ UNCHANGED <<control, stopped, killed, controlLock, stopLock, now>>

\* This session has an owner, or another session of the set refused.
DropMaintenance(t) ==
    /\ call[t].phase \in {"held", "eligible"}
    /\ LetGo(t)
    /\ call' = [call EXCEPT ![t] = Idle("none")]
    /\ UNCHANGED <<control, stopped, killed, now>>

MaintenanceStop(t) ==
    /\ call[t].phase = "eligible"
    /\ stopped' = TRUE
    /\ call' = [call EXCEPT ![t] = [@ EXCEPT !.phase = "killing"]]
    /\ UNCHANGED <<control, killed, controlLock, stopLock, now>>

Tick ==
    /\ now + 1 \in U64
    /\ now' = now + 1
    /\ UNCHANGED <<control, stopped, killed, controlLock, stopLock, call>>

-----------------------------------------------------------------------------
Gated(t) ==
    \/ \E i \in Identities :
          \/ Acquire(t, i)
          \/ \E g \in U64 : \/ TakeOver(t, i, g)
                            \/ Input(t, i, g)
                            \/ Resize(t, i, g)
                            \/ Renew(t, i, g)
                            \/ Release(t, i, g)
    \/ TakeoverInput(t)
    \/ \E coordination \in BOOLEAN : LegacyInput(t, coordination)
    \/ \E outcome \in {"ok", "failed"} : Land(t, outcome)
    \/ Return(t)
    \/ ReturnRenewal(t)

Stopping(t) ==
    \/ RequestStop(t)
    \/ EnterStop(t)
    \/ StopAgain(t)
    \/ StopSucceeds(t)
    \/ StopFails(t)

Maintaining(t) ==
    \/ TryMaintenance(t)
    \/ FindUnowned(t)
    \/ DropMaintenance(t)
    \/ MaintenanceStop(t)

Next ==
    \/ \E t \in Threads : Gated(t) \/ Stopping(t) \/ Maintaining(t)
    \/ Tick

Spec == Init /\ [][Next]_vars

\* The scheduler runs a thread that can run.  Nothing is assumed of Land: a
\* write to a full terminal may block for ever.  The mutex of stops is taken
\* in turn, or a stop that keeps failing would starve the others.
Fairness ==
    \A t \in Threads :
        /\ SF_vars(EnterStop(t) \/ StopAgain(t))
        /\ WF_vars(StopSucceeds(t) \/ StopFails(t))
        /\ WF_vars(DropMaintenance(t) \/ MaintenanceStop(t))

FairSpec == Spec /\ Fairness

-----------------------------------------------------------------------------
(* Properties.                                                             *)

InFlight(t) == call[t].phase \in {"admitted", "landed"}

\* Every variable has its type: in particular generations and ticks stay
\* within a u64, because checked_add refuses instead of wrapping.
TypeOK ==
    /\ control \in Control
    /\ stopped \in BOOLEAN
    /\ killed \in BOOLEAN
    /\ controlLock \in Threads \cup {Free}
    /\ stopLock \in Threads \cup {Free}
    /\ now \in U64
    /\ call \in [Threads -> Call]

\* As long as an effect of a view is in flight, however long the terminal
\* blocks it, that view owns the session under the generation it was admitted
\* with; and as long as input that no view owns is in flight (a takeover's, or
\* coordination's), no view has a live lease.
EffectAuthority ==
    \A t \in Threads : InFlight(t) =>
        /\ call[t].op \in {"input", "resize", "renew"} =>
              /\ control.owner # NoOwner
              /\ control.owner.identity = call[t].by
              /\ control.generation = call[t].proposed.generation
        /\ call[t].op \in {"takeover", "legacy"} => ~Live(control, now)

\* Maintenance kills a process only while no view has a live lease and no
\* effect of any kind is in flight.
MaintenanceKillsUnattended ==
    \A t \in Threads : At(t, "maintenance", "killing") =>
        /\ ~Live(control, now)
        /\ \A u \in Threads : ~InFlight(u)

\* A call that reports success had its effect on a living process, although a
\* stop may come between the effect and the report (complete_effect).
NoFalseSuccess ==
    [][\A t \in Threads :
          InFlight(t) /\ call[t].op \in Effects /\ call'[t].outcome = "ok"
             /\ call'[t].phase = "idle"
          => call[t].alive]_vars

\* Once the process is gone nobody becomes its owner, the claims that were in
\* flight when it was killed included.
DeadSessionGrantsNothing ==
    [][killed => \/ control'.owner = NoOwner
                 \/ /\ control'.generation = control.generation
                    /\ control.owner # NoOwner
                    /\ control'.owner.identity = control.owner.identity]_vars

\* The generation never goes back, and whoever owned a session under a
\* generation is the only view that ever does: a different owner, or none,
\* comes with a higher generation.  So a session that was ever claimed never
\* again takes the unfenced input of generation 0.
AuthorityAdvances ==
    [][/\ control'.generation >= control.generation
       /\ \/ control'.generation > control.generation
          \/ control'.owner = control.owner
          \/ /\ NoOwner \notin {control.owner, control'.owner}
             /\ control'.owner.identity = control.owner.identity]_vars

\* Presence refreshes never shorten the protection earned by actual typing
\* (terminal_control.rs:21): under one generation a lease only grows, also when
\* a view that typed only looks on from then on.
TypingProtected ==
    [][control'.generation = control.generation /\ control.owner # NoOwner
       => /\ control'.owner # NoOwner
          /\ control'.owner.expires >= control.owner.expires]_vars

\* What the gate promises (module OwnedInput): the committed owner is the
\* holder, and a write is in progress from its admission to its return.
Writer ==
    IF controlLock = Free \/ ~InFlight(controlLock) THEN NoOwner
    ELSE IF call[controlLock].op = "input" THEN call[controlLock].by
    ELSE IF call[controlLock].op \in {"takeover", "legacy"} THEN "engine"
    ELSE NoOwner

Promise == INSTANCE OwnedInput WITH
    Views      <- Identities,
    Nobody     <- NoOwner,
    Engine     <- "engine",
    generation <- control.generation,
    holder     <- IF control.owner = NoOwner THEN NoOwner
                  ELSE control.owner.identity,
    live       <- Live(control, now),
    writer     <- Writer

\* The gate implements that promise.
KeepsPromise == Promise!Spec

\* An explicit stop returns even while a write is blocked for ever: it never
\* waits for the mutex of the writers.
StopReturns ==
    \A t \in Threads :
        call[t].op = "stop" ~> call[t].op # "stop"
=============================================================================
