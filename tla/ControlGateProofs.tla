-------------------------- MODULE ControlGateProofs --------------------------
(* Proofs that the gate keeps its safety properties for every number of    *)
(* threads and views and every u64 bound.                                  *)
EXTENDS ControlGate, TLAPS

-----------------------------------------------------------------------------
(* What the operations on a TerminalControl leave behind.                  *)

\* The generation in a grant is the session's, and generation 0 was never
\* claimed.
Coherent(c) ==
    /\ c.owner # NoOwner => c.owner.generation = c.generation
    /\ c.generation = 0 => c.owner = NoOwner

\* Control d belongs to the same view, under the same generation, as c.
SameOwner(c, d) ==
    /\ c.owner # NoOwner
    /\ d.owner # NoOwner
    /\ d.generation = c.generation
    /\ d.owner.identity = c.owner.identity
    /\ d.owner.expires >= c.owner.expires

\* Control d is the first of a new generation.
NewGeneration(c, d) == d.generation = c.generation + 1

LEMMA FreshControlType == FreshControl \in Control /\ Coherent(FreshControl)
  BY ControlAssumption DEF FreshControl, Control, Coherent, U64

\* A renewal keeps the view and the generation, and never shortens the lease.
LEMMA RenewalKeepsOwner ==
  ASSUME NEW c \in Control, Coherent(c), NEW i \in Identities, NEW g \in U64,
         NEW n \in U64, NEW lease \in Nat, NEW d \in Renewals(c, i, g, n, lease)
  PROVE  /\ d \in Control /\ Coherent(d) /\ SameOwner(c, d)
         /\ Live(c, n) /\ c.owner.identity = i /\ c.generation = g
<1>1. /\ Authorized(c, i, g, n)
      /\ n + lease \in U64
      /\ d = [c EXCEPT !.owner =
                 [c.owner EXCEPT !.expires = Later(c.owner.expires, n + lease)]]
  BY DEF Renewals
<1>2. /\ Live(c, n) /\ c.owner.identity = i /\ c.generation = g
      /\ c.owner \in Grant
  BY <1>1 DEF Authorized, LiveOwnerIs, Live, Control
<1>3. /\ d.generation = c.generation
      /\ d.owner = [c.owner EXCEPT !.expires =
                      Later(c.owner.expires, n + lease)]
      /\ d = [generation |-> d.generation, owner |-> d.owner]
  BY <1>1 DEF Control
<1>4. /\ d.owner \in Grant
      /\ d.owner.identity = c.owner.identity
      /\ d.owner.generation = c.owner.generation
      /\ d.owner.expires >= c.owner.expires
  BY <1>1, <1>2, <1>3, ControlAssumption DEF Grant, Later, U64
<1>5. d.owner # NoOwner
  BY <1>4, ControlAssumption
<1> QED
  BY <1>2, <1>3, <1>4, <1>5 DEF Control, Coherent, SameOwner, Live

\* A replacement starts a new generation, owned by the view that asked.
LEMMA ReplacementIsNew ==
  ASSUME NEW c \in Control, NEW i \in Identities, NEW n \in U64,
         NEW d \in Replacements(c, i, n)
  PROVE  /\ d \in Control /\ Coherent(d) /\ NewGeneration(c, d)
         /\ d.owner # NoOwner
<1>1. /\ c.generation + 1 \in U64 /\ n + ViewingLease \in U64
      /\ d = [generation |-> c.generation + 1,
              owner |-> [identity |-> i, generation |-> c.generation + 1,
                         expires |-> n + ViewingLease]]
  BY DEF Replacements
<1>2. d.owner \in Grant
  BY <1>1 DEF Grant
<1>3. d.owner # NoOwner
  BY <1>2, ControlAssumption
<1>4. c.generation \in Nat
  BY DEF Control, U64
<1> QED
  BY <1>1, <1>2, <1>3, <1>4 DEF Control, Coherent, NewGeneration

\* Whatever a claim proposes either renews the owner or starts a generation.
LEMMA ClaimProposes ==
  ASSUME NEW c \in Control, Coherent(c), NEW i \in Identities, NEW n \in U64,
         NEW g \in U64,
         NEW d, d \in Acquisitions(c, i, n) \/ d \in Takeovers(c, i, g, n)
  PROVE  /\ d \in Control /\ Coherent(d) /\ d.owner # NoOwner
         /\ SameOwner(c, d) \/ NewGeneration(c, d)
<1>1. CASE d \in Replacements(c, i, n)
  BY <1>1, ReplacementIsNew
<1>2. CASE \E h \in U64 : d \in Renewals(c, i, h, n, ViewingLease)
  BY <1>2, RenewalKeepsOwner, ControlAssumption DEF SameOwner
<1>3. c.owner # NoOwner => c.owner.generation \in U64
  BY DEF Control, Grant
<1> QED
  BY <1>1, <1>2, <1>3 DEF Acquisitions, Takeovers, Live, LiveOwnerIs

\* A release ends the generation and leaves no owner.
LEMMA ReleaseEnds ==
  ASSUME NEW c \in Control, NEW i \in Identities, NEW g \in U64,
         NEW n \in U64, NEW d \in Releases(c, i, g, n)
  PROVE  /\ d \in Control /\ Coherent(d) /\ NewGeneration(c, d)
         /\ d.owner = NoOwner /\ Live(c, n)
<1>1. c.generation \in Nat
  BY DEF Control, U64
<1> QED
  BY <1>1 DEF Releases, Authorized, LiveOwnerIs, Control, Coherent,
              NewGeneration

-----------------------------------------------------------------------------
(* The inductive invariant.                                                *)

HoldsControl(t) ==
    \/ call[t].phase \in {"admitted", "landed", "held", "eligible"}
    \/ At(t, "maintenance", "killing")

HoldsStop(t) == call[t].phase \in {"held", "eligible", "killing"}

\* A mutex is held by exactly the thread that is in its section.
Locks ==
    \A t \in Threads :
        /\ controlLock = t <=> HoldsControl(t)
        /\ stopLock = t <=> HoldsStop(t)

\* What a thread is doing fits the phase it is in.
Shapes ==
    \A t \in Threads :
        /\ InFlight(t) => call[t].op \in Effects \cup {"renew"}
        /\ call[t].phase = "waiting" => call[t].op = "stop"
        /\ call[t].phase \in {"held", "eligible"} => call[t].op = "maintenance"
        /\ call[t].phase = "killing" => call[t].op \in {"stop", "maintenance"}
        /\ call[t].phase = "landed" => call[t].op # "renew"
        /\ call[t].phase = "admitted" => call[t].outcome = "none"
        /\ call[t].phase = "landed" => call[t].outcome \in {"ok", "failed"}

\* The proposal of a call in flight is still an answer to the control that
\* the session has: nothing was committed since the copy was taken.
Proposals ==
    \A t \in Threads : InFlight(t) =>
        /\ call[t].op = "claim" =>
              /\ Coherent(call[t].proposed)
              /\ call[t].proposed.owner # NoOwner
              /\ \/ SameOwner(control, call[t].proposed)
                 \/ NewGeneration(control, call[t].proposed)
        /\ call[t].op \in {"input", "renew"} =>
              /\ Coherent(call[t].proposed)
              /\ SameOwner(control, call[t].proposed)

\* A session that maintenance found without an owner stays without one.
Unattended ==
    \A t \in Threads :
        call[t].phase = "eligible" \/ At(t, "maintenance", "killing")
        => ~Live(control, now)

\* A killed process stays fenced, and nobody is stopping it any more; what
\* landed when it was gone can only be reported as interrupted.
Fenced ==
    /\ killed => stopped /\ stopLock = Free
    /\ \A t \in Threads : call[t].phase = "landed" => call[t].alive \/ killed
    /\ \A t \in Threads : call[t].phase = "killing" => stopped

Inv ==
    /\ TypeOK
    /\ Coherent(control)
    /\ Locks
    /\ Shapes
    /\ Proposals
    /\ EffectAuthority
    /\ Unattended
    /\ Fenced

LEMMA IdleType == \A o \in Outcomes : Idle(o) \in Call
  BY FreshControlType DEF Idle, Call

LEMMA InitInv == Init => Inv
<1> SUFFICES ASSUME Init PROVE Inv
  OBVIOUS
<1>1. Idle("none") \in Call
  BY IdleType DEF Outcomes
<1>2. TypeOK
  <2>1. call \in [Threads -> Call]
    BY <1>1 DEF Init
  <2>2. now \in U64
    BY ControlAssumption DEF Init, U64
  <2> QED
    BY <2>1, <2>2, FreshControlType DEF Init, TypeOK
<1>3. \A t \in Threads : call[t].phase = "idle" /\ call[t].op = "none"
  BY DEF Init, Idle
<1>4. Locks
  BY <1>3, ThreadsAssumption DEF Init, Locks, HoldsControl, HoldsStop, At
<1> QED
  BY <1>2, <1>3, <1>4, FreshControlType
     DEF Init, Inv, Shapes, Proposals, EffectAuthority, Unattended, Fenced,
         InFlight, At

\* What an admitted call must have been told by its authority check.
Entitled(op, i, p) ==
    /\ op \in Effects \cup {"renew"}
    /\ i \in Identities \cup {NoOwner}
    /\ p \in Control
    /\ op = "claim" =>
          /\ Coherent(p)
          /\ p.owner # NoOwner
          /\ SameOwner(control, p) \/ NewGeneration(control, p)
    /\ op \in {"input", "renew"} => Coherent(p) /\ SameOwner(control, p)
    /\ op \in {"input", "resize", "renew"} =>
          /\ control.owner # NoOwner
          /\ control.owner.identity = i
          /\ control.generation = p.generation
    /\ op \in {"takeover", "legacy"} => ~Live(control, now)

\* Admission of an entitled call keeps the invariant.
LEMMA AdmitInv ==
  ASSUME Inv, NEW t \in Threads, NEW op, NEW i, NEW p,
         Entitled(op, i, p), Admit(t, op, i, p)
  PROVE  Inv'
<1> DEFINE r == Begun(op, "admitted", i, p)
<1>1. r \in Call
  BY DEF Entitled, Begun, Call, Effects, Outcomes
<1>2. TypeOK'
  BY <1>1 DEF Inv, TypeOK, Admit
<1>3. call'[t] = r /\ \A u \in Threads \ {t} : call'[u] = call[u]
  BY DEF Inv, TypeOK, Admit
<1>4. /\ r.op = op /\ r.phase = "admitted" /\ r.by = i /\ r.proposed = p
      /\ r.outcome = "none"
  BY DEF Begun
<1> HIDE DEF r
<1>5. Coherent(control)'
  BY DEF Inv, Admit
<1>6. Locks'
  BY <1>3, <1>4, ThreadsAssumption
     DEF Inv, Locks, Admit, HoldsControl, HoldsStop, At, IsIdle, Entitled,
         Effects
<1>7. Shapes'
  BY <1>3, <1>4 DEF Inv, Shapes, InFlight, Entitled
<1>8. Proposals'
  BY <1>3, <1>4 DEF Inv, Proposals, InFlight, Entitled, Admit
<1>9. EffectAuthority'
  BY <1>3, <1>4 DEF Inv, EffectAuthority, InFlight, Entitled, Admit, Live
<1>10. Unattended'
  BY <1>3, <1>4 DEF Inv, Unattended, At, Admit, Live
<1>11. Fenced'
  BY <1>3, <1>4 DEF Inv, Fenced, Admit
<1> QED
  BY <1>2, <1>5, <1>6, <1>7, <1>8, <1>9, <1>10, <1>11 DEF Inv

\* An effect that lands changes nothing but the call it belongs to.
LEMMA LandInv ==
  ASSUME Inv, NEW t \in Threads, NEW o \in {"ok", "failed"}, Land(t, o)
  PROVE  Inv'
<1> DEFINE r == [call[t] EXCEPT !.phase = "landed", !.alive = ~killed,
                                !.outcome = o]
<1>1. call[t] \in Call
  BY DEF Inv, TypeOK
<1>2. /\ r \in Call
      /\ r.op = call[t].op /\ r.phase = "landed" /\ r.by = call[t].by
      /\ r.proposed = call[t].proposed /\ r.outcome = o /\ r.alive = ~killed
  BY <1>1 DEF Call, Outcomes, Inv, TypeOK
<1>3. call'[t] = r /\ \A u \in Threads \ {t} : call'[u] = call[u]
  BY DEF Inv, TypeOK, Land
<1>4. TypeOK'
  BY <1>2 DEF Inv, TypeOK, Land
<1> HIDE DEF r
<1>5. Coherent(control)'
  BY DEF Inv, Land
<1>6. Locks'
  BY <1>2, <1>3 DEF Inv, Locks, Land, HoldsControl, HoldsStop, At, Effects
<1>7. Shapes'
  BY <1>2, <1>3 DEF Inv, Shapes, InFlight, Land, Effects
<1>8. Proposals'
  BY <1>2, <1>3 DEF Inv, Proposals, InFlight, Land
<1>9. EffectAuthority'
  BY <1>2, <1>3 DEF Inv, EffectAuthority, InFlight, Land, Live
<1>10. Unattended'
  BY <1>2, <1>3 DEF Inv, Unattended, At, Land, Live, Effects
<1>11. Fenced'
  BY <1>2, <1>3 DEF Inv, Fenced, Land
<1> QED
  BY <1>4, <1>5, <1>6, <1>7, <1>8, <1>9, <1>10, <1>11 DEF Inv

\* A thread that leaves the control section, committing nothing or what it
\* proposed, leaves no other call in flight behind.
LEMMA LeaveInv ==
  ASSUME Inv, NEW t \in Threads, InFlight(t),
         NEW o \in Outcomes,
         control' \in {control, call[t].proposed},
         control' # control => call[t].op \in {"claim", "input", "renew"},
         controlLock' = Free,
         call' = [call EXCEPT ![t] = Idle(o)],
         UNCHANGED <<stopped, killed, stopLock, now>>
  PROVE  Inv'
<1>1. TypeOK'
  BY IdleType DEF Inv, TypeOK, Call
<1>2. /\ call'[t].phase = "idle" /\ call'[t].op = "none"
      /\ \A u \in Threads \ {t} : call'[u] = call[u]
  BY DEF Inv, TypeOK, Idle
<1>3. Coherent(control)'
  BY DEF Inv, Proposals
<1>4. controlLock = t
  BY DEF Inv, Locks, HoldsControl, InFlight
<1>5. \A u \in Threads \ {t} : ~HoldsControl(u)
  BY <1>4 DEF Inv, Locks
<1>6. Locks'
  BY <1>2, <1>4, <1>5, ThreadsAssumption
     DEF Inv, Locks, HoldsControl, HoldsStop, At, InFlight
<1>7. Shapes'
  BY <1>2 DEF Inv, Shapes, InFlight
<1>8. Proposals' /\ EffectAuthority' /\ Unattended'
  BY <1>2, <1>5
     DEF Proposals, EffectAuthority, Unattended, InFlight, HoldsControl, At
<1>9. Fenced'
  BY <1>2 DEF Inv, Fenced
<1> QED
  BY <1>1, <1>3, <1>6, <1>7, <1>8, <1>9 DEF Inv

\* A return commits the proposal of a claim or an input, or nothing.
LEMMA ReturnInv ==
  ASSUME Inv, NEW t \in Threads, Return(t) \/ ReturnRenewal(t)
  PROVE  Inv'
<1>1. CASE Return(t)
  <2>1. Completed(t) \in Outcomes
    BY <1>1 DEF Inv, Shapes, Return, Completed, Outcomes
  <2>2. InFlight(t)
    BY <1>1 DEF Return, InFlight
  <2>3. /\ control' \in {control, call[t].proposed}
        /\ control' # control => call[t].op \in {"claim", "input", "renew"}
    BY <1>1 DEF Return
  <2> QED
    BY <1>1, <2>1, <2>2, <2>3, LeaveInv DEF Return
<1>2. CASE ReturnRenewal(t)
  BY <1>2, LeaveInv DEF ReturnRenewal, At, InFlight, Outcomes
<1> QED
  BY <1>1, <1>2

\* A release finds the mutex free, so it pulls no authority from under a call.
LEMMA ReleaseInv ==
  ASSUME Inv, NEW t \in Threads, NEW i \in Identities, NEW g \in U64,
         Release(t, i, g)
  PROVE  Inv'
<1>1. /\ control' \in Control /\ Coherent(control)'
      /\ control'.owner = NoOwner
  BY ReleaseEnds DEF Inv, TypeOK, Release, Coherent
<1>2. TypeOK'
  BY <1>1, IdleType DEF Inv, TypeOK, Release, Outcomes
<1>3. /\ call'[t].phase = "idle" /\ call'[t].op = "none"
      /\ \A u \in Threads \ {t} : call'[u] = call[u]
      /\ call[t].phase = "idle"
  BY DEF Inv, TypeOK, Idle, Release, IsIdle
<1>4. \A u \in Threads : ~HoldsControl(u)
  BY ThreadsAssumption DEF Inv, Locks, Release
<1>5. Locks'
  BY <1>3 DEF Inv, Locks, Release, HoldsControl, HoldsStop, At
<1>6. Shapes'
  BY <1>3 DEF Inv, Shapes, InFlight
<1>7. Proposals' /\ EffectAuthority' /\ Unattended'
  BY <1>3, <1>4
     DEF Proposals, EffectAuthority, Unattended, InFlight, HoldsControl, At
<1>8. Fenced'
  BY <1>3 DEF Inv, Fenced, Release
<1> QED
  BY <1>1, <1>2, <1>5, <1>6, <1>7, <1>8 DEF Inv

\* Stops and maintenance change no control, so it is enough that the thread
\* is in no call in flight and takes and drops its mutexes together.
LEMMA StopSideInv ==
  ASSUME Inv, NEW t \in Threads, NEW r \in Call,
         ~InFlight(t),
         call' = [call EXCEPT ![t] = r],
         r.phase \notin {"admitted", "landed"},
         r.phase = "waiting" => r.op = "stop",
         r.phase \in {"held", "eligible"} => r.op = "maintenance",
         r.phase = "killing" => r.op \in {"stop", "maintenance"},
         r.phase = "eligible" \/ (r.op = "maintenance" /\ r.phase = "killing")
           => ~Live(control, now),
         TypeOK', Locks', Fenced',
         UNCHANGED <<control, now>>
  PROVE  Inv'
<1>1. call'[t] = r /\ \A u \in Threads \ {t} : call'[u] = call[u]
  BY DEF Inv, TypeOK
<1>2. Coherent(control)'
  BY DEF Inv
<1>3. Shapes'
  BY <1>1 DEF Inv, Shapes, InFlight
<1>4. Proposals' /\ EffectAuthority'
  BY <1>1 DEF Inv, Proposals, EffectAuthority, InFlight, Live
<1>5. Unattended'
  BY <1>1 DEF Inv, Unattended, At, Live
<1> QED
  BY <1>2, <1>3, <1>4, <1>5 DEF Inv

LEMMA RequestStopInv ==
  ASSUME Inv, NEW t \in Threads, RequestStop(t)
  PROVE  Inv'
<1> DEFINE r == Begun("stop", "waiting", NoOwner, FreshControl)
<1>1. r \in Call
  BY FreshControlType DEF Begun, Call, Outcomes
<1>2. call'[t] = r /\ \A u \in Threads \ {t} : call'[u] = call[u]
  BY DEF Inv, TypeOK, RequestStop
<1>3. r.op = "stop" /\ r.phase = "waiting"
  BY DEF Begun
<1>4. call[t].phase = "idle"
  BY DEF RequestStop, IsIdle
<1>5. TypeOK'
  BY <1>1 DEF Inv, TypeOK, RequestStop
<1> HIDE DEF r
<1>6. Locks'
  BY <1>2, <1>3, <1>4
     DEF Inv, Locks, RequestStop, HoldsControl, HoldsStop, At
<1>7. Fenced'
  BY <1>2, <1>3 DEF Inv, Fenced, RequestStop
<1> QED
  BY <1>1, <1>3, <1>4, <1>5, <1>6, <1>7, StopSideInv
     DEF RequestStop, InFlight, r

\* The fence is up before the process is killed.
LEMMA EnterStopInv ==
  ASSUME Inv, NEW t \in Threads, EnterStop(t)
  PROVE  Inv'
<1> DEFINE r == [call[t] EXCEPT !.phase = "killing"]
<1>1. call[t] \in Call
  BY DEF Inv, TypeOK
<1>2. r \in Call /\ r.op = call[t].op /\ r.phase = "killing"
  BY <1>1 DEF Call
<1>3. call'[t] = r /\ \A u \in Threads \ {t} : call'[u] = call[u]
  BY DEF Inv, TypeOK, EnterStop
<1>4. TypeOK'
  BY <1>2 DEF Inv, TypeOK, EnterStop
<1> HIDE DEF r
<1>5. call[t].phase = "waiting" /\ call[t].op = "stop"
  BY DEF Inv, Shapes, EnterStop
<1>6. Locks'
  BY <1>2, <1>3, <1>5, ThreadsAssumption
     DEF Inv, Locks, EnterStop, HoldsControl, HoldsStop, At
<1>7. Fenced'
  BY <1>2, <1>3 DEF Inv, Fenced, EnterStop
<1> QED
  BY <1>2, <1>4, <1>5, <1>6, <1>7, StopSideInv DEF EnterStop, InFlight, r

\* Every way out of a stop or of a maintenance admission.
LEMMA StopSideLeaveInv ==
  ASSUME Inv, NEW t \in Threads, NEW o \in Outcomes,
         \/ StopAgain(t) /\ o = "ok"
         \/ StopSucceeds(t) /\ o = "ok"
         \/ StopFails(t) /\ o = "failed"
         \/ DropMaintenance(t) /\ o = "none"
  PROVE  Inv'
<1> USE DEF StopAgain, StopSucceeds, StopFails, DropMaintenance, LetGo
<1>1. Idle(o) \in Call /\ Idle(o).op = "none" /\ Idle(o).phase = "idle"
  BY IdleType DEF Idle
<1>2. call' = [call EXCEPT ![t] = Idle(o)]
  OBVIOUS
<1>3. call'[t] = Idle(o) /\ \A u \in Threads \ {t} : call'[u] = call[u]
  BY <1>2 DEF Inv, TypeOK
<1>4. call' \in [Threads -> Call]
  BY <1>1, <1>2 DEF Inv, TypeOK
<1>5. TypeOK'
  BY <1>4 DEF Inv, TypeOK
<1>6. ~InFlight(t) /\ UNCHANGED <<control, now>>
  BY DEF InFlight
<1>7. Locks'
  BY <1>1, <1>3, ThreadsAssumption
     DEF Inv, Locks, Shapes, HoldsControl, HoldsStop, At, TypeOK
<1>8. Fenced'
  <2>1. CASE StopAgain(t)
    BY <1>1, <1>3, <2>1 DEF Inv, Fenced
  <2>2. CASE StopSucceeds(t)
    BY <1>1, <1>3, <2>2 DEF Inv, Fenced
  <2>3. CASE StopFails(t)
    <3>1. stopLock = t /\ ~killed
      BY <2>3, ThreadsAssumption DEF Inv, Locks, HoldsStop, Fenced
    <3>2. \A u \in Threads \ {t} : call[u].phase # "killing"
      BY <3>1 DEF Inv, Locks, HoldsStop
    <3> QED
      BY <1>1, <1>3, <2>3, <3>1, <3>2 DEF Inv, Fenced
  <2>4. CASE DropMaintenance(t)
    BY <1>1, <1>3, <2>4 DEF Inv, Fenced
  <2> QED
    BY <2>1, <2>2, <2>3, <2>4
<1> QED
  BY <1>1, <1>2, <1>5, <1>6, <1>7, <1>8, StopSideInv

LEMMA TryMaintenanceInv ==
  ASSUME Inv, NEW t \in Threads, TryMaintenance(t)
  PROVE  Inv'
<1> DEFINE r == Begun("maintenance", "held", NoOwner, FreshControl)
<1>1. r \in Call
  BY FreshControlType DEF Begun, Call, Outcomes
<1>2. call'[t] = r /\ \A u \in Threads \ {t} : call'[u] = call[u]
  BY DEF Inv, TypeOK, TryMaintenance
<1>3. r.op = "maintenance" /\ r.phase = "held"
  BY DEF Begun
<1>4. call[t].phase = "idle"
  BY DEF TryMaintenance, IsIdle
<1>5. TypeOK'
  BY <1>1 DEF Inv, TypeOK, TryMaintenance
<1> HIDE DEF r
<1>6. Locks'
  BY <1>2, <1>3, <1>4, ThreadsAssumption
     DEF Inv, Locks, TryMaintenance, HoldsControl, HoldsStop, At
<1>7. Fenced'
  BY <1>2, <1>3 DEF Inv, Fenced, TryMaintenance
<1> QED
  BY <1>1, <1>3, <1>4, <1>5, <1>6, <1>7, StopSideInv
     DEF TryMaintenance, InFlight, r

\* Once found unowned, the session is held so until it is killed or let go.
LEMMA MaintenanceGoesOnInv ==
  ASSUME Inv, NEW t \in Threads, NEW p \in {"eligible", "killing"},
         \/ FindUnowned(t) /\ p = "eligible"
         \/ MaintenanceStop(t) /\ p = "killing"
  PROVE  Inv'
<1> USE DEF FindUnowned, MaintenanceStop
<1> DEFINE r == [call[t] EXCEPT !.phase = p]
<1>1. call[t] \in Call
  BY DEF Inv, TypeOK
<1>2. r \in Call /\ r.op = call[t].op /\ r.phase = p
  BY <1>1 DEF Call
<1>3. call' = [call EXCEPT ![t] = r]
  OBVIOUS
<1>4. call'[t] = r /\ \A u \in Threads \ {t} : call'[u] = call[u]
  BY <1>3 DEF Inv, TypeOK
<1>5. call' \in [Threads -> Call]
  BY <1>2, <1>3 DEF Inv, TypeOK
<1> HIDE DEF r
<1>6. TypeOK'
  BY <1>5 DEF Inv, TypeOK
<1>7. call[t].phase \in {"held", "eligible"} /\ call[t].op = "maintenance"
  BY DEF Inv, Shapes
<1>8. ~Live(control, now)
  BY DEF Inv, Unattended
<1>9. Locks'
  BY <1>2, <1>4, <1>7 DEF Inv, Locks, HoldsControl, HoldsStop, At
<1>10. Fenced'
  BY <1>2, <1>4 DEF Inv, Fenced
<1> QED
  BY <1>2, <1>3, <1>6, <1>7, <1>8, <1>9, <1>10, StopSideInv DEF InFlight

\* A lease that has run out stays so.
LEMMA TickInv ==
  ASSUME Inv, Tick
  PROVE  Inv'
<1>1. now \in Nat /\ now' = now + 1 /\ now' \in U64
  BY DEF Inv, TypeOK, Tick, U64
<1>2. Live(control, now)' => Live(control, now)
  BY <1>1, ControlAssumption
     DEF Inv, TypeOK, Tick, Live, Control, Grant, U64
<1> QED
  BY <1>1, <1>2
     DEF Inv, TypeOK, Tick, Coherent, Locks, Shapes, Proposals,
         EffectAuthority, Unattended, Fenced, HoldsControl, HoldsStop, At,
         InFlight

\* Each kind of call is admitted only when it is entitled to be.
LEMMA AdmissionInv ==
  ASSUME Inv, NEW t \in Threads,
         \/ \E i \in Identities :
               \/ Acquire(t, i)
               \/ \E g \in U64 : \/ TakeOver(t, i, g)
                                 \/ Input(t, i, g)
                                 \/ Resize(t, i, g)
                                 \/ Renew(t, i, g)
         \/ TakeoverInput(t)
         \/ \E coordination \in BOOLEAN : LegacyInput(t, coordination)
  PROVE  \E op, i, p : Entitled(op, i, p) /\ Admit(t, op, i, p)
<1> USE DEF Entitled, Effects
<1>0. control \in Control /\ Coherent(control) /\ now \in U64
  BY DEF Inv, TypeOK
<1>1. ASSUME NEW i \in Identities, NEW g \in U64,
             Acquire(t, i) \/ TakeOver(t, i, g)
      PROVE  \E op, j, p : Entitled(op, j, p) /\ Admit(t, op, j, p)
  <2>1. PICK c : /\ \/ c \in Acquisitions(control, i, now)
                    \/ c \in Takeovers(control, i, g, now)
                 /\ Admit(t, "claim", i, c)
    BY <1>1 DEF Acquire, TakeOver
  <2>2. Entitled("claim", i, c)
    BY <1>0, <2>1, ClaimProposes
  <2> QED
    BY <2>1, <2>2
<1>2. ASSUME NEW i \in Identities, NEW g \in U64,
             Input(t, i, g) \/ Renew(t, i, g)
      PROVE  \E op, j, p : Entitled(op, j, p) /\ Admit(t, op, j, p)
  <2>1. PICK op \in {"input", "renew"}, lease \in Nat :
          \E c \in Renewals(control, i, g, now, lease) : Admit(t, op, i, c)
    BY <1>2, ControlAssumption DEF Input, Renew
  <2>2. PICK c \in Renewals(control, i, g, now, lease) : Admit(t, op, i, c)
    BY <2>1
  <2>3. Entitled(op, i, c)
    BY <1>0, RenewalKeepsOwner DEF SameOwner
  <2> QED
    BY <2>2, <2>3
<1>3. ASSUME NEW i \in Identities, NEW g \in U64, Resize(t, i, g)
      PROVE  \E op, j, p : Entitled(op, j, p) /\ Admit(t, op, j, p)
  <2>1. Entitled("resize", i, control)
    BY <1>0, <1>3 DEF Resize, Authorized, LiveOwnerIs, Live
  <2> QED
    BY <1>3, <2>1 DEF Resize
<1>4. CASE TakeoverInput(t)
  <2>1. Entitled("takeover", NoOwner, control)
    BY <1>0, <1>4 DEF TakeoverInput
  <2> QED
    BY <1>4, <2>1 DEF TakeoverInput
<1>5. ASSUME NEW coordination \in BOOLEAN, LegacyInput(t, coordination)
      PROVE  \E op, j, p : Entitled(op, j, p) /\ Admit(t, op, j, p)
  <2>1. Entitled("legacy", NoOwner, control)
    BY <1>0, <1>5 DEF LegacyInput, Coherent, Live
  <2> QED
    BY <1>5, <2>1 DEF LegacyInput
<1>6. 0 \in U64
  BY ControlAssumption DEF U64
<1> HIDE DEF Entitled
<1> QED
  BY <1>1, <1>2, <1>3, <1>4, <1>5, <1>6

LEMMA StepInv == Inv /\ [Next]_vars => Inv'
<1> SUFFICES ASSUME Inv, [Next]_vars PROVE Inv'
  OBVIOUS
<1>1. ASSUME NEW t \in Threads, Gated(t) PROVE Inv'
  <2>1. CASE \E i \in Identities, g \in U64 : Release(t, i, g)
    BY <2>1, ReleaseInv
  <2>2. CASE \E o \in {"ok", "failed"} : Land(t, o)
    BY <2>2, LandInv
  <2>3. CASE Return(t) \/ ReturnRenewal(t)
    BY <2>3, ReturnInv
  <2>4. CASE ~(\/ \E i \in Identities, g \in U64 : Release(t, i, g)
               \/ \E o \in {"ok", "failed"} : Land(t, o)
               \/ Return(t) \/ ReturnRenewal(t))
    <3>1. PICK op, i, p : Entitled(op, i, p) /\ Admit(t, op, i, p)
      BY <1>1, <2>4, AdmissionInv DEF Gated
    <3> QED
      BY <3>1, AdmitInv
  <2> QED
    BY <2>1, <2>2, <2>3, <2>4
<1>2. ASSUME NEW t \in Threads, Stopping(t) PROVE Inv'
  BY <1>2, RequestStopInv, EnterStopInv, StopSideLeaveInv
     DEF Stopping, Outcomes
<1>3. ASSUME NEW t \in Threads, Maintaining(t) PROVE Inv'
  BY <1>3, TryMaintenanceInv, MaintenanceGoesOnInv, StopSideLeaveInv
     DEF Maintaining, Outcomes
<1>4. CASE Tick
  BY <1>4, TickInv
<1>5. CASE UNCHANGED vars
  BY <1>5
     DEF vars, Inv, TypeOK, Coherent, Locks, Shapes, Proposals,
         EffectAuthority, Unattended, Fenced, HoldsControl, HoldsStop, At,
         InFlight, Live
<1> QED
  BY <1>1, <1>2, <1>3, <1>4, <1>5 DEF Next

\* The inductive invariant holds in every reachable state.
THEOREM Invariance == Spec => []Inv
  BY InitInv, StepInv, PTL DEF Spec

-----------------------------------------------------------------------------
(* The properties that the runs check.                                     *)

\* Every variable keeps its type; generations and ticks never leave the u64
\* range, since every addition in terminal_control.rs is checked.
THEOREM TypeCorrect == Spec => []TypeOK
<1>1. Inv => TypeOK
  BY DEF Inv
<1> QED
  BY <1>1, Invariance, PTL

\* A write, resize or renewal in flight belongs to the owner of the session,
\* and input that belongs to no view never overlaps a live lease.
THEOREM EffectsAuthorized == Spec => []EffectAuthority
<1>1. Inv => EffectAuthority
  BY DEF Inv
<1> QED
  BY <1>1, Invariance, PTL

\* Maintenance kills only what nobody owns and nobody is writing to.
THEOREM MaintenanceSafe == Spec => []MaintenanceKillsUnattended
<1>1. Inv => MaintenanceKillsUnattended
  <2> SUFFICES ASSUME Inv, NEW t \in Threads, At(t, "maintenance", "killing")
               PROVE  ~Live(control, now) /\ \A u \in Threads : ~InFlight(u)
    BY DEF MaintenanceKillsUnattended
  <2>1. ~Live(control, now)
    BY DEF Inv, Unattended
  <2>2. controlLock = t
    BY DEF Inv, Locks, HoldsControl
  <2>3. ~InFlight(t)
    BY DEF At, InFlight
  <2>4. \A u \in Threads \ {t} : ~InFlight(u)
    BY <2>2 DEF Inv, Locks, HoldsControl, InFlight
  <2> QED
    BY <2>1, <2>3, <2>4
<1> QED
  BY <1>1, Invariance, PTL

\* Only these three write the committed control.
LEMMA ControlWriters ==
  ASSUME Next
  PROVE  \/ UNCHANGED control
         \/ \E t \in Threads :
               \/ Return(t)
               \/ ReturnRenewal(t)
               \/ \E i \in Identities, g \in U64 : Release(t, i, g)
<1>1. ASSUME NEW t \in Threads, Gated(t)
      PROVE  \/ UNCHANGED control
             \/ Return(t)
             \/ ReturnRenewal(t)
             \/ \E i \in Identities, g \in U64 : Release(t, i, g)
  BY <1>1
     DEF Gated, Acquire, TakeOver, Input, Resize, Renew, TakeoverInput,
         LegacyInput, Admit, Land
<1>2. ASSUME NEW t \in Threads, Stopping(t) \/ Maintaining(t)
      PROVE  UNCHANGED control
  BY <1>2
     DEF Stopping, Maintaining, RequestStop, EnterStop, StopAgain,
         StopSucceeds, StopFails, TryMaintenance, FindUnowned,
         DropMaintenance, MaintenanceStop
<1>3. Tick => UNCHANGED control
  BY DEF Tick
<1> QED
  BY <1>1, <1>2, <1>3 DEF Next

\* What any step of the gate does to the committed control.
LEMMA ControlStep ==
  ASSUME Inv, Next
  PROVE  \/ UNCHANGED control
         \/ SameOwner(control, control')
         \/ NewGeneration(control, control')
<1>1. ASSUME NEW t \in Threads, Return(t)
      PROVE  \/ UNCHANGED control
             \/ SameOwner(control, control')
             \/ NewGeneration(control, control')
  BY <1>1 DEF Return, Inv, Proposals, InFlight
<1>2. ASSUME NEW t \in Threads, ReturnRenewal(t)
      PROVE  SameOwner(control, control')
  BY <1>2 DEF ReturnRenewal, At, Inv, Proposals, InFlight
<1>3. ASSUME NEW t \in Threads, NEW i \in Identities, NEW g \in U64,
             Release(t, i, g)
      PROVE  NewGeneration(control, control')
  BY <1>3, ReleaseEnds DEF Release, Inv, TypeOK
<1> QED
  BY <1>1, <1>2, <1>3, ControlWriters

\* A generation names one owner for ever and never comes back.
THEOREM GenerationsAdvance == Spec => AuthorityAdvances
<1>1. Inv /\ [Next]_vars =>
        [/\ control'.generation >= control.generation
         /\ \/ control'.generation > control.generation
            \/ control'.owner = control.owner
            \/ /\ NoOwner \notin {control.owner, control'.owner}
               /\ control'.owner.identity = control.owner.identity]_vars
  <2> SUFFICES ASSUME Inv, Next
               PROVE  /\ control'.generation >= control.generation
                      /\ \/ control'.generation > control.generation
                         \/ control'.owner = control.owner
                         \/ /\ NoOwner \notin {control.owner, control'.owner}
                            /\ control'.owner.identity = control.owner.identity
    OBVIOUS
  <2>1. control.generation \in Nat
    BY DEF Inv, TypeOK, Control, U64
  <2> QED
    BY <2>1, ControlStep DEF SameOwner, NewGeneration
<1> QED
  BY <1>1, Invariance, PTL DEF Spec, AuthorityAdvances

\* Under one generation a lease only grows.
THEOREM LeaseOnlyGrows == Spec => TypingProtected
<1>1. Inv /\ [Next]_vars =>
        [control'.generation = control.generation /\ control.owner # NoOwner
         => /\ control'.owner # NoOwner
            /\ control'.owner.expires >= control.owner.expires]_vars
  <2> SUFFICES ASSUME Inv, Next, control'.generation = control.generation,
                      control.owner # NoOwner
               PROVE  /\ control'.owner # NoOwner
                      /\ control'.owner.expires >= control.owner.expires
    OBVIOUS
  <2>1. control.generation \in Nat /\ control.owner.expires \in Nat
    BY DEF Inv, TypeOK, Control, Grant, U64
  <2> QED
    BY <2>1, ControlStep DEF SameOwner, NewGeneration
<1> QED
  BY <1>1, Invariance, PTL DEF Spec, TypingProtected

\* Success is reported only of effects that landed on a living process.
THEOREM SuccessIsReal == Spec => NoFalseSuccess
<1>1. Inv /\ [Next]_vars =>
        [\A t \in Threads :
            InFlight(t) /\ call[t].op \in Effects /\ call'[t].outcome = "ok"
               /\ call'[t].phase = "idle"
            => call[t].alive]_vars
  <2> SUFFICES ASSUME Inv, Next, NEW t \in Threads, InFlight(t),
                      call[t].op \in Effects, call'[t].outcome = "ok",
                      call'[t].phase = "idle"
               PROVE  call[t].alive
    OBVIOUS
  <2>1. call[t].phase # call'[t].phase
    BY DEF InFlight
  <2>3. Return(t)
    <3>1. ASSUME NEW u \in Threads, Gated(u) PROVE Return(t)
      <4>1. u = t
        BY <2>1, <3>1
           DEF Gated, Acquire, TakeOver, Input, Resize, Renew, TakeoverInput,
               LegacyInput, Admit, Land, Return, ReturnRenewal, Release, Inv,
               TypeOK
      <4>2. call[t].op # "renew" /\ call[t].phase # "idle"
        BY DEF InFlight, Effects
      <4>3. \A i, g : ~Release(t, i, g)
        BY <4>2 DEF Release, IsIdle
      <4>4. \A op, i, p : ~Admit(t, op, i, p)
        BY <4>2 DEF Admit, IsIdle
      <4>5. \A o : Land(t, o) => call'[t].phase = "landed"
        BY DEF Land, Inv, TypeOK, Call
      <4>6. ~ReturnRenewal(t)
        BY <4>2 DEF ReturnRenewal, At
      <4> QED
        BY <3>1, <4>1, <4>3, <4>4, <4>5, <4>6
           DEF Gated, Acquire, TakeOver, Input, Resize, Renew, TakeoverInput,
               LegacyInput
    <3>2. ASSUME NEW u \in Threads, Stopping(u) \/ Maintaining(u) PROVE FALSE
      BY <2>1, <3>2
         DEF Stopping, Maintaining, RequestStop, EnterStop, StopAgain,
             StopSucceeds, StopFails, TryMaintenance, FindUnowned,
             DropMaintenance, MaintenanceStop, IsIdle, InFlight, Inv, TypeOK
    <3>3. ~Tick
      BY <2>1 DEF Tick
    <3> QED
      BY <3>1, <3>2, <3>3 DEF Next
  <2>4. ~stopped
    BY <2>3 DEF Return, Completed, Idle, Inv, TypeOK
  <2> QED
    BY <2>3, <2>4 DEF Return, Inv, Fenced
<1> QED
  BY <1>1, Invariance, PTL DEF Spec, NoFalseSuccess

\* Nobody becomes the owner of a process that is gone.
THEOREM DeadStaysUnowned == Spec => DeadSessionGrantsNothing
<1>1. Inv /\ [Next]_vars =>
        [killed => \/ control'.owner = NoOwner
                   \/ /\ control'.generation = control.generation
                      /\ control.owner # NoOwner
                      /\ control'.owner.identity = control.owner.identity]_vars
  <2> SUFFICES ASSUME Inv, Next, killed
               PROVE  \/ control'.owner = NoOwner
                      \/ /\ control'.generation = control.generation
                         /\ control.owner # NoOwner
                         /\ control'.owner.identity = control.owner.identity
    OBVIOUS
  <2>1. CASE UNCHANGED control
    BY <2>1
  <2>2. ASSUME NEW t \in Threads, Return(t) PROVE UNCHANGED control
    BY <2>2 DEF Inv, Fenced, Return, Completed
  <2>3. ASSUME NEW t \in Threads, ReturnRenewal(t)
        PROVE  SameOwner(control, control')
    BY <2>3 DEF ReturnRenewal, At, Inv, Proposals, InFlight
  <2>4. ASSUME NEW t \in Threads, NEW i \in Identities, NEW g \in U64,
               Release(t, i, g)
        PROVE  control'.owner = NoOwner
    BY <2>4, ReleaseEnds DEF Release, Inv, TypeOK
  <2>5. \/ UNCHANGED control
        \/ SameOwner(control, control')
        \/ control'.owner = NoOwner
    BY <2>2, <2>3, <2>4, ControlWriters
  <2> QED
    BY <2>1, <2>5 DEF SameOwner
<1> QED
  BY <1>1, Invariance, PTL DEF Spec, DeadSessionGrantsNothing

-----------------------------------------------------------------------------
(* The gate implements OwnedInput.                                         *)

\* On whose behalf a call in flight writes.
WritesFor(t) ==
    IF call[t].op = "input" THEN call[t].by
    ELSE IF call[t].op \in {"takeover", "legacy"} THEN "engine"
    ELSE NoOwner

Holder == IF control.owner = NoOwner THEN NoOwner ELSE control.owner.identity

LEMMA WriterInFlight ==
  Inv => /\ \A t \in Threads : InFlight(t) => Writer = WritesFor(t)
         /\ (\A t \in Threads : ~InFlight(t)) => Writer = NoOwner
<1> SUFFICES ASSUME Inv
             PROVE  /\ \A t \in Threads : InFlight(t) => Writer = WritesFor(t)
                    /\ (\A t \in Threads : ~InFlight(t)) => Writer = NoOwner
  OBVIOUS
<1>1. ASSUME NEW t \in Threads, InFlight(t) PROVE Writer = WritesFor(t)
  <2>1. controlLock = t
    BY <1>1 DEF Inv, Locks, HoldsControl, InFlight
  <2> QED
    BY <1>1, <2>1, ThreadsAssumption DEF Writer, WritesFor
<1>2. ASSUME \A t \in Threads : ~InFlight(t) PROVE Writer = NoOwner
  BY <1>2 DEF Writer, Inv, TypeOK
<1> QED
  BY <1>1, <1>2

\* While the mutex is free no call is in flight.
LEMMA FreeMeansNoWriter ==
  Inv /\ controlLock = Free => \A t \in Threads : ~InFlight(t)
  BY ThreadsAssumption DEF Inv, Locks, HoldsControl, InFlight

\* Two calls are never in flight together.
LEMMA OneInFlight ==
  Inv => \A t, u \in Threads : InFlight(t) /\ InFlight(u) => t = u
  BY DEF Inv, Locks, HoldsControl, InFlight

\* An admission begins a write if the call is one.
LEMMA AdmitPromise ==
  ASSUME Inv, Inv', NEW t \in Threads, NEW op, NEW i, NEW p,
         Admit(t, op, i, p), op \in Effects \cup {"renew"},
         op = "input" => /\ i \in Identities
                         /\ LiveOwnerIs(control, i, now),
         op \in {"takeover", "legacy"} => ~Live(control, now)
  PROVE  Promise!Next \/ UNCHANGED Promise!vars
<1>1. Writer = NoOwner
  BY WriterInFlight, FreeMeansNoWriter DEF Admit
<1>2. call'[t] = Begun(op, "admitted", i, p)
  BY DEF Inv, TypeOK, Admit
<1>3. controlLock' = t /\ t # Free
  BY ThreadsAssumption DEF Admit
<1>4. Writer' = IF op = "input" THEN i
                ELSE IF op \in {"takeover", "legacy"} THEN "engine"
                ELSE NoOwner
  BY <1>2, <1>3 DEF Writer, InFlight, Begun
<1>5. UNCHANGED <<control, now>>
  BY DEF Admit
<1>6. CASE op = "input"
  <2>1. Promise!Begin(i)
    BY <1>1, <1>4, <1>5, <1>6, ViewsAssumption
       DEF Promise!Begin, LiveOwnerIs, Live
  <2> QED
    BY <1>6, <2>1 DEF Promise!Next
<1>7. CASE op \in {"takeover", "legacy"}
  <2>1. Promise!Begin("engine")
    BY <1>1, <1>4, <1>5, <1>7 DEF Promise!Begin, Live
  <2> QED
    BY <2>1 DEF Promise!Next
<1>8. CASE op \notin {"input", "takeover", "legacy"}
  BY <1>1, <1>4, <1>5, <1>8 DEF Promise!vars, Live
<1> QED
  BY <1>6, <1>7, <1>8

\* A return ends the write, and extends or grants what the call proposed.
LEMMA ReturnPromise ==
  ASSUME Inv, Inv', NEW t \in Threads, Return(t) \/ ReturnRenewal(t)
  PROVE  Promise!Next \/ UNCHANGED Promise!vars
<1>1. InFlight(t) /\ controlLock' = Free /\ UNCHANGED now
  BY DEF Return, ReturnRenewal, At, InFlight
<1>2. Writer = WritesFor(t) /\ Writer' = NoOwner
  BY <1>1, WriterInFlight DEF Writer
<1>3. CASE UNCHANGED control
  <2>1. Promise!End
    BY <1>1, <1>2, <1>3 DEF Promise!End, Live
  <2> QED
    BY <2>1 DEF Promise!Next
<1>4. CASE control' # control
  <2>1. /\ control' = call[t].proposed
        /\ call[t].op \in {"claim", "input", "renew"}
    BY <1>4 DEF Return, ReturnRenewal, At
  <2>2. control'.owner # NoOwner
    BY <1>1, <2>1 DEF Inv, Proposals, SameOwner
  <2>3. CASE SameOwner(control, control')
    <3>1. Writer \in {NoOwner, control.owner.identity}
      BY <1>1, <1>2, <2>1 DEF WritesFor, Inv, EffectAuthority
    <3>2. Promise!Extend
      BY <1>1, <1>2, <2>3, <3>1, ViewsAssumption
         DEF Promise!Extend, SameOwner, Live, Inv, TypeOK, Control, Grant
    <3> QED
      BY <3>2 DEF Promise!Next
  <2>4. CASE ~SameOwner(control, control')
    <3>1. NewGeneration(control, control') /\ call[t].op = "claim"
      BY <1>1, <2>1, <2>4 DEF Inv, Proposals
    <3>2. Writer = NoOwner
      BY <1>2, <3>1 DEF WritesFor
    <3>3. control'.owner.identity \in Identities
      BY <2>2 DEF Inv, TypeOK, Control, Grant
    <3>4. Promise!Grant(control'.owner.identity)
      BY <1>2, <2>2, <3>1, <3>2 DEF Promise!Grant, NewGeneration, Live
    <3> QED
      BY <3>3, <3>4 DEF Promise!Next
  <2> QED
    BY <2>3, <2>4
<1> QED
  BY <1>3, <1>4

LEMMA ReleasePromise ==
  ASSUME Inv, Inv', NEW t \in Threads, NEW i \in Identities, NEW g \in U64,
         Release(t, i, g)
  PROVE  Promise!Next
<1>1. /\ NewGeneration(control, control')
      /\ control'.owner = NoOwner
      /\ Live(control, now)
  BY ReleaseEnds DEF Inv, TypeOK, Release
<1>2. Writer = NoOwner /\ Writer' = NoOwner
  BY WriterInFlight, FreeMeansNoWriter DEF Release, Writer
<1>3. Promise!GiveUp
  BY <1>1, <1>2 DEF Promise!GiveUp, NewGeneration, Live
<1> QED
  BY <1>3 DEF Promise!Next

\* The side of the stops is invisible to those who own and write.
LEMMA StopSidePromise ==
  ASSUME Inv, Inv', NEW t \in Threads, Stopping(t) \/ Maintaining(t)
  PROVE  UNCHANGED Promise!vars
<1> USE DEF RequestStop, EnterStop, StopAgain, StopSucceeds, StopFails,
            TryMaintenance, FindUnowned, DropMaintenance, MaintenanceStop, LetGo
<1>1. /\ UNCHANGED <<control, now>>
      /\ ~InFlight(t)
      /\ \A u \in Threads \ {t} : call'[u] = call[u]
  BY DEF Stopping, Maintaining, Inv, TypeOK, IsIdle, InFlight
<1>2. ~InFlight(t)'
  <2>1. call[t] \in Call /\ call \in [Threads -> Call]
    BY DEF Inv, TypeOK
  <2> QED
    BY <1>1, <2>1
       DEF Stopping, Maintaining, InFlight, Begun, Idle, Call
<1>3. Writer' = Writer
  <2>1. CASE \E u \in Threads : InFlight(u)
    <3>1. PICK u \in Threads : InFlight(u)
      BY <2>1
    <3>2. u # t /\ call'[u] = call[u]
      BY <1>1, <3>1
    <3>3. Writer = WritesFor(u) /\ Writer' = WritesFor(u)'
      <4>1. InFlight(u)'
        BY <3>1, <3>2 DEF InFlight
      <4>2. controlLock' = u
        BY <4>1 DEF Inv, Locks, HoldsControl, InFlight
      <4>3. Writer' = WritesFor(u)'
        BY <4>1, <4>2, ThreadsAssumption DEF Writer, WritesFor
      <4> QED
        BY <3>1, <4>3, WriterInFlight
    <3> QED
      BY <3>2, <3>3 DEF WritesFor
  <2>2. CASE \A u \in Threads : ~InFlight(u)
    <3>1. \A u \in Threads : ~InFlight(u)'
      BY <1>1, <1>2, <2>2 DEF InFlight
    <3>2. Writer' = NoOwner
      BY <3>1, ThreadsAssumption DEF Writer, InFlight, Inv, TypeOK
    <3> QED
      BY <2>2, <3>2, WriterInFlight
  <2> QED
    BY <2>1, <2>2
<1> QED
  BY <1>1, <1>3 DEF Promise!vars, Live

\* Every step of the gate is a step of OwnedInput or invisible to it.
LEMMA StepPromise ==
  ASSUME Inv, Inv', Next
  PROVE  Promise!Next \/ UNCHANGED Promise!vars
<1>0. control \in Control /\ Coherent(control) /\ now \in U64
  BY DEF Inv, TypeOK
<1>1. ASSUME NEW t \in Threads, NEW i \in Identities, NEW g \in U64,
             Acquire(t, i) \/ TakeOver(t, i, g) \/ Resize(t, i, g)
               \/ Renew(t, i, g)
      PROVE  Promise!Next \/ UNCHANGED Promise!vars
  <2>1. PICK op \in {"claim", "resize", "renew"} : \E p : Admit(t, op, i, p)
    BY <1>1 DEF Acquire, TakeOver, Resize, Renew
  <2> QED
    BY <2>1, AdmitPromise DEF Effects
<1>2. ASSUME NEW t \in Threads, NEW i \in Identities, NEW g \in U64,
             Input(t, i, g)
      PROVE  Promise!Next \/ UNCHANGED Promise!vars
  <2>1. PICK c \in Renewals(control, i, g, now, TypingLease) :
          Admit(t, "input", i, c)
    BY <1>2 DEF Input
  <2>2. LiveOwnerIs(control, i, now)
    BY <2>1 DEF Renewals, Authorized
  <2> QED
    BY <2>1, <2>2, AdmitPromise DEF Effects
<1>3. ASSUME NEW t \in Threads, TakeoverInput(t)
      PROVE  Promise!Next \/ UNCHANGED Promise!vars
  BY <1>3, AdmitPromise DEF TakeoverInput, Effects
<1>4. ASSUME NEW t \in Threads, NEW coordination \in BOOLEAN,
             LegacyInput(t, coordination)
      PROVE  Promise!Next \/ UNCHANGED Promise!vars
  <2>1. ~Live(control, now)
    BY <1>0, <1>4 DEF LegacyInput, Coherent, Live
  <2> QED
    BY <1>4, <2>1, AdmitPromise DEF LegacyInput, Effects
<1>5. ASSUME NEW t \in Threads, NEW o \in {"ok", "failed"}, Land(t, o)
      PROVE  UNCHANGED Promise!vars
  <2>1. /\ call'[t].op = call[t].op /\ call'[t].by = call[t].by
        /\ InFlight(t) /\ InFlight(t)'
        /\ UNCHANGED <<control, now, controlLock>>
    BY <1>5 DEF Land, Inv, TypeOK, Call, InFlight
  <2>2. controlLock = t
    BY <2>1 DEF Inv, Locks, HoldsControl, InFlight
  <2>3. Writer' = Writer
    BY <2>1, <2>2 DEF Writer
  <2> QED
    BY <2>1, <2>3 DEF Promise!vars, Live
<1>6. ASSUME Tick
      PROVE  Promise!Next \/ UNCHANGED Promise!vars
  <2>1. UNCHANGED <<control, Writer>>
    BY <1>6 DEF Tick, Writer, InFlight
  <2>2. CASE Live(control, now)' = Live(control, now)
    BY <2>1, <2>2 DEF Promise!vars
  <2>3. CASE Live(control, now)' # Live(control, now)
    <3>1. ~Live(control, now)'
      BY <1>0, <1>6, <2>3, ControlAssumption
         DEF Tick, Live, Control, Grant, U64
    <3>2. Promise!Lapse
      BY <2>1, <3>1 DEF Promise!Lapse, Live
    <3> QED
      BY <3>2 DEF Promise!Next
  <2> QED
    BY <2>2, <2>3
<1>7. 0 \in U64
  BY ControlAssumption DEF U64
<1>8. ASSUME NEW t \in Threads, Gated(t)
      PROVE  Promise!Next \/ UNCHANGED Promise!vars
  BY <1>1, <1>2, <1>3, <1>4, <1>5, <1>7, <1>8, ReturnPromise, ReleasePromise
     DEF Gated
<1> QED
  BY <1>6, <1>8, StopSidePromise DEF Next

\* The gate implements what OwnedInput promises.
THEOREM GateKeepsPromise == Spec => KeepsPromise
<1>1. Init => Promise!Init
  BY ThreadsAssumption
     DEF Init, Promise!Init, FreshControl, Writer, Live
<1>2. Inv /\ Inv' /\ [Next]_vars => [Promise!Next]_(Promise!vars)
  <2>1. UNCHANGED vars => UNCHANGED Promise!vars
    BY DEF vars, Promise!vars, Writer, InFlight, Live
  <2> QED
    BY <2>1, StepPromise
<1> QED
  BY <1>1, <1>2, Invariance, PTL DEF Spec, KeepsPromise, Promise!Spec
=============================================================================
