------------------------ MODULE SessionRegistryProofs ------------------------
(* Proofs that the registry keeps its safety properties, and that its      *)
(* mutexes are never waited for in a circle, for every number of sessions, *)
(* views, leases and threads and every set of requests.                    *)
EXTENDS SessionRegistry, TLAPS

-----------------------------------------------------------------------------
(* The inductive invariant.                                                *)

\* The requests a thread can be serving in each phase.
OpsAt(phase) ==
    CASE phase = "start" -> AuditedOps \cup LeaseOps \cup ViewOps \cup PlainOps
      [] phase = "audited" -> AuditedOps
      [] phase = "required" -> {"reclaim"}
      [] phase \in {"cleared", "writing"} -> AuditedOps \cup {"claim"}
      [] phase \in {"known", "locked"} -> {"install"}
      [] phase = "found" ->
           AuditedOps \cup {"claim", "release_control", "stop", "stop_retained"}
      [] phase = "removed" -> {"stop"}
      [] phase = "killing" -> {"stop", "stop_retained"}
      [] OTHER -> {}

\* A busy thread serves a request that can have come this far.
BusyWithRequest ==
    \A t \in Threads :
        ~At(t, "idle") => thread[t].request \in Requests /\ Op(t) \in OpsAt(thread[t].phase)

\* The mutexes a request of this operation holds in this phase.
AuditAt(phase, op) ==
    /\ phase \in {"audited", "required", "cleared", "found", "writing"}
    /\ op \in AuditedOps

\* A claim or a controlled write that found no takeover keeps them locked.
TakeoversAt(phase, op) ==
    \/ phase = "locked"
    \/ phase \in {"cleared", "found", "writing"} /\ op \in {"controlled", "claim"}

HasAudit(t) == AuditAt(thread[t].phase, Op(t))
HasTakeovers(t) == TakeoversAt(thread[t].phase, Op(t))
HasGate(t, s) == At(t, "writing") /\ Session(t) = s

\* Which thread holds which mutex is told by how far its request is.
LocksHeld ==
    \A t \in Threads :
        /\ (auditLock = t) <=> HasAudit(t)
        /\ (takeoverLock = t) <=> HasTakeovers(t)
        /\ \A s \in Sessions : (controlLock[s] = t) <=> HasGate(t, s)

\* No takeover appears while a view is becoming or staying the owner.
NoLeaseWhileArbitrating ==
    \A t \in Threads :
        HasTakeovers(t) => At(t, "locked") \/ lease[Session(t)] = None

\* A session whose gate says stopped is dead, or its killer is at work.
StoppedIsDead ==
    \A s \in Sessions :
        stopped[s] /\ alive[s]
        => \E t \in Threads : At(t, "killing") /\ Session(t) = s

RegistryInv ==
    /\ TypeOK
    /\ BusyWithRequest
    /\ LocksHeld
    /\ NoLeaseWhileArbitrating
    /\ StoppedIsDead
    /\ NoLeaseForStopped
    /\ NoProcessForgotten

-----------------------------------------------------------------------------
(* Requests, and how a thread moves.                                       *)

\* The parts of a request have the types its operation asks for.
LEMMA RequestParts ==
  ASSUME NEW r \in Requests
  PROVE  /\ r.session \in Sessions
         /\ r.op \in AuditedOps \cup LeaseOps \cup ViewOps \cup PlainOps
         /\ r.op \in {"install"} => r.who \in Leases
         /\ r.op \in {"claim", "controlled"} => r.who \in Views
BY RequestsAssumption DEF Request, AuditedOps, LeaseOps, ViewOps, PlainOps

\* Every thread but t is where it was.
OthersStay(t) == \A u \in Threads \ {t} : thread'[u] = thread[u]

Discipline == TypeOK /\ BusyWithRequest /\ LocksHeld

\* A busy thread goes on to a phase its request may be in.
LEMMA GotoMoves ==
  ASSUME TypeOK, BusyWithRequest, NEW t \in Threads, ~At(t, "idle"),
         NEW p \in Phases \ {"idle"}, Op(t) \in OpsAt(p), Goto(t, p)
  PROVE  /\ OthersStay(t)
         /\ thread'[t].phase = p /\ thread'[t].request = thread[t].request
         /\ thread' \in [Threads -> [request: Requests \cup {None},
                                    phase: Phases, ok: BOOLEAN]]
         /\ BusyWithRequest'
<1>1. thread' = [thread EXCEPT ![t] = [thread[t] EXCEPT !.phase = p]]
  BY DEF Goto
<1>2. /\ thread[t] \in [request: Requests \cup {None}, phase: Phases, ok: BOOLEAN]
      /\ thread \in [Threads -> [request: Requests \cup {None}, phase: Phases,
                                 ok: BOOLEAN]]
  BY DEF TypeOK
<1>3. /\ thread'[t] = [thread[t] EXCEPT !.phase = p]
      /\ OthersStay(t)
  BY <1>1, <1>2 DEF OthersStay
<1>4. /\ thread'[t].phase = p /\ thread'[t].request = thread[t].request
      /\ thread'[t] \in [request: Requests \cup {None}, phase: Phases, ok: BOOLEAN]
  BY <1>2, <1>3
<1>5. BusyWithRequest'
  BY <1>3, <1>4 DEF BusyWithRequest, At, Op, OthersStay
<1> QED
  BY <1>1, <1>2, <1>3, <1>4, <1>5

\* At the end of its request a thread holds no mutex.
LEMMA EndMoves ==
  ASSUME Discipline, NEW t \in Threads, NEW ok \in BOOLEAN, End(t, ok)
  PROVE  /\ OthersStay(t)
         /\ thread'[t] = Idle(ok)
         /\ thread' \in [Threads -> [request: Requests \cup {None},
                                    phase: Phases, ok: BOOLEAN]]
         /\ {auditLock', takeoverLock'} \subseteq Threads \cup {Free}
         /\ controlLock' \in [Sessions -> Threads \cup {Free}]
         /\ BusyWithRequest' /\ LocksHeld'
<1> USE DEF Discipline
<1>1. /\ thread' = [thread EXCEPT ![t] = Idle(ok)]
      /\ auditLock' = Drop(auditLock, t)
      /\ takeoverLock' = Drop(takeoverLock, t)
      /\ controlLock' = [s \in Sessions |-> Drop(controlLock[s], t)]
  BY DEF End
<1>2. Idle(ok) \in [request: Requests \cup {None}, phase: Phases, ok: BOOLEAN]
  BY DEF Idle, Phases
<1>3. /\ thread'[t] = Idle(ok) /\ OthersStay(t)
      /\ thread' \in [Threads -> [request: Requests \cup {None}, phase: Phases,
                                 ok: BOOLEAN]]
  BY <1>1, <1>2 DEF TypeOK, OthersStay
<1>4. /\ {auditLock', takeoverLock'} \subseteq Threads \cup {Free}
      /\ controlLock' \in [Sessions -> Threads \cup {Free}]
  BY <1>1 DEF TypeOK, Drop
<1>5. thread'[t].phase = "idle"
  BY <1>3 DEF Idle
<1>6. BusyWithRequest'
  BY <1>3, <1>5 DEF BusyWithRequest, At, Op, OthersStay
<1>7. LocksHeld'
  <2> SUFFICES ASSUME NEW u \in Threads
               PROVE  /\ (auditLock' = u) <=> HasAudit(u)'
                      /\ (takeoverLock' = u) <=> HasTakeovers(u)'
                      /\ \A s \in Sessions :
                           (controlLock'[s] = u) <=> HasGate(u, s)'
    BY DEF LocksHeld
  <2>1. CASE u = t
    <3>1. /\ ~HasAudit(t)' /\ ~HasTakeovers(t)'
          /\ \A s \in Sessions : ~HasGate(t, s)'
      BY <1>5 DEF HasAudit, HasTakeovers, AuditAt, TakeoversAt, HasGate, At
    <3>2. /\ auditLock' # t /\ takeoverLock' # t
          /\ \A s \in Sessions : controlLock'[s] # t
      BY <1>1, RequestsAssumption DEF Drop
    <3> QED
      BY <2>1, <3>1, <3>2
  <2>2. CASE u # t
    <3>1. /\ HasAudit(u)' <=> HasAudit(u)
          /\ HasTakeovers(u)' <=> HasTakeovers(u)
          /\ \A s \in Sessions : HasGate(u, s)' <=> HasGate(u, s)
      BY <2>2, <1>3
         DEF HasAudit, HasTakeovers, HasGate, At, Op, Session, OthersStay
    <3>2. /\ (auditLock' = u) <=> (auditLock = u)
          /\ (takeoverLock' = u) <=> (takeoverLock = u)
          /\ \A s \in Sessions : (controlLock'[s] = u) <=> (controlLock[s] = u)
      BY <2>2, <1>1, RequestsAssumption DEF Drop
    <3> QED
      BY <3>1, <3>2 DEF LocksHeld
  <2> QED
    BY <2>1, <2>2
<1> QED
  BY <1>3, <1>4, <1>6, <1>7

\* A step that leaves t with the mutexes its new phase asks for, and moves no
\* mutex to or from another thread, keeps the rule for all of them.
LEMMA LocksFollow ==
  ASSUME LocksHeld, NEW t \in Threads, OthersStay(t),
         \A u \in Threads \ {t} :
            /\ (auditLock' = u) <=> (auditLock = u)
            /\ (takeoverLock' = u) <=> (takeoverLock = u)
            /\ \A s \in Sessions : (controlLock'[s] = u) <=> (controlLock[s] = u),
         (auditLock' = t) <=> HasAudit(t)',
         (takeoverLock' = t) <=> HasTakeovers(t)',
         \A s \in Sessions : (controlLock'[s] = t) <=> HasGate(t, s)'
  PROVE  LocksHeld'
<1>1. ASSUME NEW u \in Threads \ {t}
      PROVE  /\ HasAudit(u)' <=> HasAudit(u)
             /\ HasTakeovers(u)' <=> HasTakeovers(u)
             /\ \A s \in Sessions : HasGate(u, s)' <=> HasGate(u, s)
  BY DEF HasAudit, HasTakeovers, HasGate, At, Op, Session, OthersStay
<1> QED
  BY <1>1 DEF LocksHeld

\* A thread that goes on without taking a mutex, to a phase that asks for none.
LEMMA GotoKeepsLocks ==
  ASSUME Discipline, NEW t \in Threads, ~At(t, "idle"),
         NEW p \in Phases \ {"idle"}, Op(t) \in OpsAt(p), Goto(t, p),
         UNCHANGED locks,
         AuditAt(p, Op(t)) <=> AuditAt(thread[t].phase, Op(t)),
         TakeoversAt(p, Op(t)) <=> TakeoversAt(thread[t].phase, Op(t)),
         (p = "writing") <=> At(t, "writing")
  PROVE  /\ OthersStay(t)
         /\ thread'[t].phase = p /\ thread'[t].request = thread[t].request
         /\ thread' \in [Threads -> [request: Requests \cup {None},
                                    phase: Phases, ok: BOOLEAN]]
         /\ BusyWithRequest' /\ LocksHeld'
<1>1. /\ OthersStay(t)
      /\ thread'[t].phase = p /\ thread'[t].request = thread[t].request
      /\ thread' \in [Threads -> [request: Requests \cup {None}, phase: Phases,
                                 ok: BOOLEAN]]
      /\ BusyWithRequest'
  BY GotoMoves DEF Discipline
<1>2. /\ HasAudit(t)' <=> HasAudit(t)
      /\ HasTakeovers(t)' <=> HasTakeovers(t)
      /\ \A s \in Sessions : HasGate(t, s)' <=> HasGate(t, s)
  BY <1>1 DEF HasAudit, HasTakeovers, HasGate, At, Op, Session
<1>3. LocksHeld'
  BY <1>1, <1>2, LocksFollow DEF Discipline, LocksHeld, locks
<1> QED
  BY <1>1, <1>3

-----------------------------------------------------------------------------
(* Every step keeps the types, the requests in their phases and the        *)
(* mutexes with whoever should hold them.                                  *)

\* What a step of t leaves behind in the bookkeeping of threads and mutexes.
Orderly(t) ==
    /\ OthersStay(t)
    /\ thread' \in [Threads -> [request: Requests \cup {None},
                               phase: Phases, ok: BOOLEAN]]
    /\ {auditLock', takeoverLock'} \subseteq Threads \cup {Free}
    /\ controlLock' \in [Sessions -> Threads \cup {Free}]
    /\ BusyWithRequest' /\ LocksHeld'

LEMMA QuietIsOrderly ==
  ASSUME Discipline, NEW t \in Threads,
         \/ CheckLocal(t) \/ RequireTakeover(t) \/ RemoveReclaimed(t)
         \/ Find(t) \/ KnowInstall(t) \/ RemoveSession(t) \/ RemoveLease(t)
  PROVE  Orderly(t)
<1>1. \E p \in Phases \ {"idle"} :
         /\ ~At(t, "idle") /\ Op(t) \in OpsAt(p) /\ Goto(t, p)
         /\ AuditAt(p, Op(t)) <=> AuditAt(thread[t].phase, Op(t))
         /\ TakeoversAt(p, Op(t)) <=> TakeoversAt(thread[t].phase, Op(t))
         /\ (p = "writing") <=> At(t, "writing")
  <2>1. CASE CheckLocal(t)
    BY <2>1
       DEF Serves, At, AuditAt, TakeoversAt, OpsAt, Phases, AuditedOps, CheckLocal
  <2>2. CASE RequireTakeover(t)
    <3>1. /\ Serves(t, {"takeover", "reclaim"}, "audited")
          /\ Goto(t, IF Op(t) = "takeover" THEN "cleared" ELSE "required")
      BY <2>2 DEF RequireTakeover
    <3> QED
      BY <3>1 DEF Serves, At, AuditAt, TakeoversAt, OpsAt, Phases, AuditedOps
  <2>3. CASE RemoveReclaimed(t)
    BY <2>3
       DEF Serves, At, AuditAt, TakeoversAt, OpsAt, Phases, AuditedOps, RemoveReclaimed
  <2>4. CASE Find(t)
    BY <2>4
       DEF Serves, At, AuditAt, TakeoversAt, OpsAt, Phases, AuditedOps, Find, Searching
  <2>5. CASE KnowInstall(t)
    BY <2>5
       DEF Serves, At, AuditAt, TakeoversAt, OpsAt, Phases, AuditedOps, KnowInstall
  <2>6. CASE RemoveSession(t)
    BY <2>6
       DEF Serves, At, AuditAt, TakeoversAt, OpsAt, Phases, AuditedOps, RemoveSession
  <2>7. CASE RemoveLease(t)
    BY <2>7
       DEF Serves, At, AuditAt, TakeoversAt, OpsAt, Phases, AuditedOps, RemoveLease, BusyWithRequest, Discipline
  <2> QED
    BY <2>1, <2>2, <2>3, <2>4, <2>5, <2>6, <2>7
<1>2. UNCHANGED locks
  BY DEF CheckLocal, RequireTakeover, RemoveReclaimed, Find, KnowInstall,
         RemoveSession, RemoveLease
<1> QED
  BY <1>1, <1>2, GotoKeepsLocks DEF Orderly, Discipline, TypeOK, locks

LEMMA LockAuditIsOrderly ==
  ASSUME Discipline, NEW t \in Threads, LockAudit(t)
  PROVE  Orderly(t)
<1>1. /\ ~At(t, "idle") /\ Op(t) \in OpsAt("audited") /\ Goto(t, "audited")
      /\ auditLock' = t /\ auditLock = Free
      /\ UNCHANGED <<takeoverLock, controlLock>>
  BY DEF LockAudit, Serves, At, OpsAt, AuditedOps
<1>2. /\ OthersStay(t)
      /\ thread'[t].phase = "audited" /\ thread'[t].request = thread[t].request
      /\ thread' \in [Threads -> [request: Requests \cup {None},
                                 phase: Phases, ok: BOOLEAN]]
      /\ BusyWithRequest'
  BY <1>1, GotoMoves DEF Discipline, Phases
<1>3. /\ (auditLock' = t) <=> HasAudit(t)'
      /\ (takeoverLock' = t) <=> HasTakeovers(t)'
      /\ \A s \in Sessions : (controlLock'[s] = t) <=> HasGate(t, s)'
  BY <1>1, <1>2
     DEF LockAudit, Discipline, LocksHeld, BusyWithRequest, HasAudit, HasTakeovers,
         AuditAt, TakeoversAt, HasGate, Serves, At, Op, Session, AuditedOps, OpsAt
<1>4. LocksHeld'
  BY <1>1, <1>2, <1>3, LocksFollow, RequestsAssumption DEF Discipline
<1> QED
  BY <1>1, <1>2, <1>4 DEF Orderly, Discipline, TypeOK

LEMMA LockTakeoversIsOrderly ==
  ASSUME Discipline, NEW t \in Threads, LockTakeovers(t)
  PROVE  Orderly(t)
<1>1. /\ ~At(t, "idle") /\ Op(t) \in OpsAt("cleared") /\ Goto(t, "cleared")
      /\ takeoverLock' = t /\ takeoverLock = Free
      /\ UNCHANGED <<auditLock, controlLock>>
  BY DEF LockTakeovers, Serves, At, OpsAt, AuditedOps
<1>2. /\ OthersStay(t)
      /\ thread'[t].phase = "cleared" /\ thread'[t].request = thread[t].request
      /\ thread' \in [Threads -> [request: Requests \cup {None},
                                 phase: Phases, ok: BOOLEAN]]
      /\ BusyWithRequest'
  BY <1>1, GotoMoves DEF Discipline, Phases
<1>3. /\ (auditLock' = t) <=> HasAudit(t)'
      /\ (takeoverLock' = t) <=> HasTakeovers(t)'
      /\ \A s \in Sessions : (controlLock'[s] = t) <=> HasGate(t, s)'
  BY <1>1, <1>2
     DEF LockTakeovers, Discipline, LocksHeld, BusyWithRequest, HasAudit, HasTakeovers,
         AuditAt, TakeoversAt, HasGate, Serves, At, Op, Session, AuditedOps, OpsAt
<1>4. LocksHeld'
  BY <1>1, <1>2, <1>3, LocksFollow, RequestsAssumption DEF Discipline
<1> QED
  BY <1>1, <1>2, <1>4 DEF Orderly, Discipline, TypeOK

LEMMA LockInstallIsOrderly ==
  ASSUME Discipline, NEW t \in Threads, LockInstall(t)
  PROVE  Orderly(t)
<1>1. /\ ~At(t, "idle") /\ Op(t) \in OpsAt("locked") /\ Goto(t, "locked")
      /\ takeoverLock' = t /\ takeoverLock = Free
      /\ UNCHANGED <<auditLock, controlLock>>
  BY DEF LockInstall, Serves, At, OpsAt, AuditedOps, BusyWithRequest, Discipline
<1>2. /\ OthersStay(t)
      /\ thread'[t].phase = "locked" /\ thread'[t].request = thread[t].request
      /\ thread' \in [Threads -> [request: Requests \cup {None},
                                 phase: Phases, ok: BOOLEAN]]
      /\ BusyWithRequest'
  BY <1>1, GotoMoves DEF Discipline, Phases
<1>3. /\ (auditLock' = t) <=> HasAudit(t)'
      /\ (takeoverLock' = t) <=> HasTakeovers(t)'
      /\ \A s \in Sessions : (controlLock'[s] = t) <=> HasGate(t, s)'
  BY <1>1, <1>2
     DEF LockInstall, Discipline, LocksHeld, BusyWithRequest, HasAudit, HasTakeovers,
         AuditAt, TakeoversAt, HasGate, Serves, At, Op, Session, AuditedOps, OpsAt
<1>4. LocksHeld'
  BY <1>1, <1>2, <1>3, LocksFollow, RequestsAssumption DEF Discipline
<1> QED
  BY <1>1, <1>2, <1>4 DEF Orderly, Discipline, TypeOK

LEMMA EnterGateIsOrderly ==
  ASSUME Discipline, NEW t \in Threads, EnterGate(t)
  PROVE  Orderly(t)
<1>1. /\ At(t, "found") /\ Op(t) \in OpsAt("writing") /\ Goto(t, "writing")
      /\ controlLock[Session(t)] = Free
      /\ controlLock' = [controlLock EXCEPT ![Session(t)] = t]
      /\ UNCHANGED <<auditLock, takeoverLock>>
  BY DEF EnterGate, Serves, OpsAt
<1>2. /\ OthersStay(t)
      /\ thread'[t].phase = "writing" /\ thread'[t].request = thread[t].request
      /\ thread' \in [Threads -> [request: Requests \cup {None},
                                 phase: Phases, ok: BOOLEAN]]
      /\ BusyWithRequest'
  BY <1>1, GotoMoves DEF Discipline, Phases, At
<1>3. /\ Session(t) \in Sessions
      /\ controlLock' \in [Sessions -> Threads \cup {Free}]
      /\ controlLock'[Session(t)] = t
      /\ \A s \in Sessions \ {Session(t)} : controlLock'[s] = controlLock[s]
  BY <1>1, RequestParts DEF Discipline, TypeOK, BusyWithRequest, At, Session
<1>4. /\ (auditLock' = t) <=> HasAudit(t)'
      /\ (takeoverLock' = t) <=> HasTakeovers(t)'
  BY <1>1, <1>2
     DEF Discipline, LocksHeld, HasAudit, HasTakeovers, AuditAt, TakeoversAt, At, Op
<1>5. ASSUME NEW s \in Sessions
      PROVE  (controlLock'[s] = t) <=> HasGate(t, s)'
  BY <1>1, <1>2, <1>3 DEF Discipline, LocksHeld, HasGate, At, Session
<1>6. ASSUME NEW u \in Threads \ {t}, NEW s \in Sessions
      PROVE  (controlLock'[s] = u) <=> (controlLock[s] = u)
  BY <1>1, <1>3, RequestsAssumption
<1>7. LocksHeld'
  BY <1>1, <1>2, <1>4, <1>5, <1>6, LocksFollow DEF Discipline
<1> QED
  BY <1>1, <1>2, <1>3, <1>7 DEF Orderly, Discipline, TypeOK

LEMMA AskIsOrderly ==
  ASSUME Discipline, NEW t \in Threads, Ask(t)
  PROVE  Orderly(t)
<1>1. PICK r \in Requests :
         thread' = [thread EXCEPT ![t] =
                      [Idle(TRUE) EXCEPT !.request = r, !.phase = "start"]]
  BY DEF Ask
<1>2. Idle(TRUE) \in [request: Requests \cup {None}, phase: Phases, ok: BOOLEAN]
  BY DEF Idle, Phases
<1>3. /\ OthersStay(t)
      /\ thread'[t] = [Idle(TRUE) EXCEPT !.request = r, !.phase = "start"]
      /\ thread' \in [Threads -> [request: Requests \cup {None},
                                 phase: Phases, ok: BOOLEAN]]
  BY <1>1, <1>2 DEF Discipline, TypeOK, OthersStay, Phases
<1>4. /\ thread'[t].request = r /\ thread'[t].phase = "start"
      /\ r.op \in OpsAt("start")
  BY <1>2, <1>3, RequestParts DEF OpsAt
<1>5. BusyWithRequest'
  BY <1>3, <1>4 DEF Discipline, BusyWithRequest, At, Op, OthersStay
<1>6. /\ auditLock # t /\ takeoverLock # t
      /\ \A s \in Sessions : controlLock[s] # t
      /\ UNCHANGED <<auditLock, takeoverLock, controlLock>>
  BY DEF Ask, Discipline, LocksHeld, HasAudit, HasTakeovers, HasGate, AuditAt,
         TakeoversAt, At, locks
<1>7. /\ ~HasAudit(t)' /\ ~HasTakeovers(t)'
      /\ \A s \in Sessions : ~HasGate(t, s)'
  BY <1>4 DEF HasAudit, HasTakeovers, HasGate, AuditAt, TakeoversAt, At
<1>8. LocksHeld'
  BY <1>3, <1>6, <1>7, LocksFollow DEF Discipline
<1> QED
  BY <1>3, <1>5, <1>6, <1>8 DEF Orderly, Discipline, TypeOK

LEMMA EndIsOrderly ==
  ASSUME Discipline, NEW t \in Threads, NEW ok \in BOOLEAN, End(t, ok)
  PROVE  Orderly(t) /\ thread'[t].phase = "idle" /\ thread'[t].ok = ok
<1>1. /\ Orderly(t) /\ thread'[t] = Idle(ok)
  BY EndMoves DEF Orderly
<1>2. Idle(ok).phase = "idle" /\ Idle(ok).ok = ok
  BY DEF Idle
<1> QED
  BY <1>1, <1>2

\* How each step that ends a request ends it.
Ending(t) ==
    \/ RefuseForLease(t) \/ NotFound(t) \/ RefuseAtGate(t) \/ Complete(t)
    \/ ReleaseControl(t) \/ Install(t) \/ InstallGone(t) \/ ReleaseTakeover(t)
    \/ Kill(t) \/ KillFails(t)

LEMMA EndingEnds ==
  ASSUME NEW t \in Threads, Discipline, Ending(t)
  PROVE  \E ok \in BOOLEAN : End(t, ok)
<1>1. CASE Complete(t)
  <2>1. PICK ok \in BOOLEAN : End(t, ok /\ ~stopped[Session(t)])
    BY <1>1 DEF Complete
  <2>2. (ok /\ ~stopped[Session(t)]) \in BOOLEAN
    OBVIOUS
  <2> QED
    BY <2>1, <2>2
<1>2. CASE ReleaseControl(t)
  <2>1. (owner[Session(t)] = Who(t)) \in BOOLEAN
    OBVIOUS
  <2> QED
    BY <1>2, <2>1 DEF ReleaseControl
<1>3. CASE \/ RefuseForLease(t) \/ NotFound(t) \/ RefuseAtGate(t) \/ Install(t)
           \/ InstallGone(t) \/ ReleaseTakeover(t) \/ Kill(t) \/ KillFails(t)
  BY <1>3 DEF RefuseForLease, NotFound, RefuseAtGate, Install, InstallGone,
              ReleaseTakeover, Kill, KillFails
<1> QED
  BY <1>1, <1>2, <1>3 DEF Ending

LEMMA EnterStopIsOrderly ==
  ASSUME Discipline, NEW t \in Threads, EnterStop(t)
  PROVE  Orderly(t)
<1>1. CASE stopped[Session(t)]
  <2>1. End(t, TRUE)
    BY <1>1 DEF EnterStop
  <2> QED
    BY <2>1, EndIsOrderly
<1>2. CASE ~stopped[Session(t)]
  <2>1. /\ Serves(t, {"stop", "stop_retained"}, "found")
        /\ Goto(t, "killing") /\ UNCHANGED locks
    BY <1>2 DEF EnterStop
  <2>2. /\ "killing" \in Phases \ {"idle"} /\ ~At(t, "idle")
        /\ Op(t) \in OpsAt("killing")
        /\ AuditAt("killing", Op(t)) <=> AuditAt(thread[t].phase, Op(t))
        /\ TakeoversAt("killing", Op(t)) <=> TakeoversAt(thread[t].phase, Op(t))
        /\ ("killing" = "writing") <=> At(t, "writing")
    BY <2>1 DEF Serves, At, AuditAt, TakeoversAt, OpsAt, Phases, AuditedOps
  <2> QED
    BY <2>1, <2>2, GotoKeepsLocks DEF Orderly, Discipline, TypeOK, locks
<1> QED
  BY <1>1, <1>2

\* The bookkeeping of threads and mutexes, whatever a thread does.
LEMMA ThreadsAreOrderly ==
  ASSUME Discipline, NEW t \in Threads, Ask(t) \/ Work(t) \/ Complete(t)
  PROVE  Orderly(t)
<1>1. CASE Ending(t)
  BY <1>1, EndingEnds, EndIsOrderly
<1>2. CASE \/ CheckLocal(t) \/ RequireTakeover(t) \/ RemoveReclaimed(t)
           \/ Find(t) \/ KnowInstall(t) \/ RemoveSession(t) \/ RemoveLease(t)
  BY <1>2, QuietIsOrderly
<1>3. CASE \/ Ask(t) \/ LockAudit(t) \/ LockTakeovers(t) \/ LockInstall(t)
           \/ EnterGate(t) \/ EnterStop(t)
  BY <1>3, AskIsOrderly, LockAuditIsOrderly, LockTakeoversIsOrderly,
     LockInstallIsOrderly, EnterGateIsOrderly, EnterStopIsOrderly
<1> QED
  BY <1>1, <1>2, <1>3 DEF Work, Ending

\* A busy thread's request names a session, and who asks.
LEMMA BusyParts ==
  ASSUME Discipline, NEW t \in Threads, ~At(t, "idle")
  PROVE  /\ Session(t) \in Sessions
         /\ Op(t) \in OpsAt(thread[t].phase)
         /\ Op(t) \in {"install"} => Who(t) \in Leases
         /\ Op(t) \in {"claim", "controlled"} => Who(t) \in Views
BY RequestParts DEF Discipline, BusyWithRequest, Session, Op, Who

-----------------------------------------------------------------------------
(* What any step does to each part of the sessions' state.                 *)

ThreadSteps(t) == Ask(t) \/ Work(t) \/ Complete(t)

\* No process is started, and what was given up stays given up.
ProcessesOnlyEnd ==
    /\ alive' \in [Sessions -> BOOLEAN]
    /\ abandoned' \subseteq Sessions /\ abandoned \subseteq abandoned'
    /\ \A s \in Sessions : alive'[s] => alive[s]

\* Who lets go of a removed session leaves it to another holder, or dead, or
\* abandoned.
LEMMA LetsGoKills ==
  ASSUME TypeOK, NEW t \in Threads, Session(t) \in Sessions, LetsGo(t)
  PROVE  /\ ProcessesOnlyEnd
         /\ Session(t) \notin registered /\ alive'[Session(t)]
            => \/ Session(t) \in abandoned'
               \/ \E u \in Threads \ {t} : Holds(u, Session(t))
<1> DEFINE last == /\ Session(t) \notin registered
                   /\ \A u \in Threads \ {t} : ~Holds(u, Session(t))
<1>1. CASE last /\ alive[Session(t)]
  <2>1. \/ alive' = [alive EXCEPT ![Session(t)] = FALSE] /\ UNCHANGED abandoned
        \/ abandoned' = abandoned \cup {Session(t)} /\ UNCHANGED alive
    BY <1>1 DEF LetsGo
  <2> QED
    BY <2>1 DEF TypeOK, ProcessesOnlyEnd
<1>2. CASE ~(last /\ alive[Session(t)])
  <2>1. UNCHANGED process
    BY <1>2 DEF LetsGo
  <2> QED
    BY <1>2, <2>1 DEF process, TypeOK, ProcessesOnlyEnd
<1> QED
  BY <1>1, <1>2

LEMMA ProcessSteps ==
  ASSUME Discipline, NEW t \in Threads, ThreadSteps(t)
  PROVE  ProcessesOnlyEnd
<1>1. CASE RefuseAtGate(t) \/ Complete(t) \/ ReleaseControl(t) \/ KillFails(t)
  <2>1. LetsGo(t) /\ ~At(t, "idle")
    BY <1>1 DEF RefuseAtGate, Complete, ReleaseControl, KillFails, Serves, At
  <2> QED
    BY <2>1, BusyParts, LetsGoKills DEF Discipline
<1>2. CASE Kill(t)
  BY <1>2, BusyParts DEF Kill, At, Discipline, TypeOK, ProcessesOnlyEnd
<1>3. CASE /\ ~RefuseAtGate(t) /\ ~Complete(t) /\ ~ReleaseControl(t)
           /\ ~KillFails(t) /\ ~Kill(t)
  <2>1. UNCHANGED process
    BY <1>3
       DEF ThreadSteps, Work, Ask, LockAudit, CheckLocal, RequireTakeover,
           RemoveReclaimed, LockTakeovers, RefuseForLease, Find, NotFound,
           EnterGate, KnowInstall, LockInstall, Install, InstallGone,
           ReleaseTakeover, RemoveSession, RemoveLease, EnterStop, gates
  <2> QED
    BY <2>1 DEF process, Discipline, TypeOK, ProcessesOnlyEnd
<1> QED
  BY <1>1, <1>2, <1>3

\* A request keeps the session it has in hand until it lets go of it or knows
\* its process to be dead.
LEMMA HolderSteps ==
  ASSUME Discipline, StoppedIsDead, NEW t \in Threads, ThreadSteps(t),
         Holds(t, Session(t))
  PROVE  \/ Holds(t, Session(t))' /\ thread'[t].request = thread[t].request
         \/ LetsGo(t)
         \/ ~alive'[Session(t)]
<1>1. /\ ~At(t, "idle") /\ Session(t) \in Sessions
      /\ thread[t].phase \in {"removed", "found", "writing", "killing"}
      /\ Op(t) \in OpsAt(thread[t].phase)
  BY BusyParts DEF Holds, At
<1>2. ASSUME NEW p \in {"found", "writing", "killing"}, Goto(t, p), Op(t) \in OpsAt(p)
      PROVE  Holds(t, Session(t))' /\ thread'[t].request = thread[t].request
  <2>1. p \in Phases \ {"idle"}
    BY DEF Phases
  <2>2. thread'[t].phase = p /\ thread'[t].request = thread[t].request
    BY <1>1, <1>2, <2>1, GotoMoves DEF Discipline
  <2> QED
    BY <2>2 DEF Holds
<1>3. CASE RefuseAtGate(t) \/ Complete(t) \/ ReleaseControl(t) \/ KillFails(t)
  BY <1>3 DEF RefuseAtGate, Complete, ReleaseControl, KillFails
<1>4. CASE Kill(t)
  BY <1>1, <1>4 DEF Kill, Discipline, TypeOK
<1>5. CASE EnterStop(t)
  <2>1. CASE stopped[Session(t)]
    <3>1. UNCHANGED process /\ ~alive[Session(t)]
      BY <1>1, <1>5, <2>1 DEF EnterStop, StoppedIsDead
    <3> QED
      BY <3>1 DEF process
  <2>2. CASE ~stopped[Session(t)]
    <3>1. Goto(t, "killing") /\ Op(t) \in OpsAt("killing")
      BY <1>5, <2>2 DEF EnterStop, Serves, OpsAt
    <3> QED
      BY <1>2, <3>1
  <2> QED
    BY <2>1, <2>2
<1>6. CASE RemoveLease(t) \/ EnterGate(t)
  <2>1. \E p \in {"found", "writing"} : Goto(t, p) /\ Op(t) \in OpsAt(p)
    BY <1>1, <1>6 DEF RemoveLease, EnterGate, Serves, At, OpsAt
  <2> QED
    BY <1>2, <2>1
<1> QED
  BY <1>1, <1>3, <1>4, <1>5, <1>6
     DEF ThreadSteps, Work, Ask, LockAudit, CheckLocal, RequireTakeover,
         RemoveReclaimed, LockTakeovers, RefuseForLease, Find, NotFound,
         KnowInstall, LockInstall, Install, InstallGone, ReleaseTakeover,
         RemoveSession, Searching, Serves, At

\* An install under the takeovers' mutex is all that adds a lease.
InstallsLease(t) ==
    LET s == Session(t) IN
    /\ At(t, "locked")
    /\ s \in registered /\ Unowned(s)
    /\ lease' = [lease EXCEPT ![s] = Who(t)]
    /\ UNCHANGED <<registered, gates>>

LEMMA LeaseSteps ==
  ASSUME NEW t \in Threads, ThreadSteps(t)
  PROVE  \/ UNCHANGED lease
         \/ ~At(t, "idle") /\ lease' = [lease EXCEPT ![Session(t)] = None]
         \/ InstallsLease(t)
<1>1. CASE RemoveReclaimed(t) \/ RemoveLease(t)
  BY <1>1 DEF RemoveReclaimed, RemoveLease, Serves, At
<1>2. CASE ReleaseTakeover(t)
  BY <1>2 DEF ReleaseTakeover, Serves, At
<1>3. CASE Install(t)
  BY <1>3 DEF Install, InstallsLease
<1> QED
  BY <1>1, <1>2, <1>3
     DEF ThreadSteps, Work, Ask, Complete, LockAudit, CheckLocal,
         RequireTakeover, LockTakeovers, RefuseForLease, Find, NotFound,
         EnterGate, RefuseAtGate, ReleaseControl, KnowInstall, LockInstall,
         InstallGone, RemoveSession, EnterStop, Kill, KillFails

\* The end of a claim's or a controlled write's effect is all that gives a
\* session an owner.
CommitsOwner(t) ==
    LET s == Session(t) IN
    /\ At(t, "writing")
    /\ Op(t) \in {"claim", "controlled"}
    /\ ~stopped[s]
    /\ owner' = [owner EXCEPT ![s] = Who(t)]
    /\ UNCHANGED <<registered, lease, stopped>>

LEMMA OwnerSteps ==
  ASSUME Discipline, NEW t \in Threads, ThreadSteps(t)
  PROVE  /\ \/ UNCHANGED owner
            \/ ~At(t, "idle") /\ owner' = [owner EXCEPT ![Session(t)] = None]
            \/ CommitsOwner(t)
         /\ claimed' \in [Sessions -> BOOLEAN]
<1>1. CASE Complete(t)
  <2>1. PICK ok \in BOOLEAN :
           LET s == Session(t)
               commits == ok /\ ~stopped[s] /\ Op(t) \in {"claim", "controlled"}
           IN /\ owner' = [owner EXCEPT ![s] = IF commits THEN Who(t) ELSE @]
              /\ claimed' = [claimed EXCEPT ![s] = @ \/ commits]
    BY <1>1 DEF Complete
  <2>2. At(t, "writing") /\ UNCHANGED <<registered, lease, stopped>>
    BY <1>1 DEF Complete
  <2>3. Session(t) \in Sessions
    BY <2>2, BusyParts DEF At
  <2>4. claimed' \in [Sessions -> BOOLEAN]
    BY <2>1 DEF Discipline, TypeOK
  <2>5. CASE ok /\ ~stopped[Session(t)] /\ Op(t) \in {"claim", "controlled"}
    BY <2>1, <2>2, <2>4, <2>5 DEF CommitsOwner
  <2>6. CASE ~(ok /\ ~stopped[Session(t)] /\ Op(t) \in {"claim", "controlled"})
    <3>1. owner' = [owner EXCEPT ![Session(t)] = owner[Session(t)]]
      BY <2>1, <2>6
    <3>2. owner' = owner
      BY <2>3, <3>1 DEF Discipline, TypeOK
    <3> QED
      BY <2>4, <3>2
  <2> QED
    BY <2>5, <2>6
<1>2. CASE ReleaseControl(t)
  <2>1. /\ owner' = [owner EXCEPT ![Session(t)] =
                        IF owner[Session(t)] = Who(t) THEN None
                        ELSE owner[Session(t)]]
        /\ claimed' = claimed /\ ~At(t, "idle")
    BY <1>2 DEF ReleaseControl, Serves, At
  <2>2. Session(t) \in Sessions
    BY <2>1, BusyParts
  <2>3. owner' = owner \/ owner' = [owner EXCEPT ![Session(t)] = None]
    BY <2>1, <2>2 DEF Discipline, TypeOK
  <2> QED
    BY <2>1, <2>3 DEF Discipline, TypeOK
<1>3. CASE ~Complete(t) /\ ~ReleaseControl(t)
  <2>1. UNCHANGED <<owner, claimed>>
    BY <1>3
       DEF ThreadSteps, Work, Ask, LockAudit, CheckLocal,
           RequireTakeover, RemoveReclaimed, LockTakeovers, RefuseForLease, Find,
           NotFound, EnterGate, RefuseAtGate, KnowInstall, LockInstall, Install,
           InstallGone, ReleaseTakeover, RemoveSession, RemoveLease, EnterStop,
           Kill, KillFails, gates
  <2> QED
    BY <2>1 DEF Discipline, TypeOK
<1> QED
  BY <1>1, <1>2, <1>3

\* Only a stop sets the flag, and it goes on to kill; only the kill or its
\* failure ends that.
StopsOrKills(t) ==
    LET s == Session(t) IN
    \/ /\ At(t, "found") /\ thread'[t].phase = "killing"
       /\ thread'[t].request = thread[t].request
       /\ stopped' = [stopped EXCEPT ![s] = TRUE]
    \/ /\ At(t, "killing")
       /\ alive' = [alive EXCEPT ![s] = FALSE]
       /\ UNCHANGED stopped
    \/ /\ At(t, "killing")
       /\ stopped' = [stopped EXCEPT ![s] = FALSE]

LEMMA StopSteps ==
  ASSUME Discipline, NEW t \in Threads, ThreadSteps(t)
  PROVE  \/ UNCHANGED stopped /\ ~At(t, "killing")
         \/ StopsOrKills(t)
<1>1. CASE EnterStop(t)
  <2>1. CASE stopped[Session(t)]
    BY <1>1, <2>1 DEF EnterStop, Serves, At
  <2>2. CASE ~stopped[Session(t)]
    <3>1. /\ Serves(t, {"stop", "stop_retained"}, "found")
          /\ stopped' = [stopped EXCEPT ![Session(t)] = TRUE]
          /\ Goto(t, "killing")
      BY <1>1, <2>2 DEF EnterStop
    <3>2. /\ ~At(t, "idle") /\ "killing" \in Phases \ {"idle"}
          /\ Op(t) \in OpsAt("killing") /\ At(t, "found")
      BY <3>1 DEF Serves, At, OpsAt, Phases
    <3>3. /\ thread'[t].phase = "killing"
          /\ thread'[t].request = thread[t].request
      BY <3>1, <3>2, GotoMoves DEF Discipline
    <3> QED
      BY <3>1, <3>2, <3>3 DEF StopsOrKills
  <2> QED
    BY <2>1, <2>2
<1>2. CASE Kill(t) \/ KillFails(t)
  BY <1>2 DEF Kill, KillFails, StopsOrKills
<1>3. CASE ~EnterStop(t) /\ ~Kill(t) /\ ~KillFails(t)
  <2>1. ~At(t, "killing")
    BY <1>3, BusyParts
       DEF ThreadSteps, Work, Ask, LockAudit, CheckLocal, Complete,
           RequireTakeover, RemoveReclaimed, LockTakeovers, RefuseForLease, Find,
           NotFound, EnterGate, RefuseAtGate, ReleaseControl, KnowInstall,
           LockInstall, Install, InstallGone, ReleaseTakeover, RemoveSession,
           RemoveLease, Searching, Serves, At
  <2>2. UNCHANGED stopped
    BY <1>3
       DEF ThreadSteps, Work, Ask, LockAudit, CheckLocal, Complete,
           RequireTakeover, RemoveReclaimed, LockTakeovers, RefuseForLease, Find,
           NotFound, EnterGate, RefuseAtGate, ReleaseControl, KnowInstall,
           LockInstall, Install, InstallGone, ReleaseTakeover, RemoveSession,
           RemoveLease, gates
  <2> QED
    BY <2>1, <2>2
<1> QED
  BY <1>1, <1>2, <1>3

\* Only a stop takes a session out of the registry, and it is "removed" until
\* it has taken the lease out as well.
LEMMA RegistrySteps ==
  ASSUME Discipline, NEW t \in Threads, ThreadSteps(t)
  PROVE  /\ \/ UNCHANGED registered
            \/ /\ ~At(t, "idle") /\ UNCHANGED lease
               /\ registered' = registered \ {Session(t)}
               /\ At(t, "removed")' /\ thread'[t].request = thread[t].request
               /\ Op(t) = "stop"
         /\ At(t, "removed") => lease' = [lease EXCEPT ![Session(t)] = None]
<1>1. CASE RemoveSession(t)
  <2>1. /\ Serves(t, {"stop"}, "start") /\ Goto(t, "removed")
        /\ registered' = registered \ {Session(t)} /\ UNCHANGED lease
    BY <1>1 DEF RemoveSession
  <2>2. /\ ~At(t, "idle") /\ ~At(t, "removed") /\ Op(t) = "stop"
        /\ "removed" \in Phases \ {"idle"} /\ Op(t) \in OpsAt("removed")
    BY <2>1 DEF Serves, At, OpsAt, Phases
  <2>3. /\ thread'[t].phase = "removed"
        /\ thread'[t].request = thread[t].request
    BY <2>1, <2>2, GotoMoves DEF Discipline
  <2> QED
    BY <2>1, <2>2, <2>3 DEF At
<1>2. CASE RemoveLease(t)
  BY <1>2 DEF RemoveLease
<1>3. CASE ~RemoveSession(t) /\ ~RemoveLease(t)
  <2>1. ~At(t, "removed")
    BY <1>3
       DEF ThreadSteps, Work, Ask, LockAudit, CheckLocal, Complete,
           RequireTakeover, RemoveReclaimed, LockTakeovers, RefuseForLease, Find,
           NotFound, EnterGate, RefuseAtGate, ReleaseControl, KnowInstall,
           LockInstall, Install, InstallGone, ReleaseTakeover, EnterStop, Kill,
           KillFails, Searching, Serves, At
  <2>2. UNCHANGED registered
    BY <1>3
       DEF ThreadSteps, Work, Ask, LockAudit, CheckLocal, Complete,
           RequireTakeover, RemoveReclaimed, LockTakeovers, RefuseForLease, Find,
           NotFound, EnterGate, RefuseAtGate, ReleaseControl, KnowInstall,
           LockInstall, Install, InstallGone, ReleaseTakeover, EnterStop, Kill,
           KillFails
  <2> QED
    BY <2>1, <2>2
<1> QED
  BY <1>1, <1>2, <1>3

-----------------------------------------------------------------------------
(* The invariant holds at the start and is kept by every step.             *)

LEMMA RegistryInit == Init => RegistryInv
<1> SUFFICES ASSUME Init PROVE RegistryInv
  OBVIOUS
<1>1. Idle(TRUE) \in [request: Requests \cup {None}, phase: Phases, ok: BOOLEAN]
  BY DEF Idle, Phases
<1>2. TypeOK
  BY <1>1 DEF Init, TypeOK
<1>3. \A t \in Threads : thread[t].phase = "idle"
  BY DEF Init, Idle
<1>4. BusyWithRequest /\ LocksHeld /\ NoLeaseWhileArbitrating
  BY <1>3, RequestsAssumption
     DEF Init, BusyWithRequest, LocksHeld, NoLeaseWhileArbitrating, HasAudit,
         HasTakeovers, HasGate, AuditAt, TakeoversAt, At
<1>5. StoppedIsDead /\ NoLeaseForStopped /\ NoProcessForgotten
  BY DEF Init, StoppedIsDead, NoLeaseForStopped, NoProcessForgotten
<1> QED
  BY <1>2, <1>4, <1>5 DEF RegistryInv

LEMMA InvIsDisciplined == RegistryInv => Discipline
BY DEF RegistryInv, Discipline

\* Types, and the bookkeeping of threads and mutexes.
LEMMA TypesNext ==
  ASSUME Discipline, NEW t \in Threads, ThreadSteps(t)
  PROVE  Discipline'
<1>1. Orderly(t)
  BY ThreadsAreOrderly DEF ThreadSteps
<1>2. registered' \subseteq Sessions
  BY RegistrySteps DEF Discipline, TypeOK
<1>3. lease' \in [Sessions -> Leases \cup {None}]
  <2>1. CASE InstallsLease(t)
    <3>1. Op(t) \in {"install"}
      BY <2>1, BusyParts DEF InstallsLease, At, OpsAt
    <3>2. Who(t) \in Leases
      BY <2>1, <3>1, BusyParts DEF InstallsLease, At
    <3> QED
      BY <2>1, <3>2 DEF InstallsLease, Discipline, TypeOK
  <2> QED
    BY <2>1, LeaseSteps DEF Discipline, TypeOK
<1>4. owner' \in [Sessions -> Views \cup {None}]
  <2>1. CASE CommitsOwner(t)
    BY <2>1, BusyParts DEF CommitsOwner, Discipline, TypeOK, At
  <2> QED
    BY <2>1, OwnerSteps DEF Discipline, TypeOK
<1>5. claimed' \in [Sessions -> BOOLEAN]
  BY OwnerSteps
<1>6. stopped' \in [Sessions -> BOOLEAN]
  <2>1. stopped \in [Sessions -> BOOLEAN]
    BY DEF Discipline, TypeOK
  <2>2. CASE UNCHANGED stopped
    BY <2>1, <2>2
  <2>3. CASE StopsOrKills(t)
    BY <2>1, <2>3 DEF StopsOrKills
  <2> QED
    BY <2>2, <2>3, StopSteps
<1>7. alive' \in [Sessions -> BOOLEAN] /\ abandoned' \subseteq Sessions
  BY ProcessSteps DEF ProcessesOnlyEnd
<1>8. TypeOK'
  BY <1>1, <1>2, <1>3, <1>4, <1>5, <1>6, <1>7 DEF TypeOK, Orderly
<1> QED
  BY <1>1, <1>8 DEF Discipline, Orderly

\* A claim or a controlled write gets past the takeovers by LockTakeovers only.
LEMMA OnTheWayToWrite ==
  ASSUME Discipline, NEW t \in Threads, ThreadSteps(t),
         ~LockTakeovers(t), ~Find(t), ~EnterGate(t),
         thread'[t].phase \in {"cleared", "found", "writing"}
  PROVE  Op(t)' \notin {"controlled", "claim"}
<1>1. CASE Ending(t)
  BY <1>1, EndingEnds, EndIsOrderly
<1>2. CASE Ask(t)
  <2>1. thread'[t].phase = "start"
    <3>1. PICK r \in Requests :
             thread' = [thread EXCEPT ![t] =
                          [Idle(TRUE) EXCEPT !.request = r, !.phase = "start"]]
      BY <1>2 DEF Ask
    <3>2. thread'[t] = [Idle(TRUE) EXCEPT !.request = r, !.phase = "start"]
      BY <3>1 DEF Discipline, TypeOK
    <3> QED
      BY <3>2 DEF Idle
  <2> QED
    BY <2>1
<1>3. ASSUME NEW p \in Phases \ {"idle"}, Goto(t, p), ~At(t, "idle"),
             Op(t) \in OpsAt(p), Op(t) \notin {"controlled", "claim"}
                                \/ p \notin {"cleared", "found", "writing"}
      PROVE  Op(t)' \notin {"controlled", "claim"}
  BY <1>3, GotoMoves DEF Discipline, Op
<1>4. CASE \/ LockAudit(t) \/ LockInstall(t) \/ KnowInstall(t)
           \/ RemoveSession(t) \/ EnterStop(t)
  <2>1. CASE EnterStop(t) /\ stopped[Session(t)]
    BY <2>1, EndIsOrderly DEF EnterStop
  <2>2. CASE ~(EnterStop(t) /\ stopped[Session(t)])
    <3>1. \E p \in {"audited", "locked", "known", "removed", "killing"} :
             Goto(t, p) /\ ~At(t, "idle") /\ Op(t) \in OpsAt(p)
      BY <1>4, <2>2, BusyParts
         DEF LockAudit, LockInstall, KnowInstall, RemoveSession, EnterStop,
             Serves, At, OpsAt
    <3> QED
      BY <3>1, <1>3 DEF Phases
  <2> QED
    BY <2>1, <2>2
<1>5. CASE CheckLocal(t) \/ RequireTakeover(t) \/ RemoveReclaimed(t)
  <2>1. /\ ~At(t, "idle") /\ Op(t) \in {"local", "coordination", "takeover", "reclaim"}
        /\ \E p \in {"cleared", "required"} : Goto(t, p) /\ Op(t) \in OpsAt(p)
    <3>1. CASE RequireTakeover(t)
      <4>1. /\ Serves(t, {"takeover", "reclaim"}, "audited")
            /\ Goto(t, IF Op(t) = "takeover" THEN "cleared" ELSE "required")
        BY <3>1 DEF RequireTakeover
      <4> QED
        BY <4>1 DEF Serves, At, OpsAt, AuditedOps
    <3> QED
      BY <1>5, <3>1
         DEF CheckLocal, RemoveReclaimed, Serves, At, OpsAt, AuditedOps
  <2> QED
    BY <2>1, <1>3 DEF Phases
<1>6. CASE RemoveLease(t)
  <2>1. /\ ~At(t, "idle") /\ Op(t) = "stop" /\ Goto(t, "found")
        /\ Op(t) \in OpsAt("found")
    BY <1>6, BusyParts DEF RemoveLease, At, OpsAt
  <2> QED
    BY <2>1, <1>3 DEF Phases
<1> QED
  BY <1>1, <1>2, <1>4, <1>5, <1>6 DEF ThreadSteps, Work, Ending

\* A lease appears only under the takeovers' mutex, and a claim or controlled
\* write that found none has the mutex.
LEMMA ArbitrationNext ==
  ASSUME Discipline, NoLeaseWhileArbitrating, NEW t \in Threads, ThreadSteps(t)
  PROVE  NoLeaseWhileArbitrating'
<1>1. Discipline' /\ OthersStay(t)
  BY TypesNext, ThreadsAreOrderly DEF ThreadSteps, Orderly
<1> SUFFICES ASSUME NEW u \in Threads, HasTakeovers(u)', ~At(u, "locked")'
             PROVE  lease'[Session(u)'] = None
  BY DEF NoLeaseWhileArbitrating
<1>2. ~InstallsLease(t) \/ ~HasTakeovers(u) \/ u = t
  BY DEF InstallsLease, Discipline, LocksHeld, HasTakeovers, TakeoversAt, At
<1>3. CASE u # t
  <2>1. /\ HasTakeovers(u) /\ ~At(u, "locked") /\ Session(u)' = Session(u)
        /\ ~At(u, "idle")
    BY <1>1, <1>3 DEF OthersStay, HasTakeovers, TakeoversAt, At, Op, Session
  <2>2. lease[Session(u)] = None /\ Session(u) \in Sessions
    BY <2>1, BusyParts DEF NoLeaseWhileArbitrating
  <2> QED
    BY <1>2, <1>3, <2>1, <2>2, LeaseSteps DEF Discipline, TypeOK
<1>4. CASE u = t
  <2>1. CASE LockTakeovers(t)
    <3>1. /\ Goto(t, "cleared") /\ ~At(t, "idle") /\ UNCHANGED lease
          /\ lease[Session(t)] = None
          /\ "cleared" \in Phases \ {"idle"} /\ Op(t) \in OpsAt("cleared")
      BY <2>1 DEF LockTakeovers, Serves, At, OpsAt, AuditedOps, Phases
    <3>2. thread'[t].request = thread[t].request
      BY <3>1, GotoMoves DEF Discipline
    <3> QED
      BY <1>4, <3>1, <3>2 DEF Session
  <2>2. CASE Find(t) \/ EnterGate(t)
    <3>1. PICK p \in {"found", "writing"} :
             /\ Goto(t, p) /\ ~At(t, "idle") /\ UNCHANGED lease
             /\ At(t, "cleared") \/ At(t, "found") \/ At(t, "start")
             /\ Op(t) \in {"controlled", "claim"} => ~At(t, "start")
             /\ Op(t) \in OpsAt(p)
      BY <2>2 DEF Find, EnterGate, Searching, Serves, At, OpsAt, AuditedOps
    <3>2. /\ thread'[t].request = thread[t].request /\ thread'[t].phase = p
      BY <3>1, GotoMoves DEF Discipline, Phases
    <3>3. HasTakeovers(t) /\ ~At(t, "locked")
      BY <1>4, <3>1, <3>2 DEF HasTakeovers, TakeoversAt, At, Op
    <3> QED
      BY <1>4, <3>1, <3>2, <3>3 DEF NoLeaseWhileArbitrating, Session
  <2>3. CASE ~LockTakeovers(t) /\ ~Find(t) /\ ~EnterGate(t)
    BY <1>4, <2>3, OnTheWayToWrite DEF HasTakeovers, TakeoversAt, At
  <2> QED
    BY <2>1, <2>2, <2>3
<1> QED
  BY <1>3, <1>4

\* A stopped session keeps its killer until it is dead or no longer stopped.
LEMMA StoppedNext ==
  ASSUME Discipline, StoppedIsDead, NEW t \in Threads, ThreadSteps(t)
  PROVE  StoppedIsDead'
<1>1. OthersStay(t)
  BY ThreadsAreOrderly DEF ThreadSteps, Orderly
<1> SUFFICES ASSUME NEW s \in Sessions, stopped'[s], alive'[s]
             PROVE  \E u \in Threads : At(u, "killing")' /\ Session(u)' = s
  BY DEF StoppedIsDead
<1>2. alive[s]
  BY ProcessSteps DEF ProcessesOnlyEnd
<1>3. CASE UNCHANGED stopped /\ ~At(t, "killing")
  <2>1. PICK u \in Threads : At(u, "killing") /\ Session(u) = s
    BY <1>2, <1>3 DEF StoppedIsDead
  <2> QED
    BY <1>1, <1>3, <2>1 DEF OthersStay, At, Session
<1>4. CASE StopsOrKills(t)
  <2>1. ~At(t, "idle") /\ Session(t) \in Sessions
    BY <1>4, BusyParts DEF StopsOrKills, At
  <2>2. CASE s = Session(t)
    BY <1>4, <2>1, <2>2 DEF StopsOrKills, At, Session, Discipline, TypeOK
  <2>3. CASE s # Session(t)
    <3>1. stopped[s] /\ alive[s]
      BY <1>2, <1>4, <2>1, <2>3 DEF StopsOrKills, Discipline, TypeOK
    <3>2. PICK u \in Threads : At(u, "killing") /\ Session(u) = s
      BY <3>1 DEF StoppedIsDead
    <3> QED
      BY <1>1, <2>3, <3>2 DEF OthersStay, At, Session
  <2> QED
    BY <2>2, <2>3
<1> QED
  BY <1>3, <1>4, StopSteps

\* No lease is installed for a session that left the registry, and the stop
\* that took it out takes the lease out in its next step.
LEMMA LeasesNext ==
  ASSUME Discipline, NoLeaseForStopped, NEW t \in Threads, ThreadSteps(t)
  PROVE  NoLeaseForStopped'
<1>1. OthersStay(t)
  BY ThreadsAreOrderly DEF ThreadSteps, Orderly
<1> SUFFICES ASSUME NEW s \in Sessions, s \notin registered', lease'[s] # None
             PROVE  \E u \in Threads :
                       Serves(u, {"stop"}, "removed")' /\ Session(u)' = s
  BY DEF NoLeaseForStopped
<1>2. CASE s \in registered
  BY <1>2, RegistrySteps DEF Serves, At, Op, Session
<1>3. CASE s \notin registered
  <2>1. lease[s] # None
    <3>1. CASE ~At(t, "idle") /\ lease' = [lease EXCEPT ![Session(t)] = None]
      BY <3>1, BusyParts DEF Discipline, TypeOK
    <3>2. CASE InstallsLease(t)
      BY <1>3, <3>2 DEF InstallsLease, Discipline, TypeOK
    <3> QED
      BY <3>1, <3>2, LeaseSteps
  <2>2. PICK u \in Threads : Serves(u, {"stop"}, "removed") /\ Session(u) = s
    BY <1>3, <2>1 DEF NoLeaseForStopped
  <2>3. u # t
    BY <2>2, RegistrySteps DEF Serves, Discipline, TypeOK
  <2> QED
    BY <1>1, <2>2, <2>3 DEF OthersStay, Serves, At, Op, Session
<1> QED
  BY <1>2, <1>3

\* A process that runs without being registered stays in some request's hands
\* until the last of them has killed it or given it up.
LEMMA HoldersNext ==
  ASSUME Discipline, StoppedIsDead, NoProcessForgotten, NEW t \in Threads,
         ThreadSteps(t)
  PROVE  NoProcessForgotten'
<1>1. OthersStay(t)
  BY ThreadsAreOrderly DEF ThreadSteps, Orderly
<1> SUFFICES ASSUME NEW s \in Sessions, alive'[s], s \notin registered',
                    s \notin abandoned'
             PROVE  \E u \in Threads : Holds(u, s)'
  BY DEF NoProcessForgotten
<1>2. alive[s] /\ s \notin abandoned
  BY ProcessSteps DEF ProcessesOnlyEnd
<1>3. CASE s \in registered
  <2>1. /\ registered' = registered \ {Session(t)} /\ At(t, "removed")'
        /\ thread'[t].request = thread[t].request
    BY <1>3, RegistrySteps
  <2> QED
    BY <1>3, <2>1 DEF Holds, At, Session
<1>4. CASE s \notin registered
  <2>1. PICK u \in Threads : Holds(u, s)
    BY <1>2, <1>4 DEF NoProcessForgotten
  <2>2. CASE u # t
    BY <1>1, <2>1, <2>2 DEF OthersStay, Holds, Session
  <2>3. CASE u = t
    <3>1. s = Session(t) /\ Holds(t, Session(t))
      BY <2>1, <2>3 DEF Holds
    <3>2. CASE Holds(t, Session(t))' /\ thread'[t].request = thread[t].request
      BY <3>1, <3>2 DEF Holds, Session
    <3>3. CASE LetsGo(t)
      <4>1. PICK v \in Threads \ {t} : Holds(v, s)
        BY <1>4, <3>1, <3>3, LetsGoKills DEF Discipline
      <4> QED
        BY <1>1, <4>1 DEF OthersStay, Holds, Session
    <3> QED
      BY <3>1, <3>2, <3>3, HolderSteps
  <2> QED
    BY <2>2, <2>3
<1> QED
  BY <1>3, <1>4

\* Time takes leases and owners away and nothing else.
LEMMA TimeNext ==
  ASSUME RegistryInv, NEW s \in Sessions, LeaseExpires(s) \/ OwnerLapses(s)
  PROVE  RegistryInv'
<1>1. /\ UNCHANGED <<registered, claimed, stopped, alive, abandoned, auditLock,
                     takeoverLock, controlLock, thread>>
      /\ \/ UNCHANGED owner /\ lease' = [lease EXCEPT ![s] = None]
         \/ UNCHANGED lease /\ owner' = [owner EXCEPT ![s] = None]
  BY DEF LeaseExpires, OwnerLapses, locks, gates, process
<1>2. TypeOK'
  BY <1>1 DEF RegistryInv, TypeOK
<1>3. BusyWithRequest' /\ LocksHeld' /\ StoppedIsDead' /\ NoProcessForgotten'
  BY <1>1 DEF RegistryInv, BusyWithRequest, LocksHeld, StoppedIsDead,
              NoProcessForgotten, HasAudit, HasTakeovers, HasGate, Holds, At, Op,
              Session
<1>4. \A r \in Sessions : lease[r] = None => lease'[r] = None
  BY <1>1 DEF RegistryInv, TypeOK
<1>5. \A t \in Threads : HasTakeovers(t) => Session(t) \in Sessions
  BY InvIsDisciplined, BusyParts DEF HasTakeovers, TakeoversAt, At
<1>6. NoLeaseWhileArbitrating'
  BY <1>1, <1>4, <1>5
     DEF RegistryInv, NoLeaseWhileArbitrating, HasTakeovers, At, Op, Session
<1>7. NoLeaseForStopped'
  BY <1>1, <1>4 DEF RegistryInv, NoLeaseForStopped, Serves, At, Op, Session
<1> QED
  BY <1>2, <1>3, <1>6, <1>7 DEF RegistryInv

LEMMA RegistryNext == RegistryInv /\ [Next]_vars => RegistryInv'
<1> SUFFICES ASSUME RegistryInv, [Next]_vars PROVE RegistryInv'
  OBVIOUS
<1>1. CASE UNCHANGED vars
  BY <1>1
     DEF RegistryInv, TypeOK, BusyWithRequest, LocksHeld, NoLeaseWhileArbitrating,
         StoppedIsDead, NoLeaseForStopped, NoProcessForgotten, HasAudit,
         HasTakeovers, HasGate, Holds, Serves, At, Op, Session, vars, gates,
         process, locks
<1>2. ASSUME NEW t \in Threads, ThreadSteps(t)
      PROVE  RegistryInv'
  BY <1>2, TypesNext, ArbitrationNext, StoppedNext, LeasesNext, HoldersNext
     DEF RegistryInv, Discipline
<1>3. ASSUME NEW s \in Sessions, LeaseExpires(s) \/ OwnerLapses(s)
      PROVE  RegistryInv'
  BY <1>3, TimeNext
<1> QED
  BY <1>1, <1>2, <1>3 DEF Next, ThreadSteps

THEOREM RegistryInvariant == Spec => []RegistryInv
<1>1. Init => RegistryInv
  BY RegistryInit
<1>2. RegistryInv /\ [Next]_vars => RegistryInv'
  BY RegistryNext
<1> QED
  BY <1>1, <1>2, PTL DEF Spec

-----------------------------------------------------------------------------
(* The properties.                                                         *)

\* Every variable keeps its type: a view never comes to stand where a lease
\* belongs, nor automation where a view does, whichever requests compete.
THEOREM RegistryTypes == Spec => []TypeOK
<1>1. RegistryInv => TypeOK
  BY DEF RegistryInv
<1> QED
  BY <1>1, RegistryInvariant, PTL

\* No install that was under way puts a lease back for a session that a stop
\* took out of the registry (the second get of install_takeover, under the
\* takeovers' mutex).
THEOREM LeasesEndWithTheirSession == Spec => []NoLeaseForStopped
<1>1. RegistryInv => NoLeaseForStopped
  BY DEF RegistryInv
<1> QED
  BY <1>1, RegistryInvariant, PTL

\* No process runs on that neither the registry nor a request has in hand, but
\* for those whose last kill failed too: a stop that could not kill, and every
\* request that found the session before it was removed, passes the session on
\* or kills it on letting go (impl Drop for ProcessTerminalSession).
THEOREM NobodyForgetsAProcess == Spec => []NoProcessForgotten
<1>1. RegistryInv => NoProcessForgotten
  BY DEF RegistryInv
<1> QED
  BY <1>1, RegistryInvariant, PTL

\* A view and a Keeper never come to hold a session together: a claim or a
\* controlled write keeps the takeovers locked from its check to its commit,
\* and an install looks at the owner under the same mutex.
THEOREM OwnersExcludeTakeovers == Spec => OwnerExcludesTakeover
<1> DEFINE Apart == \A s \in Sessions :
              owner'[s] # None /\ lease'[s] # None
              => (owner[s] # None /\ lease[s] # None) \/ stopped[s]
<1>1. RegistryInv /\ [Next]_vars => Apart
  <2> SUFFICES ASSUME RegistryInv, [Next]_vars, NEW s \in Sessions,
                      owner'[s] # None, lease'[s] # None,
                      ~stopped[s]
               PROVE  owner[s] # None /\ lease[s] # None
    BY DEF Apart
  <2>1. Discipline
    BY InvIsDisciplined
  <2>2. ASSUME NEW t \in Threads, ThreadSteps(t)
        PROVE  owner[s] # None /\ lease[s] # None
    <3>1. CASE InstallsLease(t)
      <4>1. UNCHANGED owner
        BY <3>1 DEF InstallsLease, gates
      <4>2. s # Session(t)
        BY <3>1, <4>1 DEF InstallsLease, Unowned
      <4> QED
        BY <2>1, <3>1, <4>1, <4>2 DEF InstallsLease, Discipline, TypeOK
    <3>2. CASE ~InstallsLease(t)
      <4>1. lease[s] # None
        BY <2>1, <2>2, <3>2, LeaseSteps, BusyParts DEF Discipline, TypeOK
      <4>2. CASE CommitsOwner(t)
        <5>1. HasTakeovers(t) /\ ~At(t, "locked") /\ UNCHANGED lease
          BY <4>2 DEF CommitsOwner, HasTakeovers, TakeoversAt, At
        <5>2. s # Session(t)
          BY <4>1, <5>1 DEF RegistryInv, NoLeaseWhileArbitrating
        <5> QED
          BY <2>1, <4>1, <4>2, <5>2 DEF CommitsOwner, Discipline, TypeOK
      <4>3. CASE ~CommitsOwner(t)
        BY <2>1, <2>2, <4>1, <4>3, OwnerSteps, BusyParts DEF Discipline, TypeOK
      <4> QED
        BY <4>2, <4>3
    <3> QED
      BY <3>1, <3>2
  <2>3. ASSUME NEW r \in Sessions, LeaseExpires(r) \/ OwnerLapses(r)
        PROVE  owner[s] # None /\ lease[s] # None
    BY <2>1, <2>3 DEF LeaseExpires, OwnerLapses, gates, Discipline, TypeOK
  <2>4. CASE UNCHANGED vars
    BY <2>4 DEF vars, gates
  <2> QED
    BY <2>2, <2>3, <2>4 DEF Next, ThreadSteps
<1> QED
  BY <1>1, RegistryInvariant, PTL DEF Spec, OwnerExcludesTakeover

\* A stop that reports success leaves no process behind: a second stop waits
\* for the first one's kill before it trusts the stopped flag.
THEOREM StopsThatSucceedKill == Spec => StopOkMeansDead
<1> DEFINE Dead == \A t \in Threads :
              ~At(t, "idle") /\ Op(t) \in {"stop", "stop_retained"}
                /\ thread'[t].phase = "idle" /\ thread'[t].ok
              => ~alive'[Session(t)]
<1>1. RegistryInv /\ [Next]_vars => Dead
  <2> SUFFICES ASSUME RegistryInv, [Next]_vars, NEW t \in Threads,
                      ~At(t, "idle"), Op(t) \in {"stop", "stop_retained"},
                      thread'[t].phase = "idle", thread'[t].ok
               PROVE  ~alive'[Session(t)]
    BY DEF Dead
  <2>1. Discipline /\ Session(t) \in Sessions /\ Op(t) \in OpsAt(thread[t].phase)
    BY InvIsDisciplined, BusyParts
  <2>2. ThreadSteps(t)
    <3>1. thread' # thread
      BY DEF At
    <3>2. PICK u \in Threads : ThreadSteps(u)
      BY <3>1 DEF Next, LeaseExpires, OwnerLapses, ThreadSteps, vars
    <3>3. u = t
      BY <2>1, <3>2, ThreadsAreOrderly DEF ThreadSteps, Orderly, OthersStay, At
    <3> QED
      BY <3>2, <3>3
  <2>3. CASE Kill(t)
    BY <2>1, <2>3 DEF Kill, Discipline, TypeOK
  <2>4. CASE EnterStop(t)
    <3>1. stopped[Session(t)]
      <4> SUFFICES ASSUME ~stopped[Session(t)] PROVE FALSE
        OBVIOUS
      <4>1. Goto(t, "killing") /\ Op(t) \in OpsAt("killing")
        BY <2>4 DEF EnterStop, OpsAt
      <4> QED
        BY <2>1, <4>1, GotoMoves DEF Discipline, Phases
    <3> QED
      BY <2>1, <2>4, <3>1 DEF EnterStop, RegistryInv, StoppedIsDead, process
  <2>5. CASE Ending(t) /\ ~Kill(t)
    <3>1. ~End(t, FALSE)
      BY <2>1, EndIsOrderly
    <3>2. CASE Complete(t) \/ Install(t)
      BY <2>1, <3>2 DEF Complete, Install, At, OpsAt, AuditedOps
    <3>3. CASE ReleaseControl(t) \/ ReleaseTakeover(t)
      BY <3>3 DEF ReleaseControl, ReleaseTakeover, Serves
    <3> QED
      BY <2>5, <3>1, <3>2, <3>3
         DEF Ending, RefuseForLease, NotFound, RefuseAtGate, InstallGone, KillFails
  <2>6. CASE ~Ending(t) /\ ~EnterStop(t)
    <3>1. \E p \in Phases \ {"idle"} : Goto(t, p) /\ Op(t) \in OpsAt(p)
      <4>1. CASE RemoveSession(t) \/ RemoveLease(t) \/ Find(t)
        BY <2>1, <4>1
           DEF RemoveSession, RemoveLease, Find, Searching, Serves, At, OpsAt,
               Phases
      <4>2. CASE ~RemoveSession(t) /\ ~RemoveLease(t) /\ ~Find(t)
        BY <2>1, <2>2, <2>6, <4>2
           DEF ThreadSteps, Work, Ending, Ask, LockAudit, CheckLocal,
               RequireTakeover, RemoveReclaimed, LockTakeovers, EnterGate,
               KnowInstall, LockInstall, Serves, At, OpsAt, AuditedOps
      <4> QED
        BY <4>1, <4>2
    <3> QED
      BY <2>1, <3>1, GotoMoves DEF Discipline
  <2> QED
    BY <2>2, <2>3, <2>4, <2>5, <2>6
<1> QED
  BY <1>1, RegistryInvariant, PTL DEF Spec, StopOkMeansDead

-----------------------------------------------------------------------------
(* The order of the mutexes.                                               *)

\* The next action of t needs a mutex, or the end of a kill, it cannot have.
Waits(t) ==
    \/ Serves(t, AuditedOps, "start") /\ auditLock # Free
    \/ /\ \/ \E p \in {"audited", "required", "known", "removed"} : At(t, p)
          \/ Serves(t, {"claim", "release_takeover"}, "start")
       /\ takeoverLock # Free
    \/ /\ \/ Serves(t, AuditedOps \cup {"claim", "release_control"}, "found")
          \/ At(t, "locked") /\ Session(t) \in registered
       /\ controlLock[Session(t)] # Free
    \/ /\ Serves(t, {"stop", "stop_retained"}, "found")
       /\ \E u \in Threads : At(u, "killing") /\ Session(u) = Session(t)

\* Never does everybody wait: of the busy threads one has what it needs, or is
\* writing to its provider.
SomebodyProceeds ==
    (\E t \in Threads : ~At(t, "idle"))
    => \E t \in Threads : ~At(t, "idle") /\ ~Waits(t)

\* The write audit, the takeovers, a gate, and last the kill are waited for in
\* this order by whoever holds the ones before, so no number of threads and
\* requests comes to wait in a circle (write_controlled, claim_control and
\* install_takeover each hold two of them).
THEOREM NeverWaitingInACircle == Spec => []SomebodyProceeds
<1>1. RegistryInv => SomebodyProceeds
  <2> SUFFICES ASSUME RegistryInv, NEW t \in Threads, ~At(t, "idle"),
                      \A u \in Threads : ~At(u, "idle") => Waits(u)
               PROVE  FALSE
    BY DEF SomebodyProceeds
  <2>1. Discipline
    BY InvIsDisciplined
  <2>2. \A u \in Threads : ~At(u, "writing") /\ ~At(u, "killing") /\ ~At(u, "cleared")
    BY DEF Waits, Serves, At
  <2>3. \A s \in Sessions : controlLock[s] = Free
    BY <2>1, <2>2 DEF Discipline, TypeOK, LocksHeld, HasGate
  <2>4. ASSUME NEW u \in Threads, At(u, "locked") \/ At(u, "found")
        PROVE  Op(u) \in {"stop", "stop_retained"}
    BY <2>1, <2>2, <2>3, <2>4, BusyParts DEF Waits, Serves, At
  <2>5. takeoverLock = Free
    <3> SUFFICES ASSUME NEW u \in Threads, HasTakeovers(u) PROVE FALSE
      BY <2>1 DEF Discipline, TypeOK, LocksHeld
    <3>1. At(u, "locked") \/ At(u, "found")
      BY <2>2 DEF HasTakeovers, TakeoversAt, At
    <3>2. Op(u) \in {"stop", "stop_retained"} /\ Op(u) \in OpsAt(thread[u].phase)
      BY <2>1, <2>4, <3>1, BusyParts DEF At
    <3> QED
      BY <3>1, <3>2 DEF HasTakeovers, TakeoversAt, OpsAt, At
  <2>6. auditLock = Free
    <3> SUFFICES ASSUME NEW u \in Threads, HasAudit(u) PROVE FALSE
      BY <2>1 DEF Discipline, TypeOK, LocksHeld
    <3>1. At(u, "found")
      BY <2>2, <2>5 DEF HasAudit, AuditAt, Waits, Serves, At
    <3> QED
      BY <2>4, <3>1 DEF HasAudit, AuditAt, AuditedOps
  <2>7. ~At(t, "locked") \/ Op(t) \notin {"install"}
    BY <2>4
  <2> QED
    BY <2>1, <2>2, <2>3, <2>5, <2>6, BusyParts DEF Waits, Serves, At
<1> QED
  BY <1>1, RegistryInvariant, PTL

\* Two effects never share a gate, nor two audited writes the audit.
EffectsAreSerial ==
    \A t, u \in Threads :
        \/ At(t, "writing") /\ At(u, "writing") /\ Session(t) = Session(u)
        \/ HasAudit(t) /\ HasAudit(u)
        => t = u

\* The control mutex keeps writes, resizes and claims of one session apart, and
\* the audit's mutex a write from the entry that is recorded about another.
THEOREM EffectsNeverOverlap == Spec => []EffectsAreSerial
<1>1. RegistryInv => EffectsAreSerial
  <2> SUFFICES ASSUME RegistryInv, NEW t \in Threads, NEW u \in Threads,
                      \/ At(t, "writing") /\ At(u, "writing")
                           /\ Session(t) = Session(u)
                      \/ HasAudit(t) /\ HasAudit(u)
               PROVE  t = u
    BY DEF EffectsAreSerial
  <2>1. CASE HasAudit(t) /\ HasAudit(u)
    BY <2>1 DEF RegistryInv, LocksHeld
  <2>2. CASE At(t, "writing") /\ At(u, "writing") /\ Session(t) = Session(u)
    <3>1. Session(t) \in Sessions
      BY <2>2, InvIsDisciplined, BusyParts DEF At
    <3> QED
      BY <2>2, <3>1 DEF RegistryInv, LocksHeld, HasGate
  <2> QED
    BY <2>1, <2>2
<1> QED
  BY <1>1, RegistryInvariant, PTL
=============================================================================
