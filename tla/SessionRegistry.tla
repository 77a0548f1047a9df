--------------------------- MODULE SessionRegistry ---------------------------
(* The engine's registry of sessions and the arbitration between the       *)
(* views of this Hive, its automation, and a Keeper's remote takeover      *)
(* (swarm-terminal/src/process.rs, SessionRegistry).                       *)
(*                                                                         *)
(* Every host request runs on a thread of its own and takes the engine's   *)
(* mutexes one at a time: `write_audit`, `takeovers`, `sessions` (briefly, *)
(* by get and remove) and the session's gate.  The gate is module          *)
(* ControlGate seen from outside: a live owner or none, whether it was     *)
(* ever claimed, its mutex and its stopped flag.  Generations are not      *)
(* kept, so a call that names one may be refused as stale at any time.     *)
EXTENDS Naturals

CONSTANTS
    Sessions,
    Views,      \* views of this Hive's own operators
    Leases,     \* takeover leases: [id, revision], unexpired when installed
    Threads,
    Requests,   \* the requests of the instance, a subset of Request
    None,       \* no lease, no owner, no parameter
    Free        \* a mutex nobody holds

AuditedOps == {"local", "coordination", "controlled", "takeover", "reclaim"}
LeaseOps == {"takeover", "reclaim", "install", "release_takeover"}
ViewOps == {"controlled", "claim", "release_control"}
PlainOps == {"local", "coordination", "stop", "stop_retained"}

Request == [op: LeaseOps, session: Sessions, who: Leases]
             \cup [op: ViewOps, session: Sessions, who: Views]
             \cup [op: PlainOps, session: Sessions, who: {None}]

ASSUME RequestsAssumption ==
    /\ Requests \subseteq Request
    /\ None \notin Views \cup Leases
    /\ Free \notin Threads

VARIABLES
    registered,     \* `sessions`: the ids that get() finds
    lease,          \* `takeovers`: the installed lease, unexpired, or None
    owner,          \* each gate's live owner
    claimed,        \* each gate's generation is not 0
    stopped,        \* each gate's stopped flag
    alive,          \* the provider process runs
    abandoned,      \* it runs although the session's last kill was tried
    auditLock,      \* holder of `write_audit`
    takeoverLock,   \* holder of `takeovers`
    controlLock,    \* holder of each gate's `control`
    thread          \* the request each thread serves, and how far it is

locks == <<auditLock, takeoverLock, controlLock>>
process == <<alive, abandoned>>
gates == <<owner, claimed, stopped, process>>
vars == <<registered, lease, gates, locks, thread>>

Phases == {"idle", "start", "audited", "required", "cleared", "known",
           "locked", "found", "writing", "removed", "killing"}

Idle(ok) == [request |-> None, phase |-> "idle", ok |-> ok]

Init ==
    /\ registered = Sessions
    /\ lease = [s \in Sessions |-> None]
    /\ owner = [s \in Sessions |-> None]
    /\ claimed = [s \in Sessions |-> FALSE]
    /\ stopped = [s \in Sessions |-> FALSE]
    /\ alive = [s \in Sessions |-> TRUE]
    /\ abandoned = {}
    /\ auditLock = Free
    /\ takeoverLock = Free
    /\ controlLock = [s \in Sessions |-> Free]
    /\ thread = [t \in Threads |-> Idle(TRUE)]

At(t, phase) == thread[t].phase = phase
Op(t) == thread[t].request.op
Session(t) == thread[t].request.session
Who(t) == thread[t].request.who
Serves(t, ops, phase) == At(t, phase) /\ Op(t) \in ops

Goto(t, phase) == thread' = [thread EXCEPT ![t] = [@ EXCEPT !.phase = phase]]

Drop(lock, t) == IF lock = t THEN Free ELSE lock

\* The request is over: every guard goes out of scope.
End(t, ok) ==
    /\ auditLock' = Drop(auditLock, t)
    /\ takeoverLock' = Drop(takeoverLock, t)
    /\ controlLock' = [s \in Sessions |-> Drop(controlLock[s], t)]
    /\ thread' = [thread EXCEPT ![t] = Idle(ok)]

\* The request has the session in hand (an Arc of it), also one that stop took
\* out of the registry.  Looks that last one step hold nothing.
Holds(t, s) ==
    thread[t].phase \in {"removed", "found", "writing", "killing"} /\ Session(t) = s

\* Mistake: nothing happens when a session is dropped.
LetsGoSilently(t) == UNCHANGED process

\* Whoever lets go of a removed session last drops it, and with it a process
\* that still runs is killed; that this fails nobody gets to know.
LetsGo(t) ==
    LET s == Session(t)
        last == s \notin registered /\ \A u \in Threads \ {t} : ~Holds(u, s)
    IN  IF last /\ alive[s]
          THEN \/ alive' = [alive EXCEPT ![s] = FALSE] /\ UNCHANGED abandoned
               \/ abandoned' = abandoned \cup {s} /\ UNCHANGED alive
          ELSE UNCHANGED process

Ask(t) ==
    /\ At(t, "idle")
    /\ \E r \in Requests :
          thread' = [thread EXCEPT ![t] =
                       [Idle(TRUE) EXCEPT !.request = r, !.phase = "start"]]
    /\ UNCHANGED <<registered, lease, gates, locks>>

-----------------------------------------------------------------------------
(* The write audit and the takeover check of each kind of request.         *)

\* audit_write: held until the write is over and its entry recorded.
LockAudit(t) ==
    /\ Serves(t, AuditedOps, "start")
    /\ auditLock = Free
    /\ auditLock' = t
    /\ Goto(t, "audited")
    /\ UNCHANGED <<registered, lease, gates, takeoverLock, controlLock>>

\* write_local looks for a lease and lets go of the takeovers before writing.
\* An expired lease that is still in the map is removed: here it is None.
CheckLocal(t) ==
    /\ Serves(t, {"local", "coordination"}, "audited")
    /\ takeoverLock = Free
    /\ lease[Session(t)] = None
    /\ Goto(t, "cleared")
    /\ UNCHANGED <<registered, lease, gates, locks>>

\* require_takeover: this exact lease and revision.  Its guard is dropped.
RequireTakeover(t) ==
    /\ Serves(t, {"takeover", "reclaim"}, "audited")
    /\ takeoverLock = Free
    /\ lease[Session(t)] = Who(t)
    /\ Goto(t, IF Op(t) = "takeover" THEN "cleared" ELSE "required")
    /\ UNCHANGED <<registered, lease, gates, locks>>

\* reclaim removes whatever lease is installed by now.
RemoveReclaimed(t) ==
    /\ Serves(t, {"reclaim"}, "required")
    /\ takeoverLock = Free
    /\ lease' = [lease EXCEPT ![Session(t)] = None]
    /\ Goto(t, "cleared")
    /\ UNCHANGED <<registered, gates, locks>>

\* Mistake: the check is made and the takeovers are let go of at once.
LockTakeoversBriefly(t) ==
    /\ Serves(t, {"controlled"}, "audited") \/ Serves(t, {"claim"}, "start")
    /\ takeoverLock = Free
    /\ lease[Session(t)] = None
    /\ Goto(t, "cleared")
    /\ UNCHANGED <<registered, lease, gates, locks>>

\* claim_control and write_controlled keep the takeovers locked.
LockTakeovers(t) ==
    /\ Serves(t, {"controlled"}, "audited") \/ Serves(t, {"claim"}, "start")
    /\ takeoverLock = Free
    /\ lease[Session(t)] = None
    /\ takeoverLock' = t
    /\ Goto(t, "cleared")
    /\ UNCHANGED <<registered, lease, gates, auditLock, controlLock>>

\* A lease that local work must yield to, or that is not the one named.
RefuseForLease(t) ==
    /\ takeoverLock = Free
    /\ \/ /\ Serves(t, {"local", "coordination", "controlled"}, "audited")
             \/ Serves(t, {"claim"}, "start")
          /\ lease[Session(t)] # None
       \/ /\ Serves(t, {"takeover", "reclaim"}, "audited")
          /\ lease[Session(t)] # Who(t)
    /\ End(t, FALSE)
    /\ UNCHANGED <<registered, lease, gates>>

-----------------------------------------------------------------------------
(* From the registry to the gate of the session.                           *)

Searching(t) ==
    \/ Serves(t, AuditedOps \cup {"claim"}, "cleared")
    \/ Serves(t, {"release_control", "stop_retained"}, "start")

Find(t) ==
    /\ Searching(t)
    /\ Session(t) \in registered
    /\ Goto(t, "found")
    /\ UNCHANGED <<registered, lease, gates, locks>>

NotFound(t) ==
    /\ Searching(t) \/ Serves(t, {"install", "stop"}, "start")
    /\ Session(t) \notin registered
    /\ End(t, FALSE)
    /\ UNCHANGED <<registered, lease, gates>>

\* What the gate asks of each kind of effect.
Admissible(t) ==
    LET s == Session(t) IN
    /\ ~stopped[s]
    /\ Op(t) \in {"local", "reclaim"} => ~claimed[s]
    /\ Op(t) = "coordination" => ~claimed[s] \/ owner[s] = None
    /\ Op(t) = "takeover" => owner[s] = None
    /\ Op(t) = "controlled" => owner[s] = Who(t)

EnterGate(t) ==
    /\ Serves(t, AuditedOps \cup {"claim"}, "found")
    /\ controlLock[Session(t)] = Free
    /\ Admissible(t)
    /\ controlLock' = [controlLock EXCEPT ![Session(t)] = t]
    /\ Goto(t, "writing")
    /\ UNCHANGED <<registered, lease, gates, auditLock, takeoverLock>>

\* A claim or a controlled write may also name a stale generation.
RefuseAtGate(t) ==
    /\ Serves(t, AuditedOps \cup {"claim"}, "found")
    /\ controlLock[Session(t)] = Free
    /\ Admissible(t) => Op(t) \in {"claim", "controlled"}
    /\ LetsGo(t)
    /\ End(t, FALSE)
    /\ UNCHANGED <<registered, lease, owner, claimed, stopped>>

\* Mistake: whoever wrote last owns the session.
CompleteForWriter(t) ==
    /\ At(t, "writing")
    /\ owner' = [owner EXCEPT ![Session(t)] = Who(t)]
    /\ claimed' = [claimed EXCEPT ![Session(t)] = TRUE]
    /\ LetsGo(t)
    /\ End(t, TRUE)
    /\ UNCHANGED <<registered, lease, stopped>>

\* The write or resize is over; a controlled write renews its owner's lease,
\* even one that ran out meanwhile, and a claim gives the session its owner.
Complete(t) ==
    /\ At(t, "writing")
    /\ \E ok \in BOOLEAN :
          LET s == Session(t)
              commits == ok /\ ~stopped[s] /\ Op(t) \in {"claim", "controlled"}
          IN /\ owner' = [owner EXCEPT ![s] = IF commits THEN Who(t) ELSE @]
             /\ claimed' = [claimed EXCEPT ![s] = @ \/ commits]
             /\ LetsGo(t)
             /\ End(t, ok /\ ~stopped[s])
    /\ UNCHANGED <<registered, lease, stopped>>

\* release_control: only the live owner.
ReleaseControl(t) ==
    /\ Serves(t, {"release_control"}, "found")
    /\ controlLock[Session(t)] = Free
    /\ owner' = [owner EXCEPT ![Session(t)] = IF @ = Who(t) THEN None ELSE @]
    /\ LetsGo(t)
    /\ End(t, owner[Session(t)] = Who(t))
    /\ UNCHANGED <<registered, lease, claimed, stopped>>

-----------------------------------------------------------------------------
(* Remote takeover.                                                        *)

\* The first get of install_takeover, before it waits for the takeovers.
KnowInstall(t) ==
    /\ Serves(t, {"install"}, "start")
    /\ Session(t) \in registered
    /\ Goto(t, "known")
    /\ UNCHANGED <<registered, lease, gates, locks>>

LockInstall(t) ==
    /\ At(t, "known")
    /\ takeoverLock = Free
    /\ takeoverLock' = t
    /\ Goto(t, "locked")
    /\ UNCHANGED <<registered, lease, gates, auditLock, controlLock>>

\* A stopped session has no owner to report.
Unowned(s) == stopped[s] \/ owner[s] = None

\* Another lease, or a newer revision of this one, is in force.
Conflicts(current, new) ==
    current # None
      /\ (current.id # new.id \/ current.revision > new.revision)

\* Mistake: the first get is taken for good.
InstallUnseen(t) ==
    LET s == Session(t) IN
    /\ At(t, "locked")
    /\ controlLock[s] = Free
    /\ Unowned(s)
    /\ ~Conflicts(lease[s], Who(t))
    /\ lease' = [lease EXCEPT ![s] = Who(t)]
    /\ End(t, TRUE)
    /\ UNCHANGED <<registered, gates>>

\* Mistake: the installation is audited under the takeovers.
InstallAudited(t) ==
    LET s == Session(t) IN
    /\ At(t, "locked")
    /\ s \in registered
    /\ controlLock[s] = Free
    /\ auditLock = Free
    /\ IF Unowned(s) /\ ~Conflicts(lease[s], Who(t))
       THEN lease' = [lease EXCEPT ![s] = Who(t)] /\ End(t, TRUE)
       ELSE UNCHANGED lease /\ End(t, FALSE)
    /\ UNCHANGED <<registered, gates>>

\* The second get, the owner and the installed lease are looked at under the
\* takeovers; the owner needs the gate's mutex as well.
Install(t) ==
    LET s == Session(t) IN
    /\ At(t, "locked")
    /\ s \in registered
    /\ controlLock[s] = Free
    /\ IF Unowned(s) /\ ~Conflicts(lease[s], Who(t))
       THEN lease' = [lease EXCEPT ![s] = Who(t)] /\ End(t, TRUE)
       ELSE UNCHANGED lease /\ End(t, FALSE)
    /\ UNCHANGED <<registered, gates>>

InstallGone(t) ==
    /\ At(t, "locked")
    /\ Session(t) \notin registered
    /\ End(t, FALSE)
    /\ UNCHANGED <<registered, lease, gates>>

\* release_takeover: by lease id, whatever revision is installed.
ReleaseTakeover(t) ==
    LET s == Session(t) IN
    /\ Serves(t, {"release_takeover"}, "start")
    /\ takeoverLock = Free
    /\ IF lease[s] # None /\ lease[s].id = Who(t).id
       THEN lease' = [lease EXCEPT ![s] = None] /\ End(t, TRUE)
       ELSE UNCHANGED lease /\ End(t, FALSE)
    /\ UNCHANGED <<registered, gates>>

-----------------------------------------------------------------------------
(* Stop: out of the registry, out of the takeovers, then the process.      *)

RemoveSession(t) ==
    /\ Serves(t, {"stop"}, "start")
    /\ Session(t) \in registered
    /\ registered' = registered \ {Session(t)}
    /\ Goto(t, "removed")
    /\ UNCHANGED <<lease, gates, locks>>

RemoveLease(t) ==
    /\ At(t, "removed")
    /\ takeoverLock = Free
    /\ lease' = [lease EXCEPT ![Session(t)] = None]
    /\ Goto(t, "found")
    /\ UNCHANGED <<registered, gates, locks>>

\* Mistake: a second stop does not wait for the first one.
EnterStopBeside(t) ==
    LET s == Session(t) IN
    /\ Serves(t, {"stop", "stop_retained"}, "found")
    /\ IF stopped[s]
       THEN End(t, TRUE) /\ UNCHANGED stopped
       ELSE /\ stopped' = [stopped EXCEPT ![s] = TRUE]
            /\ Goto(t, "killing")
            /\ UNCHANGED locks
    /\ UNCHANGED <<registered, lease, owner, claimed, process>>

\* Mistake: a stop waits for the write in flight.
EnterStopBehind(t) ==
    LET s == Session(t) IN
    /\ Serves(t, {"stop", "stop_retained"}, "found")
    /\ controlLock[s] = Free
    /\ stopped' = [stopped EXCEPT ![s] = TRUE]
    /\ Goto(t, "killing")
    /\ UNCHANGED <<registered, lease, owner, claimed, process, locks>>

\* The gate lets one stop of a session in at a time; a second one returns, and
\* its process is dead by then (StopOkMeansDead), so that nothing is left to drop.
EnterStop(t) ==
    LET s == Session(t) IN
    /\ Serves(t, {"stop", "stop_retained"}, "found")
    /\ \A u \in Threads : At(u, "killing") => Session(u) # s
    /\ IF stopped[s]
       THEN End(t, TRUE) /\ UNCHANGED stopped
       ELSE /\ stopped' = [stopped EXCEPT ![s] = TRUE]
            /\ Goto(t, "killing")
            /\ UNCHANGED locks
    /\ UNCHANGED <<registered, lease, owner, claimed, process>>

Kill(t) ==
    /\ At(t, "killing")
    /\ alive' = [alive EXCEPT ![Session(t)] = FALSE]
    /\ End(t, TRUE)
    /\ UNCHANGED <<registered, lease, owner, claimed, stopped, abandoned>>

\* The gate takes effects again, for requests that have the session in hand;
\* the last of them, or this stop, kills once more.
KillFails(t) ==
    /\ At(t, "killing")
    /\ stopped' = [stopped EXCEPT ![Session(t)] = FALSE]
    /\ LetsGo(t)
    /\ End(t, FALSE)
    /\ UNCHANGED <<registered, lease, owner, claimed>>

-----------------------------------------------------------------------------
(* Time.                                                                   *)

LeaseExpires(s) ==
    /\ lease[s] # None
    /\ lease' = [lease EXCEPT ![s] = None]
    /\ UNCHANGED <<registered, gates, locks, thread>>

OwnerLapses(s) ==
    /\ owner[s] # None
    /\ owner' = [owner EXCEPT ![s] = None]
    /\ UNCHANGED <<registered, lease, claimed, stopped, process, locks, thread>>

-----------------------------------------------------------------------------
\* What a thread does once it serves a request, except for the end of a write.
Work(t) ==
    \/ LockAudit(t)
    \/ CheckLocal(t)
    \/ RequireTakeover(t)
    \/ RemoveReclaimed(t)
    \/ LockTakeovers(t)
    \/ RefuseForLease(t)
    \/ Find(t)
    \/ NotFound(t)
    \/ EnterGate(t)
    \/ RefuseAtGate(t)
    \/ ReleaseControl(t)
    \/ KnowInstall(t)
    \/ LockInstall(t)
    \/ Install(t)
    \/ InstallGone(t)
    \/ ReleaseTakeover(t)
    \/ RemoveSession(t)
    \/ RemoveLease(t)
    \/ EnterStop(t)
    \/ Kill(t)
    \/ KillFails(t)

Next ==
    \/ \E t \in Threads : Ask(t) \/ Work(t) \/ Complete(t)
    \/ \E s \in Sessions : LeaseExpires(s) \/ OwnerLapses(s)

Spec == Init /\ [][Next]_vars

\* The scheduler and the mutexes are fair to every thread, and a write to a
\* process that was killed comes to an end.
FairWork ==
    \A t \in Threads :
        /\ SF_vars(Work(t))
        /\ WF_vars(Complete(t) /\ ~alive[Session(t)])

\* A provider may leave its terminal unread for ever.
FairSpec == Spec /\ FairWork

\* Every provider reads what is written to it.
AllWritesEnd == \A t \in Threads : WF_vars(Complete(t))

-----------------------------------------------------------------------------
(* Properties.                                                             *)

\* Every variable has its type: a view never stands where a lease belongs,
\* nor automation where a view does.
TypeOK ==
    /\ registered \subseteq Sessions
    /\ lease \in [Sessions -> Leases \cup {None}]
    /\ owner \in [Sessions -> Views \cup {None}]
    /\ {claimed, stopped, alive} \subseteq [Sessions -> BOOLEAN]
    /\ abandoned \subseteq Sessions
    /\ {auditLock, takeoverLock} \subseteq Threads \cup {Free}
    /\ controlLock \in [Sessions -> Threads \cup {Free}]
    /\ thread \in [Threads -> [request: Requests \cup {None}, phase: Phases,
                               ok: BOOLEAN]]

\* A takeover never outlives its session: once stop took the session out of
\* the registry and the lease out of the takeovers, no install that was under
\* way puts a lease back (the second get of install_takeover).
NoLeaseForStopped ==
    \A s \in Sessions \ registered :
        lease[s] # None
        => \E t \in Threads : Serves(t, {"stop"}, "removed") /\ Session(t) = s

\* No process is left running that neither the registry nor a request has in
\* hand, although stop gives the session up before it kills and the kill may
\* fail: it is tried once more by whoever lets go last (impl Drop for
\* ProcessTerminalSession), and only that attempt may be in vain.
NoProcessForgotten ==
    \A s \in Sessions :
        alive[s] => s \in registered \cup abandoned \/ \E t \in Threads : Holds(t, s)

\* A view of this Hive and a Keeper never come to hold a session together
\* (claim_control: "a remote takeover cannot appear between checking that
\* boundary and committing local geometry/ownership"), unless a stop is under
\* way, during which the gate reports no owner.
OwnerExcludesTakeover ==
    [][\A s \in Sessions :
          owner'[s] # None /\ lease'[s] # None
          => (owner[s] # None /\ lease[s] # None) \/ stopped[s]]_vars

\* A stop that reports success leaves no process behind, also when another
\* stop of the same session was under way.
StopOkMeansDead ==
    [][\A t \in Threads :
          ~At(t, "idle") /\ Op(t) \in {"stop", "stop_retained"}
            /\ thread'[t].phase = "idle" /\ thread'[t].ok
          => ~alive'[Session(t)]]_vars

Ends(ops) ==
    \A t \in Threads :
        (~At(t, "idle") /\ Op(t) \in ops) ~> At(t, "idle")

\* Every request comes to an end if every write does: the engine's mutexes are
\* never waited for in a circle.
EveryRequestEnds ==
    AllWritesEnd => Ends(AuditedOps \cup LeaseOps \cup ViewOps \cup PlainOps)

\* stop_retained comes to an end although a write may be blocked for ever.
StopRetainedEnds == Ends({"stop_retained"})

=============================================================================
