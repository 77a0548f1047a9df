-------------------------- MODULE MCSessionRegistry --------------------------
(* Instances of SessionRegistry for TLC: which requests compete.           *)
EXTENDS SessionRegistry, TLC

CONSTANTS s1, s2, v1, v2

ThreadSymmetry == Permutations(Threads)

LeaseOf(i, r) == [id |-> i, revision |-> r]
OneLease == {LeaseOf(1, 1)}
TwoLeases == {LeaseOf(1, 1), LeaseOf(1, 2), LeaseOf(2, 1)}

Ask1(op, who) == [op |-> op, session |-> s1, who |-> who]

\* Every request, for one session, one view and one lease.
AllRequests ==
    {Ask1(op, LeaseOf(1, 1)) : op \in LeaseOps}
       \cup {Ask1(op, v1) : op \in ViewOps}
       \cup {Ask1(op, None) : op \in PlainOps}

\* Views, automation and a Keeper about one session that may be stopped.
Contenders ==
    {Ask1(op, l) : op \in {"install", "takeover"}, l \in TwoLeases}
       \cup {Ask1(op, v) : op \in {"claim", "controlled"}, v \in {v1, v2}}
       \cup {Ask1("coordination", None), Ask1("stop", None)}

\* All of these.
Everyone == AllRequests \cup Contenders

\* One request for every order in which the engine takes its mutexes; local
\* input takes them in the order of a reclaim.
Orders ==
    {Ask1("install", LeaseOf(1, 1)), Ask1("reclaim", LeaseOf(1, 1)),
     Ask1("claim", v1), Ask1("controlled", v1),
     Ask1("stop", None), Ask1("stop_retained", None)}
=============================================================================
