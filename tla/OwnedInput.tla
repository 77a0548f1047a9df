----------------------------- MODULE OwnedInput -----------------------------
(* What the gate of a terminal session promises to those who use it (ADR   *)
(* 0062), without mutexes, ticks, proposals or stops: a session has at     *)
(* most one owner, a generation names one owner for ever, and whatever is  *)
(* being written was entitled to it when it began and still is.            *)
EXTENDS Naturals

CONSTANTS Views, Nobody, Engine

VARIABLES
    generation,
    holder,     \* the view this generation belongs to
    live,       \* whether its lease is running
    writer      \* on whose behalf a write is in progress

vars == <<generation, holder, live, writer>>

Init ==
    /\ generation = 0
    /\ holder = Nobody
    /\ live = FALSE
    /\ writer = Nobody

\* A view becomes the owner of a new generation.
Grant(v) ==
    /\ writer = Nobody
    /\ generation' = generation + 1
    /\ holder' = v
    /\ live' \in BOOLEAN
    /\ UNCHANGED writer

\* The owner is seen again, or its own write is over.
Extend ==
    /\ holder # Nobody
    /\ writer \in {Nobody, holder}
    /\ writer' = Nobody
    /\ live' \in BOOLEAN
    /\ UNCHANGED <<generation, holder>>

Lapse ==
    /\ live' = FALSE
    /\ UNCHANGED <<generation, holder, writer>>

GiveUp ==
    /\ writer = Nobody
    /\ live
    /\ generation' = generation + 1
    /\ holder' = Nobody
    /\ live' = FALSE
    /\ UNCHANGED writer

\* Only the owner, under a running lease, or the engine when there is none.
Begin(w) ==
    /\ writer = Nobody
    /\ w = Engine => ~live
    /\ w # Engine => live /\ holder = w
    /\ writer' = w
    /\ UNCHANGED <<generation, holder, live>>

End ==
    /\ writer' = Nobody
    /\ UNCHANGED <<generation, holder, live>>

Next ==
    \/ \E v \in Views : Grant(v)
    \/ Extend
    \/ Lapse
    \/ GiveUp
    \/ \E w \in Views \cup {Engine} : Begin(w)
    \/ End

Spec == Init /\ [][Next]_vars
=============================================================================
