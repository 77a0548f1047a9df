----------------------------- MODULE OwedReturn -----------------------------
(* What an engine update promises to the workers it stops (the returns of  *)
(* ADR 0077), without engines, drains, sessions, lost answers or restarts: *)
(* a worker that was stopped is owed a return until it has come back; it   *)
(* is started for it at most once, and when that start fails, or may have  *)
(* failed, only somebody else brings the worker back.                      *)

CONSTANT Workers

VARIABLE due    \* what each worker is owed since an update stopped it

vars == due

Init == due = [w \in Workers |-> "nothing"]

\* An update stops these workers.
StopFor(S) ==
    /\ \A w \in S : due[w] = "nothing"
    /\ due' = [w \in Workers |-> IF w \in S THEN "owed" ELSE due[w]]

\* The one start that is made for a return.
Try(w) ==
    /\ due[w] = "owed"
    /\ due' = [due EXCEPT ![w] = "started"]

\* It failed, or nobody knows: an answer was lost, or whoever waited is gone.
Fall(S, how) ==
    /\ \A w \in S : due[w] = "started"
    /\ due' = [w \in Workers |-> IF w \in S THEN how ELSE due[w]]

\* It runs again, whoever started it, or was put to sleep.
ComeBack(w) == due' = [due EXCEPT ![w] = "nothing"]

Next ==
    \/ \E S \in SUBSET Workers :
          StopFor(S) \/ \E how \in {"failed", "unconfirmed"} : Fall(S, how)
    \/ \E w \in Workers : Try(w) \/ ComeBack(w)

Spec == Init /\ [][Next]_vars
=============================================================================
