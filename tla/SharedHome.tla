------------------------------ MODULE SharedHome ------------------------------
(* What an Apiary promises about the home of a shared issue (ADRs 0027 and *)
(* 0032), without reservations, journals, offers or lost answers: an issue *)
(* that has a home keeps one, and the home is only ever exchanged for the  *)
(* one Hive that agreed to take the issue, whose agreement stands until it *)
(* has it.                                                                 *)
CONSTANTS Issues, Hives, None

VARIABLES
    home,       \* the Hive each issue belongs to, or None
    heir        \* the Hive that agreed to take it over, or None

vars == <<home, heir>>

Init ==
    /\ home = [i \in Issues |-> None]
    /\ heir = [i \in Issues |-> None]

Take(i, h) ==
    /\ home[i] = None
    /\ home' = [home EXCEPT ![i] = h]
    /\ UNCHANGED heir

Agree(i, h) ==
    /\ home[i] \in Hives \ {h}
    /\ heir[i] = None
    /\ heir' = [heir EXCEPT ![i] = h]
    /\ UNCHANGED home

HandOver(i) ==
    /\ heir[i] \in Hives
    /\ home' = [home EXCEPT ![i] = heir[i]]
    /\ heir' = [heir EXCEPT ![i] = None]

Next ==
    \E i \in Issues :
        \/ \E h \in Hives : Take(i, h) \/ Agree(i, h)
        \/ HandOver(i)

Spec == Init /\ [][Next]_vars
=============================================================================
