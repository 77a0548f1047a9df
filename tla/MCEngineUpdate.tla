-------------------------- MODULE MCEngineUpdate --------------------------
(* Two workers, one of which the supervisor starts whenever it is down.    *)
EXTENDS EngineUpdate
CONSTANTS w1, w2
TwoWorkers == {w1, w2}
One == {w1}
=============================================================================
