----------------------------- MODULE MCTurnLedger -----------------------------
(* Instances of TurnLedger for TLC: which writes clients make and what     *)
(* Claude may do in each.                                                  *)
EXTENDS TurnLedger

Keys == AllChunks

Busy == [habits |-> {"leaves", "asks", "denies", "fails"}, slow |-> FALSE]
Unreported == [habits |-> {"loses", "typed_late", "unnamed"}, slow |-> TRUE]

\* Every hook arrives, in order and with its id, but possibly between two checks;
\* what a turn leaves running is told by its Stop.
Interleaved == [habits |-> {"leaves"}, slow |-> TRUE]

EachOne == {Busy, Unreported, Interleaved}
OnlyInterleaved == {Interleaved}
=============================================================================
