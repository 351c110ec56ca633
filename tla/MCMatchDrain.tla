----------------------------- MODULE MCMatchDrain -----------------------------
(* Model values for checking MatchDrain with TLC. *)
EXTENDS MatchDrain, TLC

CONSTANTS c1, c2, f1, p1

MCCells == {c1, c2}
MCForeign == {f1}
MCProducers == {p1}
MCFlaky == {c1}
===============================================================================
