----------------------------- MODULE DerivedCells -----------------------------
(***************************************************************************)
(* What a dirty-cell queue promises, whatever drains it.                   *)
(*                                                                         *)
(* Every cell has an input, which others change at will, and a value       *)
(* derived from it, which is allowed to lag.  A cell that lags is pending; *)
(* a cell stops being pending only in a step that leaves its derived value *)
(* equal to its input, and a derived value never moves back to an older    *)
(* input.  The match queue (match_dirty_cells, from source rows to the     *)
(* <source>_unmatched rows) and the tile queue (tile_dirty_cells, from     *)
(* those rows to stored tiles) are both meant to be this.                  *)
(***************************************************************************)
EXTENDS Naturals

CONSTANT Cells

VARIABLES
  input,    \* input[c]: version of what the value of c is computed from
  derived,  \* derived[c]: the version the current value was computed from
  pending   \* the cells some queued work will recompute

vars == <<input, derived, pending>>

TypeOK ==
  /\ input \in [Cells -> Nat]
  /\ derived \in [Cells -> Nat]
  /\ pending \subseteq Cells

Init ==
  /\ input = [c \in Cells |-> 0]
  /\ derived = [c \in Cells |-> 0]
  /\ pending = {}

\* Inputs move on; each cell that changed becomes pending in the same step,
\* and a sweep may re-queue cells that did not change.
Change ==
  /\ input' \in [Cells -> Nat]
  /\ \A c \in Cells : input[c] <= input'[c]
  /\ pending' \subseteq Cells
  /\ pending \subseteq pending'
  /\ \A c \in Cells : input'[c] # input[c] => c \in pending'
  /\ UNCHANGED derived

\* Recomputed values move forward, at most up to the present input.
Refresh ==
  /\ derived' \in [Cells -> Nat]
  /\ \A c \in Cells : derived[c] <= derived'[c] /\ derived'[c] <= input[c]
  /\ pending' \subseteq pending
  /\ \A c \in pending \ pending' : derived'[c] = input[c]
  /\ UNCHANGED input

Next == Change \/ Refresh

Spec == Init /\ [][Next]_vars

\* No cell lags behind its input without being queued: the property that
\* makes a pushed, never-verified value safe to serve.
LaggingIsPending ==
  \A c \in Cells : derived[c] # input[c] => c \in pending
===============================================================================
