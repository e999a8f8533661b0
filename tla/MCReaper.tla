----------------------------- MODULE MCReaper ------------------------------
EXTENDS Reaper, TLC

(* Two rows, of different months.                                          *)
MCRows == {1, 2}
MCMonthOf == [a \in MCRows |-> a]
=============================================================================
