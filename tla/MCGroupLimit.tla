--------------------------- MODULE MCGroupLimit ---------------------------
(* A small instance of GroupLimit for TLC: a rule with a limit of one      *)
(* packet that the web interface adds, edits and deletes.  Rules share the *)
(* jobs' steps only, so one is enough for what is said of each.            *)
EXTENDS GroupLimit, TLC

Columns(t, b) == [type |-> t, onblocked |-> b]
TwoSettings == {Columns("day", FALSE), Columns("week", TRUE)}
Rows   == 1 :> Absent
Limits == 1 :> 1
===========================================================================
