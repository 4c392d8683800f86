------------------------------ MODULE MCTasks ------------------------------
(* A small instance of Tasks for TLC.                                      *)
EXTENDS Tasks

CONSTANTS u1, u4, r3

\* a user with a daily limit, one with a balance, and a rule of the latter
\* with a monthly limit
Types  == [r \in Rows |-> CASE r = u1 -> 1 [] r = u4 -> 4 [] r = r3 -> 3]
Limits == [r \in Rows |-> IF r = u4 THEN -1 ELSE 0]
Owners == [r \in RuleRows |-> {u4}]

\* a day is one step; a week and a month are two, and end in turn
Ages   == [p \in Periods |-> IF p = "day" THEN 1 ELSE 2]
Dates  == [p \in Periods |->
             {t \in 1 .. (MaxTime + 2) :
                CASE p = "day" -> TRUE [] p = "week" -> t % 2 = 1 [] p = "month" -> t % 2 = 0}]
===========================================================================
