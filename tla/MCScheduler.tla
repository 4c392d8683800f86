---------------------------- MODULE MCScheduler ----------------------------
(* Small instances of Scheduler for TLC.                                   *)
EXTENDS Scheduler

CONSTANTS core, daily

Star     == [star |-> TRUE, num |-> 0, slash |-> FALSE, step |-> 0]
At(n)   == [star |-> FALSE, num |-> n, slash |-> FALSE, step |-> 0]
Each(n) == [star |-> TRUE, num |-> 0, slash |-> TRUE, step |-> n]

EveryMinute == [f \in Fields |-> IF f = "min" THEN Each(1) ELSE Star]
Midnight    == [f \in Fields |-> IF f \in {"min", "hour"} THEN At(0) ELSE Star]

\* "*/1 * * * *" of the core's sync and "0 0 * * *" of the daily reset
Tabs  == [j \in Jobs |-> IF j = core THEN EveryMinute ELSE Midnight]

\* one minute to midnight, and midnight, of the last day of a week
Time(m, h, d, w) == [f \in Fields |-> CASE f = "min" -> m [] f = "hour" -> h
                       [] f = "mday" -> d [] f = "mon" -> 0 [] f = "wday" -> w]
Night == <<Time(59, 23, 30, 0), Time(0, 0, 31, 1)>>
===========================================================================
