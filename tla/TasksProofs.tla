---------------------------- MODULE TasksProofs ----------------------------
(***************************************************************************)
(* BytesKept, ReportComplete and ResetWithinTwoPeriods for any tables,     *)
(* schedules, attempts and failures.  None is inductive: the committed     *)
(* rows change with a commit, so the rows that a session has locked must   *)
(* be accounted for at each statement of its script, which relies on a     *)
(* row having at most one holder and on what nobody holds being committed; *)
(* and a reset that is due is either running or was not due since a time   *)
(* at which its stamp was younger than its period.                         *)
(***************************************************************************)
EXTENDS Tasks, SequenceTheorems, TLAPS

\* the bytes of a row that are in a column of the period, or were
Sum(row, p) == row.cur[p] + row.prev[p] + row.gone[p]

\* the bytes of the days that have ended
DaysEnded(row) == row.prev["day"] + row.gone["day"]

\* what the locked row r has beyond what was billed: the byte of the export under
\* way, or the column that was moved and is cleared next
Extra(s, r, p) ==
  IF s = r THEN 1
  ELSE IF Task(s) = p /\ Statement(s).op = "zero" /\ r \in Statement(s).tab
    THEN work[r].cur[p]
    ELSE 0

\* what was reported of a day that is not moved yet
Reported(s, r) ==
  IF Task(s) = "day" /\ Statement(s).op = "move" /\ r \in Statement(s).tab
    THEN work[r].cur["day"]
    ELSE 0

Covers(report, days) == IF ReportRollsBack THEN report = days ELSE report >= days

\* a session is inside its script
RunInv ==
  /\ \A s \in Sessions : Running(s) => at[s] \in 1 .. Len(Script(s))
  /\ Running("load") => loading # <<>>
  /\ phase = "down" => \A s \in Sessions : ~Running(s)

\* the statement relies on the one before, which took every row of the table
NeedsTable(s) ==
  LET q == Statement(s)
  IN  q.op = "zero" \/ (q.op = "move" /\ q.tab = RuleRows /\ Task(s) = "day")

\* A session holds rows only from the first statement of a transaction to its end,
\* the rule it exports among them.
HoldInv ==
  /\ \A s \in Sessions : Autocommit(s) \/ at[s] \in {0, 1} => held[s] = {}
  /\ \A s \in RuleRows : at[s] \notin {0, 1} => s \in held[s]
  /\ \A s \in Sessions : Running(s) /\ NeedsTable(s) => Statement(s).tab \subseteq held[s]

\* a row has at most one holder; a row that nobody holds is committed
LockInv ==
  /\ \A s, t \in Sessions : s # t => held[s] \cap held[t] = {}
  /\ \A r \in Rows : (\A s \in Sessions : r \notin held[s]) => work[r] = db[r]

\* the locked rows
WorkInv ==
  \A s \in Sessions : \A r \in held[s], p \in Moved :
    Sum(work[r], p) = billed[r] + Extra(s, r, p)

ReportInv ==
  /\ \A r \in Rows : work[r].report >= db[r].report
  /\ \A s \in Sessions : \A r \in held[s] \cap RuleRows :
       Covers(work[r].report, DaysEnded(work[r]) + Reported(s, r))

\* load has still to check the period
Pending(p) == \E k \in 1 .. Len(loading) : loading[k] = p

\* the reset was not due since a time at which it was no older than its period
Fresh(p) ==
  \E t \in 0 .. now :
    t - stamp[p] <= Age[p] /\ \A d \in Due[p] : ~(t < d /\ d <= now)

FreshInv ==
  \A p \in Periods \ spoilt :
    phase = "up" \/ (phase = "loading" /\ ~Pending(p)) => Fresh(p) \/ Running(p)

Ledger ==
  /\ TypeOK /\ RunInv /\ HoldInv /\ LockInv
  /\ WorkInv /\ BytesKept /\ ReportInv /\ ReportComplete

IInv == Ledger /\ FreshInv

---------------------------------------------------------------------------
(* Statements and scripts.                                                 *)

\* rows have no names of jobs
LEMMA Names ==
  /\ \A r \in Rows : r \notin Periods /\ r # "load" /\ r # "check"
  /\ \A s \in Sessions : s # "load" => Task(s) = s
BY TasksAssumption DEF Task

\* what a session works on
LEMMA TaskKinds ==
  ASSUME TypeOK, RunInv, NEW s \in Sessions, Running(s)
  PROVE  \/ Task(s) \in Periods /\ s \notin Rows /\ s # "check"
         \/ s = "check" /\ Task(s) = "check"
         \/ s \in UserRows /\ Task(s) = s
         \/ s \in RuleRows /\ Task(s) = s
<1>1. CASE s = "load"
  <2>1. loading # <<>> /\ loading \in Seq(Periods)
    BY <1>1 DEF RunInv, TypeOK
  <2>2. Head(loading) \in Periods
    BY <2>1, HeadTailProperties
  <2> QED
    BY <1>1, <2>2, Names DEF Task
<1>2. CASE s # "load"
  BY <1>2, Names DEF Sessions, Periods, UserRows
<1> QED
  BY <1>1, <1>2

\* the script of each kind
LEMMA Scripts ==
  ASSUME NEW s \in Sessions
  PROVE  /\ Task(s) = "day" => Script(s) = task_every_day
         /\ Task(s) = "week" => Script(s) = task_every_week
         /\ Task(s) = "month" => Script(s) = task_every_month
         /\ s = "check" => Script(s) = task_check_limit
         /\ s \in UserRows => Script(s) = users_mysql_export
         /\ s \in RuleRows => Script(s) = rules_mysql_export
<1>1. s \in UserRows \cup RuleRows => Task(s) = s /\ s \in Rows /\ s # "check"
  BY Names, TasksAssumption DEF UserRows
<1>2. s = "check" => Task(s) = "check"
  BY DEF Task
<1>3. Task(s) \in Periods => s # "check" /\ s \notin UserRows /\ s \notin RuleRows
  BY <1>1, <1>2, Names DEF Periods
<1>4. CASE Task(s) \in Periods
  BY <1>3, <1>4 DEF Script, Periods
<1>5. CASE Task(s) \notin Periods
  <2>1. CASE s = "check"
    BY <1>1, <1>2, <1>5, <2>1 DEF Script, Periods
  <2>2. CASE s \in UserRows
    BY <1>1, <1>5, <2>2 DEF Script, Periods, UserRows
  <2>3. CASE s \in RuleRows
    BY <1>1, <1>5, <2>3 DEF Script, Periods, UserRows
  <2> QED
    BY <1>5, <2>1, <2>2, <2>3 DEF Periods
<1> QED
  BY <1>4, <1>5

\* What the statement q of a session and the next one, n, can be: the transactions
\* end with their commit, a column is cleared right after it was moved, and a day is
\* moved right after it was reported.
ScriptFacts(s, q, k) ==
  /\ q.tab \in {UserRows, RuleRows}
  /\ k = 1 => q.op \in {"clear", "limit", "add"}
  /\ q.op \in {"clear", "move", "zero", "report", "add", "charge", "limit", "block", "commit"}
  /\ q.op \in {"move", "zero"} => Task(s) \in Moved /\ s \notin Rows
  /\ q.op = "clear" => Task(s) \in Periods /\ s \notin Rows
  /\ q.op = "report" => Task(s) = "day" /\ s \notin Rows /\ q.tab = RuleRows
  /\ q.op = "add" => s \in Rows /\ k = 1 /\ s \in q.tab
  /\ q.op = "charge" => s \in RuleRows /\ q.tab = UserRows
  /\ q.op \in {"limit", "block"} => s = "check"
  /\ q.op = "commit" => ~Autocommit(s)
  /\ ~Autocommit(s) /\ q.op # "commit" =>
       /\ k < Len(Script(s))
       /\ LET n == Script(s)[k + 1]
          IN  /\ n.op = "zero" <=> q.op = "move"
              /\ q.op = "move" => n.tab = q.tab
              /\ n.op = "move" /\ n.tab = RuleRows /\ Task(s) = "day" /\ RuleRows # UserRows
                   => q.op = "report"
              /\ q.op = "report" => n.op = "move" /\ n.tab = RuleRows

\* The statements of task_every_day: their kinds and order.
LEMMA DayScript ==
  ASSUME NEW s \in Sessions, Task(s) = "day", s \notin Rows, s # "check",
         NEW k \in 1 .. Len(task_every_day)
  PROVE  ScriptFacts(s, Script(s)[k], k)
<1>1. Len(task_every_day) = 8 /\ Script(s) = task_every_day
  BY Scripts DEF task_every_day
<1>2. ~Autocommit(s)
  BY DEF Autocommit, UserRows
<1>3. k \in {1, 2, 3, 4, 5, 6, 7, 8}
  BY <1>1
<1> QED
  BY <1>1, <1>2, <1>3 DEF ScriptFacts, task_every_day, U, R, Moved, Periods

\* The statements of task_every_week.
LEMMA WeekScript ==
  ASSUME NEW s \in Sessions, Task(s) = "week", s \notin Rows, s # "check",
         NEW k \in 1 .. Len(task_every_week)
  PROVE  ScriptFacts(s, Script(s)[k], k)
<1>1. Len(task_every_week) = 3 /\ Script(s) = task_every_week
  BY Scripts DEF task_every_week
<1>2. ~Autocommit(s)
  BY DEF Autocommit, UserRows
<1>3. k \in {1, 2, 3}
  BY <1>1
<1> QED
  BY <1>1, <1>2, <1>3 DEF ScriptFacts, task_every_week, U, R, Moved, Periods

\* The statements of task_every_month.
LEMMA MonthScript ==
  ASSUME NEW s \in Sessions, Task(s) = "month", s \notin Rows, s # "check",
         NEW k \in 1 .. Len(task_every_month)
  PROVE  ScriptFacts(s, Script(s)[k], k)
<1>1. Len(task_every_month) = 7 /\ Script(s) = task_every_month
  BY Scripts DEF task_every_month
<1>2. ~Autocommit(s)
  BY DEF Autocommit, UserRows
<1>3. k \in {1, 2, 3, 4, 5, 6, 7}
  BY <1>1
<1> QED
  BY <1>1, <1>2, <1>3 DEF ScriptFacts, task_every_month, U, R, Moved, Periods

\* The statements of task_check_limit move no bytes.
LEMMA CheckScript ==
  ASSUME NEW s \in Sessions, s = "check", NEW k \in 1 .. Len(task_check_limit)
  PROVE  ScriptFacts(s, Script(s)[k], k)
<1>1. Len(task_check_limit) = 4 /\ Script(s) = task_check_limit
  BY Scripts DEF task_check_limit
<1>2. Autocommit(s)
  BY DEF Autocommit
<1>3. k \in {1, 2, 3, 4}
  BY <1>1
<1> QED
  BY <1>1, <1>2, <1>3 DEF ScriptFacts, task_check_limit, U, R

\* The statements of an export of a user and of a rule.
LEMMA ExportScripts ==
  ASSUME NEW s \in Sessions, s \in Rows, NEW k \in 1 .. Len(Script(s))
  PROVE  ScriptFacts(s, Script(s)[k], k)
<1>1. CASE s \in UserRows
  <2>1. Script(s) = users_mysql_export
    BY <1>1, Scripts
  <2>4. Len(Script(s)) = 1
    BY <2>1 DEF users_mysql_export
  <2>2. Autocommit(s)
    BY <1>1 DEF Autocommit
  <2>3. k = 1
    BY <2>4
  <2> QED
    BY <1>1, <2>1, <2>2, <2>3 DEF ScriptFacts, users_mysql_export, U
<1>2. CASE s \in RuleRows
  <2>1. Script(s) = rules_mysql_export
    BY <1>2, Scripts
  <2>4. Len(Script(s)) = 3
    BY <2>1 DEF rules_mysql_export
  <2>2. ~Autocommit(s)
    BY <1>2, Names DEF Autocommit, UserRows
  <2>3. k \in {1, 2, 3}
    BY <2>4
  <2> QED
    BY <1>2, <2>1, <2>2, <2>3 DEF ScriptFacts, rules_mysql_export, U, R
<1> QED
  BY <1>1, <1>2 DEF UserRows

\* What a running session executes.
LEMMA EveryStatement ==
  ASSUME TypeOK, RunInv, NEW s \in Sessions, Running(s), NEW k \in 1 .. Len(Script(s))
  PROVE  ScriptFacts(s, Script(s)[k], k)
<1>1. CASE Task(s) \in Periods /\ s \notin Rows /\ s # "check"
  BY <1>1, Scripts, DayScript, WeekScript, MonthScript DEF Periods
<1>2. CASE s = "check"
  BY <1>2, Scripts, CheckScript
<1>3. CASE s \in Rows
  BY <1>3, ExportScripts
<1>4. UserRows \subseteq Rows /\ RuleRows \subseteq Rows
  BY TasksAssumption DEF UserRows
<1> QED
  BY <1>1, <1>2, <1>3, <1>4, TaskKinds

\* The next statement of a session that runs is one of its script.
LEMMA StatementFacts ==
  ASSUME TypeOK, RunInv, NEW s \in Sessions, Running(s)
  PROVE  at[s] \in 1 .. Len(Script(s)) /\ ScriptFacts(s, Statement(s), at[s])
<1>1. at[s] \in 1 .. Len(Script(s))
  BY DEF RunInv
<1> QED
  BY <1>1, EveryStatement DEF Statement

StatementsFit ==
  \A s \in Sessions : Running(s) => ScriptFacts(s, Statement(s), at[s])

\* The same for all sessions.
LEMMA AllStatements == TypeOK /\ RunInv => StatementsFit
BY StatementFacts DEF StatementsFit

---------------------------------------------------------------------------
(* What a statement makes of a row.                                        *)

\* nothing but the counter, the balance or onActive changes
SameColumns(e, row) ==
  e.cur = row.cur /\ e.prev = row.prev /\ e.gone = row.gone /\ e.report = row.report

\* Statements that leave the columns of bytes alone.
LEMMA EffectSame ==
  ASSUME NEW s, NEW q, NEW r \in Rows, work[r] \in Row,
         q.op \in {"clear", "charge", "limit", "block"}
  PROVE  Effect(s, q, r) \in Row /\ SameColumns(Effect(s, q, r), work[r])
<1>1. CASE q.op = "clear"
  BY <1>1 DEF Effect, Row, SameColumns
<1>2. CASE q.op = "charge"
  BY <1>2 DEF Effect, Row, SameColumns
<1>3. CASE q.op = "limit"
  <2>1. WithinLimit(r, work[r]) \in BOOLEAN
    <3>1. CASE Metered(r)
      BY <3>1, Zenon DEF WithinLimit
    <3>2. CASE ~Metered(r)
      BY <3>2 DEF WithinLimit
    <3> QED
      BY <3>1, <3>2
  <2>2. Effect(s, q, r) = [work[r] EXCEPT !.active = WithinLimit(r, work[r])]
    BY <1>3 DEF Effect
  <2> QED
    BY <2>1, <2>2 DEF Row, SameColumns
<1>4. CASE q.op = "block"
  BY <1>4 DEF Effect, Row, SameColumns
<1> QED
  BY <1>1, <1>2, <1>3, <1>4

\* YDay = TDay: the old YDay is gone, TDay is in both columns until it is cleared.
LEMMA EffectMove ==
  ASSUME NEW s, NEW q, NEW r \in Rows, work[r] \in Row, q.op = "move", Task(s) \in Moved
  PROVE  LET e == Effect(s, q, r) IN
         /\ e \in Row /\ e.cur = work[r].cur /\ e.report = work[r].report
         /\ Sum(e, Task(s)) = Sum(work[r], Task(s)) + e.cur[Task(s)]
         /\ \A p \in Moved : p # Task(s) => Sum(e, p) = Sum(work[r], p)
         /\ DaysEnded(e) = DaysEnded(work[r])
                             + IF Task(s) = "day" THEN work[r].cur["day"] ELSE 0
<1> DEFINE row == work[r]
           p == Task(s)
           e == Effect(s, q, r)
<1>1. e = [row EXCEPT !.prev[p] = row.cur[p], !.gone[p] = @ + row.prev[p]]
  BY DEF Effect
<1>2. /\ row.cur \in [Moved -> Nat] /\ row.prev \in [Moved -> Nat]
      /\ row.gone \in [Moved -> Nat]
  BY DEF Row
<1>3. /\ e.cur = row.cur /\ e.report = row.report
      /\ e.prev = [row.prev EXCEPT ![p] = row.cur[p]]
      /\ e.gone = [row.gone EXCEPT ![p] = @ + row.prev[p]]
  BY <1>1 DEF Row
<1>4. e \in Row
  <2>1. e.prev \in [Moved -> Nat] /\ e.gone \in [Moved -> Nat]
    BY <1>2, <1>3
  <2>2. e = [row EXCEPT !.prev = e.prev, !.gone = e.gone]
    BY <1>1 DEF Row
  <2> HIDE DEF e
  <2> QED
    BY <2>1, <2>2 DEF Row
<1>5. \A m \in Moved : /\ e.prev[m] = IF m = p THEN row.cur[m] ELSE row.prev[m]
                       /\ e.gone[m] = IF m = p THEN row.gone[m] + row.prev[m] ELSE row.gone[m]
                       /\ row.cur[m] \in Nat /\ row.prev[m] \in Nat /\ row.gone[m] \in Nat
  BY <1>2, <1>3
<1> HIDE DEF e, row
<1>6. \A m \in Moved : m # p => Sum(e, m) = Sum(row, m)
  BY <1>3, <1>5 DEF Sum
<1>7. Sum(e, p) = Sum(row, p) + e.cur[p]
  BY <1>3, <1>5 DEF Sum
<1>8. DaysEnded(e) = DaysEnded(row) + IF p = "day" THEN row.cur["day"] ELSE 0
  BY <1>5 DEF DaysEnded, Moved
<1> QED
  BY <1>3, <1>4, <1>6, <1>7, <1>8 DEF e, row

\* TDay = 0 takes the copy away that the move made.
LEMMA EffectZero ==
  ASSUME NEW s, NEW q, NEW r \in Rows, work[r] \in Row, q.op = "zero", Task(s) \in Moved
  PROVE  LET e == Effect(s, q, r) IN
         /\ e \in Row /\ e.report = work[r].report
         /\ e.prev = work[r].prev /\ e.gone = work[r].gone
         /\ Sum(e, Task(s)) = Sum(work[r], Task(s)) - work[r].cur[Task(s)]
         /\ \A p \in Moved : p # Task(s) => Sum(e, p) = Sum(work[r], p)
<1> DEFINE row == work[r]
           p == Task(s)
           e == Effect(s, q, r)
<1>1. e = [row EXCEPT !.cur[p] = 0]
  BY DEF Effect
<1>2. /\ row.cur \in [Moved -> Nat] /\ row.prev \in [Moved -> Nat]
      /\ row.gone \in [Moved -> Nat]
  BY DEF Row
<1>3. /\ e.report = row.report /\ e.prev = row.prev /\ e.gone = row.gone
      /\ e.cur = [row.cur EXCEPT ![p] = 0]
  BY <1>1 DEF Row
<1>4. e \in Row
  BY <1>1, <1>2 DEF Row
<1>5. \A m \in Moved : /\ e.cur[m] = IF m = p THEN 0 ELSE row.cur[m]
                       /\ row.cur[m] \in Nat /\ row.prev[m] \in Nat /\ row.gone[m] \in Nat
  BY <1>2, <1>3
<1> HIDE DEF e, row
<1>6. \A m \in Moved : m # p => Sum(e, m) = Sum(row, m)
  BY <1>3, <1>5 DEF Sum
<1>7. Sum(e, p) = Sum(row, p) - row.cur[p]
  BY <1>3, <1>5 DEF Sum
<1> QED
  BY <1>3, <1>4, <1>6, <1>7 DEF e, row

\* The insert into System_Report adds the day's bytes.
LEMMA EffectReport ==
  ASSUME NEW s, NEW q, NEW r \in Rows, work[r] \in Row, q.op = "report"
  PROVE  LET e == Effect(s, q, r) IN
         /\ e \in Row /\ e.report = work[r].report + work[r].cur["day"]
         /\ e.cur = work[r].cur /\ e.prev = work[r].prev /\ e.gone = work[r].gone
BY DEF Effect, Row, Moved

\* An export adds its byte to the columns of every period.
LEMMA EffectAdd ==
  ASSUME NEW s, NEW q, NEW r \in Rows, work[r] \in Row, q.op = "add"
  PROVE  LET e == Effect(s, q, r) IN
         /\ e \in Row /\ e.report = work[r].report
         /\ e.prev = work[r].prev /\ e.gone = work[r].gone
         /\ \A p \in Moved : Sum(e, p) = Sum(work[r], p) + 1
<1> DEFINE row == work[r]
           e == Effect(s, q, r)
<1>1. e = [row EXCEPT !.traffic = @ + 1, !.cur = [m \in Moved |-> @[m] + 1]]
  BY DEF Effect
<1>2. /\ row.cur \in [Moved -> Nat] /\ row.prev \in [Moved -> Nat]
      /\ row.gone \in [Moved -> Nat]
  BY DEF Row
<1>3. /\ e.report = row.report /\ e.prev = row.prev /\ e.gone = row.gone
      /\ e.cur = [m \in Moved |-> row.cur[m] + 1]
  BY <1>1 DEF Row
<1>4. e \in Row
  <2>1. e.cur \in [Moved -> Nat] /\ row.traffic + 1 \in Nat
    BY <1>2, <1>3 DEF Row
  <2>2. e = [row EXCEPT !.traffic = row.traffic + 1, !.cur = e.cur]
    BY <1>1 DEF Row
  <2> HIDE DEF e
  <2> QED
    BY <2>1, <2>2 DEF Row
<1>5. \A m \in Moved : /\ e.cur[m] = row.cur[m] + 1
                       /\ row.cur[m] \in Nat /\ row.prev[m] \in Nat /\ row.gone[m] \in Nat
  BY <1>2, <1>3
<1> HIDE DEF e, row
<1>6. \A m \in Moved : Sum(e, m) = Sum(row, m) + 1
  BY <1>3, <1>5 DEF Sum
<1> QED
  BY <1>3, <1>4, <1>6 DEF e, row

---------------------------------------------------------------------------
(* The steps that start sessions, and those of the calendar.               *)

\* a session keeps its script as long as load stays at its period
LEMMA SameScript ==
  ASSUME NEW t \in Sessions, t # "load" \/ loading' = loading
  PROVE  Task(t)' = Task(t) /\ Script(t)' = Script(t)
<1>1. Task(t)' = Task(t)
  BY DEF Task
<1> QED
  BY <1>1 DEF Script

\* a script has a first statement
LEMMA ScriptStarts ==
  ASSUME NEW s \in Sessions, s = "load" => loading \in Seq(Periods) /\ loading # <<>>
  PROVE  1 \in 1 .. Len(Script(s))
<1>1. Task(s) \in Periods \/ s = "check" \/ s \in UserRows \/ s \in RuleRows
  BY HeadTailProperties DEF Task, Sessions, UserRows
<1>2. /\ Len(task_every_day) = 8 /\ Len(task_every_week) = 3 /\ Len(task_every_month) = 7
      /\ Len(task_check_limit) = 4 /\ Len(users_mysql_export) = 1
      /\ Len(rules_mysql_export) = 3
  BY DEF task_every_day, task_every_week, task_every_month, task_check_limit,
         users_mysql_export, rules_mysql_export
<1>3. \/ Script(s) = task_every_day \/ Script(s) = task_every_week
      \/ Script(s) = task_every_month \/ Script(s) = task_check_limit
      \/ Script(s) = users_mysql_export \/ Script(s) = rules_mysql_export
  BY <1>1, Scripts DEF Periods
<1>4. Len(Script(s)) \in {8, 3, 7, 4, 1}
  BY <1>2, <1>3
<1>5. \A n \in {8, 3, 7, 4, 1} : 1 \in 1 .. n
  OBVIOUS
<1> QED
  BY <1>4, <1>5

\* sessions start, or none does; load moves on only while it has no session
Starting ==
  /\ UNCHANGED <<db, work, held, billed>>
  /\ \A s \in Sessions : at'[s] = at[s] \/ (at[s] = 0 /\ at'[s] = 1)
  /\ loading' = loading \/ (at["load"] = 0 /\ at'["load"] = 0)

\* a session that holds rows goes on
LEMMA HolderGoesOn ==
  ASSUME Ledger, Starting, NEW s \in Sessions, held[s] # {}
  PROVE  /\ at'[s] = at[s] /\ at[s] \notin {0, 1}
         /\ Task(s)' = Task(s) /\ Statement(s)' = Statement(s)
<1>1. at[s] \notin {0, 1}
  BY DEF Ledger, HoldInv
<1>2. at'[s] = at[s] /\ (s # "load" \/ loading' = loading)
  BY <1>1 DEF Starting
<1>3. Task(s)' = Task(s) /\ Script(s)' = Script(s)
  BY <1>2, SameScript
<1> QED
  BY <1>1, <1>2, <1>3 DEF Statement

\* The starts leave the accounts alone.
LEMMA StartingKeeps ==
  ASSUME Ledger, Starting, TypeOK', phase' = "down" => \A s \in Sessions : at'[s] = 0,
         at'["load"] # 0 => loading' # <<>>
  PROVE  Ledger'
<1>1. \A s \in Sessions : \A r \in held[s], p \in Moved : Extra(s, r, p)' = Extra(s, r, p)
  <2> TAKE s \in Sessions
  <2> TAKE r \in held[s], p \in Moved
  <2>1. Task(s)' = Task(s) /\ Statement(s)' = Statement(s)
    BY HolderGoesOn
  <2> QED
    BY <2>1 DEF Extra, Starting
<1>2. \A s \in Sessions : \A r \in held[s] : Reported(s, r)' = Reported(s, r)
  <2> TAKE s \in Sessions
  <2> TAKE r \in held[s]
  <2>1. Task(s)' = Task(s) /\ Statement(s)' = Statement(s)
    BY HolderGoesOn
  <2> QED
    BY <2>1 DEF Reported, Starting
<1>3. WorkInv' /\ BytesKept'
  BY <1>1 DEF Ledger, WorkInv, BytesKept, Starting
<1>4. ReportInv' /\ ReportComplete' /\ LockInv'
  BY <1>2 DEF Ledger, ReportInv, ReportComplete, LockInv, Starting
<1>5. RunInv'
  <2>1. ASSUME NEW s \in Sessions, at'[s] # 0 PROVE at'[s] \in 1 .. Len(Script(s)')
    <3>1. CASE at'[s] = at[s]
      <4>1. s # "load" \/ loading' = loading
        BY <2>1, <3>1 DEF Starting
      <4>2. Script(s)' = Script(s)
        BY <4>1, SameScript
      <4>3. at[s] \in 1 .. Len(Script(s))
        BY <2>1, <3>1 DEF Ledger, RunInv, Running
      <4> QED
        BY <3>1, <4>2, <4>3
    <3>2. CASE at'[s] = 1
      <4>1. s = "load" => loading' = loading /\ loading # <<>> /\ loading \in Seq(Periods)
        BY <3>2 DEF Starting, Ledger, TypeOK
      <4>2. 1 \in 1 .. Len(Script(s))
        BY <4>1, ScriptStarts
      <4>3. Script(s)' = Script(s)
        BY <4>1, SameScript
      <4> QED
        BY <3>2, <4>2, <4>3
    <3> QED
      BY <3>1, <3>2 DEF Starting
  <2> QED
    BY <2>1 DEF RunInv, Running
<1>6. HoldInv'
  <2>1. \A s \in Sessions : Autocommit(s) \/ at'[s] \in {0, 1} => held'[s] = {}
    BY HolderGoesOn DEF Ledger, HoldInv, Starting
  <2>2. \A s \in RuleRows : at'[s] \notin {0, 1} => s \in held'[s]
    BY TasksAssumption DEF Ledger, HoldInv, Starting, Sessions
  <2>3. ASSUME NEW s \in Sessions, at'[s] # 0, NeedsTable(s)'
        PROVE  Statement(s)'.tab \subseteq held[s]
    <3>1. CASE at'[s] = at[s]
      <4>1. s # "load" \/ loading' = loading
        BY <2>3, <3>1 DEF Starting
      <4>2. Task(s)' = Task(s) /\ Script(s)' = Script(s)
        BY <4>1, SameScript
      <4>3. Statement(s)' = Statement(s) /\ NeedsTable(s)
        BY <2>3, <3>1, <4>2 DEF Statement, NeedsTable
      <4> QED
        BY <2>3, <3>1, <4>3 DEF Ledger, HoldInv, Running
    <3>2. CASE at'[s] = 1
      <4>1. StatementsFit'
        BY <1>5, AllStatements, PTL
      <4>2. ScriptFacts(s, Statement(s), at[s])'
        BY <3>2, <4>1 DEF StatementsFit, Running
      <4>3. Statement(s)'.op \in {"clear", "limit", "add"}
        BY <3>2, <4>2 DEF ScriptFacts
      <4> QED
        BY <2>3, <4>3 DEF NeedsTable
    <3> QED
      BY <3>1, <3>2 DEF Starting
  <2> QED
    BY <2>1, <2>2, <2>3 DEF HoldInv, Running, Starting, Autocommit
<1> QED
  BY <1>3, <1>4, <1>5, <1>6 DEF Ledger

\* Fresh is about the clock and the stamp only.
LEMMA FreshSame ==
  ASSUME NEW p \in Periods, now' = now, stamp'[p] = stamp[p]
  PROVE  Fresh(p)' <=> Fresh(p)
BY DEF Fresh

\* A stamp of now is fresh.
LEMMA FreshNow ==
  ASSUME NEW p \in Periods, now' \in Nat, now' - stamp'[p] <= Age[p]
  PROVE  Fresh(p)'
<1>1. now' \in 0 .. now'
  OBVIOUS
<1>2. \A d \in Due[p] : ~(now' < d /\ d <= now')
  BY TasksAssumption
<1> QED
  BY <1>1, <1>2 DEF Fresh

\* Ages and due times are numbers.
LEMMA AgeNat == \A p \in Periods : Age[p] \in Nat /\ Due[p] \subseteq Nat
BY TasksAssumption

\* The clock: a reset that is due starts, the others stay fresh.
LEMMA TickKeeps == ASSUME IInv, Tick PROVE IInv'
<1> DEFINE S == IF phase = "down" THEN {} ELSE {p \in Periods : now' \in Due[p]}
<1>1. /\ now < MaxTime /\ now' = now + 1 /\ \A s \in Sessions \ {"load"} : at[s] = 0
      /\ at' = [s \in Sessions |-> IF s \in S THEN 1 ELSE at[s]]
      /\ UNCHANGED <<left, held, phase, dbVars, blocked, loading, exports, events, histVars>>
  BY DEF Tick, Begin, Quiet, Running
<1>2. S \subseteq Sessions \ {"load"} /\ (phase = "down" => S = {})
  BY DEF Sessions, Periods
<1> HIDE DEF S
<1>3. TypeOK'
  <2>1. now' \in 0 .. MaxTime
    BY <1>1, TasksAssumption DEF IInv, Ledger, TypeOK
  <2>2. at' \in [Sessions -> Nat]
    BY <1>1 DEF IInv, Ledger, TypeOK
  <2> QED
    BY <1>1, <2>1, <2>2 DEF IInv, Ledger, TypeOK, dbVars, histVars
<1>4. Starting
  BY <1>1, <1>2 DEF Starting, dbVars, histVars
<1>5. phase' = "down" => \A s \in Sessions : at'[s] = 0
  BY <1>1, <1>2 DEF IInv, Ledger, RunInv, Running
<1>6. at'["load"] # 0 => loading' # <<>>
  BY <1>1, <1>2 DEF IInv, Ledger, RunInv, Running, Sessions
<1>7. Ledger'
  BY <1>3, <1>4, <1>5, <1>6, StartingKeeps DEF IInv
<1>8. FreshInv'
  <2> SUFFICES ASSUME NEW p \in Periods \ spoilt, at'[p] = 0,
                      phase = "up" \/ (phase = "loading" /\ ~Pending(p))
               PROVE  Fresh(p)'
    BY <1>1 DEF FreshInv, Running, Pending, histVars
  <2>1. p \in Sessions /\ p # "load" /\ at[p] = 0
    BY <1>1 DEF Sessions, Periods
  <2>2. Fresh(p)
    BY <2>1 DEF IInv, FreshInv, Running
  <2>3. now' \notin Due[p]
    BY <1>1, <2>1 DEF S
  <2>4. PICK t \in 0 .. now : t - stamp[p] <= Age[p] /\ \A d \in Due[p] : ~(t < d /\ d <= now)
    BY <2>2 DEF Fresh
  <2>5. now \in Nat /\ now' = now + 1 /\ stamp' = stamp /\ Due[p] \subseteq Nat
    BY <1>1, AgeNat DEF IInv, Ledger, TypeOK, dbVars
  <2>6. t \in 0 .. now' /\ \A d \in Due[p] : ~(t < d /\ d <= now')
    BY <2>3, <2>4, <2>5
  <2> QED
    BY <2>4, <2>5, <2>6 DEF Fresh
<1> QED
  BY <1>7, <1>8 DEF IInv

\* A session starts that is not of a period.
LEMMA StartKeeps ==
  ASSUME IInv, StartCheck \/ \E r \in Rows : StartExport(r)
  PROVE  IInv'
<1>1. PICK s \in {"check"} \cup Rows : at[s] = 0 /\ Begin({s}) /\ phase # "down"
  BY DEF StartCheck, StartExport, Running
<1>2. /\ UNCHANGED <<phase, now, dbVars, blocked, loading, events, histVars, left, held>>
      /\ exports' \in {exports, exports + 1} /\ s \in Sessions /\ s \notin Periods \cup {"load"}
      /\ at' = [x \in Sessions |-> IF x = s THEN 1 ELSE at[x]]
  BY <1>1, Names DEF StartCheck, StartExport, Begin, Sessions, Periods
<1>3. TypeOK'
  <2>1. at' \in [Sessions -> Nat] /\ exports' \in Nat
    BY <1>2 DEF IInv, Ledger, TypeOK
  <2> QED
    BY <1>2, <2>1 DEF IInv, Ledger, TypeOK, dbVars, histVars
<1>4. Starting
  BY <1>1, <1>2 DEF Starting, dbVars, histVars
<1>5. (phase' = "down" => \A x \in Sessions : at'[x] = 0) /\ (at'["load"] # 0 => loading' # <<>>)
  BY <1>1, <1>2 DEF IInv, Ledger, RunInv, Running, Sessions
<1>6. Ledger'
  BY <1>3, <1>4, <1>5, StartingKeeps DEF IInv
<1>7. FreshInv'
  <2> SUFFICES ASSUME NEW p \in Periods \ spoilt, at'[p] = 0,
                      phase = "up" \/ (phase = "loading" /\ ~Pending(p))
               PROVE  Fresh(p)'
    BY <1>2 DEF FreshInv, Running, Pending, histVars
  <2>1. Fresh(p)
    BY <1>2 DEF IInv, FreshInv, Running, Sessions
  <2> QED
    BY <1>2, <2>1, FreshSame DEF dbVars
<1> QED
  BY <1>6, <1>7 DEF IInv

\* The web interface, a stutter, and load when it is done or begins.
LEMMA OtherKeeps ==
  ASSUME IInv, UNCHANGED vars \/ Loaded \/ Start \/ \E r \in Rows : Block(r)
  PROVE  IInv'
<1>1. /\ UNCHANGED <<now, dbVars, sesVars, exports, histVars>>
      /\ blocked' \subseteq Rows /\ events' \in Nat
      /\ \/ UNCHANGED <<phase, loading>>
         \/ phase = "loading" /\ loading = <<>> /\ phase' = "up" /\ loading' = loading
         \/ phase = "down" /\ phase' = "loading" /\ loading' = <<"day", "week", "month">>
  BY DEF vars, Loaded, Start, Block, IInv, Ledger, TypeOK
<1>2. TypeOK' /\ UNCHANGED <<at, held, left>>
  <2>1. phase' \in {"down", "loading", "up"}
    BY <1>1 DEF IInv, Ledger, TypeOK
  <2>2. <<"day", "week", "month">> \in Seq(Periods)
    BY DEF Periods
  <2>3. loading' \in Seq(Periods)
    BY <1>1, <2>2 DEF IInv, Ledger, TypeOK
  <2> QED
    BY <1>1, <2>1, <2>3 DEF IInv, Ledger, TypeOK, dbVars, sesVars, histVars
<1>3. "load" \in Sessions
  BY DEF Sessions
<1>4. Starting
  BY <1>1, <1>2, <1>3 DEF Starting, dbVars, histVars, IInv, Ledger, RunInv, Running
<1>5. (phase' = "down" => \A x \in Sessions : at'[x] = 0) /\ (at'["load"] # 0 => loading' # <<>>)
  BY <1>1, <1>2, <1>3 DEF IInv, Ledger, RunInv, Running
<1>6. Ledger'
  BY <1>2, <1>4, <1>5, StartingKeeps DEF IInv
<1>7. FreshInv'
  <2> SUFFICES ASSUME NEW p \in Periods \ spoilt, at[p] = 0,
                      phase' = "up" \/ (phase' = "loading" /\ ~Pending(p)')
               PROVE  Fresh(p)'
    BY <1>1, <1>2 DEF FreshInv, Running, histVars
  <2>1. phase = "up" \/ (phase = "loading" /\ ~Pending(p))
    <3>1. CASE UNCHANGED <<phase, loading>>
      BY <3>1 DEF Pending
    <3>2. CASE phase = "loading" /\ loading = <<>> /\ phase' = "up" /\ loading' = loading
      BY <3>2 DEF Pending
    <3>3. CASE phase = "down" /\ phase' = "loading" /\ loading' = <<"day", "week", "month">>
      <4>1. \E k \in 1 .. 3 : <<"day", "week", "month">>[k] = p
        BY DEF Periods
      <4>2. Pending(p)'
        BY <3>3, <4>1 DEF Pending
      <4> QED
        BY <3>3, <4>2
    <3> QED
      BY <1>1, <3>1, <3>2, <3>3
  <2>2. Fresh(p)
    BY <2>1 DEF IInv, FreshInv, Running
  <2> QED
    BY <1>1, <2>2, FreshSame DEF dbVars
<1> QED
  BY <1>6, <1>7 DEF IInv

\* what load has still to check, after it has moved on
LEMMA PendingTail ==
  ASSUME NEW p \in Periods, loading \in Seq(Periods), loading # <<>>,
         loading' = Tail(loading), p # Head(loading), Pending(p)
  PROVE  Pending(p)'
<1>1. PICK k \in 1 .. Len(loading) : loading[k] = p
  BY DEF Pending
<1>2. /\ Len(Tail(loading)) = Len(loading) - 1 /\ Head(loading) = loading[1]
      /\ \A j \in 1 .. Len(Tail(loading)) : Tail(loading)[j] = loading[j + 1]
      /\ Len(loading) \in Nat
  BY HeadTailProperties
<1>3. k - 1 \in 1 .. Len(Tail(loading)) /\ k = (k - 1) + 1
  BY <1>1, <1>2
<1>4. Tail(loading)[k - 1] = p
  BY <1>1, <1>2, <1>3
<1> QED
  BY <1>3, <1>4 DEF Pending

\* load checks a period: it is late, or fresh, or the query failed.
LEMMA CheckKeeps == ASSUME IInv, check_correct PROVE IInv'
<1>1. /\ phase = "loading" /\ at["load"] = 0 /\ loading # <<>>
      /\ UNCHANGED <<phase, now, dbVars, blocked, exports, billed>>
      /\ loading \in Seq(Periods) /\ Head(loading) \in Periods /\ "load" \in Sessions
      /\ Tail(loading) \in Seq(Periods)
  <2>1. loading \in Seq(Periods) /\ loading # <<>>
    BY DEF check_correct, IInv, Ledger, TypeOK
  <2>2. Head(loading) \in Periods /\ Tail(loading) \in Seq(Periods)
    BY <2>1, HeadTailProperties
  <2> QED
    BY <2>1, <2>2 DEF check_correct, Running, Sessions
<1>2. \/ Begin({"load"}) /\ UNCHANGED <<loading, events, spoilt>>
      \/ /\ loading' = Tail(loading) /\ UNCHANGED <<sesVars, events, spoilt>>
         /\ \E late \in Overdue(Head(loading)) : ~late
      \/ /\ loading' = Tail(loading) /\ UNCHANGED sesVars /\ events' = events + 1
         /\ spoilt' = spoilt \cup {Head(loading)}
  BY DEF check_correct
<1>3. /\ UNCHANGED <<left, held>> /\ loading' \in {loading, Tail(loading)}
      /\ events' \in {events, events + 1} /\ spoilt' \in {spoilt, spoilt \cup {Head(loading)}}
      /\ at' = at \/ at' = [s \in Sessions |-> IF s \in {"load"} THEN 1 ELSE at[s]]
      /\ at' # at => loading' = loading
  BY <1>2 DEF Begin, sesVars
<1>4. TypeOK'
  <2>1. at' \in [Sessions -> Nat]
    BY <1>3 DEF IInv, Ledger, TypeOK
  <2>2. events \in Nat /\ spoilt \subseteq Periods
    BY DEF IInv, Ledger, TypeOK
  <2>3. events' \in Nat /\ spoilt' \subseteq Periods
    BY <1>1, <1>3, <2>2
  <2>4. loading' \in Seq(Periods)
    BY <1>1, <1>3
  <2> QED
    BY <1>1, <1>3, <2>1, <2>3, <2>4 DEF IInv, Ledger, TypeOK, dbVars
<1>5. Starting
  BY <1>1, <1>3 DEF Starting, dbVars, IInv, Ledger, TypeOK
<1>6. (phase' = "down" => \A x \in Sessions : at'[x] = 0) /\ (at'["load"] # 0 => loading' # <<>>)
  BY <1>1, <1>3
<1>7. Ledger'
  BY <1>4, <1>5, <1>6, StartingKeeps DEF IInv
<1>8. FreshInv'
  <2> SUFFICES ASSUME NEW p \in Periods \ spoilt', at'[p] = 0, ~Pending(p)'
               PROVE  Fresh(p)'
    BY <1>1 DEF FreshInv, Running
  <2>1. p \in Sessions /\ p # "load" /\ p \notin spoilt /\ at[p] = 0
    BY <1>3 DEF Sessions, Periods, IInv, Ledger, TypeOK
  <2>2. ~Pending(p) => Fresh(p)'
    BY <1>1, <2>1, FreshSame DEF IInv, FreshInv, Running, dbVars
  <2>3. CASE loading' = loading
    BY <2>2, <2>3 DEF Pending
  <2>4. CASE loading' = Tail(loading) /\ p # Head(loading)
    BY <1>1, <2>2, <2>4, PendingTail
  <2>5. CASE loading' = Tail(loading) /\ p = Head(loading) /\ loading' # loading
    <3>1. \E late \in Overdue(p) : ~late
      BY <1>2, <2>5
    <3>2. now \in Nat /\ stamp[p] \in Int /\ Age[p] \in Nat
      BY AgeNat DEF IInv, Ledger, TypeOK
    <3>3. ~(now - stamp[p] > Age[p]) \/ ~(now - stamp[p] >= Age[p])
      BY <3>1, Zenon DEF Overdue
    <3>4. now - stamp[p] <= Age[p]
      BY <3>2, <3>3
    <3> QED
      BY <1>1, <3>2, <3>4, FreshNow DEF dbVars
  <2> QED
    BY <1>3, <2>3, <2>4, <2>5
<1> QED
  BY <1>7, <1>8 DEF IInv

\* A stop: what was not committed is gone, with all sessions.
LEMMA StopKeeps == ASSUME IInv, Stop PROVE IInv'
<1>1. /\ phase' = "down" /\ work' = db /\ at' = [s \in Sessions |-> 0]
      /\ left' = [s \in Sessions |-> Tries] /\ held' = [s \in Sessions |-> {}]
      /\ loading' = <<>> /\ events' = events + 1
      /\ UNCHANGED <<now, db, stamp, blocked, exports, spoilt, billed>>
  BY DEF Stop, histVars
<1>2. TypeOK'
  BY <1>1, TasksAssumption DEF IInv, Ledger, TypeOK
<1>3. RunInv' /\ HoldInv' /\ LockInv' /\ WorkInv' /\ FreshInv'
  BY <1>1, TasksAssumption
  DEF RunInv, HoldInv, LockInv, WorkInv, FreshInv, Running, Sessions
<1>4. BytesKept' /\ ReportComplete'
  BY <1>1 DEF IInv, Ledger, BytesKept, ReportComplete
<1>5. ReportInv'
  <2>1. \A r \in Rows : db[r].report \in Nat
    BY DEF IInv, Ledger, TypeOK, Row
  <2> QED
    BY <1>1, <2>1 DEF ReportInv
<1> QED
  BY <1>2, <1>3, <1>4, <1>5 DEF IInv, Ledger

---------------------------------------------------------------------------
(* The steps of a session.                                                 *)

\* the invariants, of one session
SessionOk(s) ==
  /\ Running(s) => at[s] \in 1 .. Len(Script(s))
  /\ Autocommit(s) \/ at[s] \in {0, 1} => held[s] = {}
  /\ s \in RuleRows /\ at[s] \notin {0, 1} => s \in held[s]
  /\ Running(s) /\ NeedsTable(s) => Statement(s).tab \subseteq held[s]
  /\ \A r \in held[s], p \in Moved : Sum(work[r], p) = billed[r] + Extra(s, r, p)
  /\ \A r \in held[s] \cap RuleRows :
       Covers(work[r].report, DaysEnded(work[r]) + Reported(s, r))

\* a step of s leaves the rows of the other sessions alone
SessionStep(s) ==
  /\ Running(s) /\ phase' = phase
  /\ \A t \in Sessions \ {s} : at'[t] = at[t] /\ held'[t] = held[t]
  /\ \A t \in Sessions \ {s} : \A r \in held[t] : work'[r] = work[r] /\ billed'[r] = billed[r]
  /\ loading' = loading \/ (s = "load" /\ at'[s] = 0)

\* What a session does says nothing new about the rows of another.
LEMMA OthersOk ==
  ASSUME Ledger, NEW s \in Sessions, SessionStep(s), NEW t \in Sessions, t # s
  PROVE  SessionOk(t)'
<1>1. Task(t)' = Task(t) /\ Script(t)' = Script(t)
  BY SameScript DEF SessionStep
<1>2. at'[t] = at[t] /\ held'[t] = held[t]
  BY DEF SessionStep
<1>3. Statement(t)' = Statement(t)
  BY <1>1, <1>2 DEF Statement
<1>4. \A r \in held[t] : work'[r] = work[r] /\ billed'[r] = billed[r]
  BY DEF SessionStep
<1>5. \A r \in held[t], p \in Moved : Sum(work[r], p)' = (billed[r] + Extra(t, r, p))'
  <2> TAKE r \in held[t], p \in Moved
  <2>1. Extra(t, r, p)' = Extra(t, r, p)
    BY <1>1, <1>3, <1>4 DEF Extra
  <2>2. Sum(work[r], p) = billed[r] + Extra(t, r, p)
    BY DEF Ledger, WorkInv
  <2> QED
    BY <1>4, <2>1, <2>2 DEF Sum
<1>6. \A r \in held[t] \cap RuleRows :
        Covers(work'[r].report, DaysEnded(work[r])' + Reported(t, r)')
  <2> TAKE r \in held[t] \cap RuleRows
  <2>1. Reported(t, r)' = Reported(t, r) /\ work'[r] = work[r]
    BY <1>1, <1>3, <1>4 DEF Reported
  <2> QED
    BY <2>1 DEF Ledger, ReportInv, DaysEnded
<1>7. /\ at'[t] # 0 => at'[t] \in 1 .. Len(Script(t)')
      /\ Autocommit(t) \/ at'[t] \in {0, 1} => held'[t] = {}
      /\ t \in RuleRows /\ at'[t] \notin {0, 1} => t \in held'[t]
  BY <1>1, <1>2 DEF Ledger, RunInv, HoldInv, Running
<1>8. at'[t] # 0 /\ NeedsTable(t)' => Statement(t)'.tab \subseteq held'[t]
  <2>1. NeedsTable(t)' => NeedsTable(t)
    BY <1>1, <1>3 DEF NeedsTable
  <2> QED
    BY <1>2, <1>3, <2>1 DEF Ledger, HoldInv, Running
<1> QED
  BY <1>2, <1>5, <1>6, <1>7, <1>8 DEF SessionOk, Running, Autocommit, Covers

\* a session that has released its rows: it has ended, begins again, or is check_limit
LEMMA ReleasedOk ==
  ASSUME Ledger, NEW s \in Sessions, SessionStep(s), held'[s] = {},
         at'[s] \in {0, 1} \/ (s = "check" /\ at'[s] \in 1 .. Len(Script(s)))
  PROVE  SessionOk(s)'
<1>1. CASE at'[s] = 0
  BY <1>1, TasksAssumption DEF SessionOk, Running
<1>2. CASE at'[s] # 0
  <2>1. Task(s)' = Task(s) /\ Script(s)' = Script(s)
    BY <1>2, SameScript DEF SessionStep
  <2>2. TypeOK /\ RunInv /\ Running(s)
    BY DEF Ledger, SessionStep
  <2>3. at[s] \in 1 .. Len(Script(s))
    BY <2>2, StatementFacts
  <2>4. 1 \in 1 .. Len(Script(s))
    BY <2>3
  <2>5. at'[s] \in 1 .. Len(Script(s))
    BY <1>2, <2>4
  <2>6. ScriptFacts(s, Script(s)[at'[s]], at'[s])
    BY <2>2, <2>5, EveryStatement
  <2>7. Statement(s)' = Script(s)[at'[s]]
    BY <2>1 DEF Statement
  <2>8. Statement(s)'.op \notin {"zero", "move"}
    <3>1. CASE at'[s] = 1
      BY <2>6, <2>7, <3>1 DEF ScriptFacts
    <3>2. CASE s = "check"
      <4>1. Task(s) = "check"
        BY <3>2 DEF Task
      <4> QED
        BY <2>6, <2>7, <4>1 DEF ScriptFacts, Moved
    <3> QED
      BY <1>2, <3>1, <3>2
  <2>9. s \in RuleRows => s # "check"
    BY Names, TasksAssumption
  <2> QED
    BY <2>1, <2>5, <2>8, <2>9 DEF SessionOk, NeedsTable
<1> QED
  BY <1>1, <1>2

\* The invariants from those of the sessions.
LEMMA SessionKeeps ==
  ASSUME Ledger, NEW s \in Sessions, SessionStep(s), SessionOk(s)', TypeOK', LockInv',
         BytesKept', ReportComplete', \A r \in Rows : work'[r].report >= db'[r].report
  PROVE  Ledger'
<1>1. \A t \in Sessions : SessionOk(t)'
  BY OthersOk
<1>2. RuleRows \subseteq Sessions /\ "load" \in Sessions
  BY TasksAssumption DEF Sessions
<1>3. RunInv'
  <2>1. at'["load"] # 0 => loading' # <<>>
    <3>1. CASE s = "load"
      BY <3>1 DEF SessionStep, Ledger, RunInv
    <3>2. CASE s # "load"
      BY <1>2, <3>2 DEF SessionStep, Ledger, RunInv, Running
    <3> QED
      BY <3>1, <3>2
  <2>2. phase' # "down"
    BY DEF SessionStep, Ledger, RunInv
  <2> QED
    BY <1>1, <2>1, <2>2 DEF RunInv, SessionOk, Running
<1>4. HoldInv' /\ WorkInv' /\ ReportInv'
  BY <1>1, <1>2 DEF HoldInv, WorkInv, ReportInv, SessionOk
<1> QED
  BY <1>3, <1>4 DEF Ledger

\* a session ends
LEMMA EndedTypes ==
  ASSUME Ledger, NEW s \in Sessions, Running(s), Ended(s)
  PROVE  /\ at' \in [Sessions -> Nat] /\ left' \in [Sessions -> 1 .. Tries]
         /\ held' \in [Sessions -> SUBSET Rows] /\ loading' \in Seq(Periods)
         /\ at'[s] = 0 /\ held'[s] = {}
         /\ \A t \in Sessions \ {s} : at'[t] = at[t] /\ held'[t] = held[t]
         /\ loading' = IF s = "load" THEN Tail(loading) ELSE loading
<1>1. /\ at \in [Sessions -> Nat] /\ left \in [Sessions -> 1 .. Tries]
      /\ held \in [Sessions -> SUBSET Rows] /\ loading \in Seq(Periods)
      /\ s = "load" => loading # <<>>
  BY DEF Ledger, TypeOK, RunInv
<1>2. Tries \in 1 .. Tries
  BY TasksAssumption
<1>3. loading' \in Seq(Periods)
  BY <1>1, HeadTailProperties DEF Ended
<1> QED
  BY <1>1, <1>2, <1>3 DEF Ended

\* No connection: nothing was done yet.
LEMMA OpenFailsLedger == ASSUME Ledger, NEW s \in Sessions, OpenFails(s) PROVE Ledger'
<1>1. /\ at[s] = 1 /\ events' = events + 1 /\ Ended(s) /\ Running(s)
      /\ spoilt' = spoilt \cup ({Task(s)} \cap Periods)
      /\ UNCHANGED <<db, work, stamp, billed, phase, now, blocked, exports>>
  BY DEF OpenFails, dbVars, SessionRest, Running
<1>2. TypeOK'
  BY <1>1, EndedTypes DEF Ledger, TypeOK
<1>3. SessionStep(s) /\ held'[s] = {} /\ at'[s] = 0
  BY <1>1, EndedTypes DEF SessionStep
<1>4. SessionOk(s)'
  BY <1>3, ReleasedOk
<1>5. held' = held
  <2>1. held[s] = {}
    BY <1>1 DEF Ledger, HoldInv
  <2> QED
    BY <1>1, <2>1 DEF Ended, Ledger, TypeOK
<1>6. LockInv' /\ BytesKept' /\ ReportComplete' /\ \A r \in Rows : work'[r].report >= db'[r].report
  BY <1>1, <1>5 DEF Ledger, LockInv, BytesKept, ReportComplete, ReportInv
<1> QED
  BY <1>2, <1>3, <1>4, <1>6, SessionKeeps

\* Committed: the rows of the session are accounted for.
LEMMA CommitAccounts ==
  ASSUME Ledger, NEW s \in Sessions, Running(s), Statement(s).op = "commit",
         db' = [r \in Rows |-> IF r \in held[s] THEN work[r] ELSE db[r]],
         work' = work, held' = [held EXCEPT ![s] = {}],
         billed' = [r \in Rows |-> IF r = s THEN billed[r] + 1 ELSE billed[r]]
  PROVE  /\ LockInv' /\ BytesKept' /\ ReportComplete'
         /\ \A r \in Rows : work'[r].report >= db'[r].report
         /\ \A t \in Sessions \ {s} : \A r \in held[t] : billed'[r] = billed[r]
         /\ db' \in [Rows -> Row]
<1>1. /\ db \in [Rows -> Row] /\ work \in [Rows -> Row] /\ billed \in [Rows -> Nat]
      /\ held \in [Sessions -> SUBSET Rows]
  BY DEF Ledger, TypeOK
<1>2. db' \in [Rows -> Row]
  BY <1>1
<1>3. ScriptFacts(s, Statement(s), at[s])
  BY StatementFacts DEF Ledger
<1>4. ~Autocommit(s) /\ at[s] \notin {0, 1}
  BY <1>3 DEF ScriptFacts, Running
<1>5. s \in Rows => s \in held[s]
  <2>1. s \in Rows => s \in RuleRows
    BY <1>4 DEF Autocommit, UserRows
  <2> QED
    BY <1>4, <2>1 DEF Ledger, HoldInv
<1>6. \A t \in Sessions \ {s} : \A r \in held[t] : billed'[r] = billed[r]
  <2> TAKE t \in Sessions \ {s}
  <2> TAKE r \in held[t]
  <2>1. r \in Rows
    BY <1>1
  <2>2. r # s
    BY <1>5, <2>1 DEF Ledger, LockInv
  <2> QED
    BY <2>1, <2>2
<1>7. LockInv'
  <2>1. \A t \in Sessions : held'[t] = IF t = s THEN {} ELSE held[t]
    BY <1>1
  <2>2. \A t, v \in Sessions : t # v => held'[t] \cap held'[v] = {}
    BY <2>1 DEF Ledger, LockInv
  <2>3. ASSUME NEW r \in Rows, \A t \in Sessions : r \notin held'[t] PROVE work'[r] = db'[r]
    <3>1. CASE r \in held[s]
      BY <3>1
    <3>2. CASE r \notin held[s]
      <4>1. \A t \in Sessions : r \notin held[t]
        BY <2>1, <2>3, <3>2
      <4> QED
        BY <3>2, <4>1 DEF Ledger, LockInv
    <3> QED
      BY <3>1, <3>2
  <2> QED
    BY <2>2, <2>3 DEF LockInv
<1>8. BytesKept'
  <2> SUFFICES ASSUME NEW r \in Rows, NEW p \in Moved
               PROVE  Sum(db'[r], p) = billed'[r]
    BY DEF BytesKept, Sum
  <2>1. CASE r \in held[s]
    <3>1. Sum(work[r], p) = billed[r] + Extra(s, r, p)
      BY <2>1 DEF Ledger, WorkInv
    <3>2. Extra(s, r, p) = IF r = s THEN 1 ELSE 0
      BY DEF Extra
    <3>3. billed[r] \in Nat
      BY <1>1
    <3> QED
      BY <2>1, <3>1, <3>2, <3>3
  <2>2. CASE r \notin held[s]
    <3>1. Sum(db[r], p) = billed[r]
      BY DEF Ledger, BytesKept, Sum
    <3> QED
      BY <1>5, <2>2, <3>1
  <2> QED
    BY <2>1, <2>2
<1>9. ReportComplete'
  <2> SUFFICES ASSUME NEW r \in RuleRows PROVE Covers(db'[r].report, DaysEnded(db'[r]))
    BY DEF ReportComplete, Covers, DaysEnded
  <2>1. r \in Rows
    BY TasksAssumption
  <2>2. CASE r \in held[s]
    <3>1. Covers(work[r].report, DaysEnded(work[r]) + Reported(s, r)) /\ Reported(s, r) = 0
      BY <2>2 DEF Ledger, ReportInv, Reported
    <3>2. DaysEnded(work[r]) \in Nat
      BY <1>1, <2>1 DEF DaysEnded, Row, Moved
    <3>3. DaysEnded(work[r]) + 0 = DaysEnded(work[r])
      BY <3>2
    <3> QED
      BY <2>1, <2>2, <3>1, <3>3
  <2>3. CASE r \notin held[s]
    BY <2>1, <2>3 DEF Ledger, ReportComplete, Covers, DaysEnded
  <2> QED
    BY <2>2, <2>3
<1>10. \A r \in Rows : work'[r].report >= db'[r].report
  <2> TAKE r \in Rows
  <2>1. work[r].report >= db[r].report /\ work[r].report \in Nat
    BY <1>1 DEF Ledger, ReportInv, Row
  <2> QED
    BY <2>1
<1> QED
  BY <1>2, <1>6, <1>7, <1>8, <1>9, <1>10

\* A stamp is a time that has passed.
LEMMA StampTypes ==
  ASSUME Ledger, NEW s \in Sessions, save_timestamp(s)
  PROVE  stamp' \in [Periods -> 0 .. MaxTime]
BY DEF Ledger, TypeOK, save_timestamp

\* The commit.
LEMMA CommitLedger == ASSUME Ledger, NEW s \in Sessions, Commit(s) PROVE Ledger'
<1>1. /\ Running(s) /\ Statement(s).op = "commit" /\ Ended(s) /\ save_timestamp(s)
      /\ db' = [r \in Rows |-> IF r \in held[s] THEN work[r] ELSE db[r]]
      /\ billed' = [r \in Rows |-> IF r = s THEN billed[r] + 1 ELSE billed[r]]
      /\ spoilt' = spoilt \ {Task(s)}
      /\ UNCHANGED <<work, events, phase, now, blocked, exports>>
  BY DEF Commit, Billed, SessionRest
<1>2. held' = [held EXCEPT ![s] = {}]
  BY <1>1 DEF Ended
<1>3. /\ LockInv' /\ BytesKept' /\ ReportComplete'
      /\ \A r \in Rows : work'[r].report >= db'[r].report
      /\ \A t \in Sessions \ {s} : \A r \in held[t] : billed'[r] = billed[r]
      /\ db' \in [Rows -> Row]
  BY <1>1, <1>2, CommitAccounts
<1>4. billed' \in [Rows -> Nat]
  BY <1>1 DEF Ledger, TypeOK
<1>5. TypeOK'
  BY <1>1, <1>3, <1>4, EndedTypes, StampTypes DEF Ledger, TypeOK
<1>6. SessionStep(s) /\ held'[s] = {} /\ at'[s] = 0
  BY <1>1, <1>3, EndedTypes DEF SessionStep
<1>7. SessionOk(s)'
  BY <1>6, ReleasedOk
<1> QED
  BY <1>3, <1>5, <1>6, <1>7, SessionKeeps

\* Rolled back: the rows of the session are what they were before it.
LEMMA RollbackAccounts ==
  ASSUME Ledger, NEW s \in Sessions, Rollback(s), UNCHANGED <<db, billed>>
  PROVE  /\ LockInv' /\ BytesKept' /\ ReportComplete'
         /\ \A r \in Rows : work'[r].report >= db'[r].report
         /\ work' \in [Rows -> Row]
         /\ \A t \in Sessions \ {s} : \A r \in held[t] : work'[r] = work[r]
<1>1. /\ db \in [Rows -> Row] /\ work \in [Rows -> Row]
      /\ held \in [Sessions -> SUBSET Rows]
  BY DEF Ledger, TypeOK
<1>2. /\ work' = [r \in Rows |-> IF r \in held[s] THEN db[r] ELSE work[r]]
      /\ held' = [held EXCEPT ![s] = {}]
  BY DEF Rollback
<1>3. work' \in [Rows -> Row]
  BY <1>1, <1>2
<1>4. \A t \in Sessions \ {s} : \A r \in held[t] : work'[r] = work[r]
  BY <1>1, <1>2 DEF Ledger, LockInv
<1>5. LockInv'
  <2>1. \A t \in Sessions : held'[t] = IF t = s THEN {} ELSE held[t]
    BY <1>1, <1>2
  <2>2. \A t, v \in Sessions : t # v => held'[t] \cap held'[v] = {}
    BY <2>1 DEF Ledger, LockInv
  <2>3. ASSUME NEW r \in Rows, \A t \in Sessions : r \notin held'[t] PROVE work'[r] = db[r]
    <3>1. CASE r \in held[s]
      BY <1>2, <3>1
    <3>2. CASE r \notin held[s]
      <4>1. \A t \in Sessions : r \notin held[t]
        BY <2>1, <2>3, <3>2
      <4> QED
        BY <1>2, <3>2, <4>1 DEF Ledger, LockInv
    <3> QED
      BY <3>1, <3>2
  <2> QED
    BY <2>2, <2>3 DEF LockInv
<1>6. BytesKept' /\ ReportComplete'
  BY DEF Ledger, BytesKept, ReportComplete
<1>7. \A r \in Rows : work'[r].report >= db'[r].report
  <2> TAKE r \in Rows
  <2>1. work[r].report >= db[r].report /\ db[r].report \in Nat
    BY <1>1 DEF Ledger, ReportInv, Row
  <2> QED
    BY <1>2, <2>1
<1> QED
  BY <1>3, <1>4, <1>5, <1>6, <1>7

\* An error: rolled back, or committed unseen, then the next statement, attempt or end.
LEMMA ErrorLedger == ASSUME Ledger, NEW s \in Sessions, Error(s) PROVE Ledger'
<1>1. /\ Running(s) /\ UNCHANGED <<billed, phase, now, blocked, exports>>
      /\ events' \in {events, events + 1}
      /\ CommitUnseen(s) \/ (Rollback(s) /\ UNCHANGED <<db, stamp>>)
  BY DEF Error, Fails, SessionRest
<1>2. /\ at \in [Sessions -> Nat] /\ left \in [Sessions -> 1 .. Tries]
      /\ loading \in Seq(Periods) /\ spoilt \subseteq Periods /\ events \in Nat
      /\ s = "load" => loading # <<>>
  BY <1>1 DEF Ledger, TypeOK, RunInv
<1>3. /\ LockInv' /\ BytesKept' /\ ReportComplete'
      /\ \A r \in Rows : work'[r].report >= db'[r].report
      /\ \A t \in Sessions \ {s} : \A r \in held[t] : work'[r] = work[r]
      /\ work' \in [Rows -> Row] /\ db' \in [Rows -> Row]
      /\ stamp' \in [Periods -> 0 .. MaxTime] /\ held' = [held EXCEPT ![s] = {}]
  <2>1. CASE CommitUnseen(s)
    <3>1. /\ Statement(s).op = "commit" /\ save_timestamp(s) /\ work' = work
          /\ db' = [r \in Rows |-> IF r \in held[s] THEN work[r] ELSE db[r]]
          /\ held' = [held EXCEPT ![s] = {}] /\ Task(s) \in Periods
      BY <2>1 DEF CommitUnseen
    <3>2. s \notin Rows
      BY <3>1, Names
    <3>3. billed' = [r \in Rows |-> IF r = s THEN billed[r] + 1 ELSE billed[r]]
      BY <1>1, <3>2 DEF Ledger, TypeOK
    <3> QED
      BY <1>1, <3>1, <3>3, CommitAccounts, StampTypes DEF Ledger, TypeOK
  <2>2. CASE Rollback(s) /\ UNCHANGED <<db, stamp>>
    <3>1. held' = [held EXCEPT ![s] = {}] /\ db \in [Rows -> Row]
          /\ stamp \in [Periods -> 0 .. MaxTime]
      BY <2>2 DEF Rollback, Ledger, TypeOK
    <3> QED
      BY <1>1, <2>2, <3>1, RollbackAccounts
  <2> QED
    BY <1>1, <2>1, <2>2
<1>4. /\ held' \in [Sessions -> SUBSET Rows] /\ held'[s] = {}
      /\ \A t \in Sessions \ {s} : held'[t] = held[t]
  BY <1>3 DEF Ledger, TypeOK
<1>5. at[s] \in 1 .. Len(Script(s))
  BY <1>1 DEF Ledger, RunInv
<1>6. /\ at' \in [Sessions -> Nat] /\ left' \in [Sessions -> 1 .. Tries]
      /\ loading' \in Seq(Periods) /\ spoilt' \subseteq Periods
      /\ \A t \in Sessions \ {s} : at'[t] = at[t]
      /\ loading' = loading \/ (s = "load" /\ at'[s] = 0)
      /\ at'[s] \in {0, 1} \/ (s = "check" /\ at'[s] \in 1 .. Len(Script(s)))
  <2>1. CASE s = "check"
    <3>1. /\ at' = [at EXCEPT ![s] = IF @ = Len(Script(s)) THEN 0 ELSE @ + 1]
          /\ UNCHANGED <<left, loading, spoilt>>
      BY <2>1 DEF Error
    <3> QED
      BY <1>2, <1>5, <2>1, <3>1
  <2>2. CASE s # "check" /\ Again(s)
    <3>1. /\ at' = [at EXCEPT ![s] = 1] /\ left' = [left EXCEPT ![s] = @ - 1]
          /\ UNCHANGED <<loading, spoilt>>
      BY <2>2 DEF Error
    <3>2. left[s] - 1 \in 1 .. Tries
      BY <1>2, <2>2, TasksAssumption DEF Again
    <3> QED
      BY <1>2, <3>1, <3>2
  <2>3. CASE s # "check" /\ ~Again(s)
    <3>1. /\ at' = [at EXCEPT ![s] = 0] /\ left' = [left EXCEPT ![s] = Tries]
          /\ loading' = IF s = "load" THEN Tail(loading) ELSE loading
          /\ spoilt' = spoilt \cup ({Task(s)} \cap Periods)
      BY <2>3 DEF Error
    <3>2. Tries \in 1 .. Tries
      BY TasksAssumption
    <3>3. loading' \in Seq(Periods)
      BY <1>2, <3>1, HeadTailProperties
    <3> QED
      BY <1>2, <3>1, <3>2, <3>3
  <2> QED
    BY <2>1, <2>2, <2>3
<1>7. TypeOK'
  <2>1. events' \in Nat
    BY <1>1, <1>2
  <2> QED
    BY <1>1, <1>3, <1>4, <1>6, <2>1 DEF Ledger, TypeOK
<1>8. SessionStep(s)
  BY <1>1, <1>3, <1>4, <1>6 DEF SessionStep
<1>9. SessionOk(s)'
  BY <1>4, <1>6, <1>8, ReleasedOk
<1> QED
  BY <1>3, <1>7, <1>8, <1>9, SessionKeeps

\* the rows a statement selects
LEMMA SelectedRows ==
  ASSUME NEW s \in Sessions, NEW q, q.tab \in {UserRows, RuleRows}
  PROVE  /\ Selected(s, q) \subseteq q.tab /\ q.tab \subseteq Rows
         /\ q.op \in {"move", "zero", "report"} => Selected(s, q) = q.tab
         /\ q.op = "add" => Selected(s, q) = q.tab \cap {s}
<1>1. Selected(s, q) \subseteq q.tab /\ q.tab \subseteq Rows
  BY TasksAssumption DEF Selected, UserRows
<1>2. q.op \in {"move", "zero", "report"} => Selected(s, q) = q.tab
  BY DEF Selected
<1>3. q.op = "add" => Selected(s, q) = q.tab \cap {s}
  BY DEF Selected
<1> QED
  BY <1>1, <1>2, <1>3

\* A statement that does not wait has its rows for itself.
LEMMA TouchedRows ==
  ASSUME Ledger, NEW s \in Sessions, Running(s), ~Waiting(s), Statement(s).op # "commit"
  PROVE  /\ Selected(s, Statement(s)) \subseteq Touched(s) /\ Touched(s) \subseteq Rows
         /\ ~Autocommit(s) => Touched(s) = Selected(s, Statement(s))
         /\ \A t \in Sessions \ {s} : Touched(s) \cap held[t] = {}
<1>1. ScriptFacts(s, Statement(s), at[s])
  BY StatementFacts DEF Ledger
<1>2. /\ Selected(s, Statement(s)) \subseteq Statement(s).tab
      /\ Statement(s).tab \subseteq Rows
  BY <1>1, SelectedRows DEF ScriptFacts
<1>3. s # "check" => Touched(s) = Selected(s, Statement(s))
  BY DEF Touched
<1>4. s = "check" => Touched(s) = Statement(s).tab
  BY DEF Touched
<1>5. ~Autocommit(s) => s # "check"
  BY DEF Autocommit
<1>6. \A t \in Sessions \ {s} : Touched(s) \cap held[t] = {}
  BY DEF Waiting
<1> QED
  BY <1>2, <1>3, <1>4, <1>5, <1>6

\* A row keeps its type, and the report only grows.
LEMMA EffectTypes ==
  ASSUME Ledger, NEW s \in Sessions, Running(s), Statement(s).op # "commit", NEW r \in Rows
  PROVE  /\ Effect(s, Statement(s), r) \in Row
         /\ Effect(s, Statement(s), r).report >= work[r].report
<1> DEFINE q == Statement(s)
<1>1. ScriptFacts(s, q, at[s])
  BY StatementFacts DEF Ledger
<1>2. work[r] \in Row /\ work[r].report \in Nat /\ work[r].cur["day"] \in Nat
  BY DEF Ledger, TypeOK, Row, Moved
<1> HIDE DEF q
<1>3. CASE q.op \in {"clear", "charge", "limit", "block"}
  BY <1>2, <1>3, EffectSame DEF SameColumns, q
<1>4. CASE q.op = "move"
  BY <1>1, <1>2, <1>4, EffectMove DEF q, ScriptFacts
<1>5. CASE q.op = "zero"
  BY <1>1, <1>2, <1>5, EffectZero DEF q, ScriptFacts
<1>6. CASE q.op = "report"
  <2>1. /\ Effect(s, q, r) \in Row
        /\ Effect(s, q, r).report = work[r].report + work[r].cur["day"]
    BY <1>2, <1>6, EffectReport
  <2> QED
    BY <1>2, <2>1 DEF q
<1>7. CASE q.op = "add"
  BY <1>2, <1>7, EffectAdd DEF q
<1> QED
  BY <1>1, <1>3, <1>4, <1>5, <1>6, <1>7 DEF ScriptFacts, q

\* A statement outside a transaction: its rows are committed before and after.
LEMMA AutocommitAccounts ==
  ASSUME Ledger, NEW s \in Sessions, Execute(s), Autocommit(s)
  PROVE  /\ LockInv' /\ BytesKept' /\ ReportComplete'
         /\ \A r \in Rows : work'[r].report >= db'[r].report
         /\ work' \in [Rows -> Row] /\ db' \in [Rows -> Row] /\ billed' \in [Rows -> Nat]
         /\ \A t \in Sessions \ {s} : \A r \in held[t] :
              work'[r] = work[r] /\ billed'[r] = billed[r]
<1> DEFINE q == Statement(s)
           sel == Selected(s, q)
<1>1. /\ Running(s) /\ ~Waiting(s) /\ q.op # "commit" /\ held' = held
      /\ work' = [r \in Rows |-> IF r \in sel THEN Effect(s, q, r) ELSE work[r]]
      /\ db' = [r \in Rows |-> IF r \in sel THEN Effect(s, q, r) ELSE db[r]]
      /\ billed' = [r \in Rows |-> IF r = s THEN billed[r] + 1 ELSE billed[r]]
  BY DEF Execute, Write, Updated, Billed
<1>2. ScriptFacts(s, q, at[s])
  BY <1>1, StatementFacts DEF Ledger
<1>3. sel \subseteq Rows /\ \A t \in Sessions \ {s} : sel \cap held[t] = {}
  BY <1>1, TouchedRows
<1>4. /\ db \in [Rows -> Row] /\ work \in [Rows -> Row] /\ billed \in [Rows -> Nat]
      /\ held \in [Sessions -> SUBSET Rows]
  BY DEF Ledger, TypeOK
<1>5. \A r \in Rows : Effect(s, q, r) \in Row
  BY <1>1, EffectTypes
<1>6. \A r \in sel : work[r] = db[r]
  <2>1. held[s] = {}
    BY DEF Ledger, HoldInv
  <2> QED
    BY <1>3, <2>1 DEF Ledger, LockInv
<1>7. q.op \in {"limit", "block", "add"} /\ (q.op = "add" => s \in sel /\ sel = {s})
  <2>1. q.op \in {"limit", "block", "add"}
    <3>1. s = "check" \/ s \in UserRows
      BY DEF Autocommit
    <3>2. s \notin RuleRows /\ (s = "check" => s \notin Rows /\ Task(s) \notin Periods)
      BY <3>1, Names, TasksAssumption DEF UserRows, Task, Periods
    <3>3. s \in UserRows => s \in Rows /\ Task(s) \notin Periods
      BY Names DEF UserRows
    <3>4. Moved \subseteq Periods /\ "day" \in Periods
      BY DEF Moved, Periods
    <3> QED
      BY <1>1, <1>2, <3>1, <3>2, <3>3, <3>4 DEF ScriptFacts
  <2>2. q.op = "add" => sel = q.tab \cap {s} /\ s \in q.tab
    BY <1>2, SelectedRows DEF ScriptFacts
  <2> QED
    BY <2>1, <2>2
<1>8. s \in Rows => q.op = "add"
  <2>1. s \in Rows => s # "check"
    BY Names
  <2> QED
    BY <1>2, <1>7, <2>1 DEF ScriptFacts
<1> HIDE DEF q, sel
<1>9. work' \in [Rows -> Row] /\ db' \in [Rows -> Row] /\ billed' \in [Rows -> Nat]
  BY <1>1, <1>4, <1>5
<1>10. \A t \in Sessions \ {s} : \A r \in held[t] : work'[r] = work[r] /\ billed'[r] = billed[r]
  <2> TAKE t \in Sessions \ {s}
  <2> TAKE r \in held[t]
  <2>1. r \in Rows /\ r \notin sel
    BY <1>3, <1>4
  <2>2. r # s
    BY <1>7, <1>8, <2>1
  <2> QED
    BY <1>1, <2>1, <2>2
<1>11. LockInv'
  <2>1. ASSUME NEW r \in Rows, \A t \in Sessions : r \notin held[t] PROVE work'[r] = db'[r]
    <3>1. work[r] = db[r]
      BY <2>1 DEF Ledger, LockInv
    <3> QED
      BY <1>1, <3>1
  <2> QED
    BY <1>1, <2>1 DEF Ledger, LockInv
<1>12. BytesKept'
  <2> SUFFICES ASSUME NEW r \in Rows, NEW p \in Moved PROVE Sum(db'[r], p) = billed'[r]
    BY DEF BytesKept, Sum
  <2>1. Sum(db[r], p) = billed[r] /\ billed[r] \in Nat
    BY <1>4 DEF Ledger, BytesKept, Sum
  <2>2. CASE r \notin sel
    BY <1>1, <1>7, <1>8, <2>1, <2>2
  <2>3. CASE r \in sel /\ q.op = "add"
    <3>1. Sum(Effect(s, q, r), p) = Sum(work[r], p) + 1
      BY <1>4, <2>3, EffectAdd
    <3>2. r = s
      BY <1>7, <2>3
    <3> QED
      BY <1>1, <1>6, <2>1, <2>3, <3>1, <3>2
  <2>4. CASE r \in sel /\ q.op \in {"limit", "block"}
    <3>1. SameColumns(Effect(s, q, r), work[r])
      BY <1>4, <2>4, EffectSame
    <3>2. Sum(Effect(s, q, r), p) = Sum(work[r], p)
      BY <3>1 DEF SameColumns, Sum
    <3>3. r # s
      BY <1>8, <2>4
    <3> QED
      BY <1>1, <1>6, <2>1, <2>4, <3>2, <3>3
  <2> QED
    BY <1>7, <2>2, <2>3, <2>4
<1>13. ReportComplete'
  <2> SUFFICES ASSUME NEW r \in RuleRows PROVE Covers(db'[r].report, DaysEnded(db'[r]))
    BY DEF ReportComplete, Covers, DaysEnded
  <2>1. r \in Rows /\ Covers(db[r].report, DaysEnded(db[r]))
    BY TasksAssumption DEF Ledger, ReportComplete, Covers, DaysEnded
  <2>2. CASE r \notin sel
    BY <1>1, <2>1, <2>2
  <2>3. CASE r \in sel
    <3>1. /\ Effect(s, q, r).report = work[r].report /\ Effect(s, q, r).prev = work[r].prev
          /\ Effect(s, q, r).gone = work[r].gone
      BY <1>4, <1>7, <2>1, EffectSame, EffectAdd DEF SameColumns
    <3>2. DaysEnded(Effect(s, q, r)) = DaysEnded(work[r])
      BY <3>1 DEF DaysEnded
    <3> QED
      BY <1>1, <1>6, <2>1, <2>3, <3>1, <3>2
  <2> QED
    BY <2>2, <2>3
<1>14. \A r \in Rows : work'[r].report >= db'[r].report
  <2> TAKE r \in Rows
  <2>1. work[r].report >= db[r].report
    BY DEF Ledger, ReportInv
  <2>2. Effect(s, q, r).report \in Nat
    BY <1>5 DEF Row
  <2> QED
    BY <1>1, <2>1, <2>2
<1> QED
  BY <1>9, <1>10, <1>11, <1>12, <1>13, <1>14

\* A statement of a transaction, as the invariants see it.
Within(s, q, sel) ==
  /\ Running(s) /\ ~Waiting(s) /\ q = Statement(s) /\ q.op # "commit"
  /\ sel = Selected(s, q) /\ ~Autocommit(s)
  /\ work' = [r \in Rows |-> IF r \in sel THEN Effect(s, q, r) ELSE work[r]]
  /\ held' = [held EXCEPT ![s] = @ \cup sel]
  /\ db' = IF q.op = "report" /\ ~ReportRollsBack
             THEN [r \in Rows |-> [db[r] EXCEPT !.report = work'[r].report]]
             ELSE db
  /\ at' = [at EXCEPT ![s] = at[s] + 1]
  /\ UNCHANGED <<billed, left, loading, stamp, events, spoilt, phase, now, blocked, exports>>

\* A statement of a transaction works on rows its session holds.
LEMMA ExecuteWithin ==
  ASSUME Ledger, NEW s \in Sessions, Execute(s), ~Autocommit(s)
  PROVE  Within(s, Statement(s), Selected(s, Statement(s)))
<1>1. /\ Running(s) /\ ~Waiting(s) /\ Statement(s).op # "commit"
      /\ at' = [at EXCEPT ![s] = IF @ = Len(Script(s)) THEN 0 ELSE @ + 1]
      /\ UNCHANGED <<billed, left, loading, stamp, events, spoilt, phase, now, blocked, exports>>
      /\ Write(s)
  BY DEF Execute, SessionRest
<1>2. ScriptFacts(s, Statement(s), at[s])
  BY <1>1, StatementFacts DEF Ledger
<1>3. at[s] # Len(Script(s))
  BY <1>1, <1>2 DEF ScriptFacts
<1>4. at' = [at EXCEPT ![s] = at[s] + 1]
  BY <1>1, <1>3 DEF Ledger, TypeOK
<1>5. Touched(s) = Selected(s, Statement(s))
  BY <1>1, TouchedRows
<1> QED
  BY <1>1, <1>4, <1>5 DEF Within, Write, Updated

\* what the steps below start from
LEMMA WithinFacts ==
  ASSUME Ledger, NEW s \in Sessions, NEW q, NEW sel, Within(s, q, sel)
  PROVE  /\ ScriptFacts(s, q, at[s]) /\ sel \subseteq q.tab /\ q.tab \subseteq Rows
         /\ q.op \in {"move", "zero", "report"} => sel = q.tab
         /\ q.op = "add" => sel = {s}
         /\ \A t \in Sessions \ {s} : sel \cap held[t] = {}
         /\ Task(s)' = Task(s) /\ Statement(s)' = Script(s)[at[s] + 1]
         /\ at[s] + 1 \in 1 .. Len(Script(s)) /\ Script(s)' = Script(s)
         /\ \A r \in sel \ held[s] : work[r] = db[r]
         /\ held'[s] = held[s] \cup sel /\ at'[s] = at[s] + 1
         /\ \A r \in Rows : work'[r] = IF r \in sel THEN Effect(s, q, r) ELSE work[r]
<1>1. /\ Running(s) /\ ~Waiting(s) /\ q = Statement(s) /\ q.op # "commit" /\ ~Autocommit(s)
      /\ sel = Selected(s, q)
  BY DEF Within
<1>2. at[s] \in 1 .. Len(Script(s)) /\ ScriptFacts(s, q, at[s])
  BY <1>1, StatementFacts DEF Ledger
<1>3. /\ sel \subseteq q.tab /\ q.tab \subseteq Rows
      /\ q.op \in {"move", "zero", "report"} => sel = q.tab
      /\ q.op = "add" => sel = {s}
  BY <1>1, <1>2, SelectedRows DEF ScriptFacts
<1>4. \A t \in Sessions \ {s} : sel \cap held[t] = {}
  BY <1>1, TouchedRows
<1>5. at'[s] = at[s] + 1 /\ held'[s] = held[s] \cup sel
  BY DEF Within, Ledger, TypeOK
<1>6. Task(s)' = Task(s) /\ Script(s)' = Script(s)
  BY SameScript DEF Within
<1>7. Statement(s)' = Script(s)[at[s] + 1]
  BY <1>5, <1>6 DEF Statement
<1>8. at[s] + 1 \in 1 .. Len(Script(s))
  BY <1>1, <1>2 DEF ScriptFacts
<1>9. \A r \in sel \ held[s] : work[r] = db[r]
  BY <1>3, <1>4 DEF Ledger, LockInv
<1>10. \A r \in Rows : work'[r] = IF r \in sel THEN Effect(s, q, r) ELSE work[r]
  BY DEF Within
<1> QED
  BY <1>2, <1>3, <1>4, <1>5, <1>6, <1>7, <1>8, <1>9, <1>10

\* The locked rows stay accounted for, statement by statement.
LEMMA WithinWork ==
  ASSUME Ledger, NEW s \in Sessions, NEW q, NEW sel, Within(s, q, sel),
         NEW r \in held[s] \cup sel, NEW p \in Moved
  PROVE  Sum(work'[r], p) = billed[r] + Extra(s, r, p)'
<1> DEFINE n == Script(s)[at[s] + 1]
           e == Effect(s, q, r)
<1>1. /\ ScriptFacts(s, q, at[s]) /\ sel \subseteq q.tab /\ q.tab \subseteq Rows
      /\ q.op \in {"move", "zero", "report"} => sel = q.tab
      /\ q.op = "add" => sel = {s}
      /\ Task(s)' = Task(s) /\ Statement(s)' = n
      /\ \A x \in sel \ held[s] : work[x] = db[x]
  BY WithinFacts
<1>2. /\ n.op = "zero" <=> q.op = "move"
      /\ q.op = "move" => n.tab = q.tab
  BY <1>1 DEF ScriptFacts, Within
<1>3. /\ r \in Rows /\ work[r] \in Row /\ billed[r] \in Nat /\ q = Statement(s)
      /\ work[r].cur[p] \in Nat
      /\ work'[r] = IF r \in sel THEN e ELSE work[r]
  <2>1. r \in Rows
    BY <1>1 DEF Ledger, TypeOK
  <2> QED
    BY <2>1 DEF Within, Ledger, TypeOK, Row
<1>4. Extra(s, r, p)' = IF s = r THEN 1
                        ELSE IF Task(s) = p /\ q.op = "move" /\ r \in q.tab
                          THEN work'[r].cur[p] ELSE 0
  BY <1>1, <1>2 DEF Extra
<1>5. Sum(work[r], p) = billed[r] + IF r \in held[s] THEN Extra(s, r, p) ELSE 0
  <2>1. CASE r \in held[s]
    BY <2>1 DEF Ledger, WorkInv
  <2>2. CASE r \notin held[s]
    <3>1. Sum(db[r], p) = billed[r]
      BY <1>3 DEF Ledger, BytesKept, Sum
    <3> QED
      BY <1>1, <1>3, <2>2, <3>1
  <2> QED
    BY <2>1, <2>2
<1>6. Extra(s, r, p) = IF s = r THEN 1
                       ELSE IF Task(s) = p /\ q.op = "zero" /\ r \in q.tab
                         THEN work[r].cur[p] ELSE 0
  BY <1>3 DEF Extra
<1> HIDE DEF n, e
<1>7. CASE r \notin sel
  <2>1. r \in held[s] /\ work'[r] = work[r]
    BY <1>3, <1>7
  <2>2. q.op \in {"move", "zero"} => r \notin q.tab
    BY <1>1, <1>7
  <2>3. Extra(s, r, p)' = Extra(s, r, p)
    BY <1>4, <1>6, <2>2
  <2> QED
    BY <1>5, <2>1, <2>3
<1>8. CASE r \in sel /\ q.op \in {"clear", "charge"}
  <2>1. SameColumns(e, work[r])
    BY <1>3, <1>8, EffectSame DEF e
  <2>2. Sum(e, p) = Sum(work[r], p)
    BY <2>1 DEF SameColumns, Sum
  <2>3. s # r
    BY <1>1, <1>3, <1>8 DEF ScriptFacts, UserRows
  <2> QED
    BY <1>3, <1>4, <1>5, <1>6, <1>8, <2>2, <2>3
<1>9. CASE r \in sel /\ q.op = "report"
  <2>1. e.cur = work[r].cur /\ e.prev = work[r].prev /\ e.gone = work[r].gone
    BY <1>3, <1>9, EffectReport DEF e
  <2>2. Sum(e, p) = Sum(work[r], p)
    BY <2>1 DEF Sum
  <2>3. s # r
    BY <1>1, <1>3, <1>9 DEF ScriptFacts
  <2> QED
    BY <1>3, <1>4, <1>5, <1>6, <1>9, <2>2, <2>3
<1>10. CASE r \in sel /\ q.op = "add"
  <2>1. Sum(e, p) = Sum(work[r], p) + 1
    BY <1>3, <1>10, EffectAdd DEF e
  <2>2. s = r /\ held[s] = {}
    BY <1>1, <1>10 DEF ScriptFacts, Ledger, HoldInv
  <2> QED
    BY <1>3, <1>4, <1>5, <1>10, <2>1, <2>2
<1>11. CASE r \in sel /\ q.op = "move"
  <2>1. Task(s) \in Moved /\ s # r
    BY <1>1, <1>3, <1>11 DEF ScriptFacts
  <2>2. /\ p = Task(s) => Sum(e, p) = Sum(work[r], p) + e.cur[p]
        /\ p # Task(s) => Sum(e, p) = Sum(work[r], p)
    BY <1>3, <1>11, <2>1, EffectMove DEF e
  <2>3. r \in q.tab /\ work'[r] = e /\ Sum(work[r], p) = billed[r]
    BY <1>1, <1>3, <1>5, <1>6, <1>11, <2>1
  <2>4. Extra(s, r, p)' = IF p = Task(s) THEN e.cur[p] ELSE 0
    BY <1>4, <1>11, <2>1, <2>3
  <2> QED
    BY <1>3, <2>2, <2>3, <2>4
<1>12. CASE r \in sel /\ q.op = "zero"
  <2>1. Task(s) \in Moved /\ s # r
    BY <1>1, <1>3, <1>12 DEF ScriptFacts
  <2>2. /\ p = Task(s) => Sum(e, p) = Sum(work[r], p) - work[r].cur[p]
        /\ p # Task(s) => Sum(e, p) = Sum(work[r], p)
    BY <1>3, <1>12, <2>1, EffectZero DEF e
  <2>3. r \in held[s]
    BY <1>1, <1>3, <1>12 DEF Ledger, HoldInv, NeedsTable, Within
  <2>4. r \in q.tab /\ work'[r] = e
    BY <1>1, <1>3, <1>12
  <2>5. Sum(work[r], p) = billed[r] + IF p = Task(s) THEN work[r].cur[p] ELSE 0
    BY <1>5, <1>6, <1>12, <2>1, <2>3, <2>4
  <2>6. Extra(s, r, p)' = 0
    BY <1>4, <1>12, <2>1
  <2> QED
    BY <1>3, <2>2, <2>4, <2>5, <2>6
<1>13. q.op \notin {"limit", "block", "commit"}
  BY <1>1 DEF ScriptFacts, Within, Autocommit
<1> QED
  BY <1>1, <1>7, <1>8, <1>9, <1>10, <1>11, <1>12, <1>13 DEF ScriptFacts

\* The report stays ahead of the days that have ended, statement by statement.
LEMMA WithinReport ==
  ASSUME Ledger, NEW s \in Sessions, NEW q, NEW sel, Within(s, q, sel),
         NEW r \in (held[s] \cup sel) \cap RuleRows
  PROVE  Covers(work'[r].report, DaysEnded(work'[r]) + Reported(s, r)')
<1> DEFINE n == Script(s)[at[s] + 1]
           e == Effect(s, q, r)
           was == IF r \in held[s] THEN Reported(s, r) ELSE 0
<1>1. /\ ScriptFacts(s, q, at[s]) /\ sel \subseteq q.tab /\ q.tab \subseteq Rows
      /\ q.op \in {"move", "zero", "report"} => sel = q.tab
      /\ Task(s)' = Task(s) /\ Statement(s)' = n /\ at[s] + 1 \in 1 .. Len(Script(s))
      /\ \A x \in sel \ held[s] : work[x] = db[x]
  BY WithinFacts
<1>2. /\ n.op = "move" /\ n.tab = RuleRows /\ Task(s) = "day" /\ RuleRows # UserRows
           => q.op = "report"
      /\ q.op = "report" => n.op = "move" /\ n.tab = RuleRows /\ q.tab = RuleRows
                            /\ Task(s) = "day"
      /\ q.op = "move" => n.op = "zero"
  BY <1>1 DEF ScriptFacts, Within
<1>3. /\ r \in Rows /\ work[r] \in Row /\ q = Statement(s) /\ r \notin UserRows
      /\ work[r].cur["day"] \in Nat /\ work[r].report \in Nat /\ DaysEnded(work[r]) \in Nat
      /\ work'[r] = IF r \in sel THEN e ELSE work[r]
  <2>1. r \in Rows /\ r \notin UserRows
    BY TasksAssumption DEF UserRows
  <2>2. work[r] \in Row
    BY <2>1 DEF Ledger, TypeOK
  <2>3. work[r].cur["day"] \in Nat /\ work[r].report \in Nat /\ DaysEnded(work[r]) \in Nat
    BY <2>2 DEF Row, Moved, DaysEnded
  <2> QED
    BY <2>1, <2>2, <2>3 DEF Within
<1>4. Reported(s, r)' = IF q.op = "report" THEN work'[r].cur["day"] ELSE 0
  <2>1. CASE q.op = "report"
    BY <1>1, <1>2, <2>1 DEF Reported
  <2>2. CASE q.op # "report"
    <3>1. ~(Task(s) = "day" /\ n.op = "move" /\ r \in n.tab)
      <4> SUFFICES ASSUME Task(s) = "day", n.op = "move", r \in n.tab PROVE FALSE
        OBVIOUS
      <4>1. ScriptFacts(s, n, at[s] + 1)
        BY <1>1, EveryStatement DEF Within, Ledger
      <4>2. n.tab = RuleRows /\ RuleRows # UserRows
        BY <1>3, <4>1 DEF ScriptFacts
      <4> QED
        BY <1>2, <2>2, <4>2
    <3> QED
      BY <1>1, <2>2, <3>1 DEF Reported
  <2> QED
    BY <2>1, <2>2
<1>5. Covers(work[r].report, DaysEnded(work[r]) + was)
  <2>1. CASE r \in held[s]
    BY <2>1 DEF Ledger, ReportInv
  <2>2. CASE r \notin held[s]
    <3>1. work[r] = db[r]
      BY <1>1, <2>2
    <3>2. Covers(db[r].report, DaysEnded(db[r]))
      BY DEF Ledger, ReportComplete, Covers, DaysEnded
    <3>3. DaysEnded(work[r]) + 0 = DaysEnded(work[r])
      BY <1>3
    <3> QED
      BY <2>2, <3>1, <3>2, <3>3
  <2> QED
    BY <2>1, <2>2
<1>6. Reported(s, r) = IF Task(s) = "day" /\ q.op = "move" /\ r \in q.tab
                         THEN work[r].cur["day"] ELSE 0
  BY <1>3 DEF Reported
<1> HIDE DEF n, e, was
<1>7. CASE r \notin sel
  <2>1. work'[r] = work[r] /\ was = 0
    BY <1>1, <1>3, <1>6, <1>7 DEF was
  <2>2. q.op # "report"
    BY <1>1, <1>2, <1>7
  <2> QED
    BY <1>3, <1>4, <1>5, <2>1, <2>2
<1>8. CASE r \in sel /\ q.op \in {"clear", "charge", "add", "zero"}
  <2>1. e.report = work[r].report /\ DaysEnded(e) = DaysEnded(work[r])
    BY <1>1, <1>3, <1>8, EffectSame, EffectAdd, EffectZero
    DEF e, SameColumns, DaysEnded, ScriptFacts
  <2>2. was = 0 /\ Reported(s, r)' = 0
    BY <1>4, <1>6, <1>8 DEF was
  <2> QED
    BY <1>3, <1>5, <1>8, <2>1, <2>2
<1>9. CASE r \in sel /\ q.op = "report"
  <2>1. /\ e.report = work[r].report + work[r].cur["day"] /\ e.cur = work[r].cur
        /\ DaysEnded(e) = DaysEnded(work[r])
    BY <1>3, <1>9, EffectReport DEF e, DaysEnded
  <2>2. was = 0 /\ Reported(s, r)' = work[r].cur["day"]
    BY <1>3, <1>4, <1>6, <1>9, <2>1 DEF was
  <2> QED
    BY <1>3, <1>5, <1>9, <2>1, <2>2 DEF Covers
<1>10. CASE r \in sel /\ q.op = "move"
  <2>1. /\ e.report = work[r].report
        /\ DaysEnded(e) = DaysEnded(work[r]) + IF Task(s) = "day" THEN work[r].cur["day"] ELSE 0
    BY <1>1, <1>3, <1>10, EffectMove DEF e, ScriptFacts
  <2>2. r \in q.tab /\ q.tab = RuleRows
    BY <1>1, <1>3, <1>10 DEF ScriptFacts
  <2>3. Task(s) = "day" => r \in held[s]
    BY <1>3, <1>10, <2>2 DEF Ledger, HoldInv, NeedsTable, Within
  <2>4. was = IF Task(s) = "day" THEN work[r].cur["day"] ELSE 0
    BY <1>6, <1>10, <2>2, <2>3 DEF was
  <2>5. Reported(s, r)' = 0
    BY <1>4, <1>10
  <2> QED
    BY <1>3, <1>5, <1>10, <2>1, <2>4, <2>5
<1>11. q.op \notin {"limit", "block", "commit"}
  BY <1>1 DEF ScriptFacts, Within, Autocommit
<1> QED
  BY <1>1, <1>7, <1>8, <1>9, <1>10, <1>11 DEF ScriptFacts

\* The committed rows: only a report that cannot be rolled back reaches them.
LEMMA WithinTables ==
  ASSUME Ledger, NEW s \in Sessions, NEW q, NEW sel, Within(s, q, sel)
  PROVE  /\ LockInv' /\ BytesKept' /\ ReportComplete'
         /\ \A r \in Rows : work'[r].report >= db'[r].report
         /\ work' \in [Rows -> Row] /\ db' \in [Rows -> Row]
         /\ held' \in [Sessions -> SUBSET Rows]
<1>1. /\ sel \subseteq Rows /\ \A t \in Sessions \ {s} : sel \cap held[t] = {}
      /\ \A r \in Rows : work'[r] = IF r \in sel THEN Effect(s, q, r) ELSE work[r]
  BY WithinFacts
<1>2. /\ db \in [Rows -> Row] /\ work \in [Rows -> Row] /\ billed' = billed
      /\ held \in [Sessions -> SUBSET Rows] /\ held' = [held EXCEPT ![s] = @ \cup sel]
  BY DEF Ledger, TypeOK, Within
<1>3. \A r \in Rows : Effect(s, q, r) \in Row /\ Effect(s, q, r).report >= work[r].report
  BY EffectTypes DEF Within
<1>4. work' \in [Rows -> Row]
  BY <1>2, <1>3 DEF Within
<1>5. \A r \in Rows :
        /\ work'[r].report \in Nat /\ db[r].report \in Nat
        /\ work'[r].report >= db[r].report
  <2> TAKE r \in Rows
  <2>1. work[r].report >= db[r].report /\ db[r] \in Row /\ work[r] \in Row /\ work'[r] \in Row
    BY <1>2, <1>4 DEF Ledger, ReportInv
  <2>2. work[r].report \in Nat /\ db[r].report \in Nat /\ work'[r].report \in Nat
    BY <2>1 DEF Row
  <2>3. work'[r].report >= work[r].report
    BY <1>1, <1>3, <2>2
  <2> QED
    BY <2>1, <2>2, <2>3
<1>6. \A r \in Rows :
        /\ db'[r] \in Row
        /\ db'[r].cur = db[r].cur /\ db'[r].prev = db[r].prev /\ db'[r].gone = db[r].gone
        /\ db'[r].report \in {db[r].report, work'[r].report}
        /\ ReportRollsBack => db'[r].report = db[r].report
        /\ work'[r].report = db[r].report => db'[r] = db[r]
  <2> TAKE r \in Rows
  <2>1. db'[r] = db[r] \/ (~ReportRollsBack /\ db'[r] = [db[r] EXCEPT !.report = work'[r].report])
    BY DEF Within
  <2>2. db[r] \in Row /\ work'[r].report \in Nat
    BY <1>2, <1>5
  <2> QED
    BY <2>1, <2>2 DEF Row
<1>7. db' \in [Rows -> Row]
  BY <1>2, <1>6 DEF Within
<1>8. \A r \in Rows : work'[r].report >= db'[r].report
  BY <1>5, <1>6
<1>9. BytesKept'
  BY <1>2, <1>6 DEF Ledger, BytesKept
<1>10. ReportComplete'
  <2> SUFFICES ASSUME NEW r \in RuleRows PROVE Covers(db'[r].report, DaysEnded(db'[r]))
    BY DEF ReportComplete, Covers, DaysEnded
  <2>1. r \in Rows /\ Covers(db[r].report, DaysEnded(db[r]))
    BY TasksAssumption DEF Ledger, ReportComplete, Covers, DaysEnded
  <2>2. DaysEnded(db'[r]) = DaysEnded(db[r]) /\ DaysEnded(db[r]) \in Nat
    BY <1>2, <1>6, <2>1 DEF DaysEnded, Row, Moved
  <2>3. /\ db'[r].report \in {db[r].report, work'[r].report}
        /\ ReportRollsBack => db'[r].report = db[r].report
        /\ work'[r].report \in Nat /\ db[r].report \in Nat /\ work'[r].report >= db[r].report
    BY <1>5, <1>6, <2>1
  <2> QED
    BY <2>1, <2>2, <2>3 DEF Covers
<1>11. LockInv'
  <2>1. \A t \in Sessions : held'[t] = IF t = s THEN held[s] \cup sel ELSE held[t]
    BY <1>2
  <2>2. \A t, v \in Sessions : t # v => held'[t] \cap held'[v] = {}
    BY <1>1, <2>1 DEF Ledger, LockInv
  <2>3. ASSUME NEW r \in Rows, \A t \in Sessions : r \notin held'[t] PROVE work'[r] = db'[r]
    <3>1. r \notin sel /\ \A t \in Sessions : r \notin held[t]
      BY <2>1, <2>3
    <3>2. work[r] = db[r] /\ work'[r] = work[r]
      BY <1>1, <3>1 DEF Ledger, LockInv
    <3> QED
      BY <1>6, <3>2
  <2> QED
    BY <2>2, <2>3 DEF LockInv
<1>12. held' \in [Sessions -> SUBSET Rows]
  BY <1>1, <1>2
<1> QED
  BY <1>4, <1>7, <1>8, <1>9, <1>10, <1>11, <1>12

\* A statement.
LEMMA ExecuteLedger == ASSUME Ledger, NEW s \in Sessions, Execute(s) PROVE Ledger'
<1>1. CASE Autocommit(s)
  <2>1. /\ Running(s) /\ held' = held
        /\ at' = [at EXCEPT ![s] = IF @ = Len(Script(s)) THEN 0 ELSE @ + 1]
        /\ UNCHANGED <<left, loading, stamp, events, spoilt, phase, now, blocked, exports>>
    BY <1>1 DEF Execute, Write, SessionRest
  <2>2. /\ LockInv' /\ BytesKept' /\ ReportComplete'
        /\ \A r \in Rows : work'[r].report >= db'[r].report
        /\ work' \in [Rows -> Row] /\ db' \in [Rows -> Row] /\ billed' \in [Rows -> Nat]
        /\ \A t \in Sessions \ {s} : \A r \in held[t] :
             work'[r] = work[r] /\ billed'[r] = billed[r]
    BY <1>1, AutocommitAccounts
  <2>3. at[s] \in 1 .. Len(Script(s))
    BY <2>1 DEF Ledger, RunInv
  <2>4. at \in [Sessions -> Nat]
    BY DEF Ledger, TypeOK
  <2>5. at' \in [Sessions -> Nat]
    BY <2>1, <2>3, <2>4
  <2>6. TypeOK'
    BY <2>1, <2>2, <2>5 DEF Ledger, TypeOK
  <2>7. SessionStep(s) /\ held'[s] = {}
    BY <1>1, <2>1, <2>2, <2>4 DEF SessionStep, Ledger, HoldInv
  <2>8. at'[s] \in {0, 1} \/ (s = "check" /\ at'[s] \in 1 .. Len(Script(s)))
    <3>1. CASE s = "check"
      BY <2>1, <2>3, <2>4, <3>1
    <3>2. CASE s \in UserRows
      <4>1. Len(Script(s)) = 1
        BY <3>2, Scripts DEF users_mysql_export
      <4> QED
        BY <2>1, <2>3, <2>4, <4>1
    <3> QED
      BY <1>1, <3>1, <3>2 DEF Autocommit
  <2>9. SessionOk(s)'
    BY <2>7, <2>8, ReleasedOk
  <2> QED
    BY <2>2, <2>6, <2>7, <2>9, SessionKeeps
<1>2. CASE ~Autocommit(s)
  <2> DEFINE q == Statement(s)
             sel == Selected(s, q)
             n == Script(s)[at[s] + 1]
  <2>1. Within(s, q, sel)
    BY <1>2, ExecuteWithin
  <2> HIDE DEF q, sel
  <2>2. /\ LockInv' /\ BytesKept' /\ ReportComplete'
        /\ \A r \in Rows : work'[r].report >= db'[r].report
        /\ work' \in [Rows -> Row] /\ db' \in [Rows -> Row]
        /\ held' \in [Sessions -> SUBSET Rows]
    BY <2>1, WithinTables
  <2>3. /\ ScriptFacts(s, q, at[s])
        /\ q.op \in {"move", "zero", "report"} => sel = q.tab
        /\ q.op = "add" => sel = {s}
        /\ \A t \in Sessions \ {s} : sel \cap held[t] = {}
        /\ Task(s)' = Task(s) /\ Statement(s)' = n
        /\ at[s] + 1 \in 1 .. Len(Script(s)) /\ Script(s)' = Script(s)
        /\ held'[s] = held[s] \cup sel /\ at'[s] = at[s] + 1
        /\ \A r \in Rows : work'[r] = IF r \in sel THEN Effect(s, q, r) ELSE work[r]
    BY <2>1, WithinFacts
  <2>4. /\ at \in [Sessions -> Nat] /\ held \in [Sessions -> SUBSET Rows]
        /\ at' = [at EXCEPT ![s] = at[s] + 1] /\ held' = [held EXCEPT ![s] = @ \cup sel]
        /\ Running(s) /\ q.op # "commit"
        /\ UNCHANGED <<billed, left, loading, stamp, events, spoilt, phase, now, blocked, exports>>
    BY <2>1 DEF Within, Ledger, TypeOK
  <2>5. TypeOK'
    <3>1. at' \in [Sessions -> Nat]
      BY <2>4
    <3> QED
      BY <2>2, <2>4, <3>1 DEF Ledger, TypeOK
  <2>6. SessionStep(s)
    <3>1. \A t \in Sessions \ {s} : \A r \in held[t] : work'[r] = work[r]
      BY <2>3, <2>4
    <3> QED
      BY <2>4, <3>1 DEF SessionStep
  <2>7. at'[s] \notin {0, 1}
    <3>1. at[s] \in Nat /\ at[s] # 0
      BY <2>4 DEF Running
    <3> QED
      BY <2>3, <3>1
  <2>8. s \in RuleRows => s \in held'[s]
    <3>1. CASE at[s] = 1 /\ s \in RuleRows
      <4>1. s \in Rows
        BY <3>1, TasksAssumption
      <4>2. s # "check" /\ Task(s) \notin Periods
        BY <4>1, Names
      <4>3. q.op = "add"
        BY <2>3, <3>1, <4>1, <4>2 DEF ScriptFacts
      <4> QED
        BY <2>3, <4>3
    <3>2. CASE at[s] # 1 /\ s \in RuleRows
      BY <2>3, <2>4, <3>2 DEF Ledger, HoldInv, Running
    <3> QED
      BY <3>1, <3>2
  <2>9. NeedsTable(s)' => Statement(s)'.tab \subseteq held'[s]
    <3> SUFFICES ASSUME NeedsTable(s)' PROVE n.tab \subseteq held[s] \cup sel
      BY <2>3
    <3>1. /\ n.op = "zero" => q.op = "move" /\ n.tab = q.tab
          /\ n.op = "move" /\ n.tab = RuleRows /\ Task(s) = "day" /\ RuleRows # UserRows
               => q.op = "report"
          /\ q.op = "report" => q.tab = RuleRows
      BY <1>2, <2>3, <2>4 DEF ScriptFacts
    <3>2. n.op = "zero" \/ (n.op = "move" /\ n.tab = RuleRows /\ Task(s) = "day")
      BY <2>3 DEF NeedsTable
    <3>3. RuleRows = UserRows => RuleRows = {}
      BY DEF UserRows
    <3> HIDE DEF n
    <3> QED
      BY <2>3, <3>1, <3>2, <3>3
  <2>10. \A r \in held'[s], p \in Moved : Sum(work'[r], p) = billed'[r] + Extra(s, r, p)'
    BY <2>1, <2>3, <2>4, WithinWork
  <2>11. \A r \in held'[s] \cap RuleRows :
           Covers(work'[r].report, DaysEnded(work'[r]) + Reported(s, r)')
    BY <2>1, <2>3, WithinReport
  <2>12. SessionOk(s)'
    BY <1>2, <2>3, <2>7, <2>8, <2>9, <2>10, <2>11
    DEF SessionOk, Running, Autocommit, Sum, DaysEnded, Covers
  <2> QED
    BY <2>2, <2>5, <2>6, <2>12, SessionKeeps
<1> QED
  BY <1>1, <1>2

---------------------------------------------------------------------------
(* The stamps.                                                             *)

\* A session whose period is spoilt, or stamped now, or that goes on, keeps the rest.
LEMMA FreshKept ==
  ASSUME IInv, NEW s \in Sessions, Running(s), now' = now, phase' = phase,
         \A t \in Sessions \ {s} : at'[t] = at[t],
         \A p \in Periods : p # Task(s) => stamp'[p] = stamp[p] /\ (p \in spoilt => p \in spoilt'),
         loading' = loading \/ (s = "load" /\ loading' = Tail(loading)),
         Task(s) \in Periods =>
           \/ Task(s) \in spoilt'
           \/ stamp'[Task(s)] = now
           \/ /\ at'[s] # 0 /\ loading' = loading /\ stamp'[Task(s)] = stamp[Task(s)]
              /\ Task(s) \in spoilt => Task(s) \in spoilt'
  PROVE  FreshInv'
<1> SUFFICES ASSUME NEW p \in Periods \ spoilt', at'[p] = 0,
                    phase = "up" \/ (phase = "loading" /\ ~Pending(p)')
             PROVE  Fresh(p)'
  BY DEF FreshInv, Running
<1>0. /\ p \in Sessions /\ now \in Nat /\ Age[p] \in Nat /\ loading \in Seq(Periods)
      /\ s = "load" => loading # <<>>
  BY AgeNat DEF Sessions, IInv, Ledger, TypeOK, RunInv
<1>1. CASE p # Task(s)
  <2>1. p # s
    BY <1>1, Names DEF Periods
  <2>2. at[p] = 0 /\ p \notin spoilt
    BY <1>0, <1>1, <2>1
  <2>3. ~Pending(p)' => ~Pending(p)
    <3>1. CASE loading' = loading
      BY <3>1 DEF Pending
    <3>2. CASE s = "load" /\ loading' = Tail(loading)
      <4>1. Task(s) = Head(loading)
        BY <3>2 DEF Task
      <4> QED
        BY <1>0, <1>1, <3>2, <4>1, PendingTail
    <3> QED
      BY <3>1, <3>2
  <2>4. Fresh(p)
    BY <2>2, <2>3 DEF IInv, FreshInv, Running
  <2> QED
    BY <1>1, <2>4, FreshSame
<1>2. CASE p = Task(s) /\ stamp'[p] = now
  BY <1>0, <1>2, FreshNow
<1>3. CASE p = Task(s) /\ stamp'[p] # now
  <2>1. /\ at'[s] # 0 /\ loading' = loading /\ stamp'[p] = stamp[p]
        /\ p \notin spoilt
    BY <1>3
  <2>2. s # p
    BY <2>1
  <2>3. at[p] = 0 /\ (~Pending(p)' => ~Pending(p))
    BY <1>0, <2>1, <2>2 DEF Pending
  <2>4. Fresh(p)
    BY <2>1, <2>3 DEF IInv, FreshInv, Running
  <2> QED
    BY <2>1, <2>4, FreshSame
<1> QED
  BY <1>1, <1>2, <1>3

\* A step of a session keeps the stamps: it goes on, is stamped, or is spoilt.
LEMMA SessionFresh == ASSUME IInv, NEW s \in Sessions, Session(s) PROVE FreshInv'
<1>1. /\ Running(s) /\ now' = now /\ phase' = phase
      /\ at \in [Sessions -> Nat] /\ stamp \in [Periods -> 0 .. MaxTime]
  BY DEF Session, Execute, Commit, Error, OpenFails, SessionRest, Running, IInv, Ledger, TypeOK
<1>2. CASE Execute(s)
  <2>1. /\ at' = [at EXCEPT ![s] = IF @ = Len(Script(s)) THEN 0 ELSE @ + 1]
        /\ UNCHANGED <<loading, stamp, spoilt>> /\ Statement(s).op # "commit"
    BY <1>2 DEF Execute
  <2>2. Task(s) \in Periods => at'[s] # 0
    <3> SUFFICES ASSUME Task(s) \in Periods PROVE at'[s] # 0
      OBVIOUS
    <3>1. ~Autocommit(s)
      BY Names DEF Autocommit, UserRows, Periods, Task
    <3>2. at' = [at EXCEPT ![s] = at[s] + 1]
      BY <1>2, <3>1, ExecuteWithin DEF IInv, Within
    <3>3. at[s] \in Nat
      BY <1>1
    <3> QED
      BY <1>1, <3>2, <3>3
  <2> QED
    BY <1>1, <2>1, <2>2, FreshKept
<1>3. CASE Commit(s)
  <2>1. Ended(s) /\ save_timestamp(s) /\ spoilt' = spoilt \ {Task(s)}
    BY <1>3 DEF Commit
  <2>2. /\ \A t \in Sessions \ {s} : at'[t] = at[t]
        /\ loading' = loading \/ (s = "load" /\ loading' = Tail(loading))
    BY <1>1, <2>1 DEF Ended
  <2>3. /\ \A p \in Periods : p # Task(s) => stamp'[p] = stamp[p]
        /\ Task(s) \in Periods => stamp'[Task(s)] = now
    BY <1>1, <2>1 DEF save_timestamp
  <2> QED
    BY <1>1, <2>1, <2>2, <2>3, FreshKept
<1>4. CASE OpenFails(s)
  <2>1. Ended(s) /\ stamp' = stamp /\ spoilt' = spoilt \cup ({Task(s)} \cap Periods)
    BY <1>4 DEF OpenFails, dbVars
  <2>2. /\ \A t \in Sessions \ {s} : at'[t] = at[t]
        /\ loading' = loading \/ (s = "load" /\ loading' = Tail(loading))
    BY <1>1, <2>1 DEF Ended
  <2> QED
    BY <1>1, <2>1, <2>2, FreshKept
<1>5. CASE Error(s)
  <2>1. \A p \in Periods : p # Task(s) => stamp'[p] = stamp[p]
    BY <1>1, <1>5 DEF Error, CommitUnseen, save_timestamp
  <2>2. Task(s) \in Periods => stamp'[Task(s)] = now \/ stamp'[Task(s)] = stamp[Task(s)]
    BY <1>1, <1>5 DEF Error, CommitUnseen, save_timestamp
  <2>3. CASE s = "check"
    <3>1. Task(s) \notin Periods
      BY <2>3 DEF Task, Periods
    <3>2. UNCHANGED <<loading, spoilt>> /\ \A t \in Sessions \ {s} : at'[t] = at[t]
      BY <1>1, <1>5, <2>3 DEF Error
    <3> QED
      BY <1>1, <2>1, <3>1, <3>2, FreshKept
  <2>4. CASE s # "check" /\ Again(s)
    <3>1. /\ UNCHANGED <<loading, spoilt>> /\ \A t \in Sessions \ {s} : at'[t] = at[t]
          /\ at'[s] # 0
      BY <1>1, <1>5, <2>4 DEF Error
    <3> QED
      BY <1>1, <2>1, <2>2, <3>1, FreshKept
  <2>5. CASE s # "check" /\ ~Again(s)
    <3>1. /\ loading' = loading \/ (s = "load" /\ loading' = Tail(loading))
          /\ spoilt' = spoilt \cup ({Task(s)} \cap Periods)
          /\ \A t \in Sessions \ {s} : at'[t] = at[t]
      BY <1>1, <1>5, <2>5 DEF Error
    <3> QED
      BY <1>1, <2>1, <3>1, FreshKept
  <2> QED
    BY <2>3, <2>4, <2>5
<1> QED
  BY <1>2, <1>3, <1>4, <1>5 DEF Session

---------------------------------------------------------------------------
(* The theorems.                                                           *)

\* The inductive invariant holds when the daemon is first up.
LEMMA InvInit == Init => IInv
<1> SUFFICES ASSUME Init PROVE IInv
  OBVIOUS
<1>1. NewRow \in Row
  BY DEF NewRow, Row
<1>2. TypeOK
  BY <1>1, TasksAssumption DEF Init, TypeOK
<1>3. RunInv /\ HoldInv /\ LockInv /\ WorkInv
  BY TasksAssumption DEF Init, RunInv, HoldInv, LockInv, WorkInv, Running, Sessions
<1>4. \A p \in Moved : NewRow.cur[p] = 0 /\ NewRow.prev[p] = 0 /\ NewRow.gone[p] = 0
  BY DEF NewRow
<1>5. BytesKept
  BY <1>4 DEF Init, BytesKept
<1>6. NewRow.report = 0 /\ NewRow.prev["day"] = 0 /\ NewRow.gone["day"] = 0
  BY DEF NewRow, Moved
<1>7. ReportInv /\ ReportComplete
  BY <1>6, TasksAssumption DEF Init, ReportInv, ReportComplete
<1>8. FreshInv
  <2> SUFFICES ASSUME NEW p \in Periods PROVE Fresh(p)
    BY DEF FreshInv
  <2>1. now = 0 /\ stamp[p] = 0 /\ Age[p] \in Nat /\ Due[p] \subseteq Nat
    BY AgeNat DEF Init
  <2>2. 0 \in 0 .. now /\ 0 - stamp[p] <= Age[p] /\ \A d \in Due[p] : ~(0 < d /\ d <= now)
    BY <2>1
  <2> QED
    BY <2>2 DEF Fresh
<1> QED
  BY <1>2, <1>3, <1>5, <1>7, <1>8 DEF IInv, Ledger

\* Every step keeps the inductive invariant.
LEMMA InvStep == IInv /\ [Next]_vars => IInv'
<1> SUFFICES ASSUME IInv, [Next]_vars PROVE IInv'
  OBVIOUS
<1>1. CASE Tick
  BY <1>1, TickKeeps
<1>2. CASE StartCheck \/ \E r \in Rows : StartExport(r)
  BY <1>2, StartKeeps
<1>3. CASE check_correct
  BY <1>3, CheckKeeps
<1>4. CASE Stop
  BY <1>4, StopKeeps
<1>5. CASE UNCHANGED vars \/ Loaded \/ Start \/ \E r \in Rows : Block(r)
  BY <1>5, OtherKeeps
<1>6. ASSUME NEW s \in Sessions, Session(s) PROVE IInv'
  <2>1. Ledger'
    BY <1>6, ExecuteLedger, CommitLedger, ErrorLedger, OpenFailsLedger DEF Session, IInv
  <2> QED
    BY <1>6, <2>1, SessionFresh DEF IInv
<1> QED
  BY <1>1, <1>2, <1>3, <1>4, <1>5, <1>6 DEF Next

\* The tables, the sessions and the stamps have their types.
THEOREM TaskTypes == Spec => []TypeOK
<1>1. IInv => TypeOK
  BY DEF IInv, Ledger
<1> QED
  BY <1>1, InvInit, InvStep, PTL DEF Spec

\* Every byte exported to a row is in the column of the running period, in that of the
\* last one, or was once, for any tables, schedule and attempts, whatever resets,
\* exports, retries, unseen commits, deadlocks and stops interleave.
THEOREM ExportsKept == Spec => []BytesKept
<1>1. IInv => BytesKept
  BY DEF IInv, Ledger
<1> QED
  BY <1>1, InvInit, InvStep, PTL DEF Spec

\* The report has every day of every rule, exactly once where it is transactional.
THEOREM DaysReported == Spec => []ReportComplete
<1>1. IInv => ReportComplete
  BY DEF IInv, Ledger
<1> QED
  BY <1>1, InvInit, InvStep, PTL DEF Spec

\* With the daemon up and no session running, a reset that has not failed is less than
\* two periods old, for any schedule that starts it at least once a period.
THEOREM ResetsCaughtUp == Spec => []ResetWithinTwoPeriods
<1>1. IInv => ResetWithinTwoPeriods
  <2> SUFFICES ASSUME IInv, phase = "up", \A s \in Sessions : ~Running(s),
                      NEW p \in Periods \ spoilt
               PROVE  now - stamp[p] < 2 * Age[p]
    BY DEF ResetWithinTwoPeriods
  <2>1. Fresh(p)
    BY DEF IInv, FreshInv, Sessions
  <2>2. PICK t \in 0 .. now : t - stamp[p] <= Age[p] /\ \A d \in Due[p] : ~(t < d /\ d <= now)
    BY <2>1 DEF Fresh
  <2>3. /\ now \in 0 .. MaxTime /\ stamp[p] \in Int /\ Age[p] \in Nat /\ Due[p] \subseteq Nat
        /\ MaxTime \in Nat
    BY AgeNat, TasksAssumption DEF IInv, Ledger, TypeOK
  <2>4. t \in 0 .. MaxTime
    BY <2>2, <2>3
  <2>5. PICK d \in Due[p] : t < d /\ d <= t + Age[p]
    BY <2>4, CalendarAssumption
  <2>6. d \in Nat /\ now < d
    BY <2>2, <2>3, <2>5
  <2> QED
    BY <2>2, <2>3, <2>5, <2>6
<1> QED
  BY <1>1, InvInit, InvStep, PTL DEF Spec
=============================================================================
