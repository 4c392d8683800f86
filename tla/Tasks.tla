------------------------------- MODULE Tasks -------------------------------
(***************************************************************************)
(* The periodic tasks (src/src/tasks.c, the catch-up of src/src/misc.c and *)
(* their registration in src/ipstat_system/main.c) against the database    *)
(* they share with the export of the counters: the daily, weekly and       *)
(* monthly resets are transactions with retries, check_limit is a list of  *)
(* single statements, an export is one statement (Users) or a transaction  *)
(* over a rule and its user (Rules).                                       *)
(*                                                                         *)
(* Users and Rules are InnoDB tables.  A statement of a transaction locks  *)
(* the rows it updates until commit or rollback; a statement waits while   *)
(* another session holds one of its rows; of sessions that wait for each   *)
(* other in a circle the server fails one.  Time advances in steps far     *)
(* longer than a task.                                                     *)
(***************************************************************************)
EXTENDS Integers, Sequences

CONSTANTS
  Rows,            \* rows of Users and of Rules
  RuleRows,        \* the rows that belong to Rules
  Type,            \* the column Type of a row
  Limitation,      \* the column Limitation, -1 = none
  Charged,         \* the Users rows an export of a rule charges: none with CONST_SUM
  Age,             \* the age, per period, from which load catches up
  Due,             \* the times, per period, at which the scheduler starts it
  Tries,           \* count = 4 in the code
  ReportRollsBack, \* System_Report, created without TYPE, is transactional
  MaxTime, MaxExports,   \* bounds
  MaxEvents        \* bound on failures, stops and edits of the web interface

Periods == {"day", "week", "month"}
Moved   == {"day", "month"}     \* periods with a T and a Y column

UserRows == Rows \ RuleRows

ASSUME TasksAssumption ==
  /\ RuleRows \subseteq Rows /\ Charged \in [RuleRows -> SUBSET UserRows]
  /\ Rows \cap (Periods \cup {"load", "check"}) = {}
  /\ Type \in [Rows -> 0 .. 4] /\ Limitation \in [Rows -> Nat \cup {-1}]
  /\ Age \in [Periods -> Nat \ {0}] /\ Due \in [Periods -> SUBSET Nat]
  /\ Tries \in Nat \ {0} /\ ReportRollsBack \in BOOLEAN
  /\ {MaxTime, MaxExports, MaxEvents} \subseteq Nat

\* a month has at most 31 days, the age of its catch-up
ASSUME CalendarAssumption ==
  \A p \in Periods, t \in 0 .. MaxTime :
    \E d \in Due[p] : t < d /\ d <= t + Age[p]

VARIABLES
  phase,     \* "down", "loading" (load of ipstat_system), "up"
  now,       \* the time
  db,        \* the committed rows
  work,      \* the rows as the sessions that lock them have changed them
  blocked,   \* the rows with onBlocked = '1'
  stamp,     \* System_Table: date_last_every_day, ..._week, ..._month
  at,        \* each session's next statement, 0 = not running
  left,      \* count: the attempts a session has left
  held,      \* the rows a session has locked
  loading,   \* the periods load has still to check, the first one next
  exports, events,   \* the bounded counters
  spoilt,    \* history: a period whose task failed or could not connect
  billed     \* history: bytes exported to each row

\* a session per job, one for load, and one per row for the export to it
Sessions == Periods \cup {"load", "check"} \cup Rows

dbVars   == <<db, work, stamp>>
sesVars  == <<at, left, held>>
histVars == <<spoilt, billed>>
vars == <<phase, now, dbVars, blocked, sesVars, loading, exports, events, histVars>>

\* traffic, TDay and TMonth, YDay and YMonth, Balance, onActive, the sum of the
\* row's entries in System_Report, and the history of overwritten Y columns
NewRow == [traffic |-> 0, cur |-> [p \in Moved |-> 0], prev |-> [p \in Moved |-> 0],
           balance |-> 0, active |-> TRUE, report |-> 0,
           gone |-> [p \in Moved |-> 0]]
---------------------------------------------------------------------------
(* The scripts.  A statement is an operation on the rows of one table; the *)
(* clear of a period is restricted to the rows of the period's Type.       *)

U(op) == [op |-> op, tab |-> UserRows]
R(op) == [op |-> op, tab |-> RuleRows]

\* seeded fault: the report is written after TDay was cleared
task_every_day_late ==
  <<U("clear"), U("move"), U("zero"), R("clear"), R("move"), R("zero"),
    R("report"), R("commit")>>

task_every_day ==
  <<U("clear"), U("move"), U("zero"), R("clear"), R("report"),
    R("move"), R("zero"), R("commit")>>

task_every_week == <<U("clear"), R("clear"), R("commit")>>

task_every_month ==
  <<U("clear"), U("move"), U("zero"), R("clear"), R("move"), R("zero"),
    R("commit")>>

\* The statements for the unblocked rows of a table, each of which selects
\* the rows of one case, run as one.
task_check_limit == <<U("limit"), R("limit"), U("block"), R("block")>>

users_mysql_export == <<U("add")>>
rules_mysql_export == <<R("add"), U("charge"), R("commit")>>

\* the period, job or row a session works on
Task(s) == IF s = "load" THEN Head(loading) ELSE s

Script(s) ==
  CASE Task(s) = "day"   -> task_every_day
    [] Task(s) = "week"  -> task_every_week
    [] Task(s) = "month" -> task_every_month
    [] s = "check"       -> task_check_limit
    [] s \in UserRows    -> users_mysql_export
    [] s \in RuleRows    -> rules_mysql_export

PeriodType(p) == CASE p = "day" -> 1 [] p = "week" -> 2 [] p = "month" -> 3

\* check_limit and the export of a user run with autocommit
Autocommit(s) == s \in {"check"} \cup UserRows

Metered(r) == r \in RuleRows \/ Type[r] # 4

\* seeded fault: a limit of N bytes is reached with the Nth
WithinLimit_strict(r, row) ==
  IF Metered(r) THEN Limitation[r] = -1 \/ row.traffic < Limitation[r]
                ELSE row.balance >= 0

\* which of the statements for limits selects the row: one that sets onActive
WithinLimit(r, row) ==
  IF Metered(r) THEN Limitation[r] = -1 \/ row.traffic <= Limitation[r]
                ELSE row.balance >= 0

\* the rows that the where clause of a statement selects
Selected(s, q) ==
  {r \in q.tab :
    CASE q.op = "clear"  -> Type[r] = PeriodType(Task(s))
      [] q.op = "add"    -> r = s
      [] q.op = "charge" -> r \in Charged[s]
      [] q.op = "limit"  -> r \notin blocked
      [] q.op = "block"  -> r \in blocked
      [] OTHER           -> TRUE}

\* what it makes of such a row
Effect(s, q, r) ==
  LET row == work[r] p == Task(s)
  IN  CASE q.op = "clear"  -> [row EXCEPT !.traffic = 0]
        [] q.op = "move"   -> [row EXCEPT !.prev[p] = row.cur[p],
                                          !.gone[p] = @ + row.prev[p]]
        [] q.op = "zero"   -> [row EXCEPT !.cur[p] = 0]
        [] q.op = "report" -> [row EXCEPT !.report = @ + row.cur["day"]]
        [] q.op = "add"    -> [row EXCEPT !.traffic = @ + 1,
                                          !.cur = [m \in Moved |-> @[m] + 1]]
        [] q.op = "charge" -> [row EXCEPT !.balance = @ - 1]
        [] q.op = "limit"  -> [row EXCEPT !.active = WithinLimit(r, row)]
        [] q.op = "block"  -> [row EXCEPT !.active = FALSE]
---------------------------------------------------------------------------
(* Locks.                                                                  *)

Running(s)   == at[s] # 0
Statement(s) == Script(s)[at[s]]

\* the rows a statement reads or updates; check_limit scans the table
Touched(s) ==
  IF Statement(s).op = "commit" THEN {}
  ELSE IF s = "check" THEN Statement(s).tab
  ELSE Selected(s, Statement(s))

WaitsFor(s, t) ==
  s # t /\ held[t] # {} /\ Running(s) /\ Touched(s) \cap held[t] # {}

Waiting(s) ==
  Touched(s) \cap UNION {held[t] : t \in Sessions \ {s}} # {}

\* the session is on a circle of sessions that wait for each other
Deadlocked(s) ==
  \E S \in SUBSET {t \in Sessions : Running(t) /\ Waiting(t)} :
    /\ s \in S
    /\ \A t \in S : (\E v \in S : WaitsFor(t, v)) /\ (\E v \in S : WaitsFor(v, t))
---------------------------------------------------------------------------
Init ==
  /\ phase = "up" /\ now = 0
  /\ db = [r \in Rows |-> NewRow] /\ work = db /\ blocked = {}
  /\ stamp = [p \in Periods |-> 0]
  /\ at = [s \in Sessions |-> 0] /\ left = [s \in Sessions |-> Tries]
  /\ held = [s \in Sessions |-> {}]
  /\ loading = <<>>
  /\ exports = 0 /\ events = 0 /\ spoilt = {}
  /\ billed = [r \in Rows |-> 0]

Quiet == \A s \in Sessions \ {"load"} : ~Running(s)

Begin(S) ==
  /\ at' = [s \in Sessions |-> IF s \in S THEN 1 ELSE at[s]]
  /\ UNCHANGED <<left, held>>

Ended(s) ==
  /\ at' = [at EXCEPT ![s] = 0] /\ left' = [left EXCEPT ![s] = Tries]
  /\ held' = [held EXCEPT ![s] = {}]
  /\ loading' = IF s = "load" THEN Tail(loading) ELSE loading

\* The clock.  The jobs are registered before load catches up, so both may
\* run a reset at once.
Tick ==
  /\ now < MaxTime /\ Quiet
  /\ now' = now + 1
  /\ Begin(IF phase = "down" THEN {} ELSE {p \in Periods : now' \in Due[p]})
  /\ UNCHANGED <<phase, dbVars, blocked, loading, exports, events, histVars>>

\* the scheduler starts check_limit every minute
StartCheck ==
  /\ phase = "up" /\ ~Running("check") /\ Begin({"check"})
  /\ UNCHANGED <<phase, now, dbVars, blocked, loading, exports, events, histVars>>

StartExport(r) ==
  /\ phase # "down" /\ \A q \in Rows : ~Running(q)
  /\ exports < MaxExports /\ exports' = exports + 1 /\ Begin({r})
  /\ UNCHANGED <<phase, now, dbVars, blocked, loading, events, histVars>>

\* the web interface blocks or unblocks a row
Block(r) ==
  /\ events < MaxEvents /\ events' = events + 1
  /\ \A s \in Sessions : r \notin held[s]
  /\ blocked' = IF r \in blocked THEN blocked \ {r} ELSE blocked \cup {r}
  /\ UNCHANGED <<phase, now, dbVars, sesVars, loading, exports,
                 histVars>>
---------------------------------------------------------------------------
(* A session.                                                              *)

SessionRest == UNCHANGED <<phase, now, blocked, exports>>

Updated(s, rows) ==
  LET sel == Selected(s, Statement(s))
  IN  [r \in Rows |-> IF r \in sel THEN Effect(s, Statement(s), r) ELSE rows[r]]

\* seeded fault: the transaction is not begun, every statement commits
Write_committed(s) ==
  work' = Updated(s, work) /\ db' = Updated(s, db) /\ UNCHANGED held

\* A statement outside a transaction commits at once; inside, its rows stay
\* locked.  A System_Report without transactions keeps the rows inserted.
Write(s) ==
  /\ work' = Updated(s, work)
  /\ IF Autocommit(s)
       THEN db' = Updated(s, db) /\ UNCHANGED held
       ELSE /\ held' = [held EXCEPT ![s] = @ \cup Touched(s)]
            /\ db' = IF Statement(s).op = "report" /\ ~ReportRollsBack
                       THEN [r \in Rows |-> [db[r] EXCEPT !.report = work'[r].report]]
                       ELSE db

Billed(s) ==
  billed' = [r \in Rows |-> IF r = s THEN billed[r] + 1 ELSE billed[r]]

Execute(s) ==
  /\ Running(s) /\ ~Waiting(s) /\ Statement(s).op # "commit"
  /\ Write(s)
  /\ at' = [at EXCEPT ![s] = IF @ = Len(Script(s)) THEN 0 ELSE @ + 1]
  /\ IF Autocommit(s) THEN Billed(s) ELSE UNCHANGED billed
  /\ UNCHANGED <<left, loading, stamp, events, spoilt>>
  /\ SessionRest

\* of a reset; inside its transaction, so seen with the commit
save_timestamp(s) ==
  stamp' = IF Task(s) \in Periods THEN [stamp EXCEPT ![Task(s)] = now] ELSE stamp

Commit(s) ==
  /\ Running(s) /\ Statement(s).op = "commit"
  /\ db' = [r \in Rows |-> IF r \in held[s] THEN work[r] ELSE db[r]]
  /\ save_timestamp(s)
  /\ spoilt' = spoilt \ {Task(s)}
  /\ Billed(s) /\ Ended(s)
  /\ UNCHANGED <<work, events>>
  /\ SessionRest

\* the server chose this session to end a deadlock, or the call failed
Fails(s) ==
  \/ Waiting(s) /\ Deadlocked(s) /\ UNCHANGED events
  \/ events < MaxEvents /\ events' = events + 1

\* seeded fault: no rollback before the next attempt or the return
Rollback_none(s) == UNCHANGED <<work, held>>

Rollback(s) ==
  /\ work' = [r \in Rows |-> IF r \in held[s] THEN db[r] ELSE work[r]]
  /\ held' = [held EXCEPT ![s] = {}]

\* seeded fault: the attempts are counted off by one
Again_late(s) == Task(s) \in Periods /\ left[s] > 0

\* count-- and the test of what is left
Again(s) == Task(s) \in Periods /\ left[s] > 1

\* The commit of a reset was executed, but the client did not learn of it.
CommitUnseen(s) ==
  /\ Statement(s).op = "commit" /\ Task(s) \in Periods /\ events' # events
  /\ db' = [r \in Rows |-> IF r \in held[s] THEN work[r] ELSE db[r]]
  /\ save_timestamp(s)
  /\ held' = [held EXCEPT ![s] = {}] /\ UNCHANGED work

\* A reset is tried again, up to count times, and then given up with its
\* session open; an export gives its bytes back to the node; check_limit goes
\* on with its next statement.
Error(s) ==
  /\ Running(s) /\ Fails(s)
  /\ CommitUnseen(s) \/ (Rollback(s) /\ UNCHANGED <<db, stamp>>)
  /\ IF s = "check"
       THEN /\ at' = [at EXCEPT ![s] = IF @ = Len(Script(s)) THEN 0 ELSE @ + 1]
            /\ UNCHANGED <<left, loading, spoilt>>
     ELSE IF Again(s)
       THEN /\ at' = [at EXCEPT ![s] = 1] /\ left' = [left EXCEPT ![s] = @ - 1]
            /\ UNCHANGED <<loading, spoilt>>
       ELSE /\ at' = [at EXCEPT ![s] = 0] /\ left' = [left EXCEPT ![s] = Tries]
            /\ loading' = IF s = "load" THEN Tail(loading) ELSE loading
            /\ spoilt' = spoilt \cup ({Task(s)} \cap Periods)
  /\ UNCHANGED billed
  /\ SessionRest

\* store->open fails before the first statement; the task is not tried again
OpenFails(s) ==
  /\ at[s] = 1 /\ left[s] = Tries
  /\ events < MaxEvents /\ events' = events + 1
  /\ Ended(s) /\ spoilt' = spoilt \cup ({Task(s)} \cap Periods)
  /\ UNCHANGED <<dbVars, billed>>
  /\ SessionRest
---------------------------------------------------------------------------
(* load of ipstat_system: check_correct_day, _week and _month.             *)

\* UNIX_TIMESTAMP(NOW()) - Value > 86400: seconds decide at equality
Overdue(p) == {now - stamp[p] > Age[p], now - stamp[p] >= Age[p]}

\* seeded fault: load does not catch up
check_correct_none ==
  /\ phase = "loading" /\ ~Running("load") /\ loading # <<>>
  /\ loading' = Tail(loading)
  /\ UNCHANGED <<phase, now, dbVars, blocked, sesVars, exports, events, histVars>>

\* the query, or store->open, may fail: the period is left to the scheduler
check_correct ==
  /\ phase = "loading" /\ ~Running("load") /\ loading # <<>>
  /\ \/ /\ \E late \in Overdue(Head(loading)) :
             IF late THEN Begin({"load"}) /\ UNCHANGED loading
                     ELSE loading' = Tail(loading) /\ UNCHANGED sesVars
        /\ UNCHANGED <<events, spoilt>>
     \/ /\ events < MaxEvents /\ events' = events + 1
        /\ spoilt' = spoilt \cup {Head(loading)}
        /\ loading' = Tail(loading) /\ UNCHANGED sesVars
  /\ UNCHANGED <<phase, now, dbVars, blocked, exports, billed>>

Loaded ==
  /\ phase = "loading" /\ loading = <<>> /\ phase' = "up"
  /\ UNCHANGED <<now, dbVars, blocked, sesVars, loading, exports, events, histVars>>

\* The daemon is stopped or killed: the server rolls its transactions back.
Stop ==
  /\ phase # "down" /\ events < MaxEvents /\ events' = events + 1
  /\ phase' = "down" /\ work' = db
  /\ at' = [s \in Sessions |-> 0] /\ left' = [s \in Sessions |-> Tries]
  /\ held' = [s \in Sessions |-> {}] /\ loading' = <<>>
  /\ UNCHANGED <<now, db, stamp, blocked, exports, histVars>>

Start ==
  /\ phase = "down" /\ phase' = "loading"
  /\ loading' = <<"day", "week", "month">>
  /\ UNCHANGED <<now, dbVars, blocked, sesVars, exports, events, histVars>>

Session(s) == Execute(s) \/ Commit(s) \/ Error(s) \/ OpenFails(s)

Next ==
  \/ Tick \/ StartCheck \/ check_correct \/ Loaded \/ Stop \/ Start
  \/ \E r \in Rows : StartExport(r) \/ Block(r)
  \/ \E s \in Sessions : Session(s)

Spec == Init /\ [][Next]_vars

\* The scheduler starts check_limit; threads and server make progress and the
\* watch script starts a daemon that is down.  Each is needed of the whole
\* group only: time, exports and edits need not go on.
FairSpec ==
  /\ Spec /\ WF_vars(StartCheck \/ Session("check"))
  /\ WF_vars(\/ check_correct \/ Loaded \/ Start
             \/ \E s \in Sessions \ {"check"} : Session(s))
---------------------------------------------------------------------------
(* Properties.                                                             *)

Row == [traffic : Nat, cur : [Moved -> Nat], prev : [Moved -> Nat],
        balance : Int, active : BOOLEAN, report : Nat, gone : [Moved -> Nat]]

TypeOK ==
  /\ phase \in {"down", "loading", "up"} /\ now \in 0 .. MaxTime
  /\ db \in [Rows -> Row] /\ work \in [Rows -> Row] /\ blocked \subseteq Rows
  /\ stamp \in [Periods -> 0 .. MaxTime]
  /\ at \in [Sessions -> Nat] /\ left \in [Sessions -> 1 .. Tries]
  /\ held \in [Sessions -> SUBSET Rows] /\ loading \in Seq(Periods)
  /\ exports \in Nat /\ events \in Nat
  /\ spoilt \subseteq Periods /\ billed \in [Rows -> Nat]

\* What users_sync has exported to a row is in today's (this month's) column, in
\* yesterday's (last month's), or was once: no export is lost between the
\* statements of a reset, and no failed or repeated attempt counts one twice.
BytesKept ==
  \A r \in Rows, p \in Moved :
    db[r].cur[p] + db[r].prev[p] + db[r].gone[p] = billed[r]

\* System_Report has every day's bytes of every rule; without transactions a
\* repeated attempt reports a day again, with them exactly once.
ReportComplete ==
  \A r \in RuleRows :
    LET ended == db[r].prev["day"] + db[r].gone["day"]
    IN  IF ReportRollsBack THEN db[r].report = ended ELSE db[r].report >= ended

\* load catches up with what was missed while the daemon was down: once it is
\* up, every reset is less than two periods old, unless its last attempt failed.
ResetWithinTwoPeriods ==
  phase = "up" /\ (\A s \in Sessions : ~Running(s)) =>
    \A p \in Periods \ spoilt : now - stamp[p] < 2 * Age[p]

\* onActive as the columns demand it
Allowed(r) ==
  /\ r \notin blocked
  /\ IF Type[r] = 4 /\ r \in UserRows THEN db[r].balance >= 0
     ELSE Limitation[r] = -1 \/ db[r].traffic <= Limitation[r]

\* Once exports, edits and failures stop, limits, debts and blocks are
\* enforced, and lifted, by a later check_limit, for good.
LimitsApplied == <>[](\A r \in Rows : db[r].active = Allowed(r))

\* Nobody waits for ever: the transactions release their rows on every path,
\* and the opposite lock orders of resets and exports are resolved.
TasksEnd == <>[](\A s \in Sessions \ {"check"} : ~Running(s))
===========================================================================
