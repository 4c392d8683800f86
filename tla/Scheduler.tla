----------------------------- MODULE Scheduler -----------------------------
(***************************************************************************)
(* The job scheduler (src/src/sched.c).  A manager thread sleeps to the    *)
(* next minute, then walks sched_list under scheduler_mutex and starts a   *)
(* detached thread for every job that is due and asleep.  main registers   *)
(* and unregisters jobs as it loads and unloads the modules, the console   *)
(* prints the list, and main frees the scheduler in the end, with the      *)
(* nodes of the jobs whose module did not unregister them.                 *)
(*                                                                         *)
(* Time is the position in Calendar, a cycle of local times; Tick is the   *)
(* passing of a minute.  With prompt the machine keeps up: the manager     *)
(* finishes its walk, a thread it created begins, and a thread whose job   *)
(* has returned ends, within the minute.                                   *)
(***************************************************************************)
EXTENDS Integers, Sequences, FiniteSets, SequencesExt

CONSTANTS
  Jobs,       \* job names
  Crontab,    \* the five fields each job is registered with
  Calendar,   \* the cycle of local times
  Nodes,      \* NODE_SCHEDULER allocations
  Children,   \* threads that may exist at once
  Null,       \* no node, no holder of scheduler_mutex
  MaxFaults   \* bound on failing pthread_create calls

Fields == {"min", "hour", "mday", "mon", "wday"}

ASSUME SchedulerAssumption ==
  /\ Calendar # <<>> /\ Calendar \in Seq([Fields -> Nat])
  /\ Crontab \in [Jobs -> [Fields -> [star : BOOLEAN, num : Nat,
                                      slash : BOOLEAN, step : Int]]]
  \* "*/0" would divide by zero in time_cmp
  /\ \A j \in Jobs, f \in Fields : Crontab[j][f].slash => Crontab[j][f].step # 0
  /\ Null \notin Nodes \cup {"manager", "console"} /\ MaxFaults \in Nat

VARIABLES
  prompt,     \* rigid: the machine keeps up with the clock
  now,        \* position in Calendar
  list,       \* sched_list
  owners,     \* jobs whose module has registered and not unregistered
  mem,        \* each node: "unused", "linked", "leaked" or "freed"
  name,       \* node->name
  status,     \* node->status
  lock,       \* holder of scheduler_mutex
  mpc, mnode, wake,   \* the manager, its t_tmp, minutes it still sleeps
  child, task,        \* each thread's step and its NODE_SCHEDULER
  fpc, doexit,        \* main inside schedulers_free, "crashed" with all; do_exit
  faults,
  since, visited      \* history: nodes listed at the last Tick, walked since

jobVars   == <<list, owners, mem, name>>
mgrVars   == <<mpc, mnode, wake>>
childVars == <<child, task>>
freeVars  == <<fpc, doexit>>
histVars  == <<since, visited>>
vars == <<prompt, now, jobVars, status, lock, mgrVars, childVars, freeVars, faults,
          histVars>>

---------------------------------------------------------------------------
(* Crontab fields.                                                         *)

\* -1 stands for an absent number
parse_vol(f) == [vol |-> IF f.star THEN -1 ELSE f.num,
                 div |-> IF f.slash THEN f.step ELSE -1]

FieldMatches(v, t) ==
  \/ v.div = -1 /\ v.vol \in {-1, t}
  \/ v.div # -1 /\ t % (IF v.div < 0 THEN -v.div ELSE v.div) = 0

time_cmp(j) ==
  \A f \in Fields : FieldMatches(parse_vol(Crontab[j][f]), Calendar[now][f])
---------------------------------------------------------------------------
Init ==
  /\ prompt \in BOOLEAN
  /\ now = 1 /\ list = <<>> /\ owners = {}
  /\ mem = [n \in Nodes |-> "unused"] /\ name = [n \in Nodes |-> Null]
  /\ status = [n \in Nodes |-> "SLEEP"] /\ lock = Null
  /\ mpc = "check" /\ mnode = Null /\ wake = 0
  /\ child = [c \in Children |-> "none"] /\ task = [c \in Children |-> Null]
  /\ fpc = "run" /\ doexit = FALSE /\ faults = 0
  /\ since = {} /\ visited = {}

\* A minute passes.
Tick ==
  /\ prompt => /\ mpc = "exited" \/ (mpc = "sleep" /\ wake > 0)
               /\ \A c \in Children : child[c] \in {"none", "running"}
  /\ now' = (now % Len(Calendar)) + 1
  /\ wake' = IF wake > 0 THEN wake - 1 ELSE 0
  /\ since' = (IF prompt THEN ToSet(list) ELSE {}) /\ visited' = {}
  /\ UNCHANGED <<prompt, jobVars, status, lock, mpc, mnode, childVars, freeVars, faults>>

\* The process ends, whatever its threads are doing: memory is gone.
Crash ==
  /\ fpc' = "crashed" /\ mpc' = "exited" /\ mnode' = Null /\ wake' = 0
  /\ child' = [c \in Children |-> "none"] /\ task' = [c \in Children |-> Null]
  /\ lock' = Null /\ list' = <<>> /\ owners' = {}
  /\ mem' = [n \in Nodes |-> "unused"] /\ name' = [n \in Nodes |-> Null]
  /\ status' = [n \in Nodes |-> "SLEEP"]
  /\ since' = {} /\ visited' = {}
  /\ UNCHANGED <<prompt, now, doexit, faults>>
---------------------------------------------------------------------------
(* Modules and console.  main loads every module at the start and unloads  *)
(* it at exit.  The order of the calls is left open.                       *)

\* st_scheduler is not NULL
CHECK_CORRECT_SCHED == fpc \notin {"freed", "crashed"}

\* main is not in schedulers_free yet
Loading == fpc = "run" /\ CHECK_CORRECT_SCHED

Unused == {n \in Nodes : mem[n] = "unused"}

\* nodes are interchangeable: malloc returns any of them
schedulers_register(j) ==
  /\ Loading /\ lock = Null /\ j \notin owners
  /\ Unused # {}
  /\ LET n == CHOOSE m \in Unused : TRUE
     IN  /\ mem' = [mem EXCEPT ![n] = "linked"]
         /\ name' = [name EXCEPT ![n] = j]
         /\ list' = <<n>> \o list
  /\ owners' = owners \cup {j}
  /\ UNCHANGED <<prompt, now, status, lock, mgrVars, childVars, freeVars, faults, histVars>>

Found(j) == {i \in DOMAIN list : name[list[i]] = j}

Unlink(j, fate) ==
  /\ \E i \in Found(j) :
       /\ list' = RemoveAt(list, i)
       /\ mem' = [mem EXCEPT ![list[i]] = fate]
  /\ owners' = owners \ {j}
  /\ UNCHANGED <<prompt, now, name, status, lock, mgrVars, childVars, freeVars, faults,
                 histVars>>

\* seeded faults: the list is changed without scheduler_mutex; the node is
\* freed with its cell
Unregister_unlocked(j) == Loading /\ j \in owners /\ Unlink(j, "leaked")
Unregister_freeing(j) == Loading /\ lock = Null /\ j \in owners /\ Unlink(j, "freed")

\* the cell is freed, the node is not: a thread may be running it
schedulers_unregister(j) ==
  Loading /\ lock = Null /\ j \in owners /\ Unlink(j, "leaked")

ConsoleRest == UNCHANGED <<prompt, now, jobVars, status, mgrVars, childVars, freeVars, faults,
                           histVars>>

\* the table is sent to the client under scheduler_mutex
PrintBegin == CHECK_CORRECT_SCHED /\ lock = Null /\ lock' = "console" /\ ConsoleRest

\* a console that was sending the heading, between CHECK_CORRECT_SCHED and the
\* mutex, when st_scheduler became NULL
PrintCrash == fpc = "freed" /\ lock = Null /\ Crash

PrintEnd == lock = "console" /\ lock' = Null /\ ConsoleRest

Console == PrintBegin \/ PrintCrash \/ PrintEnd
---------------------------------------------------------------------------
(* thr_scheduler                                                           *)

ManagerRest == UNCHANGED <<prompt, now, jobVars, status, childVars, freeVars>>

MCheck ==
  /\ mpc = "check"
  /\ mpc' = IF doexit THEN "exited" ELSE "calc"
  /\ UNCHANGED <<lock, mnode, wake, faults, histVars>> /\ ManagerRest

\* seeded fault: one minute too long
MCalc_late ==
  /\ mpc = "calc" /\ mpc' = "sleep" /\ wake' = 2
  /\ UNCHANGED <<lock, mnode, faults, histVars>> /\ ManagerRest

\* sleep(60 - tm_sec): to the next minute
MCalc ==
  /\ mpc = "calc" /\ mpc' = "sleep" /\ wake' = 1
  /\ UNCHANGED <<lock, mnode, faults, histVars>> /\ ManagerRest

MWake ==
  /\ mpc = "sleep" /\ wake = 0
  /\ mpc' = IF doexit THEN "exited" ELSE "lock"
  /\ UNCHANGED <<lock, mnode, wake, faults, histVars>> /\ ManagerRest

MLock ==
  /\ mpc = "lock" /\ lock = Null
  /\ lock' = "manager" /\ mpc' = "walk"
  /\ mnode' = IF list = <<>> THEN Null ELSE Head(list)
  /\ UNCHANGED <<wake, faults, histVars>> /\ ManagerRest

NextNode(n) ==
  LET i == CHOOSE k \in 1 .. Len(list) : list[k] = n
  IN  IF i = Len(list) THEN Null ELSE list[i + 1]

Idle == {c \in Children : child[c] = "none"}

\* pthread_create; no thread left in Children is a failure as well
Create(n) ==
  \/ /\ Idle # {}
     /\ LET c == CHOOSE d \in Idle : TRUE
        IN  /\ child' = [child EXCEPT ![c] = "created"]
            /\ task' = [task EXCEPT ![c] = n]
     /\ UNCHANGED faults
  \/ Idle = {} /\ UNCHANGED <<childVars, faults>>
  \/ faults < MaxFaults /\ faults' = faults + 1 /\ UNCHANGED childVars

MWalk ==
  /\ mpc = "walk" /\ mnode # Null
  /\ IF time_cmp(name[mnode]) /\ status[mnode] = "SLEEP"
       THEN Create(mnode) ELSE UNCHANGED <<childVars, faults>>
  /\ mnode' = NextNode(mnode) /\ visited' = IF prompt THEN visited \cup {mnode} ELSE {}
  /\ UNCHANGED <<prompt, now, jobVars, status, lock, mpc, wake, freeVars, since>>

MUnlock ==
  /\ mpc = "walk" /\ mnode = Null
  /\ lock' = Null /\ mpc' = "check"
  /\ UNCHANGED <<mnode, wake, faults, histVars>> /\ ManagerRest

Manager == MCheck \/ MCalc \/ MWake \/ MLock \/ MWalk \/ MUnlock
---------------------------------------------------------------------------
(* thr_scheduler_child.  A step that uses a freed node goes on, or ends    *)
(* the process.                                                            *)

ChildRest == UNCHANGED <<prompt, now, jobVars, lock, mgrVars, freeVars, faults, histVars>>

\* seeded fault: the job is not marked as running
ChildStart_unmarked(c) ==
  /\ child[c] = "created" /\ child' = [child EXCEPT ![c] = "running"]
  /\ UNCHANGED <<status, task>> /\ ChildRest

ChildStart(c) ==
  /\ child[c] = "created" /\ child' = [child EXCEPT ![c] = "running"]
  /\ status' = [status EXCEPT ![task[c]] = "RUN"]
  /\ UNCHANGED task /\ ChildRest

\* seeded fault: a job that ran is never asleep again
ChildReturn_marked(c) ==
  /\ child[c] = "running" /\ child' = [child EXCEPT ![c] = "leaving"]
  /\ UNCHANGED <<status, task>> /\ ChildRest

\* func returned
ChildReturn(c) ==
  /\ child[c] = "running" /\ child' = [child EXCEPT ![c] = "leaving"]
  /\ status' = [status EXCEPT ![task[c]] = "SLEEP"]
  /\ UNCHANGED task /\ ChildRest

\* node->delay_time is written and the thread ends
ChildExit(c) ==
  /\ child[c] = "leaving" /\ child' = [child EXCEPT ![c] = "none"]
  /\ task' = [task EXCEPT ![c] = Null]
  /\ UNCHANGED status /\ ChildRest

ChildCrash(c) == child[c] # "none" /\ mem[task[c]] = "freed" /\ Crash
---------------------------------------------------------------------------
(* schedulers_free, called by main once it has unloaded the modules.  The  *)
(* jobs of netfilter's module and of the squid aggregation may still be    *)
(* registered: the unload of the first and, on an empty list, squid_free   *)
(* do not unregister them.                                                 *)

\* do_exit and SIGUSR2, which only cuts a sleep short
FreeSignal ==
  /\ Loading /\ fpc' = "lock" /\ doexit' = TRUE
  /\ wake' = IF mpc = "sleep" THEN 0 ELSE wake
  /\ UNCHANGED <<prompt, now, jobVars, status, lock, mpc, mnode, childVars, faults, histVars>>

FreeRest == UNCHANGED <<prompt, now, owners, name, status, mgrVars, childVars, doexit,
                        faults, histVars>>

\* a thread may be running a node that is freed here
FreeJobs ==
  /\ mem' = [n \in Nodes |-> IF n \in ToSet(list) THEN "freed" ELSE mem[n]]
  /\ list' = <<>>

\* seeded fault: the manager is joined with scheduler_mutex held
FreeNodes_locked ==
  /\ fpc = "lock" /\ lock = Null
  /\ FreeJobs /\ lock' = "main" /\ fpc' = "join"
  /\ FreeRest

FreeNodes ==
  /\ fpc = "lock" /\ lock = Null
  /\ FreeJobs /\ UNCHANGED lock /\ fpc' = "join"
  /\ FreeRest

\* pthread_join
FreeJoin ==
  /\ fpc = "join" /\ mpc = "exited" /\ fpc' = "freed"
  /\ UNCHANGED <<list, mem, lock>> /\ FreeRest

Next ==
  \/ Tick \/ Manager \/ Console
  \/ \E j \in Jobs : schedulers_register(j) \/ schedulers_unregister(j)
  \/ \E c \in Children : ChildStart(c) \/ ChildReturn(c) \/ ChildExit(c) \/ ChildCrash(c)
  \/ FreeSignal \/ FreeNodes \/ FreeJoin

Spec == Init /\ [][Next]_vars

\* Threads are scheduled, the clock moves and a client takes its output; how
\* long a job runs, and whether anyone unregisters it, is left open.
FairSpec ==
  /\ Spec /\ WF_vars(Tick) /\ WF_vars(Manager) /\ WF_vars(PrintEnd)
  /\ SF_vars(MLock) /\ SF_vars(FreeNodes) /\ WF_vars(FreeJoin)
  /\ \A c \in Children : WF_vars(ChildStart(c)) /\ WF_vars(ChildExit(c))
---------------------------------------------------------------------------
(* Properties.                                                             *)

TypeOK ==
  /\ prompt \in BOOLEAN
  /\ now \in 1 .. Len(Calendar) /\ list \in Seq(Nodes) /\ owners \subseteq Jobs
  /\ mem \in [Nodes -> {"unused", "linked", "leaked", "freed"}]
  /\ name \in [Nodes -> Jobs \cup {Null}]
  /\ status \in [Nodes -> {"SLEEP", "RUN"}]
  /\ lock \in {Null, "manager", "console"}
  /\ mpc \in {"check", "calc", "sleep", "lock", "walk", "exited"}
  /\ mnode \in Nodes \cup {Null} /\ wake \in 0 .. 1
  /\ child \in [Children -> {"none", "created", "running", "leaving"}]
  /\ task \in [Children -> Nodes \cup {Null}]
  /\ fpc \in {"run", "lock", "join", "freed", "crashed"} /\ doexit \in BOOLEAN
  /\ faults \in 0 .. MaxFaults
  /\ since \subseteq Nodes /\ visited \subseteq Nodes

\* The cell the manager stands on is linked, so its node->next is sound,
\* whatever modules are loaded and unloaded during the walk.
WalkOnList == mnode # Null => mnode \in ToSet(list)

Busy(n) == {c \in Children : task[c] = n /\ child[c] \in {"created", "running"}}

\* node->status, which the thread itself sets, keeps two runs of one job apart
\* as long as a created thread begins before the next minute.
OneRunPerJob == prompt => \A n \in Nodes : Cardinality(Busy(n)) <= 1

\* A job that its module unregisters keeps its NODE_SCHEDULER for the thread that
\* may still run it, through the end of the scheduler: only the nodes of jobs
\* that nobody unregistered are freed, and their threads are left with them.
NodeOutlivesThread ==
  \A c \in Children :
    child[c] # "none" /\ mem[task[c]] = "freed" => name[task[c]] \in owners

\* A job that is on the list for a whole minute is looked at in that minute:
\* a job of one minute a day, as the daily and monthly resets, is not missed.
EveryMinuteVisited ==
  [][prompt /\ now' # now /\ ~doexit => (since \cap ToSet(list)) \subseteq visited]_vars

\* scheduler_free ends, although the signal is lost when the manager is about
\* to sleep and although a walk or a console holds scheduler_mutex; or a thread
\* on a node it freed ends the process.
ShutdownEnds == fpc = "lock" ~> fpc \in {"freed", "crashed"}

\* A job that is due every minute of the calendar runs again and again while
\* it is registered, whatever other jobs and the console do.
JobsKeepRunning ==
  prompt => \A j \in Jobs :
    (\A t \in 1 .. Len(Calendar), f \in Fields :
       FieldMatches(parse_vol(Crontab[j][f]), Calendar[t][f]))
    => []<>(\/ j \notin owners \/ fpc # "run"
            \/ \E c \in Children : child[c] = "running" /\ name[task[c]] = j)
===========================================================================
