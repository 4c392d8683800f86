# A TLA+ model of IPStat 4.03.3

IPStat is a billing daemon for IP traffic: collectors account packets to users and rules in memory, a
synchronisation moves the counters to MySQL every minute, periodic tasks reset the daily, weekly and monthly
figures and switch users on and off, and a web interface edits the same database. This directory holds TLA+
models of the parts of the daemon (`src/`) where threads, failures and time meet, the TLC configurations that
check them, and TLAPS proofs of what matters most about them.

    tlc -workers 2 -config MCThreadPool_console.cfg MCThreadPool      # one run
    tlapm ThreadPoolProofs.tla                                        # one module of proofs

`PROJECT.json` lists the runs, the theorems, the seeded faults each property was seen to catch, the source lines of every
definition, and the hazards the properties are for.

## 1. The system: an inventory

One process, one thread per activity, one MySQL database shared with the web interface.

| component | source | state | operations | hard because |
|---|---|---|---|---|
| worker pool | `src/threads.c` | ring of requests, semaphore, handle list, `active_threads`, `total_threads` | init, addrequest (test, spawn, enqueue, post), worker loop, clean, free | owner and workers share counters, half of them without the mutex; the ring grows while it is used |
| user table (core) | `src/core_users.c`, `src/core.c` | list of `NODE_USER`, each with a list of `NODE_RULE`, byte counters, ages; `clean_list` | `users_auth`, `users_autz`, `users_acct` by collectors; `users_sync` by the scheduler and the console; `users_free` | collectors add to counters while the sync reads, subtracts, exports and, on failure, restores them; rule lists are replaced under a walk; every SQL call may fail |
| scheduler | `src/sched.c` | list of jobs, `status` of each, `scheduler_mutex`, `do_exit` | register, unregister, print, the manager's walk, job threads, free | unregister and walk overlap; a thread marks its own job as running; shutdown signals a thread that may be about to sleep |
| periodic tasks | `src/tasks.c`, `src/misc.c`, `ipstat_system/main.c` | columns `Traffic`, `TDay`, `YDay`, ... and timestamps in the database | check_limit, every_day, every_week, every_month, the catch-up at load | transactions with retries against concurrent exports; a reset due while the daemon was down |
| daemon lifecycle | `src/main.c`, `src/collectors.c`, `src/system.c` | API structures, list of plugins, `do_exit` | init order, load, unload, free in reverse, console `load`/`unload` | modules are unloaded while their jobs and threads run |
| aggregation | `src/func_time.c`, `src/func_ip.c`, `src/func_squid.c` | a tree of users, a tree of addresses, a list of records, not yet written; `flag_export` | `*_acct` by the collector's thread; `*_sync` by the scheduler and by unload; `time_group` every half hour | the trees are walked, swapped and freed while the thread looks nodes up and inserts; inserts and updates fail or their answer is lost |
| collectors | `ipstat_collect_*` | capture or accounting thread, pool of request threads | load, unload, one handler per packet, URL or session | threads are created before, and stopped after, what they use |
| console server | `src/server.c` | list of commands, client threads (a worker pool) | register, unregister, accept, execute, free | commands run while modules are unloaded |
| group limits | `ipstat_system_group_limit`, `ipstat_system_users_group_limit` | list of rules with `traffic` and `alpha` | `my_autz`, `my_acct`, `sync_limits` with `sync_traffic`, three resets | test and count are two calls; memory and table are reset and written by different jobs in the same second |
| time policy, URL policy | `ipstat_system_time_policy`, `src/ipstat_url_policy.c` | up to four lists of subjects and one of definitions, a mutex and a sync each; weekday and start of the day | load, `my_autz` over several lists, sync with re-select, `every_day`, console print | a decision reads several lists that are synchronised meanwhile; a row is gone when it is read again |
| store | `src/store.c`, `ipstat_mysql` | a session per caller | open, query, exec, fetch, close | any call fails; a reply may be lost after the statement ran |
| containers, config, log, redirector, web, scripts | `src/glist.c`, `src/gtree.c`, `src/inet.c`, `src/conf.c`, `src/libxml.c`, `src/log.c`, `redirector/`, `support/` | - | - | the scripts kill and restart the daemon |

How they interact: `main.c` builds the APIs in the order store, server, scheduler, core, plugins and frees them in
the reverse order. Collectors call `core->users->auth/autz/acct` from their own threads. The core and the plugins
register jobs with the scheduler, which runs each in a thread of its own, and commands with the console server,
which runs them in the threads of a worker pool. All shared state is either under one mutex per component or, in
several places the models are about, under none.

What makes each part correct: the pool hands every accepted request to exactly one worker, in order, and never
sleeps on a request; the table mirrors the database and no byte is lost or billed twice between packet and
database; the scheduler runs a due job once, keeps running it, survives unregistering and always shuts down; a
reset moves a day's bytes exactly once; limits are enforced within a minute; a log gets every packet once; a group's
limit holds whatever is edited or fails; a policy's decision is one its tables allow; unloading leaves no thread in
released code.

## 2. Modules

    RequestQueue   abstract FIFO of the pool
    ThreadPool     threads.c                        MCThreadPool    ThreadPoolProofs
    UsersTable     core_users.c                     MCUsersTable    UsersTableProofs, UsersNodesProofs
    StartupSync    core_users.c, two syncs at once  MCStartupSync
    Scheduler      sched.c                          MCScheduler     SchedulerProofs
    Tasks          tasks.c, misc.c                  MCTasks         TasksProofs
    Policy         time policy, URL policy          MCPolicy        PolicyProofs
    GroupLimit     both group limit plugins         MCGroupLimit    GroupLimitProofs
    Aggregation    func_time.c, func_ip.c,          MCAggregation   AggregationProofs
                   func_squid.c and the collectors
                   that use them

Definitions keep the names of the C functions they model; an operator that stands for one step inside a function
has a name of its own (`AcctLoad`, `UserSub`, ...). Operators named `X_something` with the comment *seeded fault*
are deliberately broken variants of `X`. Nothing in the specifications uses them; they document which mistake each
property notices.

Throughout, a critical section is one action, every unlocked access to shared memory is an action of its own, and
every call of the store may fail.

### ThreadPool (and RequestQueue)

State: `queue`, `head`, `tail`, `size` are the ring of `pool->queue`; `sem`, `active`, `total`, `listed`,
`status`, `busy`, `served` are the pool's and the handles' fields; `pc`, `cur` the workers' positions, `opc`,
`oreq`, `spare` the owner's; `submitted`, `refused`, `done` are history. The owner runs
`IPStat_pool_addrequest` (compare the unlocked counters and perhaps spawn), `IPStat_request_enqueue` under the
mutex, then `Post`; a worker runs `SemWait` or `SemTimeout`, the dequeue, the handler, `Finish`.
`IPStat_pool_clean` is split where it reads unlocked fields: `CleanReap`, then `CleanSpawn`, `CleanShrink` or
`CleanTooSoon`, then `CleanRecycle`; its clock tests are nondeterministic.

Growing the ring is modelled as it is written: the slots are copied at their indices, the new half stays
uninitialised because the `memset` starts `sizeof(*new_queue)` times too far (the overrun may also crash the
process), and the window is not straightened: a full ring with `queue_head > 0` has `queue_tail` just behind it,
and the insertion that follows the growth makes the two equal, which means an empty queue. `RequestQueue` says
precisely how far that goes: a growth may empty the queue (`Wipe`), and nothing else differs from a FIFO.

`IPStat_pool_free` is modelled up to the `free`: it joins detached threads, which returns at once, so what the
workers do afterwards is undefined and the model stops (phase `"freed"`). When it is called while the pool is new is
the caller's decision: `SocketFailed` is the path of `thr_server` that frees its pool before the first request.

### UsersTable

Three actors. The *collector* names a user (`users_auth`), finds its node (`AcctFind`), then per matching rule
reads (`AcctLoad`) and writes (`AcctStore`) the rule's and the user's counter under `users_mutex`, up to the first
rule without `CONST_NEXT`. The *sync* is `users_sync`: one row after another is inserted, refreshed or updated
(`SyncRow`), an update exports the rules' bytes, frees the rules, rereads the row and loads the rules
(`rules_sync_traffic`, `rules_clean`, `UpdateReread`, `rules_mysql_load`), nodes not seen for 90 seconds go to
`clean_list` (`users_delete`), and the traffic of each user and of its rules is taken, subtracted, exported and on
failure added back (`UserTake` ... `RuleRestore`). The *administrator* edits rows at any moment. `users_free` and
`KillRestart` (the watch script's `killall -9` and start) end and restart the process.

Data: rows are version numbers (the `md5` of the row, 0 for no row), a packet is one byte and matches an arbitrary
subset of the rules. Counters are modulo `Word`, which stands for 2^32. What is charged for an exported rule
(`Price` per kilobyte) is left out.

Time: `time_live` is compared with the clock when `users_mysql_delete` and `rules_sync` run, not when the sync begins.
An age is 0 (set by the last sync), 1 (set before it, and still young enough), `Old` (more than 90 seconds ago) or
`Late` (set by this very sync, and yet more than 90 seconds ago). `Elapse` and `ElapseRule` let a node or rule of age 1 grow
old by the time it is looked at (after the loop over the rows, and when a rule's row is gone); `SlowRows` is a loop over the rows that takes more than 90 seconds, after which any of the nodes it has
refreshed may be dropped.

Two constants switch the undefined or external outcomes on: with `Races` an unlocked `+=` or `-=` may lose the
other thread's update, with `LostReplies` a statement may be executed though the client sees an error. Dereferencing
freed rules (`AcctFreed`) and a `NULL` row (`rules_mysql_export` after the rule was deleted) are modelled as
what they may do, crashing included.

### StartupSync

`main` registers the core's job with the scheduler and then runs a sync of its own (`main.c:193-194`), so the job's
first syncs may overlap it. Two threads, `"main"` and `"job"`, run the same `users_sync`, the job again every minute.
No collector is loaded before main's sync has ended, so there are no bytes; what matters is split where the threads can
meet: `users_find` and the insertion are two critical sections (a user may get two nodes), `users_delete` takes the id of
the node that was found too old and removes the first node with it, the export walks the list without the mutex. The
rule lists have no mutex at all: the walk of `rules_sync`, the test of `rules_init`, the two halves of `g_list_append`
(`AppendRead`, `AppendWrite`, where the other thread's rule may be lost) and `rules_clean` are steps of their own, and
`stale` says that the list a thread works on has been freed, after which it may crash or put anything in its place.
A rule is present or not, `copies` counts its nodes in a list; ages are those of UsersTable without `Late`: the job is taken
to go through the rows in less than 90 seconds. A node that left the list and that no thread points to is used again,
which the code, whose `clean_list` only grows, does with new memory.

### Scheduler

`thr_scheduler` is `MCheck`, `MCalc`, `MWake`, `MLock`, `MWalk`, `MUnlock`; a job thread is `ChildStart`,
`ChildReturn`, `ChildExit`, with `status` written by the thread itself; `schedulers_free` is `FreeSignal`,
`FreeNodes`, `FreeJoin`. `main` frees the scheduler whether or not every module has unregistered its jobs (netfilter's
module does not, nor does `squid_free` with an empty list), so `FreeNodes` may free a node under its thread; a step of that thread then goes
on or ends the process (`ChildCrash`, `Crash`). A console that passed `CHECK_CORRECT_SCHED` before `st_scheduler` became
`NULL` may do the same (`PrintCrash`). `PrintBegin`/`PrintEnd` hold the mutex while the table is sent to a console client. Crontab fields go through `parse_vol` and
`time_cmp` over a small `Calendar`. The variable `prompt`, which Init chooses and no step changes, says whether the
machine keeps up with the clock: with it a walk ends, a created thread begins and a finished one exits before the
minute is over. `last_runs`, `delay_time` and `last_status` only
reach the console's table and are left out. Signals sent to the process go to the main thread and do not cut the
manager's sleep short; only the `pthread_kill` of `schedulers_free` does.

### Tasks

The database as the periodic tasks and the exports see it. Each job, the catch-up of `load` and each export is a
session; its script is the list of statements of its C function (`task_every_day`, `rules_mysql_export`, ...), `at`
the next statement, `left` the attempts left of `count`, `held` the rows it has locked. A row is a record of the
columns the statements touch: `cur` and `prev` are `TDay`/`YDay` and `TMonth`/`YMonth`, `report` the sum of its
entries in `System_Report`, `gone` (history) what was overwritten in `prev`. `db` is what is committed, `work` what
the sessions see of the rows they hold. A statement runs when no other session holds its rows; a circle of waiting
sessions is resolved by failing one of them; any statement, and the connection, may fail, and the commit of a reset
may be executed and yet reported as failed. On an error a reset rolls back and begins again, an export rolls back
and leaves its bytes with the node (see UsersTable), `check_limit` goes on.

`Tick` is midnight: every job due starts. `Stop` and `Start` are the kill and the restart by `IPStat-watch`; `Start`
registers the jobs and then runs `check_correct_day`, `_week` and `_month` one after the other (`check_correct`),
so a catch-up and a job may run the same reset at once. The test `> 86400` is decided by seconds when the ages are
equal in steps, so either answer is possible there.

Abstractions: a session locks all rows of a statement at once (a statement that waits half way and is then failed
changes nothing, like one that failed before); the statements of `check_limit` for one table, which select
disjoint rows, run as one; an export is one byte, and one of a rule charges one unit; `System_Table` rows are
locked with the commit only. `ReportRollsBack` says whether the server's default engine, which `System_Report`
is created with, has transactions; the runs use the weaker case, where it has none. The model begins with the
daemon up just after a reset.

### Policy

Both plugins keep lists that mirror tables: subjects (a user, a group, a kind of traffic) with the policy they are
under and its default, and definitions, of which the first that fits decides. `plugin` is chosen by Init. `table` is
what the web interface edits (`Edit`), `list` the nodes in memory, `lock` each list's mutex. A sync (`SyncOpen`,
`SyncRow`, `SyncApply`, `SyncSweep`) queries ids and md5s, refreshes a node whose md5 is the same, and otherwise reads
the row a second time with the mutex held; nodes unseen for 90 seconds go: two ticks after its refresh a node may
be too old or not (`Expired`), three ticks after it it is. Load reads list after list and goes on when
one cannot be read. A decision is `autz`, then per list `check_user` and `check_policy`, each a critical section of
its own. `every_day` writes the weekday and the start of the day in two unlocked steps. A console client that is sent
a list holds its mutex (`PrintList`).

A definition is the set of moments, or of URLs, it is about. The md5 of a row is a value of its own: the columns are
concatenated without separators, so two settings may share it, and the instance has such a pair. A pattern may not
compile: it is skipped at load and on insertion, and on an update the node keeps an unusable regex (`sound`) that
may answer anything, or crash `regexec` (`regexec_crash`). A second select that finds no row dereferences `NULL` (`SyncCrash`). Time passes in minutes,
and every sync finishes within its minute. `settled` (history) names the lists that a sync without failure has taken over
since the last edit, `calm` marks a decision that began with all lists settled, `astray` one that the tables did not allow.

### GroupLimit

The two plugins differ in the key of a rule and in the table; one model stands for both, and `PROJECT.json` maps it to
the first. `row`, `dbTraffic`, `onActive` and `this` are the table's columns (`this` is `TDay` and `TMonth`), `known`,
`cols`, `traffic`, `alpha`, `marked` the nodes of the list. A collector's thread tests the limit (`my_autz`) and, some
time later, counts (`my_acct`) or does not (`my_acct_none`: another hook has set `not_sum`, the rule is not found, or a
later hook refused the packet). The redirector of squid asks `my_autz` alone, which changes nothing and is left out. The
sync is `SyncOpen`, `SyncRow` (`insert_limit`, `update_limit`), `limits_delete` node by node, `sync_traffic`, then per node
`CopyNode` and `Exec` with the absolute `Traffic`, the bytes of `alpha` cut to an int (`Word`), and, on failure, `Restored`.
An update may be executed and its reply lost: its bytes are then in the column and given back to `alpha` (`twice`). `limits_delete`
does not take the list's mutex: while it runs (`Removing`), the walk of another thread may miss a rule or crash
(`WalkCrash`). The jobs of the calendar first zero `traffic` in memory (`TaskReset`), then run a transaction with retries on
the columns (`TaskCommit`, `TaskFail`, which may have committed all the same); the weekly one has no columns. `unload`
writes nothing back. A row that went between query and re-select crashes the sync (`SyncCrash`).

A rule has one key, its md5 tells settings apart, and its limit (any number from 0, or none) is not edited. `counted`,
`twice`, `used`, `slack`, `cut` are history: bytes a period's column should have, those a lost reply put there again,
bytes counted since the last reset, those a stop made the daemon forget or that passed without a rule to count them, and
rules whose export exceeded the int.

### Aggregation

`plugin` is one of `time`, `ip`, `squid`. `nodes` and `ag` are the aggregate, `held` what an export has taken and not
written, per exporter: the scheduler's job and the call by `time_free`, `ip_free`, `squid_free` at unload. The
collector's thread tests the pointer (`acct`), looks the node up (`acct_lookup`) and inserts or adds (`acct_insert`,
`acct_add`), with the mutex given back in between; `ptr` says where the node it found is by then: in the tree, in
the old tree of an export, or freed. An export is `SyncBegin` (the flag), `SyncOpen` (walk, or swap), `Traverse` per node,
`Select` (`COUNT`), `Write` (insert or update) and `SyncEnd`. `time` puts bytes back when a statement fails; `ip` and `squid` try
again and give a record up after `Tries` attempts. `time_sync` walks its tree without the mutex: an insertion may
hide nodes from it or show it some again (`acct_insert` chooses `todo'` freely). `time_group` moves `Log_Temp` to the
log; `Midnight` ends the day `CURDATE()` names. `Unload` and `Clean` are the `*_free` functions, `Stop` the end of the
thread after them; `UnloadNothing` is netfilter, whose calls are commented out, and `squid_free` with an empty list,
which returns at once. `Crash` and `EarlyPacket` are the `NULL` and freed pointers the code may dereference.

The exporting transaction of `time_group` is atomic, since `insert ... select` keeps the rows it read from being
updated. A node is a key: `ip_compare` compares whole structures, padding too, which may split a key into several
nodes and leaves every sum as it is. `holed` and `doubled` (history) are the nodes that met one of the incidents
`LogBytesKept` names.

## 3. Runs

| run | question | bounds |
|---|---|---|
| `pool_console` | Pool as the console server and the squid collector use it (no clean): no lost wake-up, exact `active_threads`, each request in one place, FIFO refinement, a waiting request is served. | 2 workers, 6 requests, ring of 4 growing to 8: the fourth request makes it grow, also with the window moved, and the rest wrap. |
| `pool_clean` | With `IPStat_pool_clean` as the pppd collector calls it: handles and totals agree, and no request is lost to a cancelled worker. | 3 workers, recycling after 1 request, 1 spare; ring of 2 at its limit, so refusals happen and growth (see `pool_vanish`) does not. |
| `pool_vanish` | Finding: a growth loses accepted requests. | 5 requests |
| `users_bytes` | Bytes of users and rules under failures, reloads, edits, kills and wrap-around. | 3 packets with counters modulo 3, so they wrap; a `SUM`+`NEXT` rule before a plain one; 1 edit, 1 fault, restart or slow sync at any point. |
| `users_table` | The mirror: no node is dropped that this sync has refreshed less than 90 seconds ago, and, once edits and faults stop, table and database agree and no bytes stay behind; lost replies included. | 1 user, 1 rule, 2 nodes; 2 edits, so that a rule is deleted and then its user; 1 fault, restart or slow sync; 1 packet. |
| `startup_sync` | Two syncs at once: in the end every user has one node and every rule one copy, and no user loses its last node to the removal of a duplicate. | 1 user, 1 rule that is there or not, 3 nodes (one more than are ever needed at once), 1 edit, 1 failing statement or restart. |
| `users_removal` | Finding: a deleted rule with bytes left crashes the sync. | |
| `sched` | On a machine that keeps up: one run per job, no minute skipped, an every-minute job keeps running. On any: the walk stays on the list, unregistering leaves every thread its node and only jobs that nobody unregistered lose theirs, shutdown ends. | 2 jobs (every minute, midnight), 2 nodes, so that a job registered again takes the node of an old one, 2 threads, 1 failing `pthread_create`; `prompt` both ways. |
| `tasks` | Bytes through resets, exports, deadlocks, retries, a restart and the catch-up; completeness of `System_Report`; no reset two periods late; limits, debts and blocks are enforced in the end, and nobody waits for ever. | 2 users (a daily limit, a balance), a rule of the second with a monthly limit; 2 days (a week and a month of 2 each, ending in turn), 1 export, 1 fault, restart or edit of `onBlocked` at any point, 2 attempts instead of 4. |
| `policy` | The lists follow the tables through edits, failing queries, second selects and restarts; a decision made meanwhile is one the tables allow; the lists catch up in the end and every decision ends. | Time: 2 lists of subjects and 1 definition, a week of 2 days of 2 minutes, 1 event. URL: 1 list, 2 patterns (one may not compile), 2 URLs, 2 events. |
| `group_limit` | A rule's bytes between packets, exports and resets; its limit; memory and table agree in the end. | One daily rule with limit 1, not in the table at first; 2 collectors, 3 packets, `Word` 2 so that an export can be cut, 2 attempts, 4 events. One rule is enough: rules share nothing but the packets' threads and the position of the sync, and what a rule without limit does is proved. |
| `aggregation` | Bytes of the three logs between thread, job and unload; one row per user; what a calm unload leaves behind; everything reaches the log. | 2 keys, 2 or 3 packets, 2 or 3 failures, stops or midnights, 2 attempts instead of 4: enough to give a record up and to have both exports under way. |

Deadlock is checked in `sched`, `policy`, `group_limit` and `aggregation` (time passes, or the job runs again). The pool's, the tables' and the tasks' runs end
when the bounded requests, packets, edits and faults are used up and the daemon is down or has crashed, so there it is not.

Why these bounds are enough: every loop in the code handles its elements one at a time and the actions above only
ever relate one element to one shared variable, so two workers, two jobs, two allocations of one user and two rules
(one that ends the walk and one that does not) already give every pair of overlapping steps. The counters
`MaxPackets`, `MaxEdits`, `MaxFaults`, `MaxEvents` bound how often a case happens, not when. In `aggregation` a stop,
a failing statement and one more event of any kind fit into one behaviour; in `group_limit` a failing export and an edit, or two failures of
a reset, do; in `policy` an edit and a failing re-select of the URL policy.

### Fairness

- Pool: the owner finishes an enqueue it began and each worker takes its own steps. Nothing makes a handler return
  (a client may stay connected for ever) and no new request need arrive: `WaitingIsServed` excuses exactly the case
  where every worker sits in a handler.
- Table: weak fairness of the sync (the scheduler starts it every minute) and of the collector's thread, and strong
  fairness of each `Elapse`: syncs are a minute apart, so a `time_live` that is not set again is more than 90 seconds old
  at the second sync after it, and cannot stay young for ever. Packets and edits may stop.
  Failures are bounded, which is what "once failures stop" means.
- Start-up: weak fairness of each of the two threads and of `Elapse`, as above.
- Scheduler: weak fairness of every thread and of the clock; `PrintEnd` assumes that a console client takes its
  output; strong fairness of `MLock` and `FreeNodes` says that a mutex released again and again is eventually
  granted (its other users are operator commands and module loads, not a loop). Jobs need not return.
- Tasks: weak fairness of the start of `check_limit` (a job of every minute) and of its session, of the other
  sessions taken together (each has bounded work, and the server always has one of a circle to fail), of `load`,
  and of the restart of a daemon that is down. Time, exports and edits may stop.
- Policy: weak fairness of `Progress`, the clock, jobs, load and console output taken together (a minute has finitely
  many of these steps, and the clock waits for the jobs, so none is put off for ever), and strong fairness of the
  decision: a mutex that is free again and again is eventually granted. Edits and questions may stop.
- Group limits: weak fairness of the sync and the start together (one is enabled at a time). Resets need not happen.
- Aggregation: weak fairness of the exports, of the steps that end what a thread has begun (an addition, load,
  unload, a crash, the restart), and of `time_group`, all started by the scheduler again and again.

## 4. Findings

- `pool_vanish`: requests accepted by `IPStat_request_enqueue` disappear when the ring grows.
- `users_removal`: the sync reads `row[0]` of a `NULL` row when a rule deleted from the database still has bytes.

Behaviour that the models contain and no property excludes, because nothing in the repository claims otherwise: a
reply lost after an executed export bills twice (`LostReplies`); torn updates lose bytes (`Races`, which no run switches on: only `TableTypes` covers them); a node moved to
`clean_list` keeps its bytes and stays there until the daemon ends, although the comment at `core_users.c:786` promises
its final deletion after 60 seconds; a sync whose rows take more than 90 seconds drops users it has just
refreshed; two syncs at start-up may crash on a rule list that one of them frees; `users_free` exports the rules' bytes and not the users'; a sync that runs at
shutdown continues on freed nodes; a reset run twice (retried after a lost reply, or by job and catch-up) leaves 0 in
`YDay` and, without transactions in `System_Report`, reports a day more than once; a daemon that is down over midnight and back
within a day does not catch up, because the last reset is less than 86400 seconds old; two settings of a policy with
the same digits one after the other have the same md5, and the change is not taken over (`blurred`); after a restart the definitions are
in the order of their ids instead of their arrival, which decides differently where they overlap; between the two
writes of `every_day` a decision sees the new weekday with yesterday's time; a stop forgets up to a minute of a
group's bytes (`slack`) and, with netfilter, of the logs; a lost reply puts the bytes of a group's export into its column twice; a packet that `ip_acct` adds to a node already exported is
lost or written to freed memory; an update of `Log_IP` prepared before midnight finds no row afterwards; an export
whose answer was lost is in a log twice; two exports at once may insert two rows for one user, and every later update
counts twice; a packet before `time_init` or `ip_init` dereferences `NULL`.

## 5. Proofs

TLAPS proves, for every value of the constants that satisfies the named assumptions:

- `ThreadPoolProofs` (from `PoolAssumption`, `HandlesAssumption`): `TypeCorrect` (ring indices stay inside
  the allocation, through growth and rewinding), `ActiveCorrect`, `WakeupCorrect` (`NoLostWakeup`) and
  `HandlesCorrect` (`HandlesExact`). `TypeOK` is inductive by itself; the arithmetic facts are lemmas on `Mask` and
  `NumEntries`. `ActiveExact` needs only `TypeOK` and the fact that one worker moves at a time, as lemmas on the
  cardinality of a set that gains or loses an element. `NoLostWakeup` counts: an enqueue adds one entry and moves the owner
  to `"post"`, a post turns that into a unit, a wait turns a unit into a worker at `"dequeue"`, a dequeue takes one entry
  or finds the ring empty. `HandlesExact` is strengthened by "exited in status means exited in `pc`", so that only
  workers that left their loop are dropped. About the requests: `AtMostOnce` (`HandledAtMostOnce`), `Refinement`
  (`ImplementsQueue`) and `NothingVanishes`. The invariant `PlaceInv` says where a request can be: the slots of
  the window hold different requests that are neither handled nor refused (`QueueInv`), so do the workers' hands
  (`HandInv`), and the one the owner is about to enqueue is in neither (`OwnerInv`). It is needed because the ring forgets nothing:
  a slot behind the head still holds its request, and only the window says that it is not handed out again. The
  refinement maps the window to a sequence; the lemmas say that writing at the tail appends, that a dequeue takes
  the first, and that a growth leaves the sequence or, when head and tail meet, empties it. `NothingVanishes` states
  `NoRequestVanishes` while `size = InitQueueSize`, from `KeptInv` (every submitted request has a place): beyond that it
  is false, which is the finding of `pool_vanish`.
- `UsersTableProofs` (from `TableAssumption`): `BytesConserved`, that is `Spec => []UserBytesConserved`. The
  property alone is not inductive. The invariant `BytesInv` is the conjunction of `CounterType` (the types of the
  counters and of what the sync holds), `Identity` (the equation for every node, also for those off the lists) and
  `Covered`: between its read and its subtraction the sync's `t_traffic` is not more than the counter, which the
  collector only raises meanwhile, so the subtraction does not wrap. There is one lemma per kind of step: the
  collector's addition raises both sides, a sync step moves `stake` between counter, flight and database, a
  restart starts both at zero, all others leave the counters alone.
- `UsersNodesProofs` (from `TableAssumption`): `TableTypes`, `DroppedUnseen` (an action property) and
  `RuleNotOverbilled`. The invariant `NodeInv` adds to `TypeOK` what the program counters of collector and
  sync promise about their pointers (`CollCtl`, `SyncCtl`), that a node in use has its user and none is freed while
  the daemon is up (`OwnerInv`), that a user returned by the select is still to come, refreshed, or refreshed too long ago (`SeenInv`, from which
  `DroppedOnlyIfUnseen` follows; it needs that a user has one node, `OneInv`, as it has in this module), and per rule that exported, counter and in flight are together at most what was counted,
  with `stake` inside the counter between read and subtraction (`RuleBill`). For rules this is an inequality, not the
  equation of the users: freeing rules at a reload drops bytes.
- `SchedulerProofs` (from `SchedulerAssumption`): `TypeCorrect`, `WalkSafe`, `NodesOutliveThreads`, `OneRun` and
  `NoMinuteMissed` (an action property), for any number of jobs, nodes and threads. `WalkOnList` needs that the mutex is
  the manager's exactly while it walks (`LockInv`); `NodeOutlivesThread` needs that the list has each linked node once,
  and that its names are those of registered jobs (`ListInv`): a node that leaves it before `schedulers_free` is never freed.
  On a machine that keeps up, `ClockInv` relates the cursor to the minute: exactly the cells before it have been visited, a
  created thread belongs to a visited node; with it a job has one thread (`RunInv`). What removing a cell does to
  the list is a group of lemmas.
- `TasksProofs` (from `TasksAssumption`, `CalendarAssumption`): `TaskTypes`, `ExportsKept` (`BytesKept`), `DaysReported`
  (`ReportComplete`) and `ResetsCaughtUp` (`ResetWithinTwoPeriods`), for any tables, attempts and schedule, and
  both kinds of engine for `System_Report`. The properties speak of committed rows, so the invariant `Ledger` follows each
  transaction: sessions are inside their scripts (`RunInv`), a session holds its rows from its first statement to
  the end of its transaction (`HoldInv`), a row has one holder and is committed when it has none (`LockInv`), and a
  locked row has what was billed plus exactly what the statement to come takes away again (`WorkInv`): the moved
  column that is cleared next, or the byte of the export under way; `ReportInv` is the same for the report. `FreshInv`
  says that a reset which is not running was not due since a time when it was no older than its period.
  `CalendarAssumption`, which the run's instance satisfies, says that a reset is due at least once a period.
- `PolicyProofs` (from `PolicyAssumption`): `ListsInLine` (`InLine`) and `DecisionsFollow` (`DecisionFollowsTables`), for
  both plugins and any lists, rows, definitions, calendar and number of events. Of the inductive `IInv`, `ListInv` says
  per list that an id has one node (`Unique`), that a node with the md5 of its row has the row itself unless an edit met
  an equal md5, and that a pattern which compiles is compiled (`RowInv`); that a settled list shows every row
  (`ShownInv`, which `MirrorIs` shows to be `Mirrored`); and, because `InLine` is not preserved by a sweep alone, that
  a running sync has each row to come, in hand, or handled, with a node too young for the sweep (`SyncInv`). A select
  that fails keeps this for a settled list, since it refreshes the node it could not read. `DayInv` ties weekday
  and time of the day together outside `every_day`, and `DecInv` says that the lists a calm decision has passed allow it
  and that it holds the row of the table. From both, the first definition that matches is one of the verdicts the
  tables have, and with no match no definition was sure to fit. `PolicyAssumption` says what the columns are: a
  target and a default are booleans, ids are finitely many, and only a pattern can be invalid.
- `GroupLimitProofs` (from `GroupLimitAssumption`): `BytesAlwaysAccounted`, that is `Spec => []BytesAccounted`, for any rules, settings,
  periods, collectors and any width of the exported integer. The invariant `Ledger` adds that the counters are
  integers and the copy of `sync_traffic` is of a rule (`Counters`), that a rule in the list has or had a row
  (`KnownHadRow`: the web interface never brings a removed id back, so a rule does not become live with old
  counters), and that the rows of a query are of rules (`RowsOfRules`). There is one lemma per kind of step: steps
  that leave the counters alone, a stop, and one for each action that moves bytes: `CopyNode` moves `alpha` to the
  copy, `Exec` the copy to the columns, back to `alpha`, or to both and then to `twice` as well, `NewPeriod` takes the same from both sides.
  `LimitsHold` (`LimitHeld`) rests on `Meter`: the packets between `my_autz` and `my_acct` are at most the threads
  (`ThreadsHold`), a node still marked has its row to come or its rule is gone, so that no counter is reset by a
  reload of a rule in force (`MarkedGone`), and what was counted is at most what memory or, without a node, the
  table says, with the packets under way and the `slack` (`Metered`).
- `AggregationProofs` (from `AggregationAssumption`): `BytesKept` (`LogBytesKept`), `RowsNotDoubled` (`OneRow`) and `LastExport`
  (`UnloadExports`), for the three plugins and any keys, packets, failures and attempts. The invariant says where the
  node is that the collector's thread has found (`HookInv`), that a node outside the tree has no bytes and the records of
  squid are new (`TreeInv`), that an export holds bytes only of the node it is at and, of an old tree, of the nodes
  left (`ExportInv`), that a row which `COUNT` found is still there at the update and one it did not find is
  still absent as long as no two exports overlap (`SeenInv`, `RowInv`), and what the last export has behind it (`UnloadInv`).

Every inductive invariant also holds on the instances of the runs, where TLC checked it.

Only model-checked: liveness (`WaitingIsServed`, `MirrorsDatabase`, `BytesReachDatabase`, `ShutdownEnds`, `JobsKeepRunning`,
`LimitsApplied`, `TasksEnd`, `EventuallyInLine`, `DecisionEnds`, `EventuallyExported`, `EventuallyStored`, `TableHeals`), which needs
fairness and `ENABLED`, out of this prover's reach, and the whole of StartupSync. Every invariant and every other action property that a passing run checks
is a theorem, but for `DuplicateLeavesOne`.

## 6. Not modelled

- Rows with address 0 are skipped by the sync; `users_autz` and the hooks other modules hang on accounting; the
  order of the list (only the order of rules matters to accounting, and is modelled).
- A daemon configured as `secondary_daemon`, which registers no tasks but still catches up at load, and whose group
  limits write the table's figures back once.
- Two overlapping syncs later than at start-up (the console's `sync` command beside the job's), when there are bytes.
- The amount a rule's owner is charged for an export (`Price` per kilobyte).
- The release of a module's code while its job still runs (unregistering does not wait).
- `localtime` returns a static buffer shared by threads; all callers ask for the present time.
- The pppd collector's handlers: a request is answered from one query, and the records of a session get a constant
  answer and change nothing. Its pool is the one of `pool_clean`.
- The console server's list of commands, whose mutex is held while a command runs; the plugin managers, which load and
  unload all modules once, in the order of a list (the console commands for it are commented out). Their effect on
  a module is in the module's own model.
- Verdicts to the kernel, header and log line parsing, the parsing and matching of addresses, regular expressions.
- Failing allocations; overflow of the 32-bit counters of the logs.
- The components marked `not_modelled` in `PROJECT.json`; of those, logging, configuration, the redirector's
  line copying and the web interface's pages hold no state that another component depends on.

## 7. Plan

1. ConsoleServer: the list of commands, client threads and the release of modules at exit.
2. Overlapping syncs with collectors, and the hooks of `users_autz` as a composition with Policy and GroupLimit.
3. The pure functions on addresses and rules against a reference.
