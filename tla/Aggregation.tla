---------------------------- MODULE Aggregation ----------------------------
(***************************************************************************)
(* The logs of traffic: a collector's thread counts packets into an        *)
(* aggregate in memory, a job exports it every minute, and unload exports  *)
(* it a last time.  Of the three aggregates, src/src/func_time.c keeps a   *)
(* tree that stays and whose counters are taken out, src/src/func_ip.c and *)
(* src/src/func_squid.c swap the tree, the list, for an empty one.  The    *)
(* collectors are pcap, netfilter (time and ip) and squid.                 *)
(*                                                                         *)
(* A node is a user (time), an address of a user (ip), or a record of its  *)
(* own, named by the number of the packet (squid).  A packet is one unit.  *)
(***************************************************************************)
EXTENDS Integers

CONSTANTS
  Plugins,    \* those of an instance
  Keys,       \* users, addresses
  Tries,      \* 4, the attempts at a record of ip and squid
  None,
  MaxPackets, MaxEvents  \* bounds per plugin: packets; failures, stops, midnights

ASSUME AggregationAssumption ==
  /\ Plugins \subseteq {"time", "ip", "squid"} /\ Keys \subseteq Nat
  /\ None \notin Nat /\ Tries \in Nat \ {0}
  /\ MaxPackets \in [Plugins -> Nat] /\ MaxEvents \in [Plugins -> Nat]

Nodes == Keys \cup UNION {1..MaxPackets[p] : p \in Plugins}

\* who calls time_sync, ip_sync, squid_sync: the scheduler's thread, and unload
Exporters == {"job", "free"}

VARIABLES
  plugin,          \* one of Plugins, never changes
  phase,           \* "down", "loading", "up", then of unload "sync", "clean", "stop"
  reg,             \* the job is registered
  null,            \* ag_time, ag_ip are NULL again
  nodes, ag,       \* the aggregate: its nodes, their bytes
  flag_export,
  epc, todo, cur,  \* per export: its step, the nodes left, the node it is at
  held,            \* per export: what it has taken, the old tree, and not written
  take,            \* per export of ip: the bytes that ip_export was called with
  seen, left,      \* per export: what COUNT found, the attempts left
  cpc, key, ptr,   \* the collector's thread: its step, the node it looks up, where
                   \* the node found is: "tree", an exporter's old tree, "freed";
                   \* "new" when there is none
  temp, log, rows, \* Log_Temp, and Log_Time, Log_IP, Log_Squid; the rows that
                   \* COUNT and the update find, those of today for ip
  packets, events,
  counted,         \* history: bytes counted, without those a start or stop has lost
  holed,           \* history: nodes whose bytes were given up, strayed into an
                   \* exported node, or were added to the rows of a day gone by
  doubled,         \* history: nodes written by a statement whose answer was lost,
                   \* or to two rows
  overlapped,      \* history: two exports were under way at once
  calm,            \* history: unload found no export under way, and none failed
  since, skipped   \* history: bytes counted after unload began; nodes that the walk
                   \* of unload has missed

memVars  == <<nodes, ag, null, flag_export>>
syncVars == <<epc, todo, cur, held, take, seen, left>>
hookVars == <<cpc, key, ptr>>
dbVars   == <<temp, log, rows>>
histVars == <<counted, holed, doubled, overlapped, calm, since, skipped>>
vars == <<plugin, phase, reg, memVars, syncVars, hookVars, dbVars, packets, events, histVars>>

Zero == [n \in Nodes |-> 0]
All(v) == [e \in Exporters |-> v]

Init ==
  /\ plugin \in Plugins /\ phase = "down" /\ reg = FALSE /\ null = FALSE
  /\ nodes = {} /\ ag = Zero /\ flag_export = FALSE
  /\ epc = All("idle") /\ todo = All({}) /\ cur = All(None) /\ held = All(Zero)
  /\ take = All(0) /\ seen = All(FALSE) /\ left = All(0)
  /\ cpc = "idle" /\ key = None /\ ptr = "new"
  /\ temp = Zero /\ log = Zero /\ rows = Zero
  /\ packets = 0 /\ events = 0
  /\ counted = Zero /\ holed = {} /\ doubled = {} /\ overlapped = FALSE
  /\ calm = FALSE /\ since = Zero /\ skipped = {}

Event == events < MaxEvents[plugin] /\ events' = events + 1

Walking(e) == epc[e] \in {"walk", "select", "write"}
Unloading == phase \in {"sync", "clean", "stop"}
---------------------------------------------------------------------------
(* The collector's thread: thr_pcap, thr_ipq, thr_acct_squid.              *)

Counts(n) ==
  /\ counted' = [counted EXCEPT ![n] = @ + 1]
  /\ since' = IF Unloading THEN [since EXCEPT ![n] = @ + 1] ELSE since

\* time_acct, ip_acct: the pointer is tested
acct(n) ==
  /\ plugin # "squid" /\ n \in Keys /\ (phase = "up" \/ Unloading) /\ cpc = "idle"
  /\ packets < MaxPackets[plugin] /\ packets' = packets + 1
  /\ IF null THEN UNCHANGED <<cpc, key>> ELSE cpc' = "look" /\ key' = n
  /\ UNCHANGED <<plugin, phase, reg, memVars, syncVars, ptr, dbVars, events, histVars>>

\* the lookup; ip_acct gives the mutex back after it
acct_lookup ==
  /\ cpc = "look" /\ ~null /\ cpc' = "add"
  /\ ptr' = IF key \in nodes THEN "tree" ELSE "new"
  /\ UNCHANGED <<plugin, phase, reg, memVars, syncVars, key, dbVars, packets, events, histVars>>

AcctDone == cpc' = "idle" /\ key' = None /\ ptr' = "new"

\* A new node.  time_sync walks the tree without the mutex: a rotation hides nodes
\* from it or shows it some a second time.
acct_insert ==
  /\ cpc = "add" /\ ptr = "new" /\ ~null
  /\ nodes' = nodes \cup {key} /\ ag' = [ag EXCEPT ![key] = 1]
  /\ IF plugin = "time"
       THEN /\ todo' \in {f \in [Exporters -> SUBSET nodes'] :
                            \A e \in Exporters : ~Walking(e) => f[e] = todo[e]}
            /\ skipped' = skipped \cup (todo["free"] \ todo'["free"])
       ELSE UNCHANGED <<todo, skipped>>
  /\ Counts(key) /\ AcctDone
  /\ UNCHANGED <<plugin, phase, reg, null, flag_export, epc, cur, held, take, seen, left,
                 dbVars, packets, events, holed, doubled, overlapped, calm>>

\* the bytes go where the pointer points, an old tree or freed memory too
acct_add ==
  /\ cpc = "add" /\ ptr # "new"
  /\ LET e == ptr
         waiting == e \in Exporters /\ (key \in todo[e] \/ key = cur[e])
     IN  /\ ag' = IF ptr = "tree" THEN [ag EXCEPT ![key] = @ + 1] ELSE ag
         /\ held' = IF waiting THEN [held EXCEPT ![e][key] = @ + 1] ELSE held
         /\ holed' = IF ptr = "tree" \/ waiting THEN holed ELSE holed \cup {key}
  /\ Counts(key) /\ AcctDone
  /\ UNCHANGED <<plugin, phase, reg, nodes, null, flag_export, epc, todo, cur, take, seen,
                 left, dbVars, packets, events, doubled, overlapped, calm, skipped>>

\* the thread runs before squid_init and is stopped before squid_free
squid_acct ==
  /\ plugin = "squid" /\ phase \in {"loading", "up"}
  /\ packets < MaxPackets[plugin] /\ packets' = packets + 1
  /\ nodes' = nodes \cup {packets'} /\ ag' = [ag EXCEPT ![packets'] = 1]
  /\ Counts(packets')
  /\ UNCHANGED <<plugin, phase, reg, null, flag_export, syncVars, hookVars, dbVars, events,
                 holed, doubled, overlapped, calm, skipped>>
---------------------------------------------------------------------------
(* time_sync, ip_sync, squid_sync.                                         *)

Goto(e, step) == epc' = [epc EXCEPT ![e] = step]

\* the export is over; that of unload is followed by the cleaning
Return(e) == Goto(e, "idle") /\ phase' = IF e = "free" THEN "clean" ELSE phase

SyncRest == UNCHANGED <<plugin, reg, null, cpc, key, packets, since>>

\* the flag is tested, and set only once the connection is open
SyncBegin(e) ==
  /\ IF e = "job" THEN reg /\ epc[e] = "idle" ELSE epc[e] = "due"
  /\ IF plugin # "time" /\ flag_export
       THEN Return(e)
       ELSE Goto(e, "open") /\ UNCHANGED phase
  /\ UNCHANGED <<nodes, ag, flag_export, todo, cur, held, take, seen, left, ptr, dbVars,
                 events, counted, holed, doubled, overlapped, calm, skipped>>
  /\ SyncRest

\* the counters stay in the tree and are taken out one by one
Walked(e) ==
  /\ todo' = [todo EXCEPT ![e] = nodes]
  /\ UNCHANGED <<nodes, ag, flag_export, held, ptr>>

\* the aggregate is swapped for an empty one, under the mutex
Swapped(e) ==
  /\ flag_export' = TRUE
  /\ held' = [held EXCEPT ![e] = ag] /\ todo' = [todo EXCEPT ![e] = nodes]
  /\ ag' = Zero /\ nodes' = {}
  /\ ptr' = IF ptr = "tree" THEN e ELSE ptr

SyncOpen(e) ==
  /\ epc[e] = "open"
  /\ \/ /\ ~null /\ Goto(e, "walk") /\ IF plugin = "time" THEN Walked(e) ELSE Swapped(e)
        /\ overlapped' = (overlapped \/ \E x \in Exporters : Walking(x))
        /\ UNCHANGED <<phase, events, calm>>
     \/ /\ Event /\ Return(e) /\ calm' = FALSE
        /\ UNCHANGED <<nodes, ag, flag_export, held, todo, ptr, overlapped>>
  /\ UNCHANGED <<cur, take, seen, left, dbVars, counted, holed, doubled, skipped>> /\ SyncRest

\* squid_export has no COUNT before its insert
First == IF plugin = "squid" THEN "write" ELSE "select"

\* time_traverse_sync takes the bytes under the mutex; ip_traverse_sync,
\* squid_traverse_sync
Traverse(e, n) ==
  /\ epc[e] = "walk" /\ n \in todo[e] /\ (plugin = "time" => ~null)
  /\ todo' = [todo EXCEPT ![e] = @ \ {n}] /\ cur' = [cur EXCEPT ![e] = n]
  /\ Goto(e, First)
  /\ IF plugin = "time"
       THEN held' = [held EXCEPT ![e][n] = ag[n]] /\ ag' = [ag EXCEPT ![n] = 0] /\ UNCHANGED left
       ELSE left' = [left EXCEPT ![e] = Tries] /\ UNCHANGED <<held, ag>>
  /\ UNCHANGED <<phase, nodes, flag_export, take, seen, ptr, dbVars, events, counted, holed,
                 doubled, overlapped, calm, skipped>>
  /\ SyncRest

NodeDone(e) ==
  /\ Goto(e, "walk") /\ cur' = [cur EXCEPT ![e] = None] /\ left' = [left EXCEPT ![e] = 0]
  /\ take' = [take EXCEPT ![e] = 0] /\ seen' = [seen EXCEPT ![e] = FALSE]

\* seeded fault: the bytes taken replace those counted meanwhile
Failed_over(e, n) ==
  IF plugin = "time"
    THEN /\ ag' = [ag EXCEPT ![n] = held[e][n]] /\ held' = [held EXCEPT ![e][n] = 0]
         /\ NodeDone(e) /\ UNCHANGED holed
    ELSE /\ UNCHANGED ag
         /\ IF left[e] = 1
              THEN NodeDone(e) /\ held' = [held EXCEPT ![e][n] = 0] /\ holed' = holed \cup {n}
              ELSE /\ left' = [left EXCEPT ![e] = @ - 1] /\ Goto(e, First)
                   /\ UNCHANGED <<cur, held, take, seen, holed>>

\* The export of a node fails.  time puts its bytes back; ip and squid try again,
\* and give the record up in the end.
Failed(e, n) ==
  IF plugin = "time"
    THEN /\ ag' = [ag EXCEPT ![n] = @ + held[e][n]] /\ held' = [held EXCEPT ![e][n] = 0]
         /\ NodeDone(e) /\ UNCHANGED holed
    ELSE /\ UNCHANGED ag
         /\ IF left[e] = 1
              THEN NodeDone(e) /\ held' = [held EXCEPT ![e][n] = 0] /\ holed' = holed \cup {n}
              ELSE /\ left' = [left EXCEPT ![e] = @ - 1] /\ Goto(e, First)
                   /\ UNCHANGED <<cur, held, take, seen, holed>>

\* time_export, ip_export: COUNT.  The bytes of ip are read here, not when written.
Select(e) ==
  /\ epc[e] = "select"
  /\ \/ /\ seen' = [seen EXCEPT ![e] = rows[cur[e]] > 0]
        /\ take' = IF plugin = "ip" THEN [take EXCEPT ![e] = held[e][cur[e]]] ELSE take
        /\ Goto(e, "write") /\ UNCHANGED <<ag, cur, held, left, events, holed, calm>>
     \/ /\ Event /\ (plugin = "time" => ~null) /\ Failed(e, cur[e])
        /\ calm' = FALSE
  /\ UNCHANGED <<phase, nodes, flag_export, todo, ptr, dbVars, counted, doubled, overlapped,
                 skipped>>
  /\ SyncRest

Amount(e) == IF plugin = "ip" THEN take[e] ELSE held[e][cur[e]]

\* seeded fault: an insert whatever COUNT has found
Stored_insert(e) ==
  /\ rows' = [rows EXCEPT ![cur[e]] = @ + 1]
  /\ IF plugin = "time"
       THEN temp' = [temp EXCEPT ![cur[e]] = @ + Amount(e)] /\ UNCHANGED log
       ELSE log' = [log EXCEPT ![cur[e]] = @ + Amount(e)] /\ UNCHANGED temp

\* the insert or the update, of as many rows as there are
Stored(e) ==
  LET n == cur[e]  insert == plugin = "squid" \/ ~seen[e]
      sum == IF insert THEN Amount(e) ELSE Amount(e) * rows[n]
  IN  /\ rows' = IF insert THEN [rows EXCEPT ![n] = @ + 1] ELSE rows
      /\ IF plugin = "time"
           THEN temp' = [temp EXCEPT ![n] = @ + sum] /\ UNCHANGED log
           ELSE log' = [log EXCEPT ![n] = @ + sum] /\ UNCHANGED temp

\* the statement finds two rows, or none since the day has changed
Twin(e)   == plugin # "squid" /\ seen[e] /\ rows[cur[e]] > 1
Missed(e) == plugin # "squid" /\ seen[e] /\ rows[cur[e]] = 0

\* a packet strayed into the node after its bytes were read
Late(e) == held[e][cur[e]] - Amount(e)

Write(e) ==
  /\ epc[e] = "write"
  /\ LET n == cur[e] IN
     \/ /\ Stored(e) /\ NodeDone(e)
        /\ held' = [held EXCEPT ![e][n] = 0]
        /\ holed' = IF Missed(e) \/ Late(e) > 0 THEN holed \cup {n} ELSE holed
        /\ doubled' = IF Twin(e) THEN doubled \cup {n} ELSE doubled
        /\ UNCHANGED <<ag, events, calm>>
     \/ \* the server did not execute it, or its answer was lost
        /\ Event /\ (plugin = "time" => ~null) /\ Failed(e, n) /\ calm' = FALSE
        /\ \/ UNCHANGED <<dbVars, doubled>>
           \/ Stored(e) /\ doubled' = doubled \cup {n}
  /\ UNCHANGED <<phase, nodes, flag_export, todo, ptr, counted, overlapped, skipped>>
  /\ SyncRest

\* seeded fault: the flag is not taken back
Cleaned_flag(e) ==
  /\ ptr' = IF ptr = e THEN "freed" ELSE ptr
  /\ UNCHANGED flag_export

\* ip_clean, squid_clean of the old aggregate
Cleaned(e) ==
  /\ ptr' = IF ptr = e THEN "freed" ELSE ptr
  /\ flag_export' = FALSE

SyncEnd(e) ==
  /\ epc[e] = "walk" /\ todo[e] = {} /\ (plugin = "time" => ~null)
  /\ IF plugin = "time" THEN UNCHANGED <<ptr, flag_export>> ELSE Cleaned(e)
  /\ Return(e)
  /\ UNCHANGED <<nodes, ag, todo, cur, held, take, seen, left, dbVars, events, counted,
                 holed, doubled, overlapped, calm, skipped>>
  /\ SyncRest
---------------------------------------------------------------------------
(* time_group, and the calendar.                                           *)

\* seeded fault: Log_Temp is not emptied
Grouped_twice == log' = [n \in Nodes |-> log[n] + temp[n]] /\ UNCHANGED temp

\* The transaction.  insert ... select locks the rows and the index range it read,
\* so no update of time_export comes between it and the emptying; when a statement
\* fails it is rolled back, and the next half hour tries again.
Grouped == log' = [n \in Nodes |-> log[n] + temp[n]] /\ temp' = Zero

time_group ==
  /\ plugin = "time" /\ reg /\ (\E n \in Nodes : temp[n] > 0) /\ Grouped
  /\ UNCHANGED <<plugin, phase, reg, memVars, syncVars, hookVars, rows, packets, events, histVars>>

\* CURDATE(): the rows of Log_IP are no longer those of today
Midnight ==
  /\ plugin = "ip" /\ Event /\ rows # Zero /\ rows' = Zero
  /\ UNCHANGED <<plugin, phase, reg, memVars, syncVars, hookVars, temp, log, packets, histVars>>
---------------------------------------------------------------------------
(* load and unload of the collectors.                                      *)

Start ==
  /\ phase = "down" /\ phase' = "loading"
  /\ UNCHANGED <<plugin, reg, memVars, syncVars, hookVars, dbVars, packets, events, histVars>>

\* time_init, ip_init, squid_init, after the collector's thread was created: the
\* records that it has counted already are dropped
Loaded ==
  /\ phase = "loading" /\ phase' = "up" /\ reg' = TRUE
  /\ nodes' = {} /\ ag' = Zero /\ counted' = [n \in Nodes |-> counted[n] - ag[n]]
  /\ UNCHANGED <<plugin, null, flag_export, syncVars, hookVars, dbVars, packets, events, holed,
                 doubled, overlapped, calm, since, skipped>>

\* the process ends: what is in memory is lost
Down ==
  /\ phase' = "down" /\ reg' = FALSE /\ null' = FALSE
  /\ nodes' = {} /\ ag' = Zero /\ flag_export' = FALSE
  /\ epc' = All("idle") /\ todo' = All({}) /\ cur' = All(None) /\ held' = All(Zero)
  /\ take' = All(0) /\ seen' = All(FALSE) /\ left' = All(0) /\ AcctDone
  /\ counted' = [n \in Nodes |-> temp[n] + log[n]] /\ holed' = {} /\ doubled' = {}
  /\ calm' = FALSE /\ since' = Zero /\ skipped' = {}
  /\ UNCHANGED <<plugin, dbVars, overlapped>>

\* unload of netfilter frees nothing; nor does squid_free when the list is empty
UnloadNothing ==
  /\ phase = "up" /\ Event /\ cpc = "idle" /\ (plugin = "squid" => nodes = {})
  /\ Down /\ UNCHANGED packets

\* seeded fault: the last export is left out
Unload_clean ==
  /\ phase = "up" /\ Event /\ (plugin = "squid" => nodes # {})
  /\ phase' = "clean" /\ reg' = FALSE
  /\ calm' = (epc["job"] = "idle")
  /\ UNCHANGED <<plugin, memVars, syncVars, hookVars, dbVars, packets,
                 counted, holed, doubled, overlapped, since, skipped>>

\* unload of pcap and squid: time_free, ip_free, squid_free unregister the job, which
\* does not wait for one that runs, and export
Unload ==
  /\ phase = "up" /\ Event /\ (plugin = "squid" => nodes # {})
  /\ phase' = "sync" /\ reg' = FALSE /\ Goto("free", "due")
  /\ calm' = (epc["job"] = "idle")
  /\ UNCHANGED <<plugin, memVars, todo, cur, held, take, seen, left, hookVars, dbVars, packets,
                 counted, holed, doubled, overlapped, since, skipped>>

\* the aggregate is freed with what has come since; pcap's thread still runs
Clean ==
  /\ phase = "clean" /\ phase' = "stop" /\ null' = (plugin # "squid")
  /\ nodes' = {} /\ ag' = Zero /\ ptr' = IF ptr = "tree" THEN "freed" ELSE ptr
  /\ counted' = [n \in Nodes |-> counted[n] - ag[n]]
  /\ UNCHANGED <<plugin, reg, flag_export, syncVars, cpc, key, dbVars, packets, events, holed,
                 doubled, overlapped, calm, since, skipped>>

\* the thread ends after the packet it has; the daemon exits
Stop == phase = "stop" /\ cpc = "idle" /\ Down /\ UNCHANGED <<packets, events>>

\* What the process may die of.  A job that walks a freed tree reads keys that free
\* has overwritten: what else it may write is no node's.
Crash ==
  /\ \/ cpc = "look" /\ null                     \* i_tree_lookup(NULL)
     \/ cpc = "add" /\ ptr = "new" /\ null       \* i_tree_insert(NULL)
     \/ cpc = "add" /\ ptr = "freed"             \* the heap is written to
     \/ \E e \in Exporters : epc[e] = "open" /\ null  \* i_tree_traverse(NULL)
     \/ plugin = "time" /\ null /\ \E e \in Exporters : Walking(e)
  /\ Down /\ UNCHANGED <<packets, events>>

\* a packet before time_init: t_api is NULL
EarlyPacket ==
  /\ plugin # "squid" /\ phase = "loading" /\ packets < MaxPackets[plugin] /\ packets' = packets + 1
  /\ Down /\ UNCHANGED events
---------------------------------------------------------------------------
Export ==
  \E e \in Exporters :
    \/ SyncBegin(e) \/ SyncOpen(e) \/ Select(e) \/ Write(e) \/ SyncEnd(e)
    \/ \E n \in Nodes : Traverse(e, n)

\* what a thread that has begun brings to its end
Finish == acct_lookup \/ acct_insert \/ acct_add \/ Start \/ Loaded \/ Clean \/ Stop \/ Crash

Next ==
  \/ Export \/ Finish \/ time_group \/ Midnight \/ squid_acct
  \/ UnloadNothing \/ Unload \/ EarlyPacket
  \/ \E n \in Nodes : acct(n)

Spec == Init /\ [][Next]_vars

\* the scheduler starts the jobs again and again, the database answers, threads run
\* on, and the watch script starts a daemon that is down
FairSpec == Spec /\ WF_vars(Export) /\ WF_vars(Finish) /\ WF_vars(time_group)
---------------------------------------------------------------------------
(* Properties.                                                             *)

\* what is in memory of a node, in the aggregate or with an export
Pending(n) == ag[n] + held["job"][n] + held["free"][n]

\* Every byte that time_acct, ip_acct and squid_acct count is once, and only once, in
\* a table, in the aggregate or with an export, whatever packets, failing statements,
\* unload and the half hours do meanwhile.  The nodes left out met one of the
\* incidents: a record given up, a packet strayed, a day gone by, an answer lost, a
\* user with two rows; of time_acct's bytes none is ever given up.
LogBytesKept ==
  /\ \A n \in Nodes \ (holed \cup doubled) : counted[n] = temp[n] + log[n] + Pending(n)
  /\ plugin = "time" /\ ~null => holed = {}

\* A user of Log_Temp, and an address of a day in Log_IP, has one row, so that an
\* update adds the bytes once: neither the daemon's restarts nor a failing statement
\* make it two.  There is no unique key; that COUNT and the insert are two statements
\* costs a second row only when unload exports while the job does.
OneRow == plugin # "squid" /\ ~overlapped => \A n \in Nodes : rows[n] <= 1

\* When unload finds no export under way and no statement fails, the last export
\* leaves nothing behind but packets that came after unload began and, in the
\* tree of time, nodes that an insertion hid from the walk.
UnloadExports ==
  phase = "clean" /\ calm => \A n \in Nodes \ skipped : ag[n] <= since[n]

\* Once packets, failures and stops end, nothing stays in memory or in Log_Temp.
EventuallyStored == <>[](\A n \in Nodes : Pending(n) = 0 /\ temp[n] = 0)
============================================================================
