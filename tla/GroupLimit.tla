----------------------------- MODULE GroupLimit -----------------------------
(***************************************************************************)
(* The limits of groups: src/ipstat_system_group_limit (a user's traffic   *)
(* of a traffic group) and its copy src/ipstat_system_users_group_limit    *)
(* (all the traffic of a group of users).  They differ in the key of a     *)
(* rule and in the table.  A list in memory mirrors the rules, counts      *)
(* their bytes and refuses what is over a limit; a job takes the rules     *)
(* over and writes the counters back, and jobs of the calendar reset them. *)
(*                                                                         *)
(* A rule has one key and the md5 of its columns tells any two settings    *)
(* apart.  The limit of a rule is not edited, its other columns are; a     *)
(* packet counts one unit.  The redirector of squid calls my_autz alone,   *)
(* which changes nothing: only threads that go on to my_acct are seen.     *)
(***************************************************************************)
EXTENDS Integers

CONSTANTS
  Rules,
  Collectors,  \* the number of threads that call both hooks
  Limit,       \* limitation of each rule, Unlimited is the column's -1
  Unlimited, Absent, Gone, None,
  Settings,    \* the columns of a rule that are edited: [type, onblocked]
  FirstRows,   \* the settings, or Absent, when the daemon is first started
  Periods,     \* "day", "week", "month", as far as an instance has them
  Word,        \* 2^32, the range of the integer that is added to TDay and TMonth
  Tries,       \* 4, the attempts of a job at its transaction
  MaxPackets, MaxEvents  \* bounds: packets; edits, failures and stops

ASSUME GroupLimitAssumption ==
  /\ Unlimited \notin Nat /\ Limit \in [Rules -> Nat \cup {Unlimited}]
  /\ Settings \subseteq [type : {"never", "day", "week", "month"}, onblocked : BOOLEAN]
  /\ {Absent, Gone} \cap Settings = {} /\ Absent # Gone /\ None \notin Rules
  /\ FirstRows \in [Rules -> Settings \cup {Absent}]
  /\ Periods \subseteq {"day", "week", "month"}
  /\ Collectors \in Nat \ {0}
  /\ Word \in Nat \ {0} /\ Tries \in Nat \ {0}
  /\ MaxPackets \in Nat /\ MaxEvents \in Nat

\* the periods with columns of their own: TDay and YDay, TMonth and YMonth
Columned == Periods \cap {"day", "month"}

VARIABLES
  row,                 \* the table: settings, Absent before, Gone after
  dbTraffic, onActive, \* its columns Traffic and onActive
  this,                \* per period its column TDay, TMonth
  phase,               \* "down", "loading", "up"
  known, cols,         \* st_group_limit: the rules with a node, its settings
  traffic, alpha,      \* its counters
  marked,              \* status: no row has been seen yet
  spc, rows, todo, cp, \* sync_limits: its step, rows and nodes left, copy of a node
  tpc, count,          \* per period, the job: its step and attempts left
  passed, busy,        \* packets of each rule, and of all, let through by my_autz
                       \* whose thread is not done with them
  packets, events,
  counted, twice,      \* history: bytes of the period's column, exported or not;
                       \* those that a lost reply has put there a second time
  cut,                 \* history: rules whose bytes exceeded Word
  used, slack          \* history: bytes counted since the last reset; bytes the
                       \* daemon forgot at a stop or let through unmetered

dbVars   == <<row, dbTraffic, onActive, this>>
nodeVars == <<known, cols, traffic, alpha, marked>>
syncVars == <<spc, rows, todo, cp>>
taskVars == <<tpc, count>>
hookVars == <<passed, busy, packets>>
histVars == <<counted, twice, cut, used, slack>>
vars == <<dbVars, phase, nodeVars, syncVars, taskVars, hookVars, events, histVars>>

NoCopy == [id |-> None, traffic |-> 0, alpha |-> 0, active |-> FALSE]

Zero == [i \in Rules |-> 0]

Init ==
  /\ row = FirstRows /\ dbTraffic = Zero /\ onActive = [i \in Rules |-> TRUE]
  /\ this = [p \in Columned |-> Zero]
  /\ phase = "down" /\ known = {} /\ marked = {}
  /\ cols = [i \in Rules |-> Absent] /\ traffic = Zero /\ alpha = Zero
  /\ spc = "idle" /\ rows = {} /\ todo = {} /\ cp = NoCopy
  /\ tpc = [p \in Periods |-> "idle"] /\ count = [p \in Periods |-> 0]
  /\ passed = Zero /\ busy = 0
  /\ packets = 0 /\ events = 0
  /\ counted = [p \in Columned |-> Zero] /\ twice = [p \in Columned |-> Zero]
  /\ cut = {} /\ used = Zero /\ slack = Zero

Event == events < MaxEvents /\ events' = events + 1

Live(i)    == row[i] \in Settings
Limited(i) == Limit[i] # Unlimited
---------------------------------------------------------------------------
(* The web interface.                                                      *)

Edit(i) ==
  /\ Event
  /\ \E s \in (Settings \cup {Gone}) \ {row[i]} :
       /\ row[i] # Gone /\ (row[i] = Absent => s # Gone)
       /\ row' = [row EXCEPT ![i] = s]
  /\ UNCHANGED <<dbTraffic, onActive, this, phase, nodeVars, syncVars, taskVars,
                 hookVars, histVars>>
---------------------------------------------------------------------------
(* my_autz and my_acct, called by a collector for each packet.             *)

\* what my_autz, sync_traffic and traverse_print compute
Allowed(i) == ~cols[i].onblocked /\ (Limited(i) => traffic[i] < Limit[i])

\* limits_delete is taking cells out of the list, without the mutex
Removing == spc = "rows" /\ rows = {} /\ marked # {}

\* find_group_traffic, find_group: a walk over a cell that is being freed may
\* miss the rule
Finds(i) == IF i \in known /\ Removing THEN BOOLEAN ELSE {i \in known}

\* a packet whose rule is not found is let through
my_autz(i) ==
  /\ phase = "up" /\ busy < Collectors /\ busy' = busy + 1
  /\ packets < MaxPackets /\ packets' = packets + 1
  /\ passed' = [passed EXCEPT ![i] = @ + 1]
  /\ \E found \in Finds(i) :
       /\ found => Allowed(i)
       /\ slack' = IF Limited(i) /\ ~found THEN [slack EXCEPT ![i] = @ + 1] ELSE slack
  /\ UNCHANGED <<dbVars, phase, nodeVars, syncVars, taskVars, events, counted, twice, cut, used>>

HookDone(i) ==
  /\ passed[i] > 0 /\ passed' = [passed EXCEPT ![i] = @ - 1] /\ busy' = busy - 1
  /\ UNCHANGED <<dbVars, phase, known, cols, marked, syncVars, taskVars, packets, events,
                 twice, cut, slack>>

\* not_sum is 0 and the rule is found: the packet is counted
my_acct(i) ==
  /\ HookDone(i) /\ TRUE \in Finds(i)
  /\ traffic' = [traffic EXCEPT ![i] = @ + 1]
  /\ alpha' = [alpha EXCEPT ![i] = @ + 1]
  /\ counted' = [p \in Columned |-> [counted[p] EXCEPT ![i] = @ + 1]]
  /\ used' = IF Limited(i) THEN [used EXCEPT ![i] = @ + 1] ELSE used

\* It is not: not_sum is set, the rule is not found, or my_acct is not called,
\* because another hook or the policy of squid's URLs refused the packet.
my_acct_none(i) == HookDone(i) /\ UNCHANGED <<traffic, alpha, counted, used>>
---------------------------------------------------------------------------
(* sync_limits: the rules are taken over, then the counters written back.  *)

SyncRest == UNCHANGED <<taskVars, hookVars>>

\* the job returns; the first call, by init_limits, is part of load
Return == spc' = "idle" /\ phase' = "up" /\ cp' = NoCopy

\* The query and mark_delete.  When it fails, nothing is written back either.
SyncOpen ==
  /\ phase # "down" /\ spc = "idle"
  /\ \/ /\ spc' = "rows" /\ rows' = {[id |-> i, cols |-> row[i]] : i \in {j \in Rules : Live(j)}}
        /\ marked' = known /\ UNCHANGED <<phase, cp, events>>
     \/ Event /\ Return /\ UNCHANGED <<rows, marked>>
  /\ UNCHANGED <<dbVars, known, cols, traffic, alpha, todo, histVars>> /\ SyncRest

\* insert_limit: the counter is the table's
insert_limit(i) ==
  /\ known' = known \cup {i} /\ cols' = [cols EXCEPT ![i] = row[i]]
  /\ traffic' = [traffic EXCEPT ![i] = dbTraffic[i]]
  /\ alpha' = [alpha EXCEPT ![i] = 0]
  /\ counted' = [p \in Columned |-> [counted[p] EXCEPT ![i] = this[p][i]]]
  /\ twice' = [p \in Columned |-> [twice[p] EXCEPT ![i] = 0]]

\* seeded fault: the counter is taken from the table too
update_limit_traffic(i) ==
  /\ cols' = [cols EXCEPT ![i] = row[i]]
  /\ traffic' = [traffic EXCEPT ![i] = dbTraffic[i]]
  /\ UNCHANGED <<known, alpha, counted, twice>>

\* update_limit: the counter stays
update_limit(i) ==
  /\ cols' = [cols EXCEPT ![i] = row[i]]
  /\ UNCHANGED <<known, traffic, alpha, counted, twice>>

\* A row of the result, under the mutex.  A rule whose columns changed, or that
\* is new, is read again, which may fail.
SyncRow(r) ==
  /\ spc = "rows" /\ r \in rows /\ rows' = rows \ {r} /\ marked' = marked \ {r.id}
  /\ LET i == r.id  same == i \in known /\ cols[i] = r.cols IN
     \/ same /\ UNCHANGED <<known, cols, traffic, alpha, counted, twice, events>>
     \/ i \in known /\ ~same /\ Live(i) /\ update_limit(i) /\ UNCHANGED events
     \/ i \notin known /\ Live(i) /\ insert_limit(i) /\ UNCHANGED events
     \/ ~same /\ Event /\ UNCHANGED <<known, cols, traffic, alpha, counted, twice>>
  /\ UNCHANGED <<dbVars, phase, spc, todo, cp, cut, used, slack>> /\ SyncRest

Forget(i) ==
  /\ counted' = [p \in Columned |-> [counted[p] EXCEPT ![i] = 0]]
  /\ twice' = [p \in Columned |-> [twice[p] EXCEPT ![i] = 0]]

\* delete_limit: the node leaves the list with what it had not exported; other
\* threads walk the list meanwhile
limits_delete(i) ==
  /\ spc = "rows" /\ rows = {} /\ i \in marked
  /\ known' = known \ {i} /\ marked' = marked \ {i} /\ cols' = [cols EXCEPT ![i] = Absent]
  /\ traffic' = [traffic EXCEPT ![i] = 0] /\ alpha' = [alpha EXCEPT ![i] = 0]
  /\ used' = [used EXCEPT ![i] = 0] /\ slack' = [slack EXCEPT ![i] = 0]
  /\ Forget(i)
  /\ UNCHANGED <<dbVars, phase, spc, rows, todo, cp, cut, events>>
  /\ SyncRest

\* sync_traffic opens the database for the nodes of the list
sync_traffic ==
  /\ spc = "rows" /\ rows = {} /\ marked = {}
  /\ \/ spc' = "walk" /\ todo' = known /\ UNCHANGED <<phase, cp, events>>
     \/ Event /\ Return /\ UNCHANGED todo
  /\ UNCHANGED <<dbVars, nodeVars, rows, histVars>> /\ SyncRest

\* sync_traffic, a node: copied and its alpha taken, under the mutex
CopyNode(i) ==
  /\ spc = "walk" /\ i \in todo /\ todo' = todo \ {i} /\ spc' = "exec"
  /\ cp' = [id |-> i, traffic |-> traffic[i], alpha |-> alpha[i], active |-> Allowed(i)]
  /\ alpha' = [alpha EXCEPT ![i] = 0]
  /\ UNCHANGED <<dbVars, phase, known, cols, traffic, marked, rows, events, histVars>>
  /\ SyncRest

\* seeded fault: a node without new bytes is left out
Written_changed ==
  /\ cut' = IF cp.alpha % Word = cp.alpha THEN cut ELSE cut \cup {cp.id}
  /\ IF Live(cp.id) /\ cp.alpha # 0
       THEN /\ dbTraffic' = [dbTraffic EXCEPT ![cp.id] = cp.traffic]
            /\ onActive' = [onActive EXCEPT ![cp.id] = cp.active]
            /\ this' = [p \in Columned |-> [this[p] EXCEPT ![cp.id] = @ + (cp.alpha % Word)]]
       ELSE UNCHANGED <<dbTraffic, onActive, this>>

\* the update, of no row when the rule is gone; the counter is written as it was
\* copied, the bytes are added as an int
Written ==
  /\ cut' = IF cp.alpha % Word = cp.alpha THEN cut ELSE cut \cup {cp.id}
  /\ IF Live(cp.id)
       THEN /\ dbTraffic' = [dbTraffic EXCEPT ![cp.id] = cp.traffic]
            /\ onActive' = [onActive EXCEPT ![cp.id] = cp.active]
            /\ this' = [p \in Columned |-> [this[p] EXCEPT ![cp.id] = @ + (cp.alpha % Word)]]
       ELSE UNCHANGED <<dbTraffic, onActive, this>>

\* seeded fault: the bytes of the copy replace those counted meanwhile
Restored_over == alpha' = [alpha EXCEPT ![cp.id] = cp.alpha]

\* a failed update: ptr->alpha += node.alpha
Restored == alpha' = [alpha EXCEPT ![cp.id] = @ + cp.alpha]

\* The update; when it was executed and its reply is lost, it has failed for the
\* daemon, which gives the bytes back although the columns have them.
Exec ==
  /\ spc = "exec" /\ spc' = "walk" /\ cp' = NoCopy
  /\ \/ Written /\ UNCHANGED <<alpha, twice, events>>
     \/ Event /\ Restored /\ UNCHANGED <<dbTraffic, onActive, this, twice, cut>>
     \/ /\ Event /\ Restored /\ Written
        /\ twice' = [p \in Columned |->
                      [twice[p] EXCEPT ![cp.id] = @ + IF Live(cp.id) THEN cp.alpha ELSE 0]]
  /\ UNCHANGED <<row, phase, known, cols, traffic, marked, rows, todo, counted,
                 used, slack>>
  /\ SyncRest

WalkEnd ==
  /\ spc = "walk" /\ todo = {} /\ Return
  /\ UNCHANGED <<dbVars, nodeVars, rows, todo, events, histVars>> /\ SyncRest
---------------------------------------------------------------------------
(* gl_task_every_day, gl_task_every_week, gl_task_every_month.             *)

\* traverse_check under the mutex, in memory only, of the nodes that the walk
\* meets; packets let through but not counted yet will count for the new period
ZeroTraffic(hit) ==
  /\ traffic' = [i \in Rules |-> IF i \in hit THEN 0 ELSE traffic[i]]
  /\ used' = [i \in Rules |-> IF i \in hit THEN 0 ELSE used[i]]
  /\ slack' = [i \in Rules |-> IF i \notin hit THEN slack[i]
                               ELSE IF Limited(i) THEN passed[i] ELSE 0]

TaskReset(p) ==
  /\ phase = "up" /\ tpc[p] = "idle"
  /\ LET typed == {i \in known : cols[i].type = p} IN
     \/ ZeroTraffic(typed)
     \/ Removing /\ \E hit \in SUBSET typed : ZeroTraffic(hit)
  /\ \/ /\ p \in Columned
        /\ tpc' = [tpc EXCEPT ![p] = "sql"] /\ count' = [count EXCEPT ![p] = Tries]
        /\ UNCHANGED events
     \/ p \in Columned /\ Event /\ UNCHANGED taskVars       \* no connection
     \/ p \notin Columned /\ UNCHANGED <<taskVars, events>> \* every_week
  /\ UNCHANGED <<dbVars, phase, known, cols, alpha, marked, syncVars, hookVars,
                 counted, twice, cut>>

\* the transaction; YDay and YMonth, which take the column over, are not read here
NewPeriod(p) ==
  /\ this' = [this EXCEPT ![p] = Zero] /\ twice' = [twice EXCEPT ![p] = Zero]
  /\ counted' = [counted EXCEPT ![p] = [i \in Rules |->
                    IF i \in known THEN (@[i] + twice[p][i]) - this[p][i] ELSE 0]]

TaskCommit(p) ==
  /\ tpc[p] = "sql" /\ tpc' = [tpc EXCEPT ![p] = "idle"] /\ count' = [count EXCEPT ![p] = 0]
  /\ NewPeriod(p)
  /\ UNCHANGED <<row, dbTraffic, onActive, phase, nodeVars, syncVars, hookVars,
                 events, cut, used, slack>>

\* rolled back, unless only the reply of the commit is lost; after the last attempt
\* the job gives up
TaskFail(p) ==
  /\ tpc[p] = "sql" /\ Event
  /\ count' = [count EXCEPT ![p] = @ - 1]
  /\ tpc' = [tpc EXCEPT ![p] = IF count[p] = 1 THEN "idle" ELSE "sql"]
  /\ NewPeriod(p) \/ UNCHANGED <<this, counted, twice>>
  /\ UNCHANGED <<row, dbTraffic, onActive, phase, nodeVars, syncVars, hookVars, cut,
                 used, slack>>
---------------------------------------------------------------------------
(* load and unload.                                                        *)

Start ==
  /\ phase = "down" /\ phase' = "loading"
  /\ UNCHANGED <<dbVars, nodeVars, syncVars, taskVars, hookVars, events, histVars>>

\* what the daemon has counted and the table does not know
Forgotten(i) ==
  IF i \in known /\ Limited(i) /\ traffic[i] > dbTraffic[i] THEN traffic[i] - dbTraffic[i] ELSE 0

\* the daemon ends: memory is gone, with the bytes that were not exported
Down ==
  /\ phase' = "down" /\ known' = {} /\ marked' = {}
  /\ cols' = [i \in Rules |-> Absent] /\ traffic' = Zero /\ alpha' = Zero
  /\ spc' = "idle" /\ rows' = {} /\ todo' = {} /\ cp' = NoCopy
  /\ tpc' = [p \in Periods |-> "idle"] /\ count' = [p \in Periods |-> 0]
  /\ passed' = Zero /\ busy' = 0
  /\ counted' = [p \in Columned |-> Zero] /\ twice' = [p \in Columned |-> Zero]
  /\ slack' = [i \in Rules |-> slack[i] + Forgotten(i)]
  /\ UNCHANGED <<dbVars, packets, cut, used>>

\* unload frees the list and writes nothing back
unload == phase = "up" /\ Event /\ Down

\* a row that has gone since the query is dereferenced as NULL
SyncCrash ==
  /\ spc = "rows" /\ \E r \in rows : ~Live(r.id) /\ (r.id \in known => cols[r.id] # r.cols)
  /\ UNCHANGED events /\ Down

\* a collector's walk over a cell that is being freed ends the daemon
WalkCrash == phase = "up" /\ Removing /\ UNCHANGED events /\ Down
---------------------------------------------------------------------------
Sync ==
  \/ SyncOpen \/ sync_traffic \/ Exec \/ WalkEnd \/ SyncCrash
  \/ (\E r \in rows : SyncRow(r)) \/ (\E i \in Rules : limits_delete(i) \/ CopyNode(i))

Next ==
  \/ Sync \/ Start \/ unload \/ WalkCrash
  \/ \E i \in Rules : Edit(i) \/ my_autz(i) \/ my_acct(i) \/ my_acct_none(i)
  \/ \E p \in Periods : TaskReset(p)
  \/ \E p \in Columned : TaskCommit(p) \/ TaskFail(p)

Spec == Init /\ [][Next]_vars

\* the scheduler starts the job every minute, the database answers it, and the
\* watch script starts a daemon that is down
FairSpec == Spec /\ WF_vars(Sync \/ Start)
---------------------------------------------------------------------------
(* Properties.                                                             *)

\* the bytes of a rule that sync_traffic holds while the update is under way
InFlight(i) == IF spc = "exec" /\ cp.id = i THEN cp.alpha ELSE 0

\* Every byte that my_acct counts for a rule is, exactly once, in the column of the
\* period, in alpha or in the copy that is being written, whatever packets, failing
\* updates and the job that starts a new period do meanwhile.  An update whose reply
\* is lost puts its copy there a second time, and nothing else does; only a stop
\* loses bytes, and an export of 2^32 bytes or more, which is cut to 32 bits.
BytesAccounted ==
  \A p \in Columned, i \in known \ cut : Live(i) =>
    counted[p][i] + twice[p][i] = this[p][i] + alpha[i] + InFlight(i)

\* Between two resets a limited rule counts no more than its limit, a packet of each
\* further collector, what a stop made the daemon forget and what was let through
\* unmetered, while the rule was not found in the list or before the reset: neither
\* edited columns nor a failing export nor a packet that is not counted in the end
\* gives it any bytes back.
LimitHeld ==
  \A i \in known : Limited(i) =>
    used[i] <= Limit[i] + slack[i] + Collectors - 1

\* Once packets, edits and failures end, the table says of every rule what the
\* daemon counts and decides, resets that were made in memory only included.
EventuallyExported ==
  <>[](\A i \in Rules : Live(i) =>
         /\ i \in known /\ cols[i] = row[i] /\ alpha[i] = 0
         /\ dbTraffic[i] = traffic[i] /\ (onActive[i] <=> Allowed(i)))
===========================================================================
