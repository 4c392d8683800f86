------------------------------- MODULE Policy -------------------------------
(***************************************************************************)
(* The access policies: by time of day (src/ipstat_system_time_policy) and *)
(* by URL (src/src/ipstat_url_policy.c).  Both keep lists in memory that   *)
(* mirror tables the web interface edits: lists of subjects (a user, a     *)
(* group, a kind of traffic) with the policy they are under and its        *)
(* default, and one list of definitions, the first of which that fits      *)
(* decides.  A list has a mutex and a job that compares its nodes with the *)
(* rows of the table by an md5 of their columns.                           *)
(*                                                                         *)
(* plugin, which never changes, says which of the two is modelled.  Time   *)
(* passes in minutes; a day has DayLen of them, a week Week days.          *)
(***************************************************************************)
EXTENDS Integers, Sequences, FiniteSets, SequencesExt

CONSTANTS
  Chain,      \* per plugin: the subject lists, in the order autz asks them
  Subjects,   \* the ids of the rows of a subject list
  DefIds,     \* per plugin: the ids of the rows of the list of definitions
  Assigned,   \* rows of a subject table [policy, def, valid, md5]
  Defined,    \* per plugin: definitions [policy, when, target, valid, md5]
  URLs,       \* what the redirector is asked about
  Absent,     \* no row, no node
  FirstTable, \* per plugin: the tables when the daemon is started
  DayLen, Week,
  MaxEvents   \* bound, per plugin: edits, commands, failures and stops

Plugins == {"time", "url"}

ASSUME PolicyAssumption ==
  /\ Chain \in [Plugins -> Seq(STRING)] /\ DOMAIN Defined = Plugins /\ DOMAIN DefIds = Plugins
  /\ \A p \in Plugins : Chain[p] # <<>> /\ "defs" \notin ToSet(Chain[p])
  /\ \A p \in Plugins : DefIds[p] \subseteq Nat /\ IsFiniteSet(DefIds[p])
  /\ Subjects \subseteq Nat /\ IsFiniteSet(Subjects)
  \* only a pattern can be invalid
  /\ \A r \in Assigned : r.def \in BOOLEAN /\ r.valid
  /\ \A p \in Plugins : \A d \in Defined[p] : d.target \in BOOLEAN /\ d.valid \in BOOLEAN
  /\ Absent \notin Assigned /\ \A p \in Plugins : Absent \notin Defined[p]
  /\ \A p \in Plugins :
       /\ DOMAIN FirstTable[p] = ToSet(Chain[p]) \cup {"defs"}
       /\ FirstTable[p]["defs"] \in [DefIds[p] -> Defined[p] \cup {Absent}]
       /\ \A l \in ToSet(Chain[p]) : FirstTable[p][l] \in [Subjects -> Assigned \cup {Absent}]
  /\ {DayLen, Week} \subseteq Nat \ {0}
  /\ MaxEvents \in [Plugins -> Nat]

VARIABLES
  plugin,          \* rigid
  table,           \* the committed rows of each table
  list,            \* the lists, the head of each first
  lock,            \* the holder of each list's mutex: "free", "sync", "console"
  phase, loading,  \* "down", "loading", "up"; the lists load has still to read
  spc, rows, cur,  \* each sync job: its step, rows not yet handled, row in hand
  ran,             \* the lists whose job was started in this minute
  now,             \* the minute of the week
  week_day, tek_time, day,   \* st_week_day; the time since st_begin_period, which
                             \* is that of the day once it is set; every_day's step
  dpc, di, ask, pol,         \* a decision: its step, list, question and policy
  events,
  clean, settled, calm, blurred, astray   \* history, see the properties

syncVars == <<spc, rows, cur, clean, ran>>
timeVars == <<now, week_day, tek_time, day>>
decVars  == <<dpc, di, ask, pol, calm, astray>>
vars == <<plugin, table, list, lock, phase, loading, syncVars, timeVars,
          decVars, events, settled, blurred>>

Lists      == ToSet(Chain[plugin]) \cup {"defs"}
Ids(l)     == IF l = "defs" THEN DefIds[plugin] ELSE Subjects
RowsOf(l)  == IF l = "defs" THEN Defined[plugin] ELSE Assigned

\* NODE_POLICY_USER, ..._TIME, ..._PATTERN; age is the minutes that began since
\* time_live was set, and a pattern that regcomp refused is not sound
Node(i, r) == [id |-> i, row |-> r, age |-> 0, sound |-> TRUE]

\* an edit, a command, a failure or a stop, as many as are allowed
Event == events < MaxEvents[plugin] /\ events' = events + 1

Nodes(l)     == ToSet(list[l])
user_find(l, i) == {n \in Nodes(l) : n.id = i}
Replace(l, f(_)) == [k \in DOMAIN list[l] |-> f(list[l][k])]
---------------------------------------------------------------------------
(* The clock.                                                              *)

Weekday == now \div DayLen
Aged(n) == [n EXCEPT !.age = IF @ < 3 THEN @ + 1 ELSE 3]

Init ==
  /\ plugin \in Plugins /\ table = FirstTable[plugin]
  /\ list = [l \in Lists |-> <<>>] /\ lock = [l \in Lists |-> "free"]
  /\ phase = "down" /\ loading = <<>>
  /\ spc = [l \in Lists |-> "idle"] /\ rows = [l \in Lists |-> {}]
  /\ cur = [l \in Lists |-> Absent] /\ clean = {} /\ ran = {}
  /\ now = 0 /\ week_day = 0 /\ tek_time = 0 /\ day = "idle"
  /\ dpc = "idle" /\ di = 1 /\ ask = Absent /\ pol = Absent
  /\ events = 0
  /\ settled = {} /\ calm = FALSE /\ blurred = FALSE /\ astray = FALSE

\* every_day is a job of midnight; it and the sync jobs keep up with the clock
Tick ==
  /\ phase = "up" /\ day = "idle" /\ ran = Lists /\ \A l \in Lists : spc[l] = "idle"
  /\ IF plugin = "url" THEN UNCHANGED <<now, tek_time, day>>
     ELSE /\ now' = (now + 1) % (DayLen * Week)
          /\ tek_time' = tek_time + 1
          /\ day' = IF now' % DayLen = 0 THEN "due" ELSE "idle"
  /\ list' = [l \in Lists |-> Replace(l, Aged)]
  /\ ran' = {} /\ calm' = FALSE
  /\ UNCHANGED <<plugin, table, lock, phase, loading, spc, rows, cur, clean, week_day,
                 dpc, di, ask, pol, astray, events, settled, blurred>>

\* seeded fault: the weekday is set when the daemon is started only
get_begin_period_once == day' = "begin" /\ UNCHANGED week_day

\* sets st_week_day and returns what every_day stores
get_begin_period == day' = "begin" /\ week_day' = Weekday

every_day ==
  /\ \/ day = "due" /\ get_begin_period /\ UNCHANGED tek_time
     \/ day = "begin" /\ day' = "idle" /\ tek_time' = now % DayLen /\ UNCHANGED week_day
  /\ UNCHANGED <<plugin, table, list, lock, phase, loading, syncVars, now, decVars,
                 events, settled, blurred>>
---------------------------------------------------------------------------
(* The web interface.                                                      *)

Edit(l, i) ==
  /\ Event
  /\ \E r \in (RowsOf(l) \cup {Absent}) \ {table[l][i]} :
       /\ table' = [table EXCEPT ![l][i] = r]
       /\ blurred' = \/ blurred
                     \/ \E n \in user_find(l, i) :
                          r # Absent /\ n.row # r /\ n.row.md5 = r.md5
  /\ settled' = settled \ {l} /\ clean' = clean \ {l} /\ calm' = FALSE
  /\ UNCHANGED <<plugin, list, lock, phase, loading, spc, rows, cur, ran, timeVars,
                 dpc, di, ask, pol, astray>>
---------------------------------------------------------------------------
(* load and unload.                                                        *)

\* Some time later the daemon is started.  The lists are read in this order, before
\* the hook and the jobs are set.
Start ==
  /\ phase = "down" /\ phase' = "loading"
  /\ now' \in IF plugin = "url" THEN {now} ELSE 0 .. DayLen * Week - 1
  /\ loading' = Append(Chain[plugin], "defs")
  /\ week_day' = now' \div DayLen /\ tek_time' = now' % DayLen /\ UNCHANGED day
  /\ UNCHANGED <<plugin, table, list, lock, syncVars, decVars, events,
                 settled, blurred>>

Present(l) == {i \in Ids(l) : table[l][i] # Absent}

\* init_users_list, ..._group_traffic_list, init_policy_list: the rows as they come
InitSubjects(l) == SetToSeqs({Node(i, table[l][i]) : i \in Present(l)})

\* init_pattern_list: a pattern that does not compile is skipped
InitPatterns ==
  LET compile == {i \in Present("defs") : table["defs"][i].valid}
  IN  SetToSeqs({Node(i, table["defs"][i]) : i \in compile})

\* definitions come "order by id"
InitList(l) ==
  IF l # "defs" THEN InitSubjects(l)
  ELSE {s \in IF plugin = "url" THEN InitPatterns ELSE InitSubjects(l) :
          \A a, b \in DOMAIN s : a < b => s[a].id < s[b].id}

\* a list that cannot be read stays empty, and load goes on
LoadList ==
  /\ phase = "loading" /\ loading # <<>>
  /\ \/ /\ \E s \in InitList(Head(loading)) : list' = [list EXCEPT ![Head(loading)] = s]
        /\ UNCHANGED events
     \/ Event /\ UNCHANGED list
  /\ loading' = Tail(loading)
  /\ phase' = IF Len(loading) = 1 THEN "up" ELSE "loading"
  /\ UNCHANGED <<plugin, table, lock, syncVars, timeVars, decVars, settled,
                 blurred>>

\* The daemon ends, whatever its threads are doing: memory is gone.
Down ==
  /\ phase' = "down" /\ loading' = <<>>
  /\ list' = [l \in Lists |-> <<>>] /\ lock' = [l \in Lists |-> "free"]
  /\ spc' = [l \in Lists |-> "idle"] /\ rows' = [l \in Lists |-> {}]
  /\ cur' = [l \in Lists |-> Absent] /\ clean' = {} /\ ran' = {}
  /\ day' = "idle" /\ now' = 0 /\ week_day' = 0 /\ tek_time' = 0
  /\ dpc' = "idle" /\ di' = 1 /\ pol' = Absent /\ ask' = Absent
  /\ settled' = {} /\ calm' = FALSE /\ UNCHANGED astray
  /\ UNCHANGED <<plugin, table, blurred>>

\* The jobs and the hook are removed and the lists freed, without the mutexes
\* and without waiting for a sync that runs: the daemon is about to exit.
unload == phase = "up" /\ Event /\ Down
---------------------------------------------------------------------------
(* sync_users_list, sync_group_users_list, sync_type_traffic_list,         *)
(* sync_group_traffic_list, sync_time_list and sync_pattern_list.          *)

SyncRest == UNCHANGED <<plugin, table, phase, loading, timeVars, decVars, blurred>>

\* The query, whose rows are all fetched to the client; the scheduler starts
\* the job once a minute.  When it fails, nothing is deleted either.
SyncOpen(l) ==
  /\ phase = "up" /\ spc[l] = "idle" /\ l \notin ran /\ ran' = ran \cup {l}
  /\ \/ /\ spc' = [spc EXCEPT ![l] = "rows"]
        /\ rows' = [rows EXCEPT ![l] = {<<i, table[l][i].md5>> : i \in Present(l)}]
        /\ clean' = clean \cup {l} /\ UNCHANGED events
     \/ /\ Event
        /\ clean' = clean \ {l} /\ UNCHANGED <<spc, rows>>
  /\ UNCHANGED <<list, lock, cur, settled>> /\ SyncRest

\* seeded fault: only an update keeps a node alive
Refreshed_never(n, i) == n

\* node->time_live = time(NULL)
Refreshed(n, i) == IF n.id = i THEN [n EXCEPT !.age = 0] ELSE n

\* A row of the result, in any order.  A node with the row's md5 is kept; for
\* any other the row is read again, with the list's mutex held.
SyncRow(l) ==
  /\ spc[l] = "rows" /\ lock[l] = "free"
  /\ \E r \in rows[l] :
       /\ rows' = [rows EXCEPT ![l] = @ \ {r}]
       /\ LET same == {n \in user_find(l, r[1]) : n.row.md5 = r[2]}
          IN  IF same # {}
                THEN /\ list' = [list EXCEPT ![l] =
                                   Replace(l, LAMBDA n : Refreshed(n, r[1]))]
                     /\ UNCHANGED <<spc, cur, lock>>
                ELSE /\ lock' = [lock EXCEPT ![l] = "sync"]
                     /\ spc' = [spc EXCEPT ![l] = "apply"]
                     /\ cur' = [cur EXCEPT ![l] = r[1]] /\ UNCHANGED list
  /\ UNCHANGED <<clean, ran, events, settled>> /\ SyncRest

\* insert_policy_user, ..._group_traffic: appended
Inserted(l, i) == Append(list[l], Node(i, table[l][i]))

\* insert_policy_time
InsertedTime(i) == Append(list["defs"], Node(i, table["defs"][i]))

\* insert_policy_pattern: freed again when it does not compile
InsertedPattern(i) ==
  IF table["defs"][i].valid THEN Append(list["defs"], Node(i, table["defs"][i]))
  ELSE list["defs"]

\* update_policy_user, ..._group_traffic
Updated(l, i) ==
  Replace(l, LAMBDA n : IF n.id = i THEN Node(i, table[l][i]) ELSE n)

\* update_policy_time
UpdatedTime(i) ==
  Replace("defs", LAMBDA n : IF n.id = i THEN Node(i, table["defs"][i]) ELSE n)

\* update_policy_pattern: compiled over the old one, and it has its new md5
\* whether or not that succeeds
UpdatedPattern(i) ==
  Replace("defs", LAMBDA n : IF n.id = i
    THEN [Node(i, table["defs"][i]) EXCEPT !.sound = table["defs"][i].valid] ELSE n)

\* update_... when there is a node, insert_... when there is none
Applied(l, i) ==
  LET known == user_find(l, i) # {}
  IN  CASE l # "defs" -> IF known THEN Updated(l, i) ELSE Inserted(l, i)
        [] l = "defs" /\ plugin = "time" ->
             IF known THEN UpdatedTime(i) ELSE InsertedTime(i)
        [] l = "defs" /\ plugin = "url" ->
             IF known THEN UpdatedPattern(i) ELSE InsertedPattern(i)

\* seeded fault: the mutex is not unlocked
Released_not(l) == UNCHANGED lock

\* POLICY_USERS_UNLOCK and the like
Released(l) == lock' = [lock EXCEPT ![l] = "free"]

\* The second select.  A node that could not be updated is kept alive all the
\* same; a row that is gone by now is dereferenced as NULL.
SyncApply(l) ==
  /\ spc[l] = "apply" /\ Released(l)
  /\ LET i == cur[l] IN
     \/ /\ table[l][i] # Absent
        /\ list' = [list EXCEPT ![l] = Applied(l, i)]
        /\ UNCHANGED <<clean, events>>
     \/ /\ Event
        /\ list' = [list EXCEPT ![l] = Replace(l, LAMBDA n : Refreshed(n, i))]
        /\ clean' = clean \ {l}
  /\ spc' = [spc EXCEPT ![l] = "rows"] /\ cur' = [cur EXCEPT ![l] = Absent]
  /\ UNCHANGED <<rows, ran, settled>> /\ SyncRest

SyncCrash(l) ==
  /\ spc[l] = "apply" /\ table[l][cur[l]] = Absent
  /\ UNCHANGED events /\ Down

\* time(NULL) - time_live > 90: when age minutes have begun, the seconds passed
\* are more than 60 * (age - 1) and less than 60 * (age + 1)
Expired(n) == {n.age > 0, n.age > 2}

\* the cells of a list that stay linked, from the head on
Increasing(S) == {f \in SetToSeqs(S) : \A a, b \in DOMAIN f : a < b => f[a] < f[b]}

\* delete_policy_user, ..._time, ..._pattern: the others stay in their order
Deleted(l, late) ==
  LET kept == {k \in DOMAIN list[l] : ~late[list[l][k]]}
  IN  {[k \in DOMAIN f |-> list[l][f[k]]] : f \in Increasing(kept)}

\* the nodes that no row has kept alive
SyncSweep(l) ==
  /\ spc[l] = "rows" /\ rows[l] = {} /\ lock[l] = "free"
  /\ \E late \in [Nodes(l) -> BOOLEAN] :
       /\ \A n \in Nodes(l) : late[n] \in Expired(n)
       /\ \E s \in Deleted(l, late) : list' = [list EXCEPT ![l] = s]
  /\ spc' = [spc EXCEPT ![l] = "idle"]
  /\ settled' = IF l \in clean THEN settled \cup {l} ELSE settled
  /\ UNCHANGED <<lock, rows, cur, clean, ran, events>> /\ SyncRest

\* policy_time_job, one command at a time: a list is sent to the client with its
\* mutex held.  The URL policy has no command.
PrintList(l) ==
  /\ phase = "up" /\ plugin = "time"
  /\ \/ /\ lock[l] = "free" /\ \A k \in Lists : lock[k] # "console"
        /\ Event /\ lock' = [lock EXCEPT ![l] = "console"]
     \/ /\ lock[l] = "console" /\ Released(l)
        /\ UNCHANGED events
  /\ UNCHANGED <<list, syncVars, settled>> /\ SyncRest
---------------------------------------------------------------------------
(* autz, called by a collector, and autz_url_policy, called by the squid   *)
(* collector and by the redirector's threads.                              *)

DecRest == UNCHANGED <<plugin, table, list, lock, phase, loading, syncVars, timeVars,
                       events, settled, blurred>>

Fits(l) == \A n \in Nodes(l) : table[l][n.id] # Absent

\* history: the tables have been taken over, no change of day is pending
Calm ==
  /\ settled = Lists /\ ~blurred /\ day = "idle"
  /\ \A l \in Lists : Fits(l)

autz ==
  /\ phase = "up" /\ dpc = "idle" /\ dpc' = "lookup" /\ di' = 1
  /\ ask' \in [who : Subjects, url : IF plugin = "url" THEN URLs ELSE {Absent}]
  /\ calm' = Calm /\ UNCHANGED <<pol, astray>>
  /\ DecRest

\* what the tables say of a subject's row: the targets of the definitions that
\* match, in whatever order they come, or the default
PolicyVerdicts(r) ==
  LET c     == IF plugin = "time" THEN <<Weekday, now % DayLen>> ELSE ask.url
      mine  == {table["defs"][i] : i \in Present("defs")}
      sure  == {d \in mine : d.policy = r.policy /\ d.valid /\ c \in d.when}
      maybe == {d \in mine : d.policy = r.policy /\ ~d.valid}
  IN  {d.target : d \in sure \cup maybe} \cup (IF sure = {} THEN {r.def} ELSE {})

Verdicts ==
  LET rs == {table[l][ask.who] : l \in Lists \ {"defs"}} \ {Absent}
  IN  {v \in BOOLEAN : IF v THEN \A r \in rs : TRUE \in PolicyVerdicts(r)
                            ELSE \E r \in rs : FALSE \in PolicyVerdicts(r)}

\* the answer; history: the tables did not allow it
Answer(v) ==
  /\ dpc' = "idle" /\ di' = 1 /\ ask' = Absent
  /\ calm' = FALSE /\ astray' = (astray \/ (calm /\ v \notin Verdicts))

\* the next list is asked, or the packet is let through
Goes(i) ==
  IF i < Len(Chain[plugin])
    THEN dpc' = "lookup" /\ di' = i + 1 /\ UNCHANGED <<ask, calm, astray>>
    ELSE Answer(TRUE)

\* check_user, check_group_user, check_type_traffic, check_group_traffic; a subject
\* without a node is under no policy
check_user ==
  /\ dpc = "lookup" /\ lock[Chain[plugin][di]] = "free"
  /\ LET found == user_find(Chain[plugin][di], ask.who)
     IN  IF found = {} THEN Goes(di) /\ UNCHANGED pol
         ELSE \E n \in found :
                pol' = n.row /\ dpc' = "policy" /\ UNCHANGED <<di, ask, calm, astray>>
  /\ DecRest

\* a definition of the time policy, by the weekday and the time since midnight
MatchesTime(n) == {(<<week_day, tek_time>> \in n.row.when)}

\* regexec; one that regcomp refused may answer anything, if it returns
MatchesURL(n) == IF n.sound THEN {(ask.url \in n.row.when)} ELSE BOOLEAN

Matches(n) == IF plugin = "time" THEN MatchesTime(n) ELSE MatchesURL(n)

\* the first definition of the policy that matches, or the default
check_policy ==
  /\ dpc = "policy" /\ lock["defs"] = "free"
  /\ LET mine == {k \in DOMAIN list["defs"] : list["defs"][k].row.policy = pol.policy}
     IN  \E m \in [mine -> BOOLEAN] :
           /\ \A k \in mine : m[k] \in Matches(list["defs"][k])
           /\ LET hits == {k \in mine : m[k]}
                  res  == {list["defs"][k].row.target :
                             k \in {h \in hits : \A j \in hits : h <= j}}
              IN  \E r \in IF hits = {} THEN {pol.def} ELSE res :
                    IF r THEN Goes(di) ELSE Answer(FALSE)
  /\ pol' = Absent /\ DecRest

\* regexec on what regcomp refused ends the daemon; the patterns before it did
\* not match, or the search had ended there
regexec_crash ==
  /\ dpc = "policy" /\ lock["defs"] = "free" /\ plugin = "url"
  /\ LET mine == {k \in DOMAIN list["defs"] : list["defs"][k].row.policy = pol.policy}
     IN  \E k \in mine :
           /\ ~list["defs"][k].sound
           /\ \A j \in mine : j < k => FALSE \in MatchesURL(list["defs"][j])
  /\ UNCHANGED events /\ Down

Decision == check_user \/ check_policy

Sync(l) == SyncRow(l) \/ SyncApply(l) \/ SyncCrash(l) \/ SyncSweep(l)

Next ==
  \/ Tick \/ every_day \/ Start \/ LoadList \/ unload \/ autz \/ Decision \/ regexec_crash
  \/ \E l \in Lists :
       SyncOpen(l) \/ Sync(l) \/ PrintList(l) \/ \E i \in Ids(l) : Edit(l, i)

Spec == Init /\ [][Next]_vars

\* Time passes, the jobs run, the database answers, a console client reads what it
\* is sent, the watch script starts a daemon that is down.  A minute has finitely
\* many of these steps, so that none of them is put off for ever.
Progress ==
  \/ Tick \/ every_day \/ Start \/ LoadList
  \/ \E l \in Lists : SyncOpen(l) \/ Sync(l) \/ (lock[l] = "console" /\ PrintList(l))

\* a thread that waits for a mutex which is free again and again gets it
FairSpec == Spec /\ WF_vars(Progress) /\ SF_vars(Decision)
---------------------------------------------------------------------------
(* Properties.                                                             *)

\* the node of a row has the row's md5; a pattern that does not compile may
\* have no node
Mirrored(l, i) ==
  LET ks == {k \in DOMAIN list[l] : list[l][k].id = i}
  IN  \/ Cardinality(ks) = 1 /\ \A k \in ks : list[l][k].row.md5 = table[l][i].md5
      \/ ks = {} /\ ~table[l][i].valid

\* Once a sync without a failure has run on a table that was not edited
\* meanwhile, every row has one node with its md5, and stays so, through
\* failing queries and outages of the database, until the next edit; and a node
\* whose row was removed has gone in the third minute after it was last seen.
InLine ==
  \A l \in settled :
    /\ \A i \in Present(l) : Mirrored(l, i)
    /\ l \in clean /\ spc[l] = "idle" /\ l \in ran =>
         \A n \in Nodes(l) : table[l][n.id] = Absent => n.age < 3

\* A decision of autz, made in several critical sections while lists are
\* synchronised and printed, is one the tables allow, when they were taken over
\* before it began and the day did not change around it.
DecisionFollowsTables == ~astray

\* Once edits and failures end, every list mirrors its table for good, although
\* rows change between the query of a sync and the second select of a row, and
\* although the daemon may have crashed on a row that vanished there.
EventuallyInLine ==
  <>[](\A l \in Lists : /\ \A i \in Present(l) : Mirrored(l, i)
                        /\ Fits(l))

\* A packet or a redirector's client gets its answer, although a sync holds the
\* mutexes while it waits for the database and a console while it sends.
DecisionEnds == dpc # "idle" ~> dpc = "idle"
===========================================================================
