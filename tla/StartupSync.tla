---------------------------- MODULE StartupSync ----------------------------
(***************************************************************************)
(* users_sync (src/src/core_users.c) by two threads at once.  main         *)
(* registers the core's job with the scheduler and then runs one sync of   *)
(* its own (src/src/main.c:193-194), so the first syncs of the job may     *)
(* overlap it.  No collector is loaded before main's sync has ended: there *)
(* are no bytes here, only the list of users and the rule lists.           *)
(*                                                                         *)
(* users_find and the insertion are two critical sections, so a user may   *)
(* get two nodes; users_find and users_delete take the first of them,      *)
(* whichever of the two was found too old.  The rule lists have no mutex   *)
(* at all: they may be loaded twice, or be freed while the other thread    *)
(* walks them or appends to them.  UsersTable models one sync at a time,   *)
(* with the bytes and the collectors.                                      *)
(***************************************************************************)
EXTENDS Naturals, SequencesExt

CONSTANTS
  Users,        \* user ids
  Rules,        \* rule ids
  RuleOwner,    \* the user a rule belongs to
  Nodes,        \* NODE_USER allocations
  Null,         \* a NULL pointer
  MaxEdits,     \* bound on the administrator's edits
  MaxFaults     \* bound on failing store calls and kills

ASSUME StartupAssumption ==
  /\ RuleOwner \in [Rules -> Users]
  /\ Null \notin Users \cup Nodes
  /\ MaxEdits \in Nat /\ MaxFaults \in Nat

VARIABLES
  phase,                  \* "up" or "crashed"
  dbVer, dbRules,         \* md5 of the rows of Users (0: no row), the rows of Rules
  id_users,               \* the list of nodes
  nUser, nVer, nAge,      \* NODE_USER: id, md5, age of time_live
  copies, alive,          \* id_rules: nodes of a rule; rules with a recent time_live
  pc, rows, todo, uid,    \* per thread: where it is, its select, its row
  tek, node, next,        \* per thread: the pointers of its loops
  got, snap, stale,       \* per thread: rules selected, the list before an append,
                          \*   and whether the list it works on was freed
  alone,                  \* history: the job's sync began after main's had ended
  edits, faults           \* the bounded counters

dbVars    == <<dbVer, dbRules>>
tableVars == <<id_users, nUser, nVer, nAge>>
listVars  == <<copies, alive, stale>>
threadVars == <<rows, todo, uid, tek, node, next, got, snap>>
vars == <<phase, dbVars, tableVars, listVars, pc, threadVars, alone, edits, faults>>

Threads == {"main", "job"}
Other(t) == IF t = "main" THEN "job" ELSE "main"
Old     == 2          \* age of a time_live more than 90 seconds ago
NoRules == [r \in Rules |-> 0]
RulesOf(u) == {r \in Rules : RuleOwner[r] = u}

Nodes_of(u) == {n \in ToSet(id_users) : nUser[n] = u}

\* users_find: under users_mutex, the first node of u
users_find(u) ==
  LET i == SelectInSeq(id_users, LAMBDA n : nUser[n] = u)
  IN IF i = 0 THEN Null ELSE id_users[i]

StoreOk    == faults' = faults
StoreFails == faults < MaxFaults /\ faults' = faults + 1

Goto(t, l) == pc' = [pc EXCEPT ![t] = l]
Set(f, t, x) == [f EXCEPT ![t] = x]
---------------------------------------------------------------------------
Fresh ==
  /\ phase' = "up" /\ id_users' = <<>>
  /\ nUser' = [n \in Nodes |-> Null] /\ nVer' = [n \in Nodes |-> 0]
  /\ nAge' = [n \in Nodes |-> 0]
  /\ copies' = [n \in Nodes |-> NoRules] /\ alive' = [n \in Nodes |-> {}]
  /\ pc' = [t \in Threads |-> "idle"] /\ rows' = [t \in Threads |-> dbVer']
  /\ todo' = [t \in Threads |-> {}] /\ uid' = [t \in Threads |-> Null]
  /\ tek' = [t \in Threads |-> Null] /\ node' = [t \in Threads |-> Null]
  /\ next' = [t \in Threads |-> Null] /\ got' = [t \in Threads |-> {}]
  /\ snap' = [t \in Threads |-> NoRules] /\ stale' = [t \in Threads |-> FALSE]
  /\ alone' = FALSE

Init ==
  /\ phase = "up" /\ id_users = <<>>
  /\ dbVer = [u \in Users |-> 1] /\ dbRules \in SUBSET Rules
  /\ nUser = [n \in Nodes |-> Null] /\ nVer = [n \in Nodes |-> 0]
  /\ nAge = [n \in Nodes |-> 0]
  /\ copies = [n \in Nodes |-> NoRules] /\ alive = [n \in Nodes |-> {}]
  /\ pc = [t \in Threads |-> "idle"] /\ rows = [t \in Threads |-> dbVer]
  /\ todo = [t \in Threads |-> {}] /\ uid = [t \in Threads |-> Null]
  /\ tek = [t \in Threads |-> Null] /\ node = [t \in Threads |-> Null]
  /\ next = [t \in Threads |-> Null] /\ got = [t \in Threads |-> {}]
  /\ snap = [t \in Threads |-> NoRules] /\ stale = [t \in Threads |-> FALSE]
  /\ alone = FALSE /\ edits = 0 /\ faults = 0
---------------------------------------------------------------------------
(* The loop of users_sync over the rows of Users.                          *)

RowRest == UNCHANGED <<phase, dbVars, rows, next, alone, edits>>

\* the first statement of users_sync
users_sync(t) ==
  /\ phase = "up" /\ pc[t] = "idle"
  /\ \/ StoreOk /\ rows' = Set(rows, t, dbVer) /\ Goto(t, "row")
     \/ StoreFails /\ rows' = Set(rows, t, [u \in Users |-> 0]) /\ Goto(t, "row")
     \/ StoreFails /\ UNCHANGED rows /\ Goto(t, IF t = "main" THEN "done" ELSE "idle")
  /\ todo' = Set(todo, t, {u \in Users : rows'[t][u] # 0 /\ pc'[t] = "row"})
  /\ IF t = "job"           \* a minute has passed
       THEN /\ nAge' = [n \in Nodes |-> IF nAge[n] = 0 /\ n \in ToSet(id_users)
                                          THEN 1 ELSE nAge[n]]
            /\ alone' = (pc["main"] = "done")
       ELSE UNCHANGED <<nAge, alone>>
  /\ UNCHANGED <<phase, dbVars, id_users, nUser, nVer, listVars, uid, tek, node,
                 next, got, snap, edits>>

\* a row against the table: insert, update, or see whether the rules changed
SyncRow(t) ==
  /\ phase = "up" /\ pc[t] = "row"
  /\ \E u \in todo[t] :
       /\ todo' = [todo EXCEPT ![t] = @ \ {u}] /\ uid' = Set(uid, t, u)
       /\ tek' = Set(tek, t, users_find(u)) /\ node' = Set(node, t, users_find(u))
       /\ Goto(t, IF users_find(u) = Null THEN "insert"
                  ELSE IF nVer[users_find(u)] # rows[t][u] THEN "update" ELSE "rsync")
  /\ stale' = Set(stale, t, FALSE)
  /\ UNCHANGED <<tableVars, copies, alive, got, snap, faults>> /\ RowRest

\* a name for a new node: none of the list, of clean_list's only what no
\* thread points to (the code never gives their memory back)
Unused == Nodes \ (ToSet(id_users) \cup UNION {{tek[t], node[t], next[t]} : t \in Threads})

\* users_insert is under the mutex, but users_find was another time under it
users_mysql_insert(t) ==
  /\ phase = "up" /\ pc[t] = "insert"
  /\ \/ /\ StoreOk /\ dbVer[uid[t]] # 0 /\ Unused # {}
        /\ LET n == CHOOSE m \in Unused : TRUE IN
             /\ id_users' = Append(id_users, n) /\ node' = Set(node, t, n)
             /\ nUser' = Set(nUser, n, uid[t]) /\ nVer' = Set(nVer, n, dbVer[uid[t]])
             /\ nAge' = Set(nAge, n, 0)
             /\ copies' = Set(copies, n, NoRules) /\ alive' = Set(alive, n, {})
        /\ Goto(t, "load")
     \/ /\ StoreFails \/ (StoreOk /\ dbVer[uid[t]] = 0)
        /\ Goto(t, "row") /\ UNCHANGED <<tableVars, copies, alive, node>>
  /\ UNCHANGED <<stale, todo, uid, tek, got, snap>> /\ RowRest

\* the row is done: node->time_live = time(NULL), of the node found at first
RowDone(t) ==
  /\ Goto(t, "row")
  /\ nAge' = [n \in Nodes |-> IF n = tek[t] THEN 0 ELSE nAge[n]]
  /\ UNCHANGED <<id_users, nUser, nVer>>

\* seeded fault: a second copy of a rule is not noticed
RulesDiffer_found(n) ==
  \E r \in RulesOf(nUser[n]) :
    IF r \in dbRules THEN copies[n][r] = 0 ELSE copies[n][r] # 0 /\ r \notin alive[n]

\* rules_sync: a rule is not loaded, or a copy of one was not recognised and
\* has a time_live of long ago; time_live is 0 until a sync recognises the rule
RulesDiffer(n) ==
  \E r \in RulesOf(nUser[n]) :
    \/ r \in dbRules /\ copies[n][r] # 1
    \/ r \notin dbRules /\ copies[n][r] # 0 /\ (r \notin alive[n] \/ copies[n][r] > 1)

rules_sync(t) ==
  /\ phase = "up" /\ pc[t] = "rsync"
  /\ \/ /\ StoreFails /\ RowDone(t) /\ UNCHANGED <<phase, alive>>
     \/ /\ StoreOk /\ ~stale[t]
        /\ alive' = [alive EXCEPT ![node[t]] =
                       @ \cup {r \in dbRules : copies[node[t]][r] # 0}]
        /\ IF RulesDiffer(node[t]) THEN Goto(t, "update") /\ UNCHANGED tableVars
                                   ELSE RowDone(t)
        /\ UNCHANGED phase
     \/ /\ StoreOk /\ stale[t]           \* the walk is on a freed list
        /\ \/ phase' = "crashed" /\ UNCHANGED <<pc, tableVars>>
           \/ UNCHANGED phase /\ (RowDone(t) \/ (Goto(t, "update") /\ UNCHANGED tableVars))
        /\ UNCHANGED alive
  /\ stale' = Set(stale, t, FALSE)
  /\ UNCHANGED <<dbVars, copies, threadVars, alone, edits>>

\* users_mysql_update looks for the node again, then rules_mysql_unload
\* exports the rules: a walk that ends with rules_clean
users_mysql_update(t) ==
  /\ phase = "up" /\ pc[t] = "update"
  /\ \/ /\ StoreFails \/ (StoreOk /\ users_find(uid[t]) = Null)
        /\ RowDone(t) /\ UNCHANGED node
     \/ /\ users_find(uid[t]) # Null /\ node' = Set(node, t, users_find(uid[t]))
        /\ \/ StoreOk /\ Goto(t, "clean")
           \/ StoreFails /\ Goto(t, "reread")      \* rules_sync_traffic
        /\ UNCHANGED tableVars
  /\ stale' = Set(stale, t, FALSE)
  /\ UNCHANGED <<copies, alive, todo, uid, tek, got, snap>> /\ RowRest

\* the list of n is freed under the other thread's walk, export or append
FreeRules(t, n) ==
  /\ copies' = [copies EXCEPT ![n] = NoRules] /\ alive' = [alive EXCEPT ![n] = {}]
  /\ stale' = [s \in Threads |->
       IF s = t THEN FALSE
       ELSE stale[s] \/ (/\ node[s] = n /\ copies[n] # NoRules
                         /\ \/ pc[s] \in {"rsync", "clean"}
                            \/ pc[s] = "append" /\ snap[s] # NoRules)]

rules_clean(t) ==
  /\ phase = "up" /\ pc[t] = "clean"
  /\ phase' \in IF stale[t] THEN {"up", "crashed"} ELSE {"up"}
  /\ FreeRules(t, node[t]) /\ Goto(t, "reread")
  /\ UNCHANGED <<dbVars, tableVars, threadVars, alone, edits, faults>>

\* the second half of users_mysql_update reads the row again
UpdateReread(t) ==
  /\ phase = "up" /\ pc[t] = "reread"
  /\ \/ /\ StoreOk /\ Goto(t, "load")
        /\ nVer' = [nVer EXCEPT ![node[t]] = IF dbVer[uid[t]] = 0 THEN @ ELSE dbVer[uid[t]]]
        /\ UNCHANGED <<id_users, nUser, nAge>>
     \/ StoreFails /\ RowDone(t)
  /\ UNCHANGED <<listVars, todo, uid, tek, node, got, snap>> /\ RowRest

rules_init(t) ==
  /\ phase = "up" /\ pc[t] = "load"
  /\ IF copies[node[t]] = NoRules THEN Goto(t, "select") /\ UNCHANGED tableVars
                                  ELSE RowDone(t)
  /\ UNCHANGED <<listVars, todo, uid, tek, node, got, snap, faults>> /\ RowRest

\* the query of rules_mysql_load; when it fails, what the list has is freed
SelectRules(t) ==
  /\ phase = "up" /\ pc[t] = "select"
  /\ \/ /\ StoreOk /\ Goto(t, "rows")
        /\ got' = Set(got, t, dbRules \cap RulesOf(nUser[node[t]]))
        /\ UNCHANGED <<tableVars, listVars>>
     \/ /\ StoreFails /\ RowDone(t) /\ UNCHANGED got
        /\ UNCHANGED listVars \/ FreeRules(t, node[t])
  /\ UNCHANGED <<todo, uid, tek, node, snap>> /\ RowRest

\* g_list_append, first half: the list's head is read and its end is found
AppendRead(t) ==
  /\ phase = "up" /\ pc[t] = "rows"
  /\ IF got[t] = {} THEN RowDone(t) /\ UNCHANGED <<snap, stale>>
     ELSE /\ Goto(t, "append") /\ snap' = Set(snap, t, copies[node[t]])
          /\ stale' = Set(stale, t, FALSE) /\ UNCHANGED tableVars
  /\ UNCHANGED <<copies, alive, todo, uid, tek, node, got, faults>> /\ RowRest

\* second half: id_rules becomes the list that was read with the rule at its
\* end; what the other thread has appended in between may be lost
AppendWrite(t) ==
  /\ phase = "up" /\ pc[t] = "append"
  /\ \E r \in got[t] :
       LET With(list) == [list EXCEPT ![r] = @ + 1]
           Put(list)  == copies' = Set(copies, node[t], list)
       IN /\ got' = [got EXCEPT ![t] = @ \ {r}]
          /\ \/ ~stale[t] /\ Put(With(snap[t])) /\ UNCHANGED phase
             \/ /\ ~stale[t] /\ snap[t] # NoRules /\ copies[node[t]] # snap[t]
                /\ Put(With(copies[node[t]])) /\ UNCHANGED phase
             \/ /\ stale[t] /\ phase' \in {"up", "crashed"}   \* to a freed list
                /\ \E list \in [Rules -> 0 .. 2] :
                     (\A s \in Rules \ RulesOf(uid[t]) : list[s] = 0) /\ Put(list)
  /\ Goto(t, "rows") /\ snap' = Set(snap, t, NoRules) /\ stale' = Set(stale, t, FALSE)
  /\ UNCHANGED <<dbVars, tableVars, alive, rows, todo, uid, tek, node, next, alone,
                 edits, faults>>
---------------------------------------------------------------------------
(* The two loops over the list: users_mysql_delete, users_sync_traffic.    *)

First == IF id_users = <<>> THEN Null ELSE Head(id_users)

\* g_list_next of a node that is on the list
After(n) == LET i == SelectInSeq(id_users, LAMBDA m : m = n)
            IN IF i = Len(id_users) THEN Null ELSE id_users[i + 1]

\* the cell that t_tmp points to has been freed by the other thread
NextFreed(t) == next[t] # Null /\ next[t] \notin ToSet(id_users)

LoopRest == UNCHANGED <<dbVars, nUser, nVer, listVars, rows, todo, got, snap,
                        alone, edits>>

DeleteBegin(t) ==
  /\ phase = "up" /\ pc[t] = "row" /\ todo[t] = {}
  /\ Goto(t, "delete") /\ next' = Set(next, t, First)
  /\ uid' = Set(uid, t, Null) /\ tek' = Set(tek, t, Null) /\ node' = Set(node, t, Null)
  /\ UNCHANGED <<phase, id_users, nAge, faults>> /\ LoopRest

LoopFreed(t) ==
  /\ phase = "up" /\ pc[t] \in {"delete", "export"} /\ NextFreed(t)
  /\ phase' \in {"up", "crashed"} /\ next' = Set(next, t, Null)
  /\ UNCHANGED <<id_users, nAge, pc, uid, tek, node, faults>> /\ LoopRest

\* users_mysql_delete: the age is tested, users_delete takes the id only
users_mysql_delete(t) ==
  /\ phase = "up" /\ pc[t] = "delete" /\ next[t] # Null /\ ~NextFreed(t)
  /\ next' = Set(next, t, After(next[t]))
  /\ IF nAge[next[t]] = Old THEN Goto(t, "drop") /\ uid' = Set(uid, t, nUser[next[t]])
                            ELSE UNCHANGED <<pc, uid>>
  /\ UNCHANGED <<phase, id_users, nAge, tek, node, faults>> /\ LoopRest

\* seeded fault: all nodes of the id are taken off the list
Without_any(u) == SelectSeq(id_users, LAMBDA n : nUser[n] # u)

Without(u) == Remove(id_users, users_find(u))

\* under users_mutex; a node without a list keeps its memory
users_delete(t) ==
  /\ phase = "up" /\ pc[t] = "drop"
  /\ id_users' = Without(uid[t])
  /\ nAge' = [n \in Nodes |-> IF n \in ToSet(id_users) \ ToSet(id_users') THEN 0 ELSE nAge[n]]
  /\ Goto(t, "delete") /\ uid' = Set(uid, t, Null)
  /\ UNCHANGED <<phase, tek, node, next, faults>> /\ LoopRest

\* users_sync_traffic: nothing has been counted yet, but the list is walked
TrafficBegin(t) ==
  /\ phase = "up" /\ pc[t] = "delete" /\ next[t] = Null
  /\ \/ StoreOk /\ Goto(t, "export") /\ next' = Set(next, t, First)
     \/ StoreFails /\ Goto(t, IF t = "main" THEN "done" ELSE "idle") /\ UNCHANGED next
  /\ UNCHANGED <<phase, id_users, nAge, uid, tek, node>> /\ LoopRest

users_sync_traffic(t) ==
  /\ phase = "up" /\ pc[t] = "export" /\ ~NextFreed(t)
  /\ IF next[t] = Null
       THEN Goto(t, IF t = "main" THEN "done" ELSE "idle") /\ UNCHANGED next
       ELSE UNCHANGED pc /\ next' = Set(next, t, After(next[t]))
  /\ UNCHANGED <<phase, id_users, nAge, uid, tek, node, faults>> /\ LoopRest

Sync(t) ==
  \/ users_sync(t) \/ SyncRow(t) \/ users_mysql_insert(t) \/ rules_sync(t)
  \/ users_mysql_update(t) \/ rules_clean(t) \/ UpdateReread(t) \/ rules_init(t)
  \/ SelectRules(t) \/ AppendRead(t) \/ AppendWrite(t) \/ DeleteBegin(t)
  \/ LoopFreed(t) \/ users_mysql_delete(t) \/ users_delete(t) \/ TrafficBegin(t)
  \/ users_sync_traffic(t)
---------------------------------------------------------------------------
(* Time, the administrator, IPStat-watch.                                  *)

\* More than 90 seconds since time_live; the job's own loop over the rows is
\* taken to be faster than that (UsersTable has the slow one).
Elapse(n) ==
  /\ phase = "up" /\ nAge[n] = 1 /\ nAge' = Set(nAge, n, Old)
  /\ UNCHANGED <<phase, dbVars, id_users, nUser, nVer, listVars, pc, threadVars, alone,
                 edits, faults>>

ElapseRule(n, r) ==
  /\ phase = "up" /\ r \in alive[n] \ dbRules
  /\ alive' = [alive EXCEPT ![n] = @ \ {r}]
  /\ UNCHANGED <<phase, dbVars, tableVars, copies, stale, pc, threadVars, alone, edits, faults>>

Admin ==
  /\ edits < MaxEdits /\ edits' = edits + 1
  /\ \/ \E u \in Users :
          /\ dbVer[u] # 0 /\ dbVer' = Set(dbVer, u, dbVer[u] + 1) /\ UNCHANGED dbRules
     \/ \E r \in dbRules : dbRules' = dbRules \ {r} /\ UNCHANGED dbVer
     \/ \E u \in Users :
          /\ dbVer[u] # 0 /\ RulesOf(u) \cap dbRules = {}
          /\ dbVer' = Set(dbVer, u, 0) /\ UNCHANGED dbRules
  /\ UNCHANGED <<phase, tableVars, listVars, pc, threadVars, alone, faults>>

KillRestart == StoreFails /\ UNCHANGED <<dbVars, edits>> /\ Fresh

Next ==
  \/ \E t \in Threads : Sync(t)
  \/ \E n \in Nodes : Elapse(n) \/ (\E r \in Rules : ElapseRule(n, r))
  \/ Admin \/ KillRestart

Spec == Init /\ [][Next]_vars

\* Both threads are scheduled, the job is started every minute, time passes.
FairSpec ==
  /\ Spec /\ \A t \in Threads : WF_vars(Sync(t))
  /\ \A n \in Nodes : WF_vars(Elapse(n)) /\ \A r \in Rules : WF_vars(ElapseRule(n, r))
---------------------------------------------------------------------------
(* Properties.                                                             *)

\* one node, with the row's md5, and every rule once
Healed(u) ==
  IF dbVer[u] = 0 THEN Nodes_of(u) = {}
  ELSE \E n \in Nodes : /\ Nodes_of(u) = {n} /\ nVer[n] = dbVer[u]
                        /\ \A r \in RulesOf(u) : copies[n][r] = IF r \in dbRules THEN 1 ELSE 0

\* Whatever the start-up sync and the job's syncs do to each other - users
\* with two nodes, rules loaded twice, or lost from a list that both append to -
\* the later syncs alone bring every user back to one node and every rule to
\* one copy, once failures and edits stop (unless the daemon has crashed).
TableHeals == <>[](phase = "up" => \A u \in Users : Healed(u))

\* users_delete removes the first node of a user because another one is old.
\* Once the start-up sync has ended, that never takes the last node of a user
\* whose row the running sync has seen: getting rid of a duplicate does not
\* leave its user unaccounted until the next minute.
DuplicateLeavesOne ==
  [][\A u \in Users :
       alone /\ alone' /\ rows["job"][u] # 0 /\ Nodes_of(u) # {} => Nodes_of(u)' # {}]_vars
===========================================================================
