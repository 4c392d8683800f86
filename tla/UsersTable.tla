---------------------------- MODULE UsersTable ----------------------------
(***************************************************************************)
(* The user table of the core (src/src/core_users.c): the nodes that       *)
(* mirror the database tables Users and Rules, the byte counters the       *)
(* collectors add to, and the synchronisation that runs every minute,      *)
(* refreshes the mirror and moves the counters to the database.            *)
(*                                                                         *)
(* Three actors interleave: a collector thread inside users_acct, the      *)
(* scheduler's thread inside users_sync, and the administrator, whose web  *)
(* interface edits the database directly.  users_mutex protects the list   *)
(* of nodes and the collector's additions; users_sync reads and writes     *)
(* the counters, the rule lists and the attributes without it, so each of  *)
(* those accesses is a step of its own.  One sync runs at a time, as it    *)
(* does once the daemon is up; StartupSync has two at once.                *)
(***************************************************************************)
EXTENDS Integers

CONSTANTS
  Users,        \* user ids
  Rules,        \* rule ids
  RuleOwner,    \* the user a rule belongs to (Rules.id_user)
  Rank,         \* the position the query of rules_mysql_load gives a rule
  NextRules,    \* rules whose action has CONST_NEXT
  SumRules,     \* rules whose action has CONST_SUM
  Nodes,        \* NODE_USER allocations
  Null,         \* a NULL pointer
  Word,         \* 2^32: IP_size is uint32_t
  Races,        \* the unlocked read-modify-writes may be torn
  LostReplies,  \* a statement may be executed and its reply lost
  MaxPackets,   \* bound on the packets accounted
  MaxEdits,     \* bound on the administrator's edits
  MaxFaults     \* bound on failing store calls and kills

ASSUME TableAssumption ==
  /\ RuleOwner \in [Rules -> Users] /\ Rank \in [Rules -> Nat]
  /\ NextRules \subseteq Rules /\ SumRules \subseteq Rules
  /\ Null \notin Users \cup Nodes \cup Rules
  /\ Word \in Nat \ {0}
  /\ Races \in BOOLEAN /\ LostReplies \in BOOLEAN
  /\ MaxPackets \in Nat /\ MaxEdits \in Nat /\ MaxFaults \in Nat

VARIABLES
  phase,      \* "up", "down" (after users_free), or why the daemon crashed
  dbVer,      \* md5 of each Users row, 0 = no row
  dbRule,     \* md5 of each Rules row, 0 = no row
  where,      \* the list a node is on: "unused", "users", "clean", "freed"
  nUser, nVer, nAge, nBytes,  \* NODE_USER: id, md5, age of time_live, traffic
  rVer, rAge, rBytes,         \* NODE_RULE: md5 (0 = not loaded), age, traffic
  cpc, cuser, cnode, cmatch, crule, cstale, cload,   \* the collector
  spc, rows, todo, snode, rtodo, srule, stake, sload, sret,   \* the sync
  packets, edits, faults,     \* the bounded counters
  counted, exported,          \* history: user bytes, per node
  rCounted, rExported         \* history: rule bytes, per node and rule

dbVars   == <<dbVer, dbRule, edits>>
nodeVars == <<where, nUser, nVer, nAge>>
ruleVars == <<rVer, rAge>>
collVars == <<cpc, cuser, cnode, cmatch, crule, cstale, cload, packets>>
pickVars == <<rows, todo, snode, rtodo, srule, sret>>
takeVars == <<stake, sload>>
uHist    == <<counted, exported>>
rHist    == <<rCounted, rExported>>
vars == <<phase, dbVars, nodeVars, ruleVars, nBytes, rBytes, collVars, spc,
          pickVars, takeVars, faults, uHist, rHist>>

\* The age of a time_live: 0, set during the last sync; 1, set before it; Old,
\* more than 90 seconds ago; Late, set during the last sync and yet more than
\* 90 seconds ago.
Old  == 2
Late == 3
Older(a) == CASE a = 0 -> 1 [] a = Late -> Old [] OTHER -> a
Zero  == [n \in Nodes |-> 0]
ZeroR == [n \in Nodes |-> [r \in Rules |-> 0]]
RulesOf(u) == {r \in Rules : RuleOwner[r] = u}
Loaded(n)  == {r \in Rules : rVer[n][r] # 0}

\* users_find and addr_find: under users_mutex, the node of u on id_users
users_find(u) == {n \in Nodes : where[n] = "users" /\ nUser[n] = u}

\* additions and subtractions on IP_size
Wrap_none(x) == x    \* seeded fault: a wider counter than IP_size

Wrap(x) == x % Word

\* What x += d leaves in a counter that holds now, when the thread loaded it
\* as then: a torn update loses what another thread stored in between.
Outcomes(now, then, d) ==
  IF Races THEN {Wrap(now + d), Wrap(then + d)} ELSE {Wrap(now + d)}

\* users_mutex is held between AcctLoad and AcctStore
Unlocked == cpc # "store"

StoreOk    == faults' = faults
StoreFails == faults < MaxFaults /\ faults' = faults + 1
---------------------------------------------------------------------------
Init ==
  /\ phase = "up"
  /\ dbVer = [u \in Users |-> 1] /\ dbRule = [r \in Rules |-> 1]
  /\ where = [n \in Nodes |-> "unused"] /\ nUser = [n \in Nodes |-> Null]
  /\ nVer = Zero /\ nAge = Zero /\ nBytes = Zero
  /\ rVer = ZeroR /\ rAge = ZeroR /\ rBytes = ZeroR
  /\ cpc = "idle" /\ cuser = Null /\ cnode = Null /\ cmatch = {}
  /\ crule = Null /\ cstale = FALSE /\ cload = <<0, 0>>
  /\ spc = "idle" /\ rows = dbVer /\ todo = {} /\ snode = Null
  /\ rtodo = {} /\ srule = Null /\ stake = 0 /\ sload = 0 /\ sret = "user"
  /\ packets = 0 /\ edits = 0 /\ faults = 0
  /\ counted = Zero /\ exported = Zero
  /\ rCounted = ZeroR /\ rExported = ZeroR
---------------------------------------------------------------------------
(* The administrator: the web interface writes the tables.  Deleting a     *)
(* user deletes the rules first.                                           *)

Edit == edits < MaxEdits /\ edits' = edits + 1

AdminEditUser(u) ==
  /\ Edit /\ dbVer[u] # 0
  /\ dbVer' = [dbVer EXCEPT ![u] = @ + 1]
  /\ UNCHANGED dbRule

AdminEditRule(r) ==
  /\ Edit /\ dbRule[r] # 0
  /\ dbRule' = [dbRule EXCEPT ![r] = @ + 1]
  /\ UNCHANGED dbVer

AdminDeleteRule(r) ==
  /\ Edit /\ dbRule[r] # 0
  /\ dbRule' = [dbRule EXCEPT ![r] = 0]
  /\ UNCHANGED dbVer

AdminDeleteUser(u) ==
  /\ Edit /\ dbVer[u] # 0 /\ \A r \in RulesOf(u) : dbRule[r] = 0
  /\ dbVer' = [dbVer EXCEPT ![u] = 0]
  /\ UNCHANGED dbRule

Admin ==
  /\ \/ \E u \in Users : AdminEditUser(u) \/ AdminDeleteUser(u)
     \/ \E r \in Rules : AdminEditRule(r) \/ AdminDeleteRule(r)
  /\ UNCHANGED <<phase, nodeVars, ruleVars, nBytes, rBytes, collVars, spc,
                 pickVars, takeVars, faults, uHist, rHist>>
---------------------------------------------------------------------------
(* The collector: users_auth names a user, users_acct charges the rules    *)
(* that match the packet, in list order, up to the first without           *)
(* CONST_NEXT.  A packet counts one byte; which rules it matches is an     *)
(* arbitrary set.                                                          *)

CollectorRest == UNCHANGED <<dbVars, nodeVars, ruleVars, spc, pickVars,
                             takeVars, faults, exported, rExported>>

users_auth(u) ==
  /\ phase = "up" /\ cpc = "idle" /\ packets < MaxPackets
  /\ users_find(u) # {}
  /\ cpc' = "acct" /\ cuser' = u /\ packets' = packets + 1
  /\ UNCHANGED <<phase, cnode, cmatch, crule, cstale, cload, nBytes, rBytes,
                 counted, rCounted>>
  /\ CollectorRest

AcctDone ==
  /\ cpc' = "idle" /\ cuser' = Null /\ cnode' = Null /\ cmatch' = {}
  /\ crule' = Null /\ cstale' = FALSE /\ cload' = <<0, 0>>
  /\ UNCHANGED packets

AcctFind ==
  /\ phase = "up" /\ cpc = "acct"
  /\ IF users_find(cuser) = {}
       THEN AcctDone
       ELSE \E n \in users_find(cuser), m \in SUBSET RulesOf(cuser) :
              /\ cpc' = "walk" /\ cnode' = n /\ cmatch' = m \cap Loaded(n)
              /\ UNCHANGED <<cuser, crule, cstale, cload, packets>>
  /\ UNCHANGED <<phase, nBytes, rBytes, counted, rCounted>>
  /\ CollectorRest

\* the next matching rule; users_mutex is taken and both counters are read
AcctLoad ==
  /\ phase = "up" /\ cpc = "walk" /\ ~cstale
  /\ IF cmatch = {}
       THEN AcctDone
       ELSE \E r \in cmatch :
              /\ \A s \in cmatch : Rank[r] <= Rank[s]
              /\ crule' = r
              /\ cload' = <<rBytes[cnode][r], nBytes[cnode]>>
              /\ cpc' = "store"
              /\ UNCHANGED <<cuser, cnode, cmatch, cstale, packets>>
  /\ UNCHANGED <<phase, nBytes, rBytes, counted, rCounted>>
  /\ CollectorRest

AcctStore ==
  /\ phase = "up" /\ cpc = "store" /\ ~cstale
  /\ \E x \in Outcomes(rBytes[cnode][crule], cload[1], 1) :
       rBytes' = [rBytes EXCEPT ![cnode][crule] = x]
  /\ rCounted' = [rCounted EXCEPT ![cnode][crule] = @ + 1]
  /\ IF crule \in SumRules
       THEN UNCHANGED <<nBytes, counted>>
       ELSE /\ \E x \in Outcomes(nBytes[cnode], cload[2], 1) :
                 nBytes' = [nBytes EXCEPT ![cnode] = x]
            /\ counted' = [counted EXCEPT ![cnode] = @ + 1]
  /\ IF crule \in NextRules
       THEN /\ cpc' = "walk" /\ cmatch' = cmatch \ {crule}
            /\ crule' = Null /\ cload' = <<0, 0>>
            /\ UNCHANGED <<cuser, cnode, cstale, packets>>
       ELSE AcctDone
  /\ UNCHANGED phase
  /\ CollectorRest

\* rules_clean freed the list under the walk: the walk reads and writes freed
\* memory, ends somewhere or crashes; node_user itself is still allocated
AcctFreed ==
  /\ phase = "up" /\ cpc \in {"walk", "store"} /\ cstale
  /\ phase' \in {"up", "freedwalk"}
  /\ \/ UNCHANGED <<nBytes, counted>>
     \/ /\ \E x \in Outcomes(nBytes[cnode], cload[2], 1) :
             nBytes' = [nBytes EXCEPT ![cnode] = x]
        /\ counted' = [counted EXCEPT ![cnode] = @ + 1]
  /\ AcctDone
  /\ UNCHANGED <<rBytes, rCounted>>
  /\ CollectorRest

Collector ==
  AcctFind \/ AcctLoad \/ AcctStore \/ AcctFreed
---------------------------------------------------------------------------
(* users_sync, first part: the rows of Users against the nodes.            *)

SyncRest == UNCHANGED <<phase, dbVars, collVars, uHist, rHist>>

\* the scheduler's job; every store call may fail on its own
users_sync ==
  /\ phase = "up" /\ spc = "idle"
  /\ nAge' = [n \in Nodes |->
                IF where[n] = "users" THEN Older(nAge[n]) ELSE nAge[n]]
  /\ rAge' = [n \in Nodes |-> [r \in Rules |->
                IF where[n] = "users" THEN Older(rAge[n][r]) ELSE rAge[n][r]]]
  /\ \/ /\ StoreOk
        /\ rows' = dbVer /\ todo' = {u \in Users : dbVer[u] # 0}
        /\ spc' = "row"
     \/ /\ StoreFails       \* store->open, or the stream of rows breaks off
        /\ \E seen \in SUBSET {u \in Users : dbVer[u] # 0} :
             /\ rows' = [u \in Users |-> IF u \in seen THEN dbVer[u] ELSE 0]
             /\ todo' = seen
        /\ spc' = "row"
     \/ /\ StoreFails                       \* store->query
        /\ UNCHANGED <<rows, todo, spc>>
  /\ UNCHANGED <<where, nUser, nVer, rVer, nBytes, rBytes, snode, rtodo, srule,
                 sret, takeVars>>
  /\ SyncRest

\* seeded fault: a rule that left the database is never noticed
RulesDiffer_present(n) ==
  \E r \in RulesOf(nUser[n]) : dbRule[r] # 0 /\ rVer[n][r] # dbRule[r]

\* rules_sync: a rule is new or changed, or was last seen too long ago
RulesDiffer(n) ==
  \E r \in RulesOf(nUser[n]) :
    \/ dbRule[r] # 0 /\ rVer[n][r] # dbRule[r]
    \/ dbRule[r] = 0 /\ rVer[n][r] # 0 /\ rAge[n][r] = Old

\* rules_sync ran to its end: the rules it recognised are alive
rules_sync(n) ==
  rAge' = [rAge EXCEPT ![n] =
             [r \in Rules |-> IF rVer[n][r] # 0 /\ rVer[n][r] = dbRule[r]
                                THEN 0 ELSE @[r]]]

\* seeded fault: node->time_live is not refreshed
Refreshed_never(n) == UNCHANGED nAge

Refreshed(n) == nAge' = [nAge EXCEPT ![n] = 0]

NextRow(u) == todo' = todo \ {u} /\ spc' = "row"

Unused == {n \in Nodes : where[n] = "unused"}

\* g_malloc0: any memory will do
Allocation == IF Unused = {} THEN {} ELSE {CHOOSE n \in Unused : TRUE}

\* users_mysql_insert; an exhausted Nodes stands for a failing g_malloc0
users_mysql_insert(u) ==
  /\ \/ /\ StoreOk /\ dbVer[u] # 0
        /\ \E n \in Allocation :
             /\ where' = [where EXCEPT ![n] = "users"]
             /\ nUser' = [nUser EXCEPT ![n] = u]
             /\ nVer' = [nVer EXCEPT ![n] = dbVer[u]]
             /\ nAge' = [nAge EXCEPT ![n] = 0]
             /\ snode' = n
        /\ todo' = todo \ {u} /\ spc' = "load"
     \/ /\ StoreFails \/ (StoreOk /\ (dbVer[u] = 0 \/ Unused = {}))
        /\ NextRow(u) /\ UNCHANGED <<nodeVars, snode>>
  /\ UNCHANGED ruleVars

RowInsert(u) == users_find(u) = {} /\ users_mysql_insert(u)

\* the node mirrors its row, or rules_sync could not read the rules
RowFresh(u) ==
  \E n \in users_find(u) :
    /\ nVer[n] = rows[u]
    /\ \/ StoreOk /\ ~RulesDiffer(n) /\ rules_sync(n)
       \/ StoreFails /\ UNCHANGED rAge
    /\ Refreshed(n)
    /\ NextRow(u) /\ UNCHANGED <<where, nUser, nVer, rVer, snode>>

\* users_mysql_update; time_live is set after it, and read by nobody before
RowUpdate(u) ==
  \E n \in users_find(u) :
    /\ \/ nVer[n] # rows[u] /\ UNCHANGED rAge
       \/ nVer[n] = rows[u] /\ RulesDiffer(n) /\ rules_sync(n)
    /\ Refreshed(n)
    /\ \/ StoreOk /\ snode' = n /\ todo' = todo \ {u} /\ spc' = "unload"
       \/ StoreFails /\ NextRow(u) /\ UNCHANGED snode
    /\ UNCHANGED <<where, nUser, nVer, rVer>>

SyncRow ==
  /\ phase = "up" /\ spc = "row" /\ Unlocked
  /\ \E u \in todo : RowInsert(u) \/ RowFresh(u) \/ RowUpdate(u)
  /\ UNCHANGED <<nBytes, rBytes, rows, rtodo, srule, sret, takeVars>>
  /\ SyncRest

\* the connection of rules_sync_traffic, called by rules_mysql_unload (the
\* rules stay loaded when it fails) or after the export of a user's bytes
rules_sync_traffic ==
  /\ phase = "up" /\ spc \in {"unload", "export"}
  /\ \/ /\ StoreOk
        /\ rtodo' = Loaded(snode) /\ spc' = "rule"
        /\ sret' = IF spc = "unload" THEN "clean" ELSE "user"
     \/ /\ StoreFails
        /\ spc' = IF spc = "unload" THEN "reread" ELSE "user"
        /\ UNCHANGED <<rtodo, sret>>
  /\ UNCHANGED <<nodeVars, ruleVars, nBytes, rBytes, rows, todo, snode, srule,
                 takeVars>>
  /\ SyncRest

\* the rules and the bytes added since their export are freed
rules_clean ==
  /\ phase = "up" /\ spc = "clean"
  /\ rVer' = [rVer EXCEPT ![snode] = [r \in Rules |-> 0]]
  /\ rAge' = [rAge EXCEPT ![snode] = [r \in Rules |-> 0]]
  /\ rBytes' = [rBytes EXCEPT ![snode] = [r \in Rules |-> 0]]
  /\ cstale' = (cstale \/ (cpc \in {"walk", "store"} /\ cnode = snode
                           /\ Loaded(snode) # {}))
  /\ spc' = "reread"
  /\ UNCHANGED <<phase, dbVars, nodeVars, nBytes, cpc, cuser, cnode, cmatch,
                 crule, cload, packets, pickVars, takeVars, faults, uHist, rHist>>

\* the second half of users_mysql_update reads the row again
UpdateReread ==
  /\ phase = "up" /\ spc = "reread"
  /\ \/ /\ StoreOk /\ spc' = "load"
        /\ nVer' = [nVer EXCEPT ![snode] =
                      IF dbVer[nUser[snode]] = 0 THEN @ ELSE dbVer[nUser[snode]]]
     \/ StoreFails /\ spc' = "row" /\ UNCHANGED nVer
  /\ UNCHANGED <<where, nUser, nAge, ruleVars, nBytes, rBytes, pickVars, takeVars>>
  /\ SyncRest

\* rules_init refuses a node that still has rules
rules_mysql_load ==
  /\ phase = "up" /\ spc = "load"
  /\ \/ /\ StoreOk /\ Loaded(snode) = {}
        /\ rVer' = [rVer EXCEPT ![snode] =
                      [r \in Rules |-> IF r \in RulesOf(nUser[snode])
                                         THEN dbRule[r] ELSE 0]]
        /\ rAge' = [rAge EXCEPT ![snode] = [r \in Rules |-> Old]]
     \/ /\ StoreFails \/ (StoreOk /\ Loaded(snode) # {})
        /\ UNCHANGED ruleVars
  /\ spc' = "row"
  /\ UNCHANGED <<nodeVars, nBytes, rBytes, pickVars, takeVars>>
  /\ SyncRest
---------------------------------------------------------------------------
(* Second part: users_mysql_delete, then users_sync_traffic.               *)

OnTable == {n \in Nodes : where[n] = "users"}

\* Time that passes between a time_live and a later sync, up to where it is
\* looked at: a node's when the rows are done, a rule's when its row is gone.
Elapse(n) ==
  /\ todo = {} /\ n \in OnTable /\ nAge[n] = 1
  /\ nAge' = [nAge EXCEPT ![n] = Old]
  /\ UNCHANGED rAge

ElapseRule(n, r) ==
  /\ n \in OnTable /\ rAge[n][r] = 1 /\ dbRule[r] = 0
  /\ rAge' = [rAge EXCEPT ![n][r] = Old]
  /\ UNCHANGED nAge

\* statements for the rows of Users that together take more than 90 seconds:
\* nodes refreshed before them are old when users_mysql_delete looks
SlowRows(late) ==
  /\ todo = {} /\ \A n \in late : nAge[n] = 0
  /\ nAge' = [n \in Nodes |-> IF n \in late THEN Late ELSE nAge[n]]
  /\ UNCHANGED rAge

Passing ==
  /\ phase = "up" /\ spc = "row"
  /\ \/ (\E n \in Nodes : Elapse(n) \/ (\E r \in Rules : ElapseRule(n, r))) /\ StoreOk
     \/ (\E late \in SUBSET OnTable : SlowRows(late)) /\ StoreFails
  /\ UNCHANGED <<phase, dbVars, where, nUser, nVer, rVer, nBytes, rBytes, collVars,
                 spc, pickVars, takeVars, uHist, rHist>>

Stale == {n \in OnTable : nAge[n] \in {Old, Late}}

users_delete ==
  /\ phase = "up" /\ spc = "row" /\ todo = {} /\ Unlocked
  /\ \E n \in Stale :
       /\ where' = [where EXCEPT ![n] = "clean"]
       /\ nAge' = [nAge EXCEPT ![n] = 0]
  /\ UNCHANGED <<nUser, nVer, ruleVars, nBytes, rBytes, spc, pickVars, takeVars,
                 faults>>
  /\ SyncRest

\* seeded fault: the wrong list is walked
ToExport_clean == {n \in Nodes : where[n] = "clean"}

ToExport == OnTable

users_sync_traffic ==
  /\ phase = "up" /\ spc = "row" /\ todo = {} /\ Stale = {}
  /\ \/ /\ StoreOk /\ spc' = "user"
        /\ todo' = ToExport
     \/ StoreFails /\ spc' = "idle" /\ UNCHANGED todo
  /\ rows' = [u \in Users |-> 0]     \* the result of the select is of no more use
  /\ UNCHANGED <<nodeVars, ruleVars, nBytes, rBytes, snode, rtodo, srule,
                 sret, takeVars>>
  /\ SyncRest

\* t_traffic = node->traffic, or the end of the loop over the users
UserTake ==
  /\ phase = "up" /\ spc = "user"
  /\ \/ todo = {} /\ spc' = "idle" /\ snode' = Null /\ UNCHANGED <<todo, stake>>
     \/ \E n \in todo :
          /\ todo' = todo \ {n}
          /\ IF nBytes[n] = 0
               THEN UNCHANGED <<spc, snode, stake>>
               ELSE spc' = "usub" /\ snode' = n /\ stake' = nBytes[n]
  /\ UNCHANGED <<nodeVars, ruleVars, nBytes, rBytes, rows, rtodo, srule, sret,
                 sload, faults>>
  /\ SyncRest

\* node->traffic -= t_traffic; a compiler may store 0 instead
UserSub ==
  /\ phase = "up" /\ spc = "usub"
  /\ \E x \in Outcomes(nBytes[snode], stake, -stake) :
       nBytes' = [nBytes EXCEPT ![snode] = x]
  /\ spc' = "uexp"
  /\ UNCHANGED <<nodeVars, ruleVars, rBytes, pickVars, takeVars, faults>>
  /\ SyncRest

Exported(n) == exported' = [exported EXCEPT ![n] = @ + stake]

users_mysql_export ==
  /\ phase = "up" /\ spc = "uexp"
  /\ \/ StoreOk /\ Exported(snode) /\ spc' = "export" /\ stake' = 0 /\ sload' = 0
     \/ /\ StoreFails /\ spc' = "urest" /\ sload' = nBytes[snode]
        /\ UNCHANGED stake
        /\ UNCHANGED exported \/ (LostReplies /\ Exported(snode))
  /\ UNCHANGED <<phase, dbVars, nodeVars, ruleVars, nBytes, rBytes, collVars,
                 pickVars, counted, rHist>>

\* seeded fault: a failed export does not give the bytes back
UserRestore_dropped ==
  /\ phase = "up" /\ spc = "urest"
  /\ spc' = "user" /\ stake' = 0 /\ sload' = 0
  /\ UNCHANGED <<nodeVars, ruleVars, nBytes, rBytes, pickVars, faults>>
  /\ SyncRest

\* node->traffic += t_traffic
UserRestore ==
  /\ phase = "up" /\ spc = "urest"
  /\ \E x \in Outcomes(nBytes[snode], sload, stake) :
       nBytes' = [nBytes EXCEPT ![snode] = x]
  /\ spc' = "user" /\ stake' = 0 /\ sload' = 0
  /\ UNCHANGED <<nodeVars, ruleVars, rBytes, pickVars, faults>>
  /\ SyncRest

\* the loop of rules_sync_traffic over the rules of snode
RuleTake ==
  /\ phase = "up" /\ spc = "rule"
  /\ \/ /\ rtodo = {} /\ spc' = sret
        /\ srule' = Null /\ sret' = "user" /\ UNCHANGED <<rtodo, stake>>
     \/ \E r \in rtodo :
          /\ \A s \in rtodo : Rank[r] <= Rank[s]
          /\ rtodo' = rtodo \ {r}
          /\ IF rBytes[snode][r] = 0
               THEN UNCHANGED <<spc, srule, stake>>
               ELSE spc' = "rsub" /\ srule' = r /\ stake' = rBytes[snode][r]
          /\ UNCHANGED sret
  /\ UNCHANGED <<nodeVars, ruleVars, nBytes, rBytes, rows, todo, snode,
                 sload, faults>>
  /\ SyncRest

\* seeded fault: the counter is not lowered
RuleSub_none ==
  /\ phase = "up" /\ spc = "rsub"
  /\ spc' = "rexp"
  /\ UNCHANGED <<nodeVars, ruleVars, nBytes, rBytes, pickVars, takeVars, faults>>
  /\ SyncRest

RuleSub ==
  /\ phase = "up" /\ spc = "rsub"
  /\ \E x \in Outcomes(rBytes[snode][srule], stake, -stake) :
       rBytes' = [rBytes EXCEPT ![snode][srule] = x]
  /\ spc' = "rexp"
  /\ UNCHANGED <<nodeVars, ruleVars, nBytes, pickVars, takeVars, faults>>
  /\ SyncRest

\* the rule's columns and, in the same transaction, the owner's balance
RuleExported(n, r) == rExported' = [rExported EXCEPT ![n][r] = @ + stake]

\* fetch_row returns NULL when the rule's row is gone, and row[0] is read
NullRow(r) == dbRule[r] = 0 /\ r \notin SumRules

\* one transaction
rules_mysql_export ==
  /\ phase = "up" /\ spc = "rexp"
  /\ \/ /\ StoreOk /\ ~NullRow(srule)
        /\ RuleExported(snode, srule)
        /\ spc' = "rule" /\ stake' = 0 /\ sload' = 0
        /\ UNCHANGED phase
     \/ /\ StoreFails
        /\ spc' = "rrest" /\ sload' = rBytes[snode][srule]
        /\ UNCHANGED <<phase, stake>>
        /\ \/ UNCHANGED rExported
           \/ LostReplies /\ ~NullRow(srule) /\ RuleExported(snode, srule)
     \/ /\ StoreOk /\ NullRow(srule)
        /\ phase' = "nullrow"
        /\ UNCHANGED <<spc, stake, sload, rExported>>
  /\ UNCHANGED <<dbVars, nodeVars, ruleVars, nBytes, rBytes, collVars, pickVars,
                 uHist, rCounted>>

RuleRestore ==
  /\ phase = "up" /\ spc = "rrest"
  /\ \E x \in Outcomes(rBytes[snode][srule], sload, stake) :
       rBytes' = [rBytes EXCEPT ![snode][srule] = x]
  /\ spc' = "rule" /\ stake' = 0 /\ sload' = 0
  /\ UNCHANGED <<nodeVars, ruleVars, nBytes, pickVars, faults>>
  /\ SyncRest

Sync ==
  \/ users_sync \/ SyncRow \/ rules_sync_traffic \/ rules_clean \/ UpdateReread
  \/ rules_mysql_load \/ users_delete \/ users_sync_traffic
  \/ UserTake \/ UserSub \/ users_mysql_export \/ UserRestore
  \/ RuleTake \/ RuleSub \/ rules_mysql_export \/ RuleRestore
---------------------------------------------------------------------------
(* Shutdown and restart.                                                   *)

Allocated == {n \in Nodes : where[n] \in {"users", "clean"}}
Dirty == {d \in Allocated \X Rules : rBytes[d[1]][d[2]] # 0}

\* The collectors are unloaded by now; unregistering from the scheduler does
\* not wait for a sync that is running, which then works on freed nodes.
\* Only the rules' bytes are exported, each of which may fail.
users_free ==
  /\ phase = "up" /\ cpc = "idle"
  /\ \/ /\ spc = "idle"
        /\ \E ok \in SUBSET Dirty :
             /\ phase' = IF \E d \in ok : NullRow(d[2]) THEN "nullfree" ELSE "down"
             /\ rExported' = [n \in Nodes |-> [r \in Rules |->
                  IF <<n, r>> \in ok /\ ~NullRow(r) THEN rExported[n][r] + rBytes[n][r]
                                     ELSE rExported[n][r]]]
     \/ spc # "idle" /\ phase' = "freedsync" /\ UNCHANGED rExported
  /\ where' = [n \in Nodes |-> IF n \in Allocated THEN "freed" ELSE where[n]]
  /\ UNCHANGED <<dbVars, nUser, nVer, nAge, ruleVars, nBytes, rBytes, collVars,
                 spc, pickVars, takeVars, faults, uHist, rCounted>>

\* IPStat-watch: killall -9 and start, or start after a crash.  The process
\* and its counters are gone, the database stays.
KillRestart ==
  /\ phase # "down" /\ StoreFails
  /\ phase' = "up"
  /\ where' = [n \in Nodes |-> "unused"] /\ nUser' = [n \in Nodes |-> Null]
  /\ nVer' = Zero /\ nAge' = Zero /\ nBytes' = Zero
  /\ rVer' = ZeroR /\ rAge' = ZeroR /\ rBytes' = ZeroR
  /\ cpc' = "idle" /\ cuser' = Null /\ cnode' = Null /\ cmatch' = {}
  /\ crule' = Null /\ cstale' = FALSE /\ cload' = <<0, 0>>
  /\ spc' = "idle" /\ todo' = {} /\ snode' = Null /\ rtodo' = {}
  /\ srule' = Null /\ stake' = 0 /\ sload' = 0 /\ sret' = "user"
  /\ counted' = Zero /\ exported' = Zero
  /\ rCounted' = ZeroR /\ rExported' = ZeroR
  /\ UNCHANGED <<dbVars, rows, packets>>

Next ==
  \/ Admin \/ (\E u \in Users : users_auth(u)) \/ Collector \/ Sync
  \/ Passing \/ users_free \/ KillRestart

Spec == Init /\ [][Next]_vars

\* The scheduler starts a sync every minute and the threads it and the collector
\* run in are scheduled.  Syncs are a minute apart, so a time_live cannot be
\* younger than 90 seconds in all of them.  Nothing makes packets or edits happen.
FairSpec ==
  /\ Spec /\ WF_vars(Sync) /\ WF_vars(Collector)
  /\ \A n \in Nodes : /\ SF_vars(Passing /\ Elapse(n))
                      /\ \A r \in Rules : SF_vars(Passing /\ ElapseRule(n, r))
---------------------------------------------------------------------------
(* Properties.                                                             *)

Live(n) == where[n] \in {"users", "clean"}

TypeOK ==
  /\ phase \in {"up", "down", "freedwalk", "freedsync", "nullrow", "nullfree"}
  /\ dbVer \in [Users -> Nat] /\ dbRule \in [Rules -> Nat]
  /\ where \in [Nodes -> {"unused", "users", "clean", "freed"}]
  /\ nUser \in [Nodes -> Users \cup {Null}] /\ nVer \in [Nodes -> Nat]
  /\ nAge \in [Nodes -> 0 .. Late] /\ nBytes \in [Nodes -> 0 .. (Word - 1)]
  /\ rVer \in [Nodes -> [Rules -> Nat]] /\ rAge \in [Nodes -> [Rules -> 0 .. Old]]
  /\ rBytes \in [Nodes -> [Rules -> 0 .. (Word - 1)]]
  /\ cpc \in {"idle", "acct", "walk", "store"}
  /\ cuser \in Users \cup {Null} /\ cnode \in Nodes \cup {Null}
  /\ cmatch \subseteq Rules /\ crule \in Rules \cup {Null} /\ cstale \in BOOLEAN
  /\ cload \in (0 .. (Word - 1)) \X (0 .. (Word - 1))
  /\ spc \in {"idle", "row", "unload", "export", "clean", "reread", "load",
              "user", "usub", "uexp", "urest", "rule", "rsub", "rexp", "rrest"}
  /\ rows \in [Users -> Nat] /\ todo \subseteq Users \cup Nodes
  /\ snode \in Nodes \cup {Null} /\ rtodo \subseteq Rules
  /\ srule \in Rules \cup {Null} /\ sret \in {"user", "clean"}
  /\ stake \in 0 .. (Word - 1) /\ sload \in 0 .. (Word - 1)
  /\ packets \in Nat /\ edits \in Nat /\ faults \in Nat
  /\ counted \in [Nodes -> Nat] /\ exported \in [Nodes -> Nat]
  /\ rCounted \in [Nodes -> [Rules -> Nat]] /\ rExported \in [Nodes -> [Rules -> Nat]]

\* the bytes the sync has subtracted from a counter and not yet settled
InFlight(n)     == IF spc \in {"uexp", "urest"} /\ snode = n THEN stake ELSE 0
RInFlight(n, r) ==
  IF spc \in {"rexp", "rrest"} /\ snode = n /\ srule = r THEN stake ELSE 0

\* Every byte users_acct adds to a user is in the database, in the node or in
\* the hands of users_sync_traffic, whatever fails and whatever the collector
\* does meanwhile, as long as no update is torn and the counter did not wrap.
UserBytesConserved ==
  ~Races /\ ~LostReplies =>
    \A n \in Nodes : Live(n) /\ counted[n] < Word =>
      counted[n] = exported[n] + nBytes[n] + InFlight(n)

\* No byte of a rule is exported twice: a failed export gives its bytes back
\* once, and a reload of the rules drops counters, it never duplicates them.
RuleNeverOverbilled ==
  ~Races /\ ~LostReplies =>
    \A n \in Nodes, r \in Rules : Live(n) /\ rCounted[n][r] < Word =>
      rExported[n][r] + rBytes[n][r] + RInFlight(n, r) <= rCounted[n][r]

\* users_mysql_delete, which looks at the clock once more after the loop over
\* the rows, drops a user whose row the select of this very sync returned only
\* when more than 90 seconds have passed since that row was dealt with: a user
\* inserted, refreshed, failing to update or without readable rules stays.
DroppedOnlyIfUnseen ==
  [][\A n \in Nodes :
       where[n] = "users" /\ where'[n] = "clean"
         => rows[nUser[n]] = 0 \/ nAge[n] = Late]_vars

Mirrors(u) ==
  IF dbVer[u] = 0 THEN users_find(u) = {}
  ELSE \E n \in users_find(u) :
         nVer[n] = dbVer[u] /\ \A r \in RulesOf(u) : rVer[n][r] = dbRule[r]

\* Once edits and failures stop, the table mirrors the database for good,
\* whatever mixture of failed unloads, refused loads and stale ages came
\* before (unless the daemon is down or has crashed).
MirrorsDatabase == <>[](phase = "up" => \A u \in Users : Mirrors(u))

\* Once packets and failures stop, no user on the table keeps bytes that are
\* not in the database.
BytesReachDatabase ==
  <>[](phase = "up" => \A n \in Nodes : where[n] = "users" => nBytes[n] = 0)

\* core_users.c:496, "Delete time of live node": a user or a rule removed from
\* the database is removed from the table by a later sync, and survives it.
RemovalIsHandled == phase # "nullrow"
===========================================================================
