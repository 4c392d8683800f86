------------------------- MODULE UsersNodesProofs -------------------------
(***************************************************************************)
(* TLAPS proofs about the nodes and the rules of UsersTable, for any       *)
(* users, rules, nodes, packets, edits and failures: types, who is dropped *)
(* from the table, and what a rule is billed for.                          *)
(***************************************************************************)
EXTENDS UsersTableProofs

(* TypeOK by part of the state.                                            *)

DbType ==
  /\ phase \in {"up", "down", "freedwalk", "freedsync", "nullrow", "nullfree"}
  /\ dbVer \in [Users -> Nat] /\ dbRule \in [Rules -> Nat]
  /\ edits \in Nat /\ faults \in Nat

NodeType ==
  /\ where \in [Nodes -> {"unused", "users", "clean", "freed"}]
  /\ nUser \in [Nodes -> Users \cup {Null}] /\ nVer \in [Nodes -> Nat]
  /\ nAge \in [Nodes -> 0 .. Late] /\ nBytes \in [Nodes -> Counter]

RuleType ==
  /\ rVer \in [Nodes -> [Rules -> Nat]] /\ rAge \in [Nodes -> [Rules -> 0 .. Old]]
  /\ rBytes \in [Nodes -> [Rules -> Counter]]

CollType ==
  /\ cpc \in {"idle", "acct", "walk", "store"}
  /\ cuser \in Users \cup {Null} /\ cnode \in Nodes \cup {Null}
  /\ cmatch \subseteq Rules /\ crule \in Rules \cup {Null}
  /\ cload \in Counter \X Counter /\ packets \in Nat

Exporting == {"rule", "rsub", "rexp", "rrest"}

SyncType ==
  /\ spc \in {"idle", "row", "unload", "export", "clean", "reread", "load",
              "user", "usub", "uexp", "urest"} \cup Exporting
  /\ rows \in [Users -> Nat] /\ todo \subseteq Users \cup Nodes
  /\ snode \in Nodes \cup {Null} /\ rtodo \subseteq Rules
  /\ srule \in Rules \cup {Null} /\ sret \in {"user", "clean"}
  /\ stake \in Counter /\ sload \in Counter

HistType ==
  /\ counted \in [Nodes -> Nat] /\ exported \in [Nodes -> Nat]
  /\ rCounted \in [Nodes -> [Rules -> Nat]] /\ rExported \in [Nodes -> [Rules -> Nat]]

\* The type invariant by the parts of the state.
LEMMA Parts ==
  TypeOK <=> /\ DbType /\ NodeType /\ RuleType /\ CollType /\ SyncType /\ HistType
             /\ cstale \in BOOLEAN
<1>1. SyncType <=>
        /\ spc \in {"idle", "row", "unload", "export", "clean", "reread", "load",
                    "user", "usub", "uexp", "urest", "rule", "rsub", "rexp", "rrest"}
        /\ rows \in [Users -> Nat] /\ todo \subseteq Users \cup Nodes
        /\ snode \in Nodes \cup {Null} /\ rtodo \subseteq Rules
        /\ srule \in Rules \cup {Null} /\ sret \in {"user", "clean"}
        /\ stake \in Counter /\ sload \in Counter
  BY DEF SyncType, Exporting
<1> QED
  BY <1>1, Zenon DEF TypeOK, DbType, NodeType, RuleType, CollType, HistType, Counter

(* The pointers behind the program counters.                               *)

\* the sync is at the rows of Users, or at the export of the users' bytes
RowSide ==
  spc \in {"row", "unload", "clean", "reread", "load"} \/ (spc \in Exporting /\ sret = "clean")

UserSide ==
  spc \in {"user", "usub", "uexp", "urest", "export"} \/ (spc \in Exporting /\ sret = "user")

CollCtl ==
  /\ cpc \in {"walk", "store"} => cnode \in Nodes
  /\ cpc = "store" => crule \in Rules

SyncCtl ==
  /\ RowSide => todo \subseteq Users
  /\ UserSide => todo \subseteq Nodes
  /\ spc \notin {"idle", "row", "user"} => snode \in Nodes
  /\ RowSide /\ spc # "row" => where[snode] # "unused"
  /\ spc \in {"rsub", "rexp", "rrest"} => srule \in Rules

\* a node in use has its user; none is freed while the daemon is up
OwnerInv ==
  /\ \A n \in Nodes : where[n] # "unused" => nUser[n] \in Users
  /\ phase = "up" => \A n \in Nodes : where[n] # "freed"

\* two nodes of id_users have two users
OneInv ==
  \A n, m \in Nodes : where[n] = "users" /\ where[m] = "users" /\ nUser[n] = nUser[m] => n = m

\* a user whose row was returned is still to come, or has been refreshed
SeenInv ==
  RowSide => \A n \in Nodes : where[n] = "users" /\ rows[nUser[n]] # 0 /\ nUser[n] \notin todo
                              => nAge[n] \in {0, Late}

\* the bytes of a rule are billed once; those read are still in the counter
RuleBill(n, r) ==
  where[n] # "freed" /\ rCounted[n][r] < Word =>
    /\ rExported[n][r] + rBytes[n][r] + RInFlight(n, r) <= rCounted[n][r]
    /\ spc = "rsub" /\ snode = n /\ srule = r => stake <= rBytes[n][r]

RuleBytes == \A n \in Nodes, r \in Rules : RuleBill(n, r)

NodeInv == TypeOK /\ CollCtl /\ SyncCtl /\ OwnerInv /\ OneInv /\ SeenInv
           /\ (Sound => RuleBytes)
---------------------------------------------------------------------------
(* Types.                                                                  *)

\* g_malloc0 returns memory that is not in use.
LEMMA AllocationFacts == Allocation \subseteq Unused
  BY DEF Allocation

\* 0 is a counter and counters are numbers.
LEMMA ZeroCounter == 0 \in Counter /\ Counter \subseteq Nat
  BY TableAssumption DEF Counter

\* Whatever an unlocked addition leaves is a counter.
LEMMA OutcomesType ==
  ASSUME NEW now \in Int, NEW then \in Int, NEW d \in Int
  PROVE  Outcomes(now, then, d) \subseteq Counter
<1>1. now + d \in Int /\ then + d \in Int
  OBVIOUS
<1>2. Wrap(now + d) \in Counter /\ Wrap(then + d) \in Counter
  BY <1>1, WrapType
<1> QED
  BY <1>2 DEF Outcomes

\* one cell of a table of nodes and rules
LEMMA CellType ==
  ASSUME NEW S, NEW t \in [Nodes -> [Rules -> S]], NEW n \in Nodes, NEW r \in Rules, NEW x \in S,
         NEW g, g = [t EXCEPT ![n][r] = x]
  PROVE  /\ g \in [Nodes -> [Rules -> S]] /\ g[n][r] = x
         /\ \A m \in Nodes, s \in Rules : m # n \/ s # r => g[m][s] = t[m][s]
<1>1. g = [t EXCEPT ![n] = [t[n] EXCEPT ![r] = x]]
  OBVIOUS
<1>2. [t[n] EXCEPT ![r] = x] \in [Rules -> S]
  OBVIOUS
<1> QED
  BY <1>1, <1>2

\* Steps keep the types of the tables.
LEMMA DbStep == DbType /\ [Next]_vars => DbType'
<1> SUFFICES ASSUME DbType, [Next]_vars PROVE DbType'
  OBVIOUS
<1>1. faults' \in {faults, faults + 1} \/ faults' = faults
  BY DEF Next, vars, Admin, users_auth, CollectorRest, Collector, AcctFind, AcctLoad, AcctStore,
         AcctFreed, Sync, users_sync, SyncRow, RowInsert, users_mysql_insert, RowFresh, RowUpdate,
         rules_sync_traffic, rules_clean, UpdateReread, rules_mysql_load, users_delete,
         users_sync_traffic, UserTake, UserSub, users_mysql_export, UserRestore, RuleTake,
         RuleSub, rules_mysql_export, RuleRestore, users_free, KillRestart, Passing, StoreOk, StoreFails
<1>2. faults' \in Nat
  BY <1>1 DEF DbType
<1>3. CASE Admin
  <2>1. dbVer' \in [Users -> Nat] /\ dbRule' \in [Rules -> Nat] /\ edits' \in Nat
    BY <1>3 DEF Admin, AdminEditUser, AdminDeleteUser, AdminEditRule, AdminDeleteRule, Edit,
                DbType
  <2> QED
    BY <1>2, <1>3, <2>1 DEF Admin, DbType
<1>4. CASE ~Admin
  <2>1. UNCHANGED dbVars
    BY <1>4 DEF Next, vars, users_auth, CollectorRest, Collector, AcctFind, AcctLoad, AcctStore,
         AcctFreed, Sync, users_sync, SyncRow, rules_sync_traffic, rules_clean, UpdateReread,
         rules_mysql_load, users_delete, users_sync_traffic, UserTake, UserSub,
         users_mysql_export, UserRestore, RuleTake, RuleSub, rules_mysql_export, RuleRestore,
         users_free, KillRestart, Passing, SyncRest
  <2>2. phase' \in {phase, "up", "down", "freedwalk", "freedsync", "nullrow", "nullfree"}
    BY <1>4 DEF Next, vars, users_auth, CollectorRest, Collector, AcctFind, AcctLoad, AcctStore,
         AcctFreed, Sync, users_sync, SyncRow, rules_sync_traffic, rules_clean, UpdateReread,
         rules_mysql_load, users_delete, users_sync_traffic, UserTake, UserSub,
         users_mysql_export, UserRestore, RuleTake, RuleSub, rules_mysql_export, RuleRestore,
         users_free, KillRestart, Passing, SyncRest
  <2> QED
    BY <1>2, <2>1, <2>2 DEF dbVars, DbType
<1> QED
  BY <1>3, <1>4

\* the row of SyncRow and what is done with its node
LEMMA RowFacts ==
  ASSUME TypeOK, SyncCtl, SyncRow
  PROVE  /\ spc = "row" /\ todo \subseteq Users
         /\ \E u \in todo : RowInsert(u) \/ RowFresh(u) \/ RowUpdate(u)
         /\ UNCHANGED <<phase, nBytes, rBytes, rows, rtodo, srule, sret, stake, sload>>
         /\ UNCHANGED <<collVars, dbVars, uHist, rHist>>
  BY DEF SyncRow, SyncRest, SyncCtl, RowSide, takeVars

\* Steps keep the types of the users' nodes.
LEMMA NodeTypeStep == TypeOK /\ CollCtl /\ SyncCtl /\ OwnerInv /\ [Next]_vars => NodeType'
<1> SUFFICES ASSUME TypeOK, CollCtl, SyncCtl, OwnerInv, [Next]_vars PROVE NodeType'
  OBVIOUS
<1>0. NodeType /\ DbType /\ CollType /\ SyncType
  BY Parts
<1>z. 0 \in Counter /\ Counter \subseteq Nat /\ 0 \in 0 .. Late
  BY ZeroCounter DEF Late
<1>b. ASSUME UNCHANGED nodeVars, nBytes' \in [Nodes -> Counter] PROVE NodeType'
  BY <1>0, <1>b DEF nodeVars, NodeType
<1>1. CASE UNCHANGED <<nodeVars, nBytes>>
  BY <1>0, <1>1 DEF nodeVars, NodeType
<1>2. CASE UNCHANGED vars \/ Admin \/ (\E u \in Users : users_auth(u)) \/ AcctFind \/ AcctLoad
           \/ rules_sync_traffic \/ rules_clean \/ rules_mysql_load \/ users_sync_traffic
           \/ UserTake \/ users_mysql_export \/ RuleTake \/ RuleSub \/ rules_mysql_export
           \/ RuleRestore
  BY <1>1, <1>2 DEF vars, Admin, users_auth, AcctFind, AcctLoad, CollectorRest,
       rules_sync_traffic, rules_clean, rules_mysql_load, users_sync_traffic, UserTake,
       users_mysql_export, RuleTake, RuleSub, rules_mysql_export, RuleRestore
<1>3. ASSUME cnode \in Nodes, NEW x \in Outcomes(nBytes[cnode], cload[2], 1),
             nBytes' = [nBytes EXCEPT ![cnode] = x]
      PROVE  nBytes' \in [Nodes -> Counter]
  <2>0. nBytes[cnode] \in Counter /\ cload[2] \in Counter
    BY <1>0, <1>3 DEF NodeType, CollType
  <2>1. nBytes[cnode] \in Int /\ cload[2] \in Int
    BY <2>0 DEF Counter
  <2>2. x \in Counter
    BY <2>1, OutcomesType
  <2> QED
    BY <1>0, <1>3, <2>2 DEF NodeType
<1>4. CASE AcctStore \/ AcctFreed
  <2>1. cnode \in Nodes
    BY <1>4 DEF AcctStore, AcctFreed, CollCtl
  <2>2. UNCHANGED nodeVars
    BY <1>4 DEF AcctStore, AcctFreed, CollectorRest
  <2>3. nBytes' = nBytes \/ \E x \in Outcomes(nBytes[cnode], cload[2], 1) :
                              nBytes' = [nBytes EXCEPT ![cnode] = x]
    BY <1>4 DEF AcctStore, AcctFreed
  <2> QED
    BY <1>0, <1>3, <1>b, <2>1, <2>2, <2>3 DEF NodeType
<1>5. CASE UserSub \/ UserRestore
  <2>1. UNCHANGED nodeVars /\ snode \in Nodes
    BY <1>5 DEF UserSub, UserRestore, SyncCtl
  <2>0. stake \in Counter /\ sload \in Counter /\ nBytes[snode] \in Counter
    BY <1>0, <2>1 DEF SyncType, NodeType
  <2>2. stake \in Int /\ -stake \in Int /\ sload \in Int /\ nBytes[snode] \in Int
    BY <2>0 DEF Counter
  <2>3. PICK x \in Outcomes(nBytes[snode], stake, -stake)
                   \cup Outcomes(nBytes[snode], sload, stake) :
          nBytes' = [nBytes EXCEPT ![snode] = x]
    BY <1>5 DEF UserSub, UserRestore
  <2>4. x \in Counter
    BY <2>2, <2>3, OutcomesType
  <2> QED
    BY <1>0, <1>b, <2>1, <2>3, <2>4 DEF NodeType
<1>6. CASE users_sync
  <2>1. nAge' \in [Nodes -> 0 .. Late]
    BY <1>0, <1>6 DEF users_sync, NodeType, Older, Old, Late
  <2> QED
    BY <1>0, <1>6, <2>1 DEF users_sync, NodeType
<1>7. CASE SyncRow
  <2>1. PICK u \in Users : RowInsert(u) \/ RowFresh(u) \/ RowUpdate(u)
    BY <1>7, RowFacts
  <2>2. nBytes' = nBytes
    BY <1>7, RowFacts
  <2>3. CASE RowInsert(u)
    <3>1. CASE UNCHANGED nodeVars
      BY <1>1, <2>2, <3>1
    <3>2. ASSUME NEW n \in Unused, where' = [where EXCEPT ![n] = "users"],
                 nUser' = [nUser EXCEPT ![n] = u], nVer' = [nVer EXCEPT ![n] = dbVer[u]],
                 nAge' = [nAge EXCEPT ![n] = 0]
          PROVE  NodeType'
      <4>1. dbVer[u] \in Nat
        BY <1>0 DEF DbType
      <4> QED
        BY <1>0, <1>z, <2>2, <3>2, <4>1 DEF NodeType
    <3> QED
      BY <2>3, <3>1, <3>2, AllocationFacts DEF RowInsert, users_mysql_insert
  <2>4. CASE RowFresh(u) \/ RowUpdate(u)
    <3>1. PICK n \in Nodes : nAge' = [nAge EXCEPT ![n] = 0]
      BY <2>4 DEF RowFresh, RowUpdate, users_find, Refreshed
    <3>2. UNCHANGED <<where, nUser, nVer>>
      BY <2>4 DEF RowFresh, RowUpdate
    <3> QED
      BY <1>0, <1>z, <2>2, <3>1, <3>2 DEF NodeType
  <2> QED
    BY <2>1, <2>3, <2>4
<1>8. CASE UpdateReread
  <2>1. snode \in Nodes /\ nUser[snode] \in Users
    BY <1>8 DEF UpdateReread, SyncCtl, OwnerInv, RowSide
  <2>2. dbVer[nUser[snode]] \in Nat
    BY <1>0, <2>1 DEF DbType
  <2>3. nVer' \in [Nodes -> Nat]
    BY <1>0, <1>8, <2>1, <2>2 DEF UpdateReread, NodeType
  <2> QED
    BY <1>0, <1>8, <2>3 DEF UpdateReread, NodeType
<1>9. CASE users_delete
  BY <1>0, <1>9, <1>z DEF users_delete, Stale, NodeType
<1>10. CASE users_free
  BY <1>0, <1>10 DEF users_free, NodeType
<1>11. CASE KillRestart
  BY <1>11, <1>z DEF KillRestart, Zero, NodeType
<1>12. CASE Passing
  <2>1. nAge' \in [Nodes -> 0 .. Late]
    <3>1. CASE UNCHANGED nAge
      BY <1>0, <3>1 DEF NodeType
    <3>2. ASSUME NEW n \in Nodes, Elapse(n) PROVE nAge' \in [Nodes -> 0 .. Late]
      BY <1>0, <3>2 DEF NodeType, Elapse, Old, Late
    <3>3. ASSUME NEW late \in SUBSET OnTable, SlowRows(late) PROVE nAge' \in [Nodes -> 0 .. Late]
      BY <1>0, <3>3 DEF NodeType, SlowRows, Late
    <3> QED
      BY <1>12, <3>1, <3>2, <3>3 DEF Passing, ElapseRule
  <2> QED
    BY <1>0, <1>12, <2>1 DEF Passing, NodeType
<1> QED
  BY <1>2, <1>4, <1>5, <1>6, <1>7, <1>8, <1>9, <1>10, <1>11, <1>12 DEF Next, Collector, Sync

\* rules_sync writes ages of 0 into the rules of one node
LEMMA RulesSyncType ==
  ASSUME RuleType, NEW n \in Nodes, rules_sync(n)
  PROVE  rAge' \in [Nodes -> [Rules -> 0 .. Old]]
<1> DEFINE a == [r \in Rules |-> IF rVer[n][r] # 0 /\ rVer[n][r] = dbRule[r]
                                   THEN 0 ELSE rAge[n][r]]
<1>1. rAge \in [Nodes -> [Rules -> 0 .. Old]] /\ 0 \in 0 .. Old
  BY DEF RuleType, Old
<1>2. a \in [Rules -> 0 .. Old]
  BY <1>1
<1>3. rAge' = [rAge EXCEPT ![n] = a]
  BY <1>1 DEF rules_sync
<1> HIDE DEF a
<1> QED
  BY <1>1, <1>2, <1>3

\* Steps keep the types of the rules.
LEMMA RuleTypeStep == TypeOK /\ CollCtl /\ SyncCtl /\ OwnerInv /\ [Next]_vars => RuleType'
<1> SUFFICES ASSUME TypeOK, CollCtl, SyncCtl, OwnerInv, [Next]_vars PROVE RuleType'
  OBVIOUS
<1>0. RuleType /\ DbType /\ CollType /\ SyncType
  BY Parts
<1>z. 0 \in Counter /\ 0 \in 0 .. Old /\ Old \in 0 .. Old
  BY ZeroCounter DEF Old
<1>b. ASSUME UNCHANGED ruleVars, rBytes' \in [Nodes -> [Rules -> Counter]] PROVE RuleType'
  BY <1>0, <1>b DEF ruleVars, RuleType
<1>1. CASE UNCHANGED <<ruleVars, rBytes>>
  BY <1>0, <1>1 DEF ruleVars, RuleType
<1>2. CASE UNCHANGED vars \/ Admin \/ (\E u \in Users : users_auth(u)) \/ AcctFind \/ AcctLoad
           \/ AcctFreed \/ rules_sync_traffic \/ UpdateReread \/ users_sync_traffic
           \/ UserTake \/ UserSub \/ users_mysql_export \/ UserRestore \/ RuleTake
           \/ rules_mysql_export \/ users_delete \/ users_free
  BY <1>1, <1>2 DEF vars, Admin, users_auth, AcctFind, AcctLoad, AcctFreed, CollectorRest,
       rules_sync_traffic, UpdateReread, users_sync_traffic, UserTake, UserSub,
       users_mysql_export, UserRestore, RuleTake, rules_mysql_export, users_delete, users_free
<1>3. CASE AcctStore
  <2>1. cnode \in Nodes /\ crule \in Rules
    BY <1>3 DEF AcctStore, CollCtl
  <2>2. rBytes[cnode][crule] \in Counter /\ cload[1] \in Counter
    BY <1>0, <2>1 DEF RuleType, CollType
  <2>3. rBytes[cnode][crule] \in Int /\ cload[1] \in Int
    BY <2>2 DEF Counter
  <2>4. PICK x \in Outcomes(rBytes[cnode][crule], cload[1], 1) :
          rBytes' = [rBytes EXCEPT ![cnode][crule] = x]
    BY <1>3 DEF AcctStore
  <2>5. x \in Counter
    BY <2>3, <2>4, OutcomesType
  <2>6. rBytes' \in [Nodes -> [Rules -> Counter]]
    BY <1>0, <2>1, <2>4, <2>5, CellType DEF RuleType
  <2> QED
    BY <1>3, <1>b, <2>6 DEF AcctStore, CollectorRest
<1>4. CASE RuleSub \/ RuleRestore
  <2>1. snode \in Nodes /\ srule \in Rules
    BY <1>4 DEF RuleSub, RuleRestore, SyncCtl
  <2>2. rBytes[snode][srule] \in Counter /\ stake \in Counter /\ sload \in Counter
    BY <1>0, <2>1 DEF RuleType, SyncType
  <2>3. rBytes[snode][srule] \in Int /\ stake \in Int /\ -stake \in Int /\ sload \in Int
    BY <2>2 DEF Counter
  <2>4. PICK x \in Outcomes(rBytes[snode][srule], stake, -stake)
                   \cup Outcomes(rBytes[snode][srule], sload, stake) :
          rBytes' = [rBytes EXCEPT ![snode][srule] = x]
    BY <1>4 DEF RuleSub, RuleRestore
  <2>5. x \in Counter
    BY <2>3, <2>4, OutcomesType
  <2>6. rBytes' \in [Nodes -> [Rules -> Counter]]
    BY <1>0, <2>1, <2>4, <2>5, CellType DEF RuleType
  <2> QED
    BY <1>4, <1>b, <2>6 DEF RuleSub, RuleRestore
<1>5. CASE users_sync
  <2>1. rAge' \in [Nodes -> [Rules -> 0 .. Old]]
    BY <1>0, <1>5 DEF users_sync, RuleType, Older, Old, Late
  <2> QED
    BY <1>0, <1>5, <2>1 DEF users_sync, RuleType
<1>6. CASE SyncRow
  <2>1. PICK u \in Users : RowInsert(u) \/ RowFresh(u) \/ RowUpdate(u)
    BY <1>6, RowFacts
  <2>2. rBytes' = rBytes /\ rVer' = rVer
    BY <1>6, <2>1, RowFacts DEF RowInsert, users_mysql_insert, RowFresh, RowUpdate, ruleVars
  <2>3. rAge' = rAge \/ \E n \in Nodes : rules_sync(n)
    BY <2>1 DEF RowInsert, users_mysql_insert, RowFresh, RowUpdate, ruleVars, users_find
  <2>4. rAge' \in [Nodes -> [Rules -> 0 .. Old]]
    BY <1>0, <2>3, RulesSyncType DEF RuleType
  <2> QED
    BY <1>0, <2>2, <2>4 DEF RuleType
<1>7. CASE rules_clean
  <2>1. snode \in Nodes
    BY <1>7 DEF rules_clean, SyncCtl
  <2>2. rVer' \in [Nodes -> [Rules -> Nat]]
    BY <1>0, <1>7, <2>1 DEF rules_clean, RuleType
  <2>3. rAge' \in [Nodes -> [Rules -> 0 .. Old]]
    BY <1>0, <1>7, <1>z, <2>1 DEF rules_clean, RuleType
  <2>4. rBytes' \in [Nodes -> [Rules -> Counter]]
    BY <1>0, <1>7, <1>z, <2>1 DEF rules_clean, RuleType
  <2> QED
    BY <2>2, <2>3, <2>4 DEF RuleType
<1>8. CASE rules_mysql_load
  <2>1. snode \in Nodes
    BY <1>8 DEF rules_mysql_load, SyncCtl
  <2> DEFINE v == [r \in Rules |-> IF r \in RulesOf(nUser[snode]) THEN dbRule[r] ELSE 0]
             o == [r \in Rules |-> Old]
  <2>2. v \in [Rules -> Nat] /\ o \in [Rules -> 0 .. Old]
    BY <1>0, <1>z DEF DbType
  <2>3. \/ UNCHANGED ruleVars
        \/ rVer' = [rVer EXCEPT ![snode] = v] /\ rAge' = [rAge EXCEPT ![snode] = o]
    BY <1>8 DEF rules_mysql_load
  <2> HIDE DEF v, o
  <2>4. rVer' \in [Nodes -> [Rules -> Nat]] /\ rAge' \in [Nodes -> [Rules -> 0 .. Old]]
    BY <1>0, <2>1, <2>2, <2>3 DEF ruleVars, RuleType
  <2> QED
    BY <1>0, <1>8, <2>4 DEF rules_mysql_load, RuleType
<1>9. CASE KillRestart
  BY <1>9, <1>z DEF KillRestart, ZeroR, RuleType
<1>10. CASE Passing
  <2>1. CASE UNCHANGED rAge
    BY <1>0, <1>10, <2>1 DEF Passing, RuleType
  <2>2. ASSUME NEW n \in Nodes, NEW r \in Rules, ElapseRule(n, r)
        PROVE  rAge' \in [Nodes -> [Rules -> 0 .. Old]]
    <3>1. rAge' = [rAge EXCEPT ![n][r] = Old] /\ rAge \in [Nodes -> [Rules -> 0 .. Old]]
      BY <1>0, <2>2 DEF ElapseRule, RuleType
    <3> QED
      BY <1>z, <3>1, CellType
  <2> QED
    BY <1>0, <1>10, <2>1, <2>2 DEF Passing, Elapse, SlowRows, RuleType
<1> QED
  BY <1>2, <1>3, <1>4, <1>5, <1>6, <1>7, <1>8, <1>9, <1>10 DEF Next, Collector, Sync

\* the thread of users_acct
LEMMA CollStep ==
  TypeOK /\ CollCtl /\ SyncCtl /\ [Next]_vars => CollType' /\ CollCtl' /\ cstale' \in BOOLEAN
<1> SUFFICES ASSUME TypeOK, CollCtl, SyncCtl, [Next]_vars
             PROVE  CollType' /\ CollCtl' /\ cstale' \in BOOLEAN
  OBVIOUS
<1>0. CollType /\ RuleType /\ NodeType /\ cstale \in BOOLEAN
  BY Parts
<1>z. <<0, 0>> \in Counter \X Counter
  BY ZeroCounter
<1>1. CASE UNCHANGED collVars
  BY <1>0, <1>1 DEF collVars, CollType, CollCtl
<1>2. CASE AcctDone
  BY <1>0, <1>2, <1>z DEF AcctDone, CollType, CollCtl
<1>3. CASE \E u \in Users : users_auth(u)
  BY <1>0, <1>3 DEF users_auth, CollType, CollCtl
<1>4. CASE AcctFind
  <2>1. CASE users_find(cuser) = {}
    BY <1>2, <1>4, <2>1 DEF AcctFind
  <2>2. CASE users_find(cuser) # {}
    <3>1. PICK n \in Nodes, m \in SUBSET Rules :
            /\ cpc' = "walk" /\ cnode' = n /\ cmatch' = m
            /\ UNCHANGED <<cuser, crule, cstale, cload, packets>>
      BY <1>4, <2>2 DEF AcctFind, users_find, RulesOf
    <3> QED
      BY <1>0, <3>1 DEF CollType, CollCtl
  <2> QED
    BY <2>1, <2>2
<1>5. CASE AcctLoad
  <2>1. CASE cmatch = {}
    BY <1>2, <1>5, <2>1 DEF AcctLoad
  <2>2. CASE cmatch # {}
    <3>1. PICK r \in cmatch : /\ crule' = r /\ cload' = <<rBytes[cnode][r], nBytes[cnode]>>
                              /\ cpc' = "store"
                              /\ UNCHANGED <<cuser, cnode, cmatch, cstale, packets>>
      BY <1>5, <2>2 DEF AcctLoad
    <3>2. cnode \in Nodes /\ r \in Rules
      BY <1>0, <1>5, <3>1 DEF AcctLoad, CollCtl, CollType
    <3>3. rBytes[cnode][r] \in Counter /\ nBytes[cnode] \in Counter
      BY <1>0, <3>2 DEF RuleType, NodeType
    <3>4. cload' \in Counter \X Counter
      BY <3>1, <3>3
    <3> QED
      BY <1>0, <3>1, <3>2, <3>4 DEF CollType, CollCtl
  <2> QED
    BY <2>1, <2>2
<1>6. CASE AcctStore
  <2>1. CASE AcctDone
    BY <1>2, <2>1
  <2>2. CASE /\ cpc' = "walk" /\ cmatch' = cmatch \ {crule} /\ crule' = Null /\ cload' = <<0, 0>>
             /\ UNCHANGED <<cuser, cnode, cstale, packets>>
    BY <1>0, <1>6, <1>z, <2>2 DEF AcctStore, CollType, CollCtl
  <2> QED
    BY <1>6, <2>1, <2>2 DEF AcctStore
<1>7. CASE AcctFreed
  BY <1>2, <1>7 DEF AcctFreed
<1>8. CASE rules_clean
  <2>1. UNCHANGED <<cpc, cuser, cnode, cmatch, crule, cload, packets>>
    BY <1>8 DEF rules_clean
  <2>2. cstale' \in BOOLEAN
    BY <1>0, <1>8 DEF rules_clean
  <2> QED
    BY <1>0, <2>1, <2>2 DEF CollType, CollCtl
<1>9. CASE KillRestart
  BY <1>0, <1>9, <1>z DEF KillRestart, CollType, CollCtl
<1>10. CASE UNCHANGED vars \/ Admin \/ users_sync \/ SyncRow \/ rules_sync_traffic \/ UpdateReread
            \/ rules_mysql_load \/ users_delete \/ users_sync_traffic \/ UserTake \/ UserSub
            \/ users_mysql_export \/ UserRestore \/ RuleTake \/ RuleSub \/ rules_mysql_export
            \/ RuleRestore \/ users_free \/ Passing
  BY <1>1, <1>10 DEF vars, Admin, Passing, users_sync, SyncRow, rules_sync_traffic, UpdateReread,
       rules_mysql_load, users_delete, users_sync_traffic, UserTake, UserSub,
       users_mysql_export, UserRestore, RuleTake, RuleSub, rules_mysql_export, RuleRestore,
       users_free, SyncRest
<1> QED
  BY <1>3, <1>4, <1>5, <1>6, <1>7, <1>8, <1>9, <1>10 DEF Next, Collector, Sync

\* the thread of users_sync
LEMMA SyncStep ==
  TypeOK /\ SyncCtl /\ OwnerInv /\ [Next]_vars => SyncType' /\ SyncCtl'
<1> SUFFICES ASSUME TypeOK, SyncCtl, OwnerInv, [Next]_vars
             PROVE  SyncType' /\ SyncCtl'
  OBVIOUS
<1>0. SyncType /\ RuleType /\ NodeType /\ DbType
  BY Parts
<1>z. 0 \in Counter
  BY ZeroCounter
<1>1. CASE UNCHANGED <<spc, pickVars, takeVars>> /\ \A n \in Nodes : where[n] # "unused" => where'[n] # "unused"
  BY <1>0, <1>1 DEF pickVars, takeVars, SyncType, SyncCtl, RowSide, UserSide, Exporting
<1>2. CASE UNCHANGED vars \/ Admin \/ (\E u \in Users : users_auth(u)) \/ Collector
  <2>1. UNCHANGED <<where, spc, pickVars, takeVars>>
    BY <1>2 DEF vars, Admin, users_auth, Collector, AcctFind, AcctLoad, AcctStore, AcctFreed,
         CollectorRest, nodeVars
  <2> QED
    BY <1>1, <2>1
<1>3. CASE users_free
  <2>1. \A n \in Nodes : where[n] # "unused" => where'[n] # "unused"
    BY <1>3 DEF users_free, Allocated
  <2> QED
    BY <1>1, <1>3, <2>1 DEF users_free
<1>4. CASE KillRestart
  BY <1>0, <1>4, <1>z DEF KillRestart, SyncType, SyncCtl, RowSide, UserSide, Exporting
<1>5. CASE users_sync
  <2>1. UNCHANGED <<where, snode, rtodo, srule, sret, stake, sload>> /\ spc = "idle"
    BY <1>5 DEF users_sync, takeVars
  <2>2. CASE UNCHANGED <<rows, todo, spc>>
    BY <1>1, <2>1, <2>2 DEF pickVars, takeVars
  <2>3. CASE spc' = "row" /\ rows' \in [Users -> Nat] /\ todo' \subseteq Users
    BY <1>0, <2>1, <2>3 DEF SyncType, SyncCtl, RowSide, UserSide, Exporting
  <2>4. dbVer \in [Users -> Nat]
    BY <1>0 DEF DbType
  <2>5. ASSUME NEW seen \in SUBSET {u \in Users : dbVer[u] # 0},
               rows' = [u \in Users |-> IF u \in seen THEN dbVer[u] ELSE 0], todo' = seen
        PROVE  rows' \in [Users -> Nat] /\ todo' \subseteq Users
    BY <2>4, <2>5
  <2> QED
    BY <1>5, <2>2, <2>3, <2>4, <2>5 DEF users_sync
<1>6. CASE SyncRow
  <2>1. PICK u \in todo : RowInsert(u) \/ RowFresh(u) \/ RowUpdate(u)
    BY <1>6, RowFacts
  <2>2. UNCHANGED <<rows, rtodo, srule, sret, stake, sload>> /\ spc = "row" /\ todo \subseteq Users
    BY <1>6, RowFacts
  <2>3. todo' = todo \ {u} /\ (\/ spc' = "row" /\ snode' = snode
                               \/ spc' \in {"load", "unload"} /\ snode' \in Nodes
                                  /\ where'[snode'] = "users")
    <3>1. CASE RowInsert(u)
      BY <1>0, <3>1, AllocationFacts DEF RowInsert, users_mysql_insert, NextRow, Unused, NodeType
    <3>2. CASE RowFresh(u)
      BY <3>2 DEF RowFresh, NextRow
    <3>3. CASE RowUpdate(u)
      BY <3>3 DEF RowUpdate, NextRow, users_find
    <3> QED
      BY <2>1, <3>1, <3>2, <3>3
  <2> QED
    BY <1>0, <2>2, <2>3 DEF SyncType, SyncCtl, RowSide, UserSide, Exporting
<1>7. CASE rules_sync_traffic
  <2>1. UNCHANGED <<where, rows, todo, snode, srule, stake, sload>> /\ spc \in {"unload", "export"}
    BY <1>7 DEF rules_sync_traffic, nodeVars, takeVars
  <2>2. \/ rtodo' \subseteq Rules /\ spc' = "rule" /\ sret' = IF spc = "unload" THEN "clean" ELSE "user"
        \/ UNCHANGED <<rtodo, sret>> /\ spc' = IF spc = "unload" THEN "reread" ELSE "user"
    BY <1>7 DEF rules_sync_traffic, Loaded
  <2> QED
    BY <1>0, <2>1, <2>2 DEF SyncType, SyncCtl, RowSide, UserSide, Exporting
<1>8. CASE rules_clean
  BY <1>0, <1>8 DEF rules_clean, nodeVars, pickVars, takeVars, SyncType, SyncCtl, RowSide,
       UserSide, Exporting
<1>9. CASE UpdateReread
  <2>1. UNCHANGED <<where, pickVars, takeVars>> /\ spc = "reread" /\ spc' \in {"load", "row"}
    BY <1>9 DEF UpdateReread
  <2> QED
    BY <1>0, <2>1 DEF pickVars, takeVars, SyncType, SyncCtl, RowSide, UserSide, Exporting
<1>10. CASE rules_mysql_load
  <2>1. UNCHANGED <<where, pickVars, takeVars>> /\ spc = "load" /\ spc' = "row"
    BY <1>10 DEF rules_mysql_load, nodeVars
  <2> QED
    BY <1>0, <2>1 DEF pickVars, takeVars, SyncType, SyncCtl, RowSide, UserSide, Exporting
<1>11. CASE users_delete
  <2>1. \A n \in Nodes : where[n] # "unused" => where'[n] # "unused"
    BY <1>0, <1>11 DEF users_delete, Stale, NodeType
  <2> QED
    BY <1>1, <1>11, <2>1 DEF users_delete
<1>12. CASE users_sync_traffic
  <2>1. UNCHANGED <<where, snode, rtodo, srule, sret, stake, sload>> /\ spc = "row"
    BY <1>12 DEF users_sync_traffic, nodeVars, takeVars
  <2>0. rows' \in [Users -> Nat]
    BY <1>12 DEF users_sync_traffic
  <2>2. (spc' = "user" /\ todo' \subseteq Nodes) \/ (spc' = "idle" /\ todo' = todo)
    BY <1>12 DEF users_sync_traffic, ToExport, OnTable
  <2> QED
    BY <1>0, <2>0, <2>1, <2>2 DEF SyncType, SyncCtl, RowSide, UserSide, Exporting
<1>13. CASE UserTake
  <2>1. UNCHANGED <<where, rows, rtodo, srule, sret, sload>> /\ spc = "user" /\ todo \subseteq Nodes
    BY <1>13 DEF UserTake, nodeVars, SyncCtl, UserSide
  <2>2. CASE spc' = "idle" /\ snode' = Null /\ UNCHANGED <<todo, stake>>
    BY <1>0, <2>1, <2>2 DEF SyncType, SyncCtl, RowSide, UserSide, Exporting
  <2>3. CASE \E n \in todo :
          /\ todo' = todo \ {n}
          /\ \/ UNCHANGED <<spc, snode, stake>>
             \/ spc' = "usub" /\ snode' = n /\ stake' = nBytes[n]
    <3>1. PICK n \in Nodes :
          /\ todo' = todo \ {n}
          /\ \/ UNCHANGED <<spc, snode, stake>>
             \/ spc' = "usub" /\ snode' = n /\ stake' = nBytes[n]
      BY <2>1, <2>3
    <3>2. nBytes[n] \in Counter
      BY <1>0 DEF NodeType
    <3> QED
      BY <1>0, <2>1, <3>1, <3>2 DEF SyncType, SyncCtl, RowSide, UserSide, Exporting
  <2> QED
    BY <1>13, <2>2, <2>3 DEF UserTake
<1>14. CASE UserSub \/ UserRestore
  <2>1. /\ UNCHANGED <<where, pickVars>> /\ stake' \in {stake, 0} /\ sload' \in {sload, 0}
        /\ spc \in {"usub", "urest"} /\ spc' \in {"uexp", "user"}
    BY <1>14 DEF UserSub, UserRestore, nodeVars, takeVars
  <2> QED
    BY <1>0, <1>z, <2>1 DEF pickVars, SyncType, SyncCtl, RowSide, UserSide, Exporting
<1>15. CASE users_mysql_export
  <2>1. snode \in Nodes
    BY <1>15 DEF users_mysql_export, SyncCtl
  <2>2. nBytes[snode] \in Counter
    BY <1>0, <2>1 DEF NodeType
  <2>3. /\ UNCHANGED <<where, pickVars>> /\ stake' \in {stake, 0} /\ sload' \in {nBytes[snode], 0}
        /\ spc = "uexp" /\ spc' \in {"export", "urest"}
    BY <1>15 DEF users_mysql_export, nodeVars
  <2> QED
    BY <1>0, <1>z, <2>2, <2>3 DEF pickVars, SyncType, SyncCtl, RowSide, UserSide, Exporting
<1>16. CASE RuleTake
  <2>1. UNCHANGED <<where, rows, todo, snode, sload>> /\ spc = "rule" /\ snode \in Nodes
    BY <1>16 DEF RuleTake, nodeVars, SyncCtl
  <2>2. CASE spc' = sret /\ srule' = Null /\ sret' = "user" /\ UNCHANGED <<rtodo, stake>>
    BY <1>0, <2>1, <2>2 DEF SyncType, SyncCtl, RowSide, UserSide, Exporting
  <2>3. CASE /\ sret' = sret
             /\ \E r \in rtodo :
                  /\ rtodo' = rtodo \ {r}
                  /\ \/ UNCHANGED <<spc, srule, stake>>
                     \/ spc' = "rsub" /\ srule' = r /\ stake' = rBytes[snode][r]
    <3>1. PICK r \in Rules :
          /\ rtodo' = rtodo \ {r}
          /\ \/ UNCHANGED <<spc, srule, stake>>
             \/ spc' = "rsub" /\ srule' = r /\ stake' = rBytes[snode][r]
      BY <1>0, <2>3 DEF SyncType
    <3>2. rBytes[snode][r] \in Counter
      BY <1>0, <2>1 DEF RuleType
    <3>3. sret' = sret
      BY <2>3
    <3>4. CASE UNCHANGED <<spc, srule, stake>>
      BY <1>0, <2>1, <3>1, <3>3, <3>4 DEF SyncType, SyncCtl, RowSide, UserSide, Exporting
    <3>5. CASE spc' = "rsub" /\ srule' = r /\ stake' = rBytes[snode][r]
      BY <1>0, <2>1, <3>1, <3>2, <3>3, <3>5 DEF SyncType, SyncCtl, RowSide, UserSide, Exporting
    <3> QED
      BY <3>1, <3>4, <3>5
  <2> QED
    BY <1>16, <2>2, <2>3 DEF RuleTake
<1>17. CASE RuleSub \/ RuleRestore
  <2>1. /\ UNCHANGED <<where, pickVars>> /\ stake' \in {stake, 0} /\ sload' \in {sload, 0}
        /\ spc \in {"rsub", "rrest"} /\ spc' \in {"rexp", "rule"}
    BY <1>17 DEF RuleSub, RuleRestore, nodeVars, takeVars
  <2> QED
    BY <1>0, <1>z, <2>1 DEF pickVars, SyncType, SyncCtl, RowSide, UserSide, Exporting
<1>18. CASE rules_mysql_export
  <2>1. snode \in Nodes /\ srule \in Rules
    BY <1>18 DEF rules_mysql_export, SyncCtl
  <2>2. rBytes[snode][srule] \in Counter
    BY <1>0, <2>1 DEF RuleType
  <2>3. /\ UNCHANGED <<where, pickVars>> /\ stake' \in {stake, 0}
        /\ sload' \in {rBytes[snode][srule], sload, 0}
        /\ spc = "rexp" /\ spc' \in {"rule", "rrest", "rexp"}
    BY <1>18 DEF rules_mysql_export, nodeVars
  <2> QED
    BY <1>0, <1>z, <2>2, <2>3 DEF pickVars, SyncType, SyncCtl, RowSide, UserSide, Exporting
<1>19. CASE Passing
  BY <1>1, <1>19 DEF Passing
<1> QED
  BY <1>2, <1>3, <1>4, <1>5, <1>6, <1>7, <1>8, <1>9, <1>10, <1>11, <1>12, <1>13, <1>14, <1>15,
     <1>16, <1>17, <1>18, <1>19 DEF Next, Sync

\* Steps keep the types of the history.
LEMMA HistTypeStep == TypeOK /\ CollCtl /\ SyncCtl /\ [Next]_vars => HistType'
<1> SUFFICES ASSUME TypeOK, CollCtl, SyncCtl, [Next]_vars PROVE HistType'
  OBVIOUS
<1>0. HistType /\ SyncType /\ RuleType
  BY Parts
<1>t. stake \in Nat
  BY <1>0 DEF SyncType, Counter
<1>1. CASE UNCHANGED <<uHist, rHist>>
  BY <1>0, <1>1 DEF uHist, rHist, HistType
<1>2. CASE UNCHANGED vars \/ Admin \/ (\E u \in Users : users_auth(u)) \/ AcctFind \/ AcctLoad
           \/ users_sync \/ SyncRow \/ rules_sync_traffic \/ rules_clean \/ UpdateReread
           \/ rules_mysql_load \/ users_delete \/ users_sync_traffic \/ UserTake \/ UserSub
           \/ UserRestore \/ RuleTake \/ RuleSub \/ RuleRestore
  BY <1>1, <1>2 DEF vars, Admin, users_auth, AcctFind, AcctLoad, CollectorRest, users_sync,
       SyncRow, rules_sync_traffic, rules_clean, UpdateReread, rules_mysql_load, users_delete,
       users_sync_traffic, UserTake, UserSub, UserRestore, RuleTake, RuleSub, RuleRestore,
       SyncRest, uHist, rHist
<1>3. CASE AcctStore \/ AcctFreed
  <2>1. UNCHANGED <<exported, rExported>>
    BY <1>3 DEF AcctStore, AcctFreed, CollectorRest
  <2>2. cnode \in Nodes /\ counted[cnode] \in Nat
    BY <1>0, <1>3 DEF AcctStore, AcctFreed, CollCtl, HistType
  <2>3. counted[cnode] + 1 \in Nat
    BY <2>2
  <2>4. counted' = counted \/ counted' = [counted EXCEPT ![cnode] = @ + 1]
    BY <1>3 DEF AcctStore, AcctFreed
  <2>5. counted' \in [Nodes -> Nat]
    BY <1>0, <2>2, <2>3, <2>4 DEF HistType
  <2>6. rCounted' \in [Nodes -> [Rules -> Nat]]
    <3>1. CASE rCounted' = rCounted
      BY <1>0, <3>1 DEF HistType
    <3>2. CASE crule \in Rules /\ rCounted' = [rCounted EXCEPT ![cnode][crule] = @ + 1]
      <4>1. rCounted \in [Nodes -> [Rules -> Nat]]
        BY <1>0 DEF HistType
      <4>2. rCounted[cnode][crule] \in Nat
        BY <2>2, <3>2, <4>1
      <4>3. rCounted[cnode][crule] + 1 \in Nat
        BY <4>2
      <4>4. rCounted' = [rCounted EXCEPT ![cnode][crule] = rCounted[cnode][crule] + 1]
        BY <3>2
      <4> QED
        BY <2>2, <3>2, <4>1, <4>3, <4>4, CellType
    <3> QED
      BY <1>3, <3>1, <3>2 DEF AcctStore, AcctFreed, CollCtl
  <2> QED
    BY <1>0, <2>1, <2>5, <2>6 DEF HistType
<1>4. CASE users_mysql_export
  <2>1. snode \in Nodes /\ exported[snode] \in Nat
    BY <1>0, <1>4 DEF users_mysql_export, SyncCtl, HistType
  <2>2. exported[snode] + stake \in Nat
    BY <1>t, <2>1
  <2>3. exported' = exported \/ exported' = [exported EXCEPT ![snode] = @ + stake]
    BY <1>4 DEF users_mysql_export, Exported
  <2>4. exported' \in [Nodes -> Nat]
    BY <1>0, <2>1, <2>2, <2>3 DEF HistType
  <2> QED
    BY <1>0, <1>4, <2>4 DEF users_mysql_export, rHist, HistType
<1>5. CASE rules_mysql_export
  <2>1. snode \in Nodes /\ srule \in Rules
    BY <1>5 DEF rules_mysql_export, SyncCtl
  <2>2. rExported \in [Nodes -> [Rules -> Nat]]
    BY <1>0 DEF HistType
  <2>3. rExported[snode][srule] \in Nat
    BY <2>1, <2>2
  <2>4. rExported[snode][srule] + stake \in Nat
    BY <1>t, <2>3
  <2>5. \/ rExported' = rExported
        \/ rExported' = [rExported EXCEPT ![snode][srule] = rExported[snode][srule] + stake]
    BY <1>5 DEF rules_mysql_export, RuleExported
  <2>6. rExported' \in [Nodes -> [Rules -> Nat]]
    BY <2>1, <2>2, <2>4, <2>5, CellType
  <2> QED
    BY <1>0, <1>5, <2>6 DEF rules_mysql_export, uHist, HistType
<1>6. CASE users_free
  <2>1. UNCHANGED <<uHist, rCounted>>
    BY <1>6 DEF users_free
  <2>2. CASE UNCHANGED rExported
    BY <1>1, <2>1, <2>2 DEF rHist
  <2>3. ASSUME NEW ok,
               rExported' = [n \in Nodes |-> [r \in Rules |->
                  IF <<n, r>> \in ok /\ ~NullRow(r) THEN rExported[n][r] + rBytes[n][r]
                                     ELSE rExported[n][r]]]
        PROVE  HistType'
    <3>1. ASSUME NEW n \in Nodes, NEW r \in Rules
          PROVE  rExported[n][r] \in Nat /\ rExported[n][r] + rBytes[n][r] \in Nat
      <4>1. rBytes[n][r] \in Counter /\ rExported[n][r] \in Nat
        BY <1>0 DEF RuleType, HistType
      <4> QED
        BY <4>1 DEF Counter
    <3>2. rExported' \in [Nodes -> [Rules -> Nat]]
      BY <2>3, <3>1
    <3> QED
      BY <1>0, <2>1, <3>2 DEF uHist, HistType
  <2> QED
    BY <1>6, <2>2, <2>3 DEF users_free
<1>7. CASE KillRestart
  BY <1>7 DEF KillRestart, Zero, ZeroR, HistType
<1>8. CASE Passing
  BY <1>1, <1>8 DEF Passing
<1> QED
  BY <1>2, <1>3, <1>4, <1>5, <1>6, <1>7, <1>8 DEF Next, Collector, Sync
---------------------------------------------------------------------------
(* The nodes and their users.                                              *)

\* who owns the nodes on id_users, and which of them the rows have refreshed
LEMMA OwnerStep ==
  TypeOK /\ SyncCtl /\ OwnerInv /\ OneInv /\ SeenInv /\ [Next]_vars
    => OwnerInv' /\ OneInv' /\ SeenInv'
<1> SUFFICES ASSUME TypeOK, SyncCtl, OwnerInv, OneInv, SeenInv, [Next]_vars
             PROVE  OwnerInv' /\ OneInv' /\ SeenInv'
  OBVIOUS
<1>0. NodeType /\ SyncType
  BY Parts
<1>1. ASSUME UNCHANGED <<where, nUser, nAge, rows, todo>>, RowSide' => RowSide,
             phase' = "up" => phase = "up"
      PROVE  OwnerInv' /\ OneInv' /\ SeenInv'
  BY <1>1 DEF OwnerInv, OneInv, SeenInv
<1>2. CASE UNCHANGED vars \/ Admin \/ (\E u \in Users : users_auth(u)) \/ Collector
  <2>1. UNCHANGED <<where, nUser, nAge, rows, todo, spc, sret>>
    BY <1>2 DEF vars, Admin, users_auth, Collector, AcctFind, AcctLoad, AcctStore, AcctFreed,
         CollectorRest, nodeVars, pickVars
  <2>2. phase' = "up" => phase = "up"
    BY <1>2 DEF vars, Admin, users_auth, Collector, AcctFind, AcctLoad, AcctStore, AcctFreed
  <2> QED
    BY <1>1, <2>1, <2>2 DEF RowSide
<1>3. CASE rules_sync_traffic \/ rules_clean \/ UpdateReread \/ rules_mysql_load \/ RuleTake
           \/ RuleSub \/ RuleRestore \/ rules_mysql_export \/ UserSub \/ UserRestore
           \/ users_mysql_export
  <2>1. UNCHANGED <<where, nUser, nAge, rows, todo>> /\ phase = "up"
    BY <1>3 DEF rules_sync_traffic, rules_clean, UpdateReread, rules_mysql_load, RuleTake,
         RuleSub, RuleRestore, rules_mysql_export, UserSub, UserRestore, users_mysql_export,
         nodeVars, pickVars
  <2>2. RowSide' => RowSide
    BY <1>0, <1>3 DEF rules_sync_traffic, rules_clean, UpdateReread, rules_mysql_load, RuleTake,
         RuleSub, RuleRestore, rules_mysql_export, UserSub, UserRestore, users_mysql_export,
         pickVars, RowSide, Exporting, SyncType
  <2> QED
    BY <1>1, <2>1, <2>2
<1>4. CASE UserTake \/ users_sync_traffic
  <2>1. UNCHANGED <<where, nUser, nAge, phase>>
    BY <1>4 DEF UserTake, users_sync_traffic, nodeVars, SyncRest
  <2>2. ~RowSide'
    BY <1>0, <1>4 DEF UserTake, users_sync_traffic, RowSide, Exporting, SyncType
  <2> QED
    BY <2>1, <2>2 DEF OwnerInv, OneInv, SeenInv
<1>5. CASE users_sync
  <2>1. UNCHANGED <<where, nUser, phase>> /\ phase = "up" /\ spc = "idle"
    BY <1>5 DEF users_sync, SyncRest
  <2>2. OwnerInv' /\ OneInv'
    BY <2>1 DEF OwnerInv, OneInv
  <2>3. CASE spc' = "idle"
    BY <2>2, <2>3 DEF SeenInv, RowSide, Exporting
  <2>4. ASSUME NEW u \in Users, rows'[u] # 0, spc' # "idle"
        PROVE  u \in todo'
    BY <1>5, <2>1, <2>4 DEF users_sync
  <2> QED
    BY <2>1, <2>2, <2>3, <2>4 DEF SeenInv, OwnerInv
<1>6. CASE SyncRow
  <2>1. PICK u \in todo : RowInsert(u) \/ RowFresh(u) \/ RowUpdate(u)
    BY <1>6, RowFacts
  <2>2. UNCHANGED <<phase, rows>> /\ RowSide /\ u \in Users /\ todo' = todo \ {u} /\ u # Null
    BY <1>6, <2>1, RowFacts, TableAssumption DEF RowSide, RowInsert, users_mysql_insert, RowFresh, RowUpdate,
         NextRow
  <2>3. CASE UNCHANGED nodeVars /\ users_find(u) = {}
    BY <1>0, <2>2, <2>3 DEF nodeVars, users_find, OwnerInv, OneInv, SeenInv
  <2>4. ASSUME users_find(u) = {}, NEW n \in Unused, where' = [where EXCEPT ![n] = "users"],
               nUser' = [nUser EXCEPT ![n] = u], nAge' = [nAge EXCEPT ![n] = 0]
        PROVE  OwnerInv' /\ OneInv' /\ SeenInv'
    <3>1. n \in Nodes /\ where'[n] = "users" /\ nUser'[n] = u /\ nAge'[n] = 0
      BY <1>0, <2>4 DEF Unused, NodeType
    <3>2. \A m \in Nodes \ {n} : where'[m] = where[m] /\ nUser'[m] = nUser[m] /\ nAge'[m] = nAge[m]
      BY <1>0, <2>4, <3>1 DEF NodeType
    <3>3. \A m \in Nodes : where[m] = "users" => nUser[m] # u
      BY <2>4 DEF users_find
    <3>4. OwnerInv'
      BY <2>2, <3>1, <3>2 DEF OwnerInv
    <3>5. OneInv'
      BY <3>1, <3>2, <3>3 DEF OneInv
    <3>6. SeenInv'
      BY <2>2, <3>1, <3>2, <3>3 DEF SeenInv
    <3> QED
      BY <3>4, <3>5, <3>6
  <2>5. ASSUME NEW n \in users_find(u), UNCHANGED <<where, nUser>>, nAge' = [nAge EXCEPT ![n] = 0]
        PROVE  OwnerInv' /\ OneInv' /\ SeenInv'
    <3>1. n \in Nodes /\ where[n] = "users" /\ nUser[n] = u
      BY <2>5 DEF users_find
    <3>2. \A m \in Nodes : nAge'[m] = IF m = n THEN 0 ELSE nAge[m]
      BY <1>0, <2>5 DEF NodeType
    <3>3. \A m \in Nodes : where[m] = "users" /\ nUser[m] = u => m = n
      BY <3>1 DEF OneInv
    <3>4. OwnerInv' /\ OneInv'
      BY <2>2, <2>5 DEF OwnerInv, OneInv
    <3>5. SeenInv'
      BY <2>2, <2>5, <3>2, <3>3 DEF SeenInv
    <3> QED
      BY <3>4, <3>5
  <2>6. CASE RowInsert(u)
    BY <2>3, <2>4, <2>6, AllocationFacts DEF RowInsert, users_mysql_insert
  <2>7. CASE RowFresh(u) \/ RowUpdate(u)
    BY <2>5, <2>7 DEF RowFresh, RowUpdate, Refreshed
  <2> QED
    BY <2>1, <2>6, <2>7
<1>7. CASE users_delete
  <2>1. PICK n \in Nodes : where' = [where EXCEPT ![n] = "clean"] /\ nAge' = [nAge EXCEPT ![n] = 0]
                           /\ where[n] = "users"
    BY <1>7 DEF users_delete, Stale, OnTable
  <2>2. UNCHANGED <<nUser, rows, todo, phase, spc, sret>>
    BY <1>7 DEF users_delete, pickVars, SyncRest
  <2>3. /\ \A m \in Nodes : where'[m] = IF m = n THEN "clean" ELSE where[m]
        /\ \A m \in Nodes : nAge'[m] = IF m = n THEN 0 ELSE nAge[m]
    BY <1>0, <2>1 DEF NodeType
  <2>4. OwnerInv'
    BY <2>1, <2>2, <2>3 DEF OwnerInv
  <2>5. OneInv'
    BY <2>2, <2>3 DEF OneInv
  <2>6. SeenInv'
    BY <2>2, <2>3 DEF SeenInv, RowSide
  <2> QED
    BY <2>4, <2>5, <2>6
<1>8. CASE users_free
  <2>1. UNCHANGED <<nUser, nAge, rows, todo, spc, sret>> /\ phase' # "up"
    BY <1>8 DEF users_free, pickVars
  <2>2. \A n \in Nodes : /\ where'[n] # "users"
                         /\ where'[n] # "unused" => where[n] # "unused"
    BY <1>8 DEF users_free, Allocated
  <2> QED
    BY <2>1, <2>2 DEF OwnerInv, OneInv, SeenInv
<1>9. CASE KillRestart
  BY <1>9 DEF KillRestart, OwnerInv, OneInv, SeenInv
<1>10. CASE Passing
  <2>1. UNCHANGED <<where, nUser, rows, todo, phase, spc, sret>>
    BY <1>10 DEF Passing, pickVars
  <2>2. ASSUME NEW n \in Nodes, nAge[n] \in {0, Late} PROVE nAge'[n] \in {0, Late}
    <3>1. CASE UNCHANGED nAge
      BY <2>2, <3>1
    <3>2. ASSUME NEW m \in Nodes, Elapse(m) PROVE nAge'[n] \in {0, Late}
      BY <1>0, <2>2, <3>2 DEF Elapse, NodeType, Late
    <3>3. ASSUME NEW late, SlowRows(late) PROVE nAge'[n] \in {0, Late}
      BY <2>2, <3>3 DEF SlowRows
    <3> QED
      BY <1>10, <3>1, <3>2, <3>3 DEF Passing, ElapseRule
  <2> QED
    BY <2>1, <2>2 DEF OwnerInv, OneInv, SeenInv, RowSide
<1> QED
  BY <1>2, <1>3, <1>4, <1>5, <1>6, <1>7, <1>8, <1>9, <1>10 DEF Next, Sync
---------------------------------------------------------------------------
(* What a rule is billed for.                                              *)

\* No step raises what a rule was billed beyond what it counted.
LEMMA RuleBytesStep ==
  TypeOK /\ CollCtl /\ SyncCtl /\ OwnerInv /\ Sound /\ RuleBytes /\ [Next]_vars => RuleBytes'
<1> SUFFICES ASSUME TypeOK, CollCtl, SyncCtl, OwnerInv, Sound, RuleBytes, [Next]_vars,
                    NEW n \in Nodes, NEW r \in Rules
             PROVE  RuleBill(n, r)'
  BY DEF RuleBytes
<1>0. HistType /\ SyncType /\ RuleType /\ NodeType
  BY Parts
<1>1. /\ rCounted[n][r] \in Nat /\ rExported[n][r] \in Nat /\ rBytes[n][r] \in Counter
      /\ stake \in Counter
  BY <1>0 DEF HistType, RuleType, SyncType
<1>2. stake \in Nat /\ rBytes[n][r] \in Nat /\ Word \in Nat \ {0}
  BY <1>1, TableAssumption DEF Counter
<1>3. RInFlight(n, r) \in Nat
  BY <1>2 DEF RInFlight
<1>4. RuleBill(n, r)
  BY DEF RuleBytes
<1>u. phase = "up" => where[n] # "freed"
  BY DEF OwnerInv
\* nothing about the rule changes
<1>5. ASSUME where[n] = "freed" => where'[n] = "freed", rExported'[n][r] = rExported[n][r],
             rCounted'[n][r] = rCounted[n][r], rBytes'[n][r] = rBytes[n][r],
             UNCHANGED <<spc, snode, srule, stake>>
      PROVE  RuleBill(n, r)'
  BY <1>4, <1>5 DEF RuleBill, RInFlight
\* the sync is elsewhere before and after
<1>6. ASSUME phase = "up", UNCHANGED <<rHist, rBytes>>, spc \notin {"rexp", "rrest"},
             spc' \notin {"rsub", "rexp", "rrest"}
      PROVE  RuleBill(n, r)'
  <2>1. RInFlight(n, r) = 0 /\ RInFlight(n, r)' = 0
    BY <1>6 DEF RInFlight
  <2> QED
    BY <1>4, <1>u, <1>6, <2>1 DEF RuleBill, rHist
<1>7. CASE UNCHANGED vars \/ Admin \/ (\E u \in Users : users_auth(u)) \/ AcctFind \/ AcctLoad
           \/ AcctFreed
  <2>1. UNCHANGED <<where, rHist, rBytes, spc, snode, srule, stake>>
    BY <1>7 DEF vars, Admin, users_auth, AcctFind, AcctLoad, AcctFreed, CollectorRest, nodeVars,
         pickVars, takeVars, rHist
  <2> QED
    BY <1>5, <2>1 DEF rHist
<1>8. CASE users_delete
  <2>1. UNCHANGED <<rHist, rBytes, spc, snode, srule, stake>>
    BY <1>8 DEF users_delete, pickVars, takeVars, SyncRest
  <2>2. where[n] # "freed"
    BY <1>8, <1>u DEF users_delete
  <2> QED
    BY <1>5, <2>1, <2>2 DEF rHist
<1>9. CASE users_sync \/ rules_sync_traffic \/ UpdateReread \/ rules_mysql_load
           \/ users_sync_traffic \/ UserTake \/ UserSub \/ users_mysql_export \/ UserRestore
  <2>1. UNCHANGED <<rHist, rBytes>> /\ phase = "up"
    BY <1>9 DEF users_sync, rules_sync_traffic, UpdateReread, rules_mysql_load,
         users_sync_traffic, UserTake, UserSub, users_mysql_export, UserRestore, SyncRest
  <2>2. spc \notin {"rexp", "rrest"} /\ spc' \notin {"rsub", "rexp", "rrest"}
    BY <1>9 DEF users_sync, rules_sync_traffic, UpdateReread, rules_mysql_load,
         users_sync_traffic, UserTake, UserSub, users_mysql_export, UserRestore
  <2> QED
    BY <1>6, <2>1, <2>2
<1>10. CASE SyncRow
  <2>1. UNCHANGED <<rHist, rBytes>> /\ phase = "up" /\ spc = "row"
    BY <1>10 DEF SyncRow, SyncRest
  <2>2. spc' \notin {"rsub", "rexp", "rrest"}
    BY <1>10 DEF SyncRow, RowInsert, users_mysql_insert, RowFresh, RowUpdate, NextRow
  <2> QED
    BY <1>6, <2>1, <2>2
<1>11. CASE rules_clean
  <2>1. rBytes'[n][r] \in {0, rBytes[n][r]}
    BY <1>0, <1>11 DEF rules_clean, RuleType
  <2>2. UNCHANGED rHist /\ phase = "up" /\ spc = "clean" /\ spc' = "reread"
    BY <1>11 DEF rules_clean
  <2>3. RInFlight(n, r) = 0 /\ RInFlight(n, r)' = 0
    BY <2>2 DEF RInFlight
  <2>4. where[n] # "freed"
    BY <2>2, <1>u
  <2> QED
    BY <1>1, <1>2, <1>4, <2>1, <2>2, <2>3, <2>4 DEF RuleBill, rHist
<1>12. CASE RuleTake
  <2>1. UNCHANGED <<rHist, rBytes, snode>> /\ phase = "up" /\ spc = "rule"
    BY <1>12 DEF RuleTake, SyncRest
  <2>2. CASE spc' = sret
    BY <1>0, <1>6, <2>1, <2>2 DEF SyncType
  <2>3. CASE spc' = spc
    BY <1>6, <2>1, <2>3
  <2>4. CASE spc' = "rsub" /\ srule' \in Rules /\ stake' = rBytes[snode][srule']
    <3>1. RInFlight(n, r) = 0 /\ RInFlight(n, r)' = 0
      BY <2>1, <2>4 DEF RInFlight
    <3>2. snode' = n /\ srule' = r => stake' = rBytes'[n][r]
      BY <2>1, <2>4
    <3> QED
      BY <1>2, <1>4, <1>u, <2>1, <3>1, <3>2 DEF RuleBill, rHist
  <2> QED
    BY <1>0, <1>12, <2>2, <2>3, <2>4 DEF RuleTake, SyncType
<1>13. CASE RuleSub
  <2>1. snode \in Nodes /\ srule \in Rules
    BY <1>13 DEF RuleSub, SyncCtl
  <2>2. /\ UNCHANGED <<rHist, snode, srule, stake>> /\ phase = "up"
        /\ spc = "rsub" /\ spc' = "rexp"
    BY <1>13 DEF RuleSub, SyncRest, pickVars, takeVars
  <2>3. PICK x : /\ x \in Outcomes(rBytes[snode][srule], stake, -stake)
                 /\ rBytes' = [rBytes EXCEPT ![snode][srule] = x]
    BY <1>13 DEF RuleSub
  <2>4. x = Wrap(rBytes[snode][srule] + (-stake))
    BY <2>3 DEF Outcomes, Sound
  <2>5. rBytes[snode][srule] \in Counter /\ rBytes \in [Nodes -> [Rules -> Counter]]
    BY <1>0, <2>1 DEF RuleType
  <2>6. rBytes[snode][srule] + (-stake) \in Int
    BY <1>2, <2>5 DEF Counter
  <2>7. x \in Counter
    BY <2>4, <2>6, WrapType
  <2>8. /\ rBytes'[snode][srule] = x
        /\ n # snode \/ r # srule => rBytes'[n][r] = rBytes[n][r]
    BY <2>1, <2>3, <2>5, <2>7, CellType
  <2>9. CASE n = snode /\ r = srule
    <3>1. SUFFICES ASSUME where[n] # "freed", rCounted[n][r] < Word
                   PROVE  rExported[n][r] + x + stake <= rCounted[n][r]
      BY <1>u, <2>2, <2>8, <2>9 DEF RuleBill, RInFlight, rHist
    <3>2. stake <= rBytes[n][r] /\ rExported[n][r] + rBytes[n][r] <= rCounted[n][r]
      <4>1. RInFlight(n, r) = 0
        BY <2>2 DEF RInFlight
      <4>2. stake <= rBytes[n][r] /\ rExported[n][r] + rBytes[n][r] + RInFlight(n, r) <= rCounted[n][r]
        BY <1>4, <2>2, <2>9, <3>1 DEF RuleBill
      <4> QED
        BY <1>1, <1>2, <4>1, <4>2
    <3>3. rBytes[n][r] + (-stake) \in Counter
      BY <1>1, <1>2, <3>2 DEF Counter
    <3>4. x = rBytes[n][r] + (-stake)
      BY <2>4, <2>9, <3>3, WrapIs
    <3> QED
      BY <1>1, <1>2, <3>2, <3>4
  <2>10. CASE n # snode \/ r # srule
    <3>1. RInFlight(n, r) = 0 /\ RInFlight(n, r)' = 0
      BY <2>2, <2>10 DEF RInFlight
    <3> QED
      BY <1>4, <1>u, <2>2, <2>8, <2>10, <3>1 DEF RuleBill, rHist
  <2> QED
    BY <2>9, <2>10
<1>14. CASE rules_mysql_export
  <2>1. snode \in Nodes /\ srule \in Rules /\ phase = "up" /\ spc = "rexp"
    BY <1>14 DEF rules_mysql_export, SyncCtl
  <2>2. UNCHANGED <<where, rBytes, rCounted, snode, srule>>
    BY <1>14 DEF rules_mysql_export, nodeVars, pickVars
  <2>3. CASE UNCHANGED <<rExported, stake>> /\ spc' \in {"rexp", "rrest"}
    BY <1>4, <2>1, <2>2, <2>3 DEF RuleBill, RInFlight
  <2>4. CASE RuleExported(snode, srule) /\ spc' = "rule"
    <3>1. RInFlight(n, r)' = 0
      BY <2>4 DEF RInFlight
    <3>2. rExported \in [Nodes -> [Rules -> Nat]] /\ rExported[snode][srule] + stake \in Nat
      <4>1. rExported \in [Nodes -> [Rules -> Nat]]
        BY <1>0 DEF HistType
      <4>2. rExported[snode][srule] \in Nat
        BY <2>1, <4>1
      <4> QED
        BY <1>2, <4>1, <4>2
    <3>3. rExported' = [rExported EXCEPT ![snode][srule] = rExported[snode][srule] + stake]
      BY <2>4 DEF RuleExported
    <3>4. /\ rExported'[snode][srule] = rExported[snode][srule] + stake
          /\ n # snode \/ r # srule => rExported'[n][r] = rExported[n][r]
      BY <2>1, <3>2, <3>3, CellType
    <3>5. rExported'[n][r] = rExported[n][r] + RInFlight(n, r)
      BY <1>1, <2>1, <3>4 DEF RInFlight
    <3> HIDE DEF RInFlight
    <3>6. SUFFICES ASSUME where[n] # "freed", rCounted[n][r] < Word
                   PROVE  rExported'[n][r] + rBytes[n][r] + 0 <= rCounted[n][r]
      BY <2>2, <2>4, <3>1 DEF RuleBill
    <3>7. rExported[n][r] + rBytes[n][r] + RInFlight(n, r) <= rCounted[n][r]
      BY <1>4, <3>6 DEF RuleBill
    <3> QED
      BY <1>1, <1>2, <1>3, <3>5, <3>7
  <2> QED
    BY <1>14, <2>3, <2>4 DEF rules_mysql_export, Sound
<1>15. CASE RuleRestore
  <2>1. snode \in Nodes /\ srule \in Rules
    BY <1>15 DEF RuleRestore, SyncCtl
  <2>2. UNCHANGED rHist /\ phase = "up" /\ spc = "rrest" /\ spc' = "rule"
    BY <1>15 DEF RuleRestore, SyncRest
  <2>3. PICK x : /\ x \in Outcomes(rBytes[snode][srule], sload, stake)
                 /\ rBytes' = [rBytes EXCEPT ![snode][srule] = x]
    BY <1>15 DEF RuleRestore
  <2>4. x = Wrap(rBytes[snode][srule] + stake)
    BY <2>3 DEF Outcomes, Sound
  <2>5. rBytes[snode][srule] \in Counter /\ rBytes \in [Nodes -> [Rules -> Counter]]
    BY <1>0, <2>1 DEF RuleType
  <2>6. rBytes[snode][srule] + stake \in Int
    BY <1>2, <2>5 DEF Counter
  <2>7. x \in Counter
    BY <2>4, <2>6, WrapType
  <2>8. /\ rBytes'[snode][srule] = x
        /\ n # snode \/ r # srule => rBytes'[n][r] = rBytes[n][r]
    BY <2>1, <2>3, <2>5, <2>7, CellType
  <2>9. RInFlight(n, r)' = 0
    BY <2>2 DEF RInFlight
  <2>10. CASE n = snode /\ r = srule
    <3>1. SUFFICES ASSUME where[n] # "freed", rCounted[n][r] < Word
                   PROVE  rExported[n][r] + x + 0 <= rCounted[n][r]
      BY <1>u, <2>2, <2>8, <2>9, <2>10 DEF RuleBill, rHist
    <3>2. RInFlight(n, r) = stake
      BY <2>2, <2>10 DEF RInFlight
    <3>3. rExported[n][r] + rBytes[n][r] + stake <= rCounted[n][r]
      BY <1>4, <3>1, <3>2 DEF RuleBill
    <3>4. rBytes[n][r] + stake \in Counter
      BY <1>1, <1>2, <3>1, <3>3 DEF Counter
    <3>5. x = rBytes[n][r] + stake
      BY <2>4, <2>10, <3>4, WrapIs
    <3> QED
      BY <1>1, <1>2, <3>3, <3>5
  <2>11. CASE n # snode \/ r # srule
    <3>1. RInFlight(n, r) = 0
      BY <2>2, <2>11 DEF RInFlight
    <3> QED
      BY <1>4, <1>u, <2>2, <2>8, <2>9, <2>11, <3>1 DEF RuleBill, rHist
  <2> QED
    BY <2>10, <2>11
<1>16. CASE AcctStore
  <2>1. cnode \in Nodes /\ crule \in Rules /\ phase = "up"
    BY <1>16 DEF AcctStore, CollCtl
  <2>2. UNCHANGED <<where, rExported, spc, snode, srule, stake>>
    BY <1>16 DEF AcctStore, CollectorRest, nodeVars, pickVars, takeVars
  <2>3. PICK x : /\ x \in Outcomes(rBytes[cnode][crule], cload[1], 1)
                 /\ rBytes' = [rBytes EXCEPT ![cnode][crule] = x]
    BY <1>16 DEF AcctStore
  <2>4. x = Wrap(rBytes[cnode][crule] + 1)
    BY <2>3 DEF Outcomes, Sound
  <2>5. rBytes[cnode][crule] \in Counter /\ rBytes \in [Nodes -> [Rules -> Counter]]
    BY <1>0, <2>1 DEF RuleType
  <2>6. rBytes[cnode][crule] + 1 \in Int
    BY <2>5 DEF Counter
  <2>7. x \in Counter
    BY <2>4, <2>6, WrapType
  <2>8. /\ rBytes'[cnode][crule] = x
        /\ n # cnode \/ r # crule => rBytes'[n][r] = rBytes[n][r]
    BY <2>1, <2>3, <2>5, <2>7, CellType
  <2>9. rCounted \in [Nodes -> [Rules -> Nat]] /\ rCounted[cnode][crule] + 1 \in Nat
    <3>1. rCounted \in [Nodes -> [Rules -> Nat]]
      BY <1>0 DEF HistType
    <3>2. rCounted[cnode][crule] \in Nat
      BY <2>1, <3>1
    <3> QED
      BY <3>1, <3>2
  <2>10. rCounted' = [rCounted EXCEPT ![cnode][crule] = rCounted[cnode][crule] + 1]
    BY <1>16 DEF AcctStore
  <2>11. /\ rCounted'[cnode][crule] = rCounted[cnode][crule] + 1
         /\ n # cnode \/ r # crule => rCounted'[n][r] = rCounted[n][r]
    BY <2>1, <2>9, <2>10, CellType
  <2>12. RInFlight(n, r)' = RInFlight(n, r)
    BY <2>2 DEF RInFlight
  <2> HIDE DEF RInFlight
  <2>13. CASE n = cnode /\ r = crule
    <3>1. SUFFICES ASSUME where[n] # "freed", rCounted[n][r] + 1 < Word
                   PROVE  /\ rExported[n][r] + x + RInFlight(n, r) <= rCounted[n][r] + 1
                          /\ spc = "rsub" /\ snode = n /\ srule = r => stake <= x
      BY <1>u, <2>2, <2>8, <2>11, <2>12, <2>13 DEF RuleBill
    <3>2. /\ rExported[n][r] + rBytes[n][r] + RInFlight(n, r) <= rCounted[n][r]
          /\ spc = "rsub" /\ snode = n /\ srule = r => stake <= rBytes[n][r]
      <4>1. rCounted[n][r] < Word
        BY <1>1, <1>2, <3>1
      <4> QED
        BY <1>4, <3>1, <4>1 DEF RuleBill
    <3>3. rBytes[n][r] + 1 \in Counter
      BY <1>1, <1>2, <1>3, <3>1, <3>2 DEF Counter
    <3>4. x = rBytes[n][r] + 1
      BY <2>4, <2>13, <3>3, WrapIs
    <3> QED
      BY <1>1, <1>2, <1>3, <3>2, <3>4
  <2>14. CASE n # cnode \/ r # crule
    BY <1>5, <2>2, <2>8, <2>11, <2>14
  <2> QED
    BY <2>13, <2>14
<1>17. CASE users_free
  <2>1. UNCHANGED <<rBytes, rCounted, spc, snode, srule, stake>>
    BY <1>17 DEF users_free, pickVars, takeVars
  <2>2. where'[n] = "freed" \/ (where'[n] = where[n] /\ n \notin Allocated)
    BY <1>17 DEF users_free, Allocated
  <2>3. CASE where'[n] = "freed"
    BY <2>3 DEF RuleBill
  <2>4. CASE where'[n] = where[n] /\ n \notin Allocated
    <3>1. ASSUME NEW ok \in SUBSET Dirty
          PROVE  <<n, r>> \notin ok
      BY <2>4, <3>1 DEF Dirty
    <3>2. rExported'[n][r] = rExported[n][r]
      BY <1>17, <3>1 DEF users_free
    <3> QED
      BY <1>5, <2>1, <2>4, <3>2
  <2> QED
    BY <2>2, <2>3, <2>4
<1>18. CASE KillRestart
  <2>1. rExported'[n][r] = 0 /\ rBytes'[n][r] = 0 /\ rCounted'[n][r] = 0
        /\ spc' = "idle"
    BY <1>18 DEF KillRestart, ZeroR
  <2>2. RInFlight(n, r)' = 0
    BY <2>1 DEF RInFlight
  <2> QED
    BY <2>1, <2>2 DEF RuleBill
<1>19. CASE Passing
  BY <1>5, <1>19 DEF Passing, rHist, pickVars, takeVars
<1> QED
  BY <1>7, <1>8, <1>9, <1>10, <1>11, <1>12, <1>13, <1>14, <1>15, <1>16, <1>17, <1>18, <1>19
     DEF Next, Collector, Sync
---------------------------------------------------------------------------
(* The inductive invariant and what follows from it.                       *)

\* The inductive invariant holds when the daemon starts.
LEMMA NodeInit == Init => NodeInv
<1> SUFFICES ASSUME Init PROVE NodeInv
  OBVIOUS
<1>1. DbType
  BY DEF Init, DbType
<1>2. NodeType
  BY ZeroCounter DEF Init, NodeType, Zero, Late
<1>3. RuleType
  BY ZeroCounter DEF Init, RuleType, ZeroR, Old
<1>4. CollType /\ cstale \in BOOLEAN
  BY ZeroCounter DEF Init, CollType
<1>5. SyncType
  BY ZeroCounter DEF Init, SyncType, Exporting
<1>6. HistType
  BY DEF Init, HistType, Zero, ZeroR
<1>7. TypeOK
  BY <1>1, <1>2, <1>3, <1>4, <1>5, <1>6, Parts
<1>8. CollCtl /\ SyncCtl
  BY DEF Init, CollCtl, SyncCtl, RowSide, UserSide, Exporting
<1>9. OwnerInv /\ OneInv /\ SeenInv
  BY DEF Init, OwnerInv, OneInv, SeenInv
<1>10. ASSUME NEW n \in Nodes, NEW r \in Rules
       PROVE  rExported[n][r] = 0 /\ rBytes[n][r] = 0 /\ rCounted[n][r] = 0
  BY DEF Init, ZeroR
<1>11. RuleBytes
  <2>1. spc = "idle"
    BY DEF Init
  <2> QED
    BY <1>10, <2>1 DEF RuleBytes, RuleBill, RInFlight
<1> QED
  BY <1>7, <1>8, <1>9, <1>11 DEF NodeInv

\* Every step keeps the inductive invariant.
LEMMA NodeNext == NodeInv /\ [Next]_vars => NodeInv'
<1> SUFFICES ASSUME NodeInv, [Next]_vars PROVE NodeInv'
  OBVIOUS
<1>1. /\ TypeOK /\ CollCtl /\ SyncCtl /\ OwnerInv /\ OneInv /\ SeenInv
      /\ Sound => RuleBytes
  BY DEF NodeInv
<1>2. DbType' /\ NodeType' /\ RuleType' /\ HistType'
  BY <1>1, Parts, DbStep, NodeTypeStep, RuleTypeStep, HistTypeStep
<1>3. CollType' /\ CollCtl' /\ (cstale \in BOOLEAN)'
  BY <1>1, CollStep
<1>4. SyncType' /\ SyncCtl'
  BY <1>1, SyncStep
<1>5. TypeOK'
  BY <1>2, <1>3, <1>4, Parts, PTL
<1>6. OwnerInv' /\ OneInv' /\ SeenInv'
  BY <1>1, OwnerStep
<1>7. Sound => RuleBytes'
  BY <1>1, RuleBytesStep
<1>8. Sound' <=> Sound
  BY DEF Sound
<1> QED
  BY <1>3, <1>4, <1>5, <1>6, <1>7, <1>8 DEF NodeInv

\* The inductive invariant holds throughout.
LEMMA NodeAlways == Spec => []NodeInv
  BY NodeInit, NodeNext, PTL DEF Spec

\* The table, the two threads at work on it and the history have their types
\* in every state: in particular no counter leaves IP_size, and no age passes
\* the mark at which users_mysql_delete drops a node.
THEOREM TableTypes == Spec => []TypeOK
<1>1. NodeInv => TypeOK
  BY DEF NodeInv
<1> QED
  BY <1>1, NodeAlways, PTL

\* users_mysql_delete moves the node of a row that this sync's select returned
\* to clean_list only when the loop over the rows went on for more than 90
\* seconds after it: every outcome of a row sets time_live, and no other step
\* of the sync or of anybody else makes it older.
THEOREM DroppedUnseen == Spec => DroppedOnlyIfUnseen
<1>1. ASSUME NodeInv, [Next]_vars, NEW n \in Nodes, where[n] = "users", where'[n] = "clean"
      PROVE  rows[nUser[n]] = 0 \/ nAge[n] = Late
  <2>0. NodeType /\ TypeOK /\ SyncCtl /\ OwnerInv /\ SeenInv
    BY <1>1, Parts DEF NodeInv
  <2>1. where' # where
    BY <1>1
  <2>2. CASE users_delete
    <3>1. spc = "row" /\ todo = {}
      BY <2>2 DEF users_delete
    <3>2. PICK m \in Stale : where' = [where EXCEPT ![m] = "clean"]
      BY <2>2 DEF users_delete
    <3>3. n = m
      BY <1>1, <2>0, <3>2 DEF NodeType
    <3>4. nAge[n] # 0
      BY <3>2, <3>3 DEF Stale, Old, Late
    <3> QED
      BY <1>1, <2>0, <3>1, <3>4 DEF SeenInv, RowSide
  <2>3. CASE SyncRow
    <3>1. PICK u \in todo : RowInsert(u) \/ RowFresh(u) \/ RowUpdate(u)
      BY <2>0, <2>3, RowFacts
    <3>2. where' = where \/ \E m \in Nodes : where' = [where EXCEPT ![m] = "users"]
      BY <3>1, AllocationFacts DEF RowInsert, users_mysql_insert, RowFresh, RowUpdate, nodeVars, Unused
    <3>3. where'[n] = "users"
      BY <1>1, <2>0, <3>2 DEF NodeType
    <3> QED
      BY <1>1, <3>3
  <2>4. CASE users_free
    BY <1>1, <2>4 DEF users_free, Allocated
  <2>5. CASE KillRestart
    BY <1>1, <2>5 DEF KillRestart
  <2>6. CASE UNCHANGED vars \/ Admin \/ (\E u \in Users : users_auth(u)) \/ Collector
             \/ users_sync \/ rules_sync_traffic \/ rules_clean \/ UpdateReread
             \/ rules_mysql_load \/ users_sync_traffic \/ UserTake \/ UserSub
             \/ users_mysql_export \/ UserRestore \/ RuleTake \/ RuleSub
             \/ rules_mysql_export \/ RuleRestore \/ Passing
    BY <2>1, <2>6 DEF Passing, vars, Admin, users_auth, Collector, AcctFind, AcctLoad, AcctStore,
         AcctFreed, CollectorRest, users_sync, rules_sync_traffic, rules_clean, UpdateReread,
         rules_mysql_load, users_sync_traffic, UserTake, UserSub, users_mysql_export,
         UserRestore, RuleTake, RuleSub, rules_mysql_export, RuleRestore, nodeVars
  <2> QED
    BY <1>1, <2>2, <2>3, <2>4, <2>5, <2>6 DEF Next, Sync
<1>2. NodeInv /\ [Next]_vars =>
        [\A n \in Nodes : where[n] = "users" /\ where'[n] = "clean"
                            => rows[nUser[n]] = 0 \/ nAge[n] = Late]_vars
  BY <1>1
<1> QED
  BY <1>2, NodeAlways, PTL DEF Spec, DroppedOnlyIfUnseen

\* No byte of a rule is exported twice, for any interleaving of the collector
\* with take, subtract, export and restore, any failing statement and any
\* reload of the rules, unless an update is torn, a reply is lost or the
\* 32-bit counter wraps.
THEOREM RuleNotOverbilled == Spec => []RuleNeverOverbilled
<1>1. NodeInv => RuleNeverOverbilled
  <2>1. CASE Sound
    <3> SUFFICES ASSUME NodeInv, NEW n \in Nodes, NEW r \in Rules, Live(n), rCounted[n][r] < Word
                 PROVE  rExported[n][r] + rBytes[n][r] + RInFlight(n, r) <= rCounted[n][r]
      BY DEF RuleNeverOverbilled
    <3> QED
      BY <2>1 DEF NodeInv, RuleBytes, RuleBill, Live
  <2>2. CASE ~Sound
    BY <2>2 DEF Sound, RuleNeverOverbilled
  <2> QED
    BY <2>1, <2>2
<1> QED
  BY <1>1, NodeAlways, PTL
===========================================================================
