------------------------- MODULE AggregationProofs -------------------------
(***************************************************************************)
(* TLAPS proofs about Aggregation, for any plugin, keys, attempts, packets *)
(* and failures: the bytes of the logs are kept, rows are not doubled, and *)
(* unload exports what it finds.                                           *)
(***************************************************************************)
EXTENDS Aggregation, TLAPS

Types ==
  /\ plugin \in Plugins /\ packets \in 0 .. MaxPackets[plugin]
  /\ phase \in {"down", "loading", "up", "sync", "clean", "stop"}
  /\ nodes \subseteq Nodes /\ ag \in [Nodes -> Nat]
  /\ epc \in [Exporters -> {"idle", "due", "open", "walk", "select", "write"}]
  /\ todo \in [Exporters -> SUBSET Nodes] /\ cur \in [Exporters -> Nodes \cup {None}]
  /\ held \in [Exporters -> [Nodes -> Nat]] /\ take \in [Exporters -> Nat]
  /\ seen \in [Exporters -> BOOLEAN]
  /\ cpc \in {"idle", "look", "add"} /\ key \in Nodes \cup {None}
  /\ ptr \in {"new", "tree", "freed"} \cup Exporters
  /\ temp \in [Nodes -> Nat] /\ log \in [Nodes -> Nat] /\ rows \in [Nodes -> Nat]
  /\ counted \in [Nodes -> Int] /\ since \in [Nodes -> Nat]

\* the pointer that the collector's thread has found: in the tree while the tree
\* has the node, of time never in an old tree
HookInv ==
  /\ cpc # "add" => ptr = "new"
  /\ cpc # "idle" => key \in Nodes /\ plugin # "squid" /\ phase \notin {"down", "loading"}
  /\ cpc = "add" /\ ptr = "new" => key \notin nodes
  /\ ptr = "tree" => key \in nodes
  /\ plugin = "time" => ptr \notin Exporters /\ (ptr = "freed" => null)

\* only the nodes of the aggregate have bytes, the records of squid have the
\* numbers of the packets, and an export of time is at a node of the tree
TreeInv ==
  /\ \A n \in Nodes : n \notin nodes => ag[n] = 0
  /\ plugin = "squid" => nodes \subseteq 1 .. packets
  /\ plugin = "time" /\ ~null =>
       \A e \in Exporters : todo[e] \subseteq nodes /\ cur[e] \in nodes \cup {None}

\* what an export holds: the node it is at and, of an old tree, the nodes left
Part(e) ==
  /\ cur[e] # None <=> epc[e] \in {"select", "write"}
  /\ ~Walking(e) => todo[e] = {}
  /\ \A n \in Nodes : n # cur[e] /\ (plugin = "time" \/ n \notin todo[e]) => held[e][n] = 0
  /\ epc[e] = "write" /\ plugin = "ip" => take[e] <= held[e][cur[e]]

\* the export of unload runs in its phase, the job once it is registered
Phases ==
  /\ epc["free"] # "idle" => phase = "sync"
  /\ phase \in {"down", "loading"} => ~reg /\ epc["job"] = "idle"

ExportInv == (\A e \in Exporters : Part(e)) /\ Phases

\* the rows that COUNT of time_export has found are there when it updates them
SeenInv ==
  plugin = "time" => \A e \in Exporters : epc[e] = "write" /\ seen[e] => rows[cur[e]] > 0

\* as long as no two exports overlap, a row that COUNT did not find is not there
\* when the export inserts it
RowInv ==
  plugin # "squid" /\ ~overlapped =>
    /\ \A e, f \in Exporters : Walking(e) /\ Walking(f) => e = f
    /\ \A e \in Exporters : epc[e] = "write" /\ ~seen[e] => rows[cur[e]] = 0
    /\ \A n \in Nodes : rows[n] <= 1

\* what the last export has behind it
Left == IF plugin = "time" THEN skipped \cup todo["free"] ELSE skipped

UnloadInv ==
  /\ flag_export => plugin # "time" /\ \E e \in Exporters : Walking(e)
  /\ calm => Unloading /\ ~reg /\ epc["job"] = "idle"
  /\ calm /\ (Walking("free") \/ phase = "clean") => \A n \in Nodes \ Left : ag[n] <= since[n]

IInv ==
  /\ Types /\ HookInv /\ TreeInv /\ ExportInv /\ SeenInv
  /\ LogBytesKept /\ RowInv /\ UnloadInv
---------------------------------------------------------------------------
(* Types.                                                                  *)

\* Nodes are numbers: the keys of time and ip, the packets of squid.
LEMMA NodeFacts ==
  /\ Nodes \subseteq Nat /\ None \notin Nodes /\ Keys \subseteq Nodes
  /\ \A p \in Plugins : 1 .. MaxPackets[p] \subseteq Nodes /\ MaxPackets[p] \in Nat
<1>1. \A p \in Plugins : MaxPackets[p] \in Nat
  BY AggregationAssumption
<1>2. Keys \subseteq Nodes /\ \A p \in Plugins : 1 .. MaxPackets[p] \subseteq Nodes
  BY DEF Nodes
<1>3. Nodes \subseteq Nat
  <2> SUFFICES ASSUME NEW n \in Nodes PROVE n \in Nat
    OBVIOUS
  <2>1. CASE n \in Keys
    BY <2>1, AggregationAssumption
  <2>2. CASE n \notin Keys
    <3>1. PICK p \in Plugins : n \in 1 .. MaxPackets[p]
      BY <2>2 DEF Nodes
    <3> QED
      BY <1>1, <3>1
  <2> QED
    BY <2>1, <2>2
<1> QED
  BY <1>1, <1>2, <1>3, AggregationAssumption

\* one node of what one export holds is set
LEMMA HeldSet ==
  ASSUME NEW h \in [Exporters -> [Nodes -> Nat]], NEW e \in Exporters, NEW n \in Nodes,
         NEW x \in Nat, NEW g, g = [h EXCEPT ![e][n] = x]
  PROVE  /\ g \in [Exporters -> [Nodes -> Nat]] /\ g[e][n] = x
         /\ \A f \in Exporters, m \in Nodes : f # e \/ m # n => g[f][m] = h[f][m]
<1>1. g = [h EXCEPT ![e] = [h[e] EXCEPT ![n] = x]]
  OBVIOUS
<1>2. [h[e] EXCEPT ![n] = x] \in [Nodes -> Nat]
  OBVIOUS
<1> QED
  BY <1>1, <1>2

\* the number of a record of squid
LEMMA NextRecord ==
  ASSUME Types, squid_acct
  PROVE  packets' = packets + 1 /\ packets' \in 1 .. MaxPackets[plugin] /\ packets' \in Nodes
<1>1. MaxPackets[plugin] \in Nat /\ packets \in 0 .. MaxPackets[plugin]
  BY NodeFacts DEF Types
<1>2. packets' = packets + 1 /\ packets < MaxPackets[plugin]
  BY DEF squid_acct
<1>3. packets' \in 1 .. MaxPackets[plugin]
  BY <1>1, <1>2
<1> QED
  BY <1>2, <1>3, NodeFacts DEF Types

\* an export that is at a node, and one in the old tree
LEMMA AtNode ==
  ASSUME Types, ExportInv, NEW e \in Exporters, epc[e] \in {"select", "write"}
  PROVE  cur[e] \in Nodes
  BY DEF Types, ExportInv, Part

\* Every variable is in its range at load.
LEMMA TypesInit == Init => Types
<1> SUFFICES ASSUME Init PROVE Types
  OBVIOUS
<1>1. packets \in 0 .. MaxPackets[plugin]
  BY NodeFacts DEF Init
<1> QED
  BY <1>1 DEF Init, Types, All, Zero

\* a process that has ended
LEMMA DownTypes ==
  ASSUME Types, Down, packets' \in 0 .. MaxPackets[plugin] PROVE Types'
  BY DEF Types, Down, AcctDone, All, Zero, dbVars

\* A step keeps the ranges; the pointer of the thread and the exports' positions bound what it writes.
LEMMA TypesStep == Types /\ HookInv /\ ExportInv /\ [Next]_vars => Types'
<1> SUFFICES ASSUME Types, HookInv, ExportInv, [Next]_vars PROVE Types'
  OBVIOUS
<1>z. Zero \in [Nodes -> Nat]
  BY DEF Zero
<1>1. CASE UNCHANGED vars
  BY <1>1 DEF vars, memVars, syncVars, hookVars, dbVars, histVars, Types
<1>2. ASSUME NEW n \in Nodes, acct(n) PROVE Types'
  <2>1. packets' \in 0 .. MaxPackets[plugin]
    BY <1>2, NodeFacts DEF acct, Types
  <2> QED
    BY <1>2, <2>1 DEF acct, memVars, syncVars, dbVars, histVars, Types
<1>3. CASE acct_lookup
  BY <1>3 DEF acct_lookup, memVars, syncVars, dbVars, histVars, Types
<1>4. CASE acct_insert
  <2>1. key \in Nodes /\ nodes' \subseteq Nodes /\ nodes \subseteq Nodes
    BY <1>4 DEF acct_insert, HookInv, Types
  <2>2. todo' \in [Exporters -> SUBSET Nodes]
    BY <1>4, <2>1 DEF acct_insert, Types
  <2>3. counted' \in [Nodes -> Int] /\ since' \in [Nodes -> Nat] /\ ag' \in [Nodes -> Nat]
    BY <1>4, <2>1 DEF acct_insert, Counts, Types
  <2> QED
    BY <1>4, <2>1, <2>2, <2>3 DEF acct_insert, AcctDone, dbVars, Types
<1>5. CASE acct_add
  <2>1. key \in Nodes
    BY <1>5 DEF acct_add, HookInv
  <2>2. held' \in [Exporters -> [Nodes -> Nat]]
    BY <1>5, <2>1 DEF acct_add, Types
  <2>3. counted' \in [Nodes -> Int] /\ since' \in [Nodes -> Nat] /\ ag' \in [Nodes -> Nat]
    BY <1>5, <2>1 DEF acct_add, Counts, Types
  <2> QED
    BY <1>5, <2>1, <2>2, <2>3 DEF acct_add, AcctDone, dbVars, Types
<1>6. CASE squid_acct
  <2>1. packets' \in Nodes /\ packets' \in 0 .. MaxPackets[plugin]
    BY <1>6, NextRecord
  <2>2. counted' \in [Nodes -> Int] /\ since' \in [Nodes -> Nat] /\ ag' \in [Nodes -> Nat]
    BY <1>6, <2>1 DEF squid_acct, Counts, Types
  <2> QED
    BY <1>6, <2>1, <2>2 DEF squid_acct, syncVars, hookVars, dbVars, Types
<1>7. ASSUME NEW e \in Exporters, SyncBegin(e) PROVE Types'
  BY <1>7 DEF SyncBegin, SyncRest, Return, Goto, dbVars, Types
<1>8. ASSUME NEW e \in Exporters, SyncOpen(e) PROVE Types'
  <2>1. held' \in [Exporters -> [Nodes -> Nat]]
    BY <1>8 DEF SyncOpen, Walked, Swapped, Types
  <2>2. todo' \in [Exporters -> SUBSET Nodes]
    BY <1>8 DEF SyncOpen, Walked, Swapped, Types
  <2> QED
    BY <1>8, <1>z, <2>1, <2>2 DEF SyncOpen, Walked, Swapped, SyncRest, Return, Goto, dbVars, Types
<1>9. ASSUME NEW e \in Exporters, NEW n \in Nodes, Traverse(e, n) PROVE Types'
  <2>1. held' \in [Exporters -> [Nodes -> Nat]] /\ ag' \in [Nodes -> Nat]
    <3>1. CASE plugin = "time"
      <4>1. /\ held' = [held EXCEPT ![e][n] = ag[n]] /\ ag' = [ag EXCEPT ![n] = 0]
            /\ ag[n] \in Nat /\ held \in [Exporters -> [Nodes -> Nat]]
            /\ ag \in [Nodes -> Nat]
        BY <1>9, <3>1 DEF Traverse, Types
      <4> QED
        BY <4>1, HeldSet
    <3>2. CASE plugin # "time"
      BY <1>9, <3>2 DEF Traverse, Types
    <3> QED
      BY <3>1, <3>2
  <2> QED
    BY <1>9, <2>1 DEF Traverse, First, Goto, SyncRest, dbVars, Types
<1>10. ASSUME NEW e \in Exporters, cur[e] \in Nodes, Failed(e, cur[e])
       PROVE  /\ held' \in [Exporters -> [Nodes -> Nat]] /\ ag' \in [Nodes -> Nat]
              /\ epc' \in [Exporters -> {"idle", "due", "open", "walk", "select", "write"}]
              /\ cur' \in [Exporters -> Nodes \cup {None}] /\ take' \in [Exporters -> Nat]
              /\ seen' \in [Exporters -> BOOLEAN]
  <2>1. held' \in [Exporters -> [Nodes -> Nat]]
    <3>1. held' = held \/ held' = [held EXCEPT ![e][cur[e]] = 0]
      BY <1>10 DEF Failed
    <3>2. held \in [Exporters -> [Nodes -> Nat]] /\ 0 \in Nat
      BY DEF Types
    <3> QED
      BY <1>10, <3>1, <3>2, HeldSet
  <2>2. ag' \in [Nodes -> Nat]
    <3>1. held[e][cur[e]] \in Nat /\ ag \in [Nodes -> Nat]
      BY <1>10 DEF Types
    <3>2. ag' = ag \/ ag' = [ag EXCEPT ![cur[e]] = @ + held[e][cur[e]]]
      BY <1>10 DEF Failed
    <3> QED
      BY <1>10, <3>1, <3>2
  <2>3. \/ NodeDone(e)
        \/ Goto(e, First) /\ UNCHANGED <<cur, take, seen>>
    BY <1>10 DEF Failed
  <2>4. epc' \in [Exporters -> {"idle", "due", "open", "walk", "select", "write"}]
    BY <2>3 DEF NodeDone, First, Goto, Types
  <2>5. cur' \in [Exporters -> Nodes \cup {None}]
    BY <2>3 DEF NodeDone, Types
  <2>6. take' \in [Exporters -> Nat]
    <3>1. take' = take \/ take' = [take EXCEPT ![e] = 0]
      BY <2>3 DEF NodeDone
    <3>2. take \in [Exporters -> Nat] /\ 0 \in Nat
      BY DEF Types
    <3> QED
      BY <3>1, <3>2
  <2>7. seen' \in [Exporters -> BOOLEAN]
    BY <2>3 DEF NodeDone, Types
  <2> QED
    BY <2>1, <2>2, <2>4, <2>5, <2>6, <2>7
<1>11. ASSUME NEW e \in Exporters, Select(e) PROVE Types'
  <2>1. cur[e] \in Nodes
    BY <1>11, AtNode DEF Select
  <2>2. CASE Failed(e, cur[e])
    BY <1>10, <1>11, <2>1, <2>2 DEF Select, SyncRest, dbVars, Types
  <2>3. CASE ~Failed(e, cur[e])
    <3>1. /\ seen' = [seen EXCEPT ![e] = rows[cur[e]] > 0]
          /\ take' = IF plugin = "ip" THEN [take EXCEPT ![e] = held[e][cur[e]]] ELSE take
      BY <1>11, <2>3 DEF Select
    <3>2. (rows[cur[e]] > 0) \in BOOLEAN /\ held[e][cur[e]] \in Nat
      BY <2>1 DEF Types
    <3>3. seen' \in [Exporters -> BOOLEAN]
      BY <3>1, <3>2 DEF Types
    <3>4. take' \in [Exporters -> Nat]
      BY <3>1, <3>2 DEF Types
    <3> QED
      BY <1>11, <2>3, <3>3, <3>4 DEF Select, Goto, SyncRest, dbVars, Types
  <2> QED
    BY <2>2, <2>3
<1>12. ASSUME NEW e \in Exporters, cur[e] \in Nodes, Stored(e)
       PROVE  /\ rows' \in [Nodes -> Nat] /\ temp' \in [Nodes -> Nat]
              /\ log' \in [Nodes -> Nat]
  <2>1. Amount(e) \in Nat /\ rows[cur[e]] \in Nat
    BY <1>12 DEF Amount, Types
  <2>2. Amount(e) * rows[cur[e]] \in Nat
    BY <2>1
  <2> DEFINE sum == IF plugin = "squid" \/ ~seen[e] THEN Amount(e) ELSE Amount(e) * rows[cur[e]]
  <2>3. sum \in Nat
    BY <2>1, <2>2
  <2>4. /\ rows' = rows \/ rows' = [rows EXCEPT ![cur[e]] = @ + 1]
        /\ temp' = temp \/ temp' = [temp EXCEPT ![cur[e]] = @ + sum]
        /\ log' = log \/ log' = [log EXCEPT ![cur[e]] = @ + sum]
    BY <1>12 DEF Stored
  <2> HIDE DEF sum
  <2>5. rows' \in [Nodes -> Nat]
    BY <1>12, <2>4 DEF Types
  <2>6. temp' \in [Nodes -> Nat]
    BY <1>12, <2>3, <2>4 DEF Types
  <2>7. log' \in [Nodes -> Nat]
    BY <1>12, <2>3, <2>4 DEF Types
  <2> QED
    BY <2>5, <2>6, <2>7
<1>13. ASSUME NEW e \in Exporters, Write(e) PROVE Types'
  <2>1. cur[e] \in Nodes
    BY <1>13, AtNode DEF Write
  <2>2. rows' \in [Nodes -> Nat] /\ temp' \in [Nodes -> Nat] /\ log' \in [Nodes -> Nat]
    BY <1>12, <1>13, <2>1 DEF Write, dbVars, Types
  <2>3. CASE Failed(e, cur[e])
    BY <1>10, <1>13, <2>1, <2>2, <2>3 DEF Write, SyncRest, Types
  <2>4. CASE ~Failed(e, cur[e])
    <3>1. /\ NodeDone(e) /\ held' = [held EXCEPT ![e][cur[e]] = 0]
          /\ UNCHANGED <<ag, phase, nodes, flag_export, todo, ptr, counted>> /\ SyncRest
      BY <1>13, <2>4 DEF Write
    <3>2. held' \in [Exporters -> [Nodes -> Nat]]
      BY <2>1, <3>1, HeldSet DEF Types
    <3> QED
      BY <2>2, <3>1, <3>2 DEF NodeDone, Goto, SyncRest, Types
  <2> QED
    BY <2>3, <2>4
<1>14. ASSUME NEW e \in Exporters, SyncEnd(e) PROVE Types'
  BY <1>14 DEF SyncEnd, Cleaned, SyncRest, Return, Goto, dbVars, Types
<1>15. CASE time_group \/ Midnight
  BY <1>15, <1>z DEF time_group, Grouped, Midnight, memVars, syncVars, hookVars, histVars, Types
<1>16. CASE Start \/ Loaded \/ Clean
  BY <1>16, <1>z DEF Start, Loaded, Clean, memVars, syncVars, hookVars, dbVars, histVars, Types
<1>17. CASE Unload
  BY <1>17 DEF Unload, Goto, memVars, hookVars, dbVars, Types
<1>18. CASE UnloadNothing \/ Stop \/ Crash \/ EarlyPacket
  <2>1. Down
    BY <1>18 DEF UnloadNothing, Stop, Crash, EarlyPacket
  <2>2. packets' \in 0 .. MaxPackets[plugin]
    BY <1>18, NodeFacts DEF UnloadNothing, Stop, Crash, EarlyPacket, Types
  <2> QED
    BY <2>1, <2>2, DownTypes
<1> QED
  BY <1>1, <1>2, <1>3, <1>4, <1>5, <1>6, <1>7, <1>8, <1>9, <1>11, <1>13, <1>14, <1>15, <1>16,
     <1>17, <1>18 DEF Next, Export, Finish
---------------------------------------------------------------------------
(* The collector's thread, the tree and the exports.                       *)

\* what the steps of an export leave alone, and how the export of a node ends
LEMMA NodeEnd ==
  ASSUME Types, ExportInv, NEW e \in Exporters, Select(e) \/ Write(e)
  PROVE  /\ UNCHANGED <<plugin, phase, reg, null, nodes, flag_export, todo, cpc, key, ptr,
                        packets, counted, since, overlapped, skipped>>
         /\ cur[e] \in Nodes
         /\ \/ Failed(e, cur[e])
            \/ /\ NodeDone(e) /\ held' = [held EXCEPT ![e][cur[e]] = 0] /\ ag' = ag
               /\ epc[e] = "write"
            \/ /\ Goto(e, "write") /\ UNCHANGED <<cur, held, left, ag, rows, temp, log>>
               /\ seen' = [seen EXCEPT ![e] = rows[cur[e]] > 0]
               /\ take' = IF plugin = "ip" THEN [take EXCEPT ![e] = held[e][cur[e]]] ELSE take
               /\ holed' = holed /\ doubled' = doubled
<1>1. CASE Select(e)
  BY <1>1, AtNode DEF Select, SyncRest, dbVars
<1>2. CASE Write(e)
  BY <1>2, AtNode DEF Write, SyncRest
<1> QED
  BY <1>1, <1>2

\* the node is over, or it is tried again
LEMMA FailedEnd ==
  ASSUME Types, NEW e \in Exporters, NEW n \in Nodes, Failed(e, n)
  PROVE  \/ NodeDone(e) /\ held' = [held EXCEPT ![e][n] = 0]
         \/ Goto(e, First) /\ UNCHANGED <<cur, held, take, seen>> /\ plugin # "time"
  BY DEF Failed

\* Where the collector's thread is, and which plugins it can be there for, stays consistent.
LEMMA HookStep == Types /\ HookInv /\ ExportInv /\ [Next]_vars => HookInv'
<1> SUFFICES ASSUME Types, HookInv, ExportInv, [Next]_vars PROVE HookInv'
  OBVIOUS
<1>e. "new" \notin Exporters /\ "tree" \notin Exporters /\ "freed" \notin Exporters
  BY DEF Exporters
<1>1. CASE UNCHANGED <<plugin, phase, null, nodes, cpc, key, ptr>>
  BY <1>1 DEF HookInv
<1>2. ASSUME NEW n \in Nodes, acct(n) PROVE HookInv'
  BY <1>2, <1>e DEF acct, Unloading, memVars, HookInv
<1>3. CASE acct_lookup
  BY <1>3, <1>e DEF acct_lookup, memVars, HookInv
<1>4. CASE acct_insert \/ acct_add \/ UnloadNothing \/ Stop \/ Crash \/ EarlyPacket
  <2>1. AcctDone
    BY <1>4 DEF acct_insert, acct_add, UnloadNothing, Stop, Crash, EarlyPacket, Down
  <2> QED
    BY <1>e, <2>1 DEF AcctDone, HookInv
<1>5. CASE squid_acct
  BY <1>5 DEF squid_acct, hookVars, HookInv
<1>6. ASSUME NEW e \in Exporters, SyncBegin(e) PROVE HookInv'
  BY <1>6 DEF SyncBegin, SyncRest, Return, HookInv
<1>7. ASSUME NEW e \in Exporters, SyncOpen(e) PROVE HookInv'
  <2>1. CASE ptr' = ptr /\ nodes' = nodes
    BY <1>7, <2>1 DEF SyncOpen, SyncRest, Return, HookInv
  <2>2. CASE plugin # "time" /\ Swapped(e) /\ phase' = phase
    BY <1>7, <1>e, <2>2 DEF SyncOpen, Swapped, SyncRest, HookInv
  <2> QED
    BY <1>7, <2>1, <2>2 DEF SyncOpen, Walked
<1>8. ASSUME NEW e \in Exporters, NEW n \in Nodes, Traverse(e, n) PROVE HookInv'
  BY <1>1, <1>8 DEF Traverse, SyncRest
<1>9. ASSUME NEW e \in Exporters, Select(e) \/ Write(e) PROVE HookInv'
  BY <1>1, <1>9, NodeEnd
<1>10. ASSUME NEW e \in Exporters, SyncEnd(e) PROVE HookInv'
  <2>1. /\ UNCHANGED <<plugin, null, nodes, cpc, key>> /\ phase' \in {phase, "clean"}
        /\ ptr' = ptr \/ (plugin # "time" /\ ptr = e /\ ptr' = "freed")
    BY <1>10 DEF SyncEnd, Cleaned, SyncRest, Return
  <2> QED
    BY <1>e, <2>1 DEF HookInv
<1>11. CASE time_group \/ Midnight
  BY <1>1, <1>11 DEF time_group, Midnight, memVars, hookVars
<1>12. CASE Start \/ Loaded
  <2>1. cpc = "idle" /\ cpc' = "idle" /\ ptr' = ptr
    BY <1>12 DEF Start, Loaded, hookVars, HookInv, Types
  <2> QED
    BY <1>e, <2>1 DEF HookInv
<1>13. CASE Clean
  BY <1>13, <1>e DEF Clean, HookInv
<1>14. CASE Unload
  BY <1>14 DEF Unload, memVars, hookVars, HookInv
<1>15. CASE UNCHANGED vars
  BY <1>1, <1>15 DEF vars, memVars, hookVars
<1> QED
  BY <1>2, <1>3, <1>4, <1>5, <1>6, <1>7, <1>8, <1>9, <1>10, <1>11, <1>12, <1>13, <1>14, <1>15
     DEF Next, Export, Finish

\* A node outside the tree keeps no bytes in the aggregate.
LEMMA TreeStep == Types /\ HookInv /\ ExportInv /\ TreeInv /\ [Next]_vars => TreeInv'
<1> SUFFICES ASSUME Types, HookInv, ExportInv, TreeInv, [Next]_vars PROVE TreeInv'
  OBVIOUS
<1>1. CASE UNCHANGED <<plugin, packets, null, nodes, ag, todo, cur>>
  BY <1>1 DEF TreeInv
<1>2. ASSUME NEW n \in Nodes, acct(n) PROVE TreeInv'
  BY <1>2 DEF acct, memVars, syncVars, TreeInv
<1>3. CASE acct_insert
  <2>1. /\ key \in Nodes /\ plugin # "squid" /\ plugin' = plugin /\ null' = null /\ cur' = cur
        /\ nodes' = nodes \cup {key} /\ ag' = [ag EXCEPT ![key] = 1]
    BY <1>3 DEF acct_insert, HookInv
  <2>2. plugin = "time" => \A e \in Exporters : todo'[e] \subseteq nodes'
    BY <1>3 DEF acct_insert
  <2>3. \A n \in Nodes : n \notin nodes' => ag'[n] = 0
    BY <2>1 DEF TreeInv, Types
  <2> QED
    BY <2>1, <2>2, <2>3 DEF TreeInv
<1>4. CASE acct_add
  <2>1. /\ key \in Nodes /\ ptr = "tree" => key \in nodes
        /\ UNCHANGED <<plugin, packets, null, nodes, todo, cur>>
        /\ ag' = IF ptr = "tree" THEN [ag EXCEPT ![key] = @ + 1] ELSE ag
    BY <1>4 DEF acct_add, HookInv
  <2>2. \A n \in Nodes : n \notin nodes => ag'[n] = 0
    BY <2>1 DEF TreeInv, Types
  <2> QED
    BY <2>1, <2>2 DEF TreeInv
<1>5. CASE squid_acct
  <2>1. packets' = packets + 1 /\ packets \in Nat /\ packets' \in Nodes
    BY <1>5, NextRecord DEF Types
  <2>2. /\ plugin = "squid" /\ plugin' = plugin /\ nodes' = nodes \cup {packets'}
        /\ ag' = [ag EXCEPT ![packets'] = 1]
    BY <1>5 DEF squid_acct
  <2>3. nodes' \subseteq 1 .. packets'
    BY <2>1, <2>2 DEF TreeInv
  <2>4. \A n \in Nodes : n \notin nodes' => ag'[n] = 0
    BY <2>1, <2>2 DEF TreeInv, Types
  <2> QED
    BY <2>2, <2>3, <2>4 DEF TreeInv
<1>6. ASSUME NEW e \in Exporters, SyncBegin(e) PROVE TreeInv'
  BY <1>1, <1>6 DEF SyncBegin, SyncRest
<1>7. ASSUME NEW e \in Exporters, SyncOpen(e) PROVE TreeInv'
  <2>1. CASE plugin = "time" /\ Walked(e)
    BY <1>7, <2>1 DEF SyncOpen, Walked, SyncRest, TreeInv, Types
  <2>2. CASE plugin # "time" /\ Swapped(e)
    BY <1>7, <2>2 DEF SyncOpen, Swapped, SyncRest, TreeInv, Zero
  <2>3. CASE UNCHANGED <<nodes, ag, todo>>
    BY <1>1, <1>7, <2>3 DEF SyncOpen, SyncRest
  <2> QED
    BY <1>7, <2>1, <2>2, <2>3 DEF SyncOpen
<1>8. ASSUME NEW e \in Exporters, NEW n \in Nodes, Traverse(e, n) PROVE TreeInv'
  BY <1>8 DEF Traverse, SyncRest, TreeInv, Types
<1>9. ASSUME NEW e \in Exporters, Select(e) \/ Write(e) PROVE TreeInv'
  <2>1. UNCHANGED <<plugin, null, nodes, todo, packets>> /\ cur[e] \in Nodes
    BY <1>9, NodeEnd
  <2>2. cur' = cur \/ cur' = [cur EXCEPT ![e] = None]
    BY <1>9, NodeEnd, FailedEnd DEF NodeDone
  <2>3. \/ ag' = ag
        \/ /\ plugin = "time" /\ ~null /\ ag' = [ag EXCEPT ![cur[e]] = @ + held[e][cur[e]]]
    BY <1>9 DEF Select, Write, Failed
  <2>4. plugin = "time" /\ ~null => cur[e] \in nodes
    BY <2>1, NodeFacts DEF TreeInv
  <2>5. \A n \in Nodes : n \notin nodes => ag'[n] = 0
    BY <2>1, <2>3, <2>4 DEF TreeInv, Types
  <2>6. \A f \in Exporters : cur'[f] \in {cur[f], None}
    BY <2>2 DEF Types
  <2> QED
    BY <2>1, <2>5, <2>6 DEF TreeInv
<1>10. ASSUME NEW e \in Exporters, SyncEnd(e) PROVE TreeInv'
  BY <1>1, <1>10 DEF SyncEnd, SyncRest
<1>11. CASE time_group \/ Midnight \/ Start \/ acct_lookup \/ UNCHANGED vars
  BY <1>1, <1>11 DEF time_group, Midnight, Start, acct_lookup, vars, memVars, syncVars
<1>12. CASE Loaded
  <2>1. \A e \in Exporters : todo[e] = {} /\ cur[e] = None
    BY <1>12 DEF Loaded, ExportInv, Part, Phases, Walking, Types, Exporters
  <2> QED
    BY <1>12, <2>1 DEF Loaded, syncVars, TreeInv, Zero
<1>13. CASE Clean
  BY <1>13 DEF Clean, syncVars, TreeInv, Zero
<1>14. CASE Unload
  BY <1>1, <1>14 DEF Unload, memVars
<1>15. CASE UnloadNothing \/ Stop \/ Crash \/ EarlyPacket
  <2>1. Down
    BY <1>15 DEF UnloadNothing, Stop, Crash, EarlyPacket
  <2>2. \A e \in Exporters : todo'[e] = {} /\ cur'[e] = None
    BY <2>1 DEF Down, All
  <2>3. nodes' = {} /\ \A n \in Nodes : ag'[n] = 0
    BY <2>1 DEF Down, Zero
  <2> QED
    BY <2>2, <2>3 DEF TreeInv
<1> QED
  BY <1>2, <1>3, <1>4, <1>5, <1>6, <1>7, <1>8, <1>9, <1>10, <1>11, <1>12, <1>13, <1>14, <1>15
     DEF Next, Export, Finish

\* An export goes on holding bytes only of the nodes it has still to write and of the one it is at.
LEMMA ExportStep == Types /\ HookInv /\ TreeInv /\ ExportInv /\ [Next]_vars => ExportInv'
<1> SUFFICES ASSUME Types, HookInv, TreeInv, ExportInv, [Next]_vars PROVE ExportInv'
  OBVIOUS
<1>p. (\A e \in Exporters : Part(e)) /\ Phases
  BY DEF ExportInv
<1>q. ASSUME \A e \in Exporters : Part(e)', Phases' PROVE ExportInv'
  BY <1>q DEF ExportInv
<1>x. /\ "job" \in Exporters /\ "free" \in Exporters /\ "job" # "free"
      /\ \A e \in Exporters : e \in {"job", "free"}
  BY DEF Exporters
<1>y. /\ epc \in [Exporters -> {"idle", "due", "open", "walk", "select", "write"}]
      /\ todo \in [Exporters -> SUBSET Nodes] /\ cur \in [Exporters -> Nodes \cup {None}]
      /\ held \in [Exporters -> [Nodes -> Nat]] /\ take \in [Exporters -> Nat]
      /\ ag \in [Nodes -> Nat] /\ None \notin Nodes
  BY NodeFacts DEF Types
<1>1. CASE UNCHANGED <<plugin, phase, reg, epc, todo, cur, held, take>>
  BY <1>1 DEF ExportInv, Part, Phases, Walking
<1>2. CASE acct_insert
  <2>1. UNCHANGED <<plugin, phase, reg, epc, cur, held, take>>
    BY <1>2 DEF acct_insert
  <2>2. \/ todo' = todo
        \/ plugin = "time" /\ \A e \in Exporters : ~Walking(e) => todo'[e] = todo[e]
    BY <1>2 DEF acct_insert
  <2>3. \A e \in Exporters : Part(e)'
    BY <1>p, <2>1, <2>2 DEF Part, Walking
  <2> QED
    BY <1>p, <1>q, <2>1, <2>3 DEF Phases
<1>3. CASE acct_add
  <2>1. UNCHANGED <<plugin, phase, reg, epc, cur, todo, take>> /\ key \in Nodes
    BY <1>3 DEF acct_add, HookInv
  <2>2. CASE held' = held
    BY <1>1, <2>1, <2>2
  <2>3. ASSUME NEW e \in Exporters, ptr = e, key \in todo[e] \/ key = cur[e],
               held' = [held EXCEPT ![e][key] = @ + 1]
        PROVE  ExportInv'
    <3>1. held[e][key] + 1 \in Nat /\ held' = [held EXCEPT ![e][key] = held[e][key] + 1]
      BY <1>y, <2>1, <2>3
    <3>2. /\ held'[e][key] = held[e][key] + 1
          /\ \A f \in Exporters, m \in Nodes : f # e \/ m # key => held'[f][m] = held[f][m]
      BY <1>y, <2>1, <3>1, HeldSet
    <3>3. plugin # "time"
      BY <2>3 DEF HookInv
    <3>4. ASSUME NEW f \in Exporters PROVE Part(f)'
      <4>1. \A n \in Nodes : n # cur[f] /\ n \notin todo[f] => held'[f][n] = 0
        BY <1>p, <2>3, <3>2, <3>3 DEF Part
      <4>2. epc[f] = "write" /\ plugin = "ip" => take[f] <= held'[f][cur[f]]
        BY <1>p, <1>y, <2>1, <3>2, <3>1 DEF Part
      <4> QED
        BY <1>p, <2>1, <3>3, <4>1, <4>2 DEF Part, Walking
    <3> QED
      BY <1>p, <1>q, <2>1, <3>4 DEF Phases
  <2> QED
    BY <1>3, <2>2, <2>3 DEF acct_add
<1>4. ASSUME NEW e \in Exporters, SyncBegin(e) PROVE ExportInv'
  <2>1. UNCHANGED <<plugin, reg, cur, held, todo, take>> /\ epc[e] \in {"idle", "due"}
    BY <1>4 DEF SyncBegin, SyncRest
  <2>2. \/ Goto(e, "open") /\ phase' = phase
        \/ Goto(e, "idle") /\ phase' = IF e = "free" THEN "clean" ELSE phase
    BY <1>4 DEF SyncBegin, Return
  <2>3. e = "job" => reg
    BY <1>4 DEF SyncBegin
  <2>4. \A f \in Exporters : Part(f)'
    BY <1>p, <1>y, <2>1, <2>2 DEF Part, Goto, Walking
  <2>5. Phases'
    BY <1>p, <1>x, <1>y, <2>1, <2>2, <2>3, <1>4 DEF Phases, Goto, SyncBegin
  <2> QED
    BY <1>q, <2>4, <2>5
<1>5. ASSUME NEW e \in Exporters, SyncOpen(e) PROVE ExportInv'
  <2>1. UNCHANGED <<plugin, reg, cur, take>> /\ epc[e] = "open" /\ todo[e] = {} /\ cur[e] = None
    BY <1>5, <1>p DEF SyncOpen, SyncRest, Part, Walking
  <2>2. Phases'
    <3>1. \/ Goto(e, "walk") /\ phase' = phase
          \/ Goto(e, "idle") /\ phase' = IF e = "free" THEN "clean" ELSE phase
      BY <1>5 DEF SyncOpen, Return
    <3> QED
      BY <1>p, <1>x, <1>y, <2>1, <3>1 DEF Phases, Goto
  <2>3. ASSUME NEW f \in Exporters PROVE Part(f)'
    <3>1. CASE plugin = "time" /\ Walked(e) /\ Goto(e, "walk")
      BY <1>p, <1>y, <2>1, <3>1 DEF Part, Walked, Goto, Walking
    <3>2. CASE plugin # "time" /\ Swapped(e) /\ Goto(e, "walk")
      <4>1. CASE f # e
        BY <1>p, <1>y, <2>1, <3>2, <4>1 DEF Part, Swapped, Goto, Walking
      <4>2. CASE f = e
        <5>1. held'[e] = ag /\ todo'[e] = nodes /\ epc'[e] = "walk"
          BY <1>y, <3>2 DEF Swapped, Goto
        <5>2. \A n \in Nodes : n \notin nodes => held'[e][n] = 0
          BY <5>1 DEF TreeInv
        <5>3. plugin' # "time" /\ cur'[e] = None
          BY <2>1, <3>2
        <5> QED
          BY <4>2, <5>1, <5>2, <5>3 DEF Part, Walking
      <4> QED
        BY <4>1, <4>2
    <3>3. CASE UNCHANGED <<held, todo>> /\ Goto(e, "idle")
      BY <1>p, <1>y, <2>1, <3>3 DEF Part, Goto, Walking
    <3> QED
      BY <1>5, <3>1, <3>2, <3>3 DEF SyncOpen, Return
  <2> QED
    BY <1>q, <2>2, <2>3
<1>6. ASSUME NEW e \in Exporters, NEW n \in Nodes, Traverse(e, n) PROVE ExportInv'
  <2>1. /\ UNCHANGED <<plugin, reg, phase, take>> /\ epc[e] = "walk" /\ cur[e] = None
        /\ n \in todo[e] /\ n # None
        /\ todo' = [todo EXCEPT ![e] = @ \ {n}] /\ cur' = [cur EXCEPT ![e] = n]
    BY <1>6, <1>p, <1>y DEF Traverse, SyncRest, Part
  <2>2. Goto(e, First) /\ First \in {"select", "write"} /\ (First = "write" => plugin = "squid")
    BY <1>6 DEF Traverse, First
  <2>3. \A f \in Exporters, m \in Nodes : f # e \/ m # n => held'[f][m] = held[f][m]
    <3>1. CASE plugin = "time"
      <4>1. held' = [held EXCEPT ![e][n] = ag[n]] /\ ag[n] \in Nat
        BY <1>6, <1>y, <3>1 DEF Traverse
      <4> QED
        BY <1>y, <4>1, HeldSet
    <3>2. CASE plugin # "time"
      BY <1>6, <3>2 DEF Traverse
    <3> QED
      BY <3>1, <3>2
  <2>4. ASSUME NEW f \in Exporters PROVE Part(f)'
    <3>1. CASE f # e
      <4>1. epc'[f] = epc[f] /\ todo'[f] = todo[f] /\ cur'[f] = cur[f] /\ take'[f] = take[f]
        BY <1>y, <2>1, <2>2, <3>1 DEF Goto
      <4>2. \A m \in Nodes : held'[f][m] = held[f][m]
        BY <2>3, <3>1
      <4>3. epc[f] = "write" => cur[f] \in Nodes
        BY <1>p, <1>y DEF Part
      <4> QED
        BY <1>p, <2>1, <4>1, <4>2, <4>3 DEF Part, Walking
    <3>2. CASE f = e
      <4>1. epc'[e] = First /\ todo'[e] = todo[e] \ {n} /\ cur'[e] = n
        BY <1>y, <2>1, <2>2 DEF Goto
      <4>2. \A m \in Nodes : m # n /\ (plugin = "time" \/ m \notin todo[e]) => held'[e][m] = 0
        BY <1>p, <1>y, <2>1, <2>3 DEF Part
      <4> QED
        BY <2>1, <2>2, <3>2, <4>1, <4>2 DEF Part, Walking
    <3> QED
      BY <3>1, <3>2
  <2>5. Phases'
    BY <1>p, <1>x, <1>y, <2>1, <2>2 DEF Phases, Goto
  <2> QED
    BY <1>q, <2>4, <2>5
<1>7. ASSUME NEW e \in Exporters, Select(e) \/ Write(e) PROVE ExportInv'
  <2> DEFINE n == cur[e]
  <2>1. /\ UNCHANGED <<plugin, phase, reg, todo>> /\ n \in Nodes
        /\ epc[e] \in {"select", "write"}
    BY <1>7, NodeEnd DEF Select, Write
  <2>2. \/ NodeDone(e) /\ held' = [held EXCEPT ![e][n] = 0]
        \/ Goto(e, First) /\ UNCHANGED <<cur, held, take>>
        \/ /\ Goto(e, "write") /\ UNCHANGED <<cur, held>>
           /\ take' = IF plugin = "ip" THEN [take EXCEPT ![e] = held[e][n]] ELSE take
    BY <1>7, <2>1, NodeEnd, FailedEnd
  <2> HIDE DEF n
  <2>3. \A f \in Exporters, m \in Nodes : f # e \/ m # n => held'[f][m] = held[f][m]
    <3>1. CASE held' = held
      BY <3>1
    <3>2. CASE held' = [held EXCEPT ![e][n] = 0]
      BY <1>y, <2>1, <3>2, HeldSet
    <3> QED
      BY <2>2, <3>1, <3>2
  <2>4. First \in {"select", "write"} /\ (First = "write" => plugin = "squid")
    BY DEF First
  <2>5. ASSUME NEW f \in Exporters PROVE Part(f)'
    <3>1. CASE f # e
      <4>1. epc'[f] = epc[f] /\ todo'[f] = todo[f] /\ cur'[f] = cur[f] /\ take'[f] = take[f]
        BY <1>y, <2>1, <2>2, <3>1 DEF Goto, NodeDone
      <4>2. \A m \in Nodes : held'[f][m] = held[f][m]
        BY <2>3, <3>1
      <4>3. epc[f] = "write" => cur[f] \in Nodes
        BY <1>p, <1>y DEF Part
      <4> QED
        BY <1>p, <2>1, <4>1, <4>2, <4>3 DEF Part, Walking
    <3>2. CASE f = e
      <4>1. CASE NodeDone(e) /\ held' = [held EXCEPT ![e][n] = 0]
        <5>1. cur'[e] = None /\ epc'[e] = "walk" /\ held'[e][n] = 0
          BY <1>y, <2>1, <4>1, HeldSet DEF NodeDone, Goto
        <5>2. \A m \in Nodes : plugin = "time" \/ m \notin todo[e] => held'[e][m] = 0
          BY <1>p, <2>3, <5>1 DEF Part, n
        <5> QED
          BY <2>1, <3>2, <5>1, <5>2 DEF Part, Walking
      <4>2. CASE Goto(e, First) /\ UNCHANGED <<cur, held, take>>
        <5>1. epc'[e] = First
          BY <1>y, <4>2 DEF Goto
        <5> QED
          BY <1>p, <2>1, <2>4, <3>2, <4>2, <5>1 DEF Part, Walking
      <4>3. CASE /\ Goto(e, "write") /\ UNCHANGED <<cur, held>>
                 /\ take' = IF plugin = "ip" THEN [take EXCEPT ![e] = held[e][n]] ELSE take
        <5>1. epc'[e] = "write" /\ (plugin = "ip" => take'[e] = held[e][n])
          BY <1>y, <4>3 DEF Goto
        <5>2. held[e][n] <= held[e][n]
          BY <1>y, <2>1
        <5> QED
          BY <1>p, <2>1, <3>2, <4>3, <5>1, <5>2 DEF Part, Walking, n
      <4> QED
        BY <2>2, <4>1, <4>2, <4>3
    <3> QED
      BY <3>1, <3>2
  <2>6. Phases'
    BY <1>p, <1>x, <1>y, <2>1, <2>2, <2>4 DEF Phases, Goto, NodeDone
  <2> QED
    BY <1>q, <2>5, <2>6
<1>8. ASSUME NEW e \in Exporters, SyncEnd(e) PROVE ExportInv'
  <2>1. /\ UNCHANGED <<plugin, reg, todo, cur, held, take>> /\ todo[e] = {} /\ epc[e] = "walk"
        /\ Goto(e, "idle") /\ phase' = IF e = "free" THEN "clean" ELSE phase
    BY <1>8 DEF SyncEnd, SyncRest, Return
  <2>2. \A f \in Exporters : Part(f)'
    BY <1>p, <1>y, <2>1 DEF Part, Goto, Walking
  <2>3. Phases'
    BY <1>p, <1>x, <1>y, <2>1 DEF Phases, Goto
  <2> QED
    BY <1>q, <2>2, <2>3
<1>9. CASE Start \/ Loaded \/ Clean
  <2>1. UNCHANGED <<plugin, epc, todo, cur, held, take>>
    BY <1>9 DEF Start, Loaded, Clean, syncVars
  <2>2. \A f \in Exporters : Part(f)'
    BY <1>p, <2>1 DEF Part, Walking
  <2>3. Phases'
    BY <1>9, <1>p, <2>1 DEF Phases, Start, Loaded, Clean
  <2> QED
    BY <1>q, <2>2, <2>3
<1>10. CASE Unload
  <2>1. /\ UNCHANGED <<plugin, todo, cur, held, take>> /\ Goto("free", "due")
        /\ phase = "up" /\ phase' = "sync"
    BY <1>10 DEF Unload
  <2>2. epc["free"] = "idle"
    BY <1>p, <2>1 DEF Phases
  <2>3. \A f \in Exporters : Part(f)'
    BY <1>p, <1>x, <1>y, <2>1, <2>2 DEF Part, Goto, Walking
  <2>4. Phases'
    BY <2>1 DEF Phases
  <2> QED
    BY <1>q, <2>3, <2>4
<1>11. CASE UnloadNothing \/ Stop \/ Crash \/ EarlyPacket
  <2>1. Down
    BY <1>11 DEF UnloadNothing, Stop, Crash, EarlyPacket
  <2>2. ~reg' /\ \A e \in Exporters :
          /\ epc'[e] = "idle" /\ todo'[e] = {} /\ cur'[e] = None
          /\ \A n \in Nodes : held'[e][n] = 0
    BY <2>1 DEF Down, All, Zero
  <2> QED
    BY <1>q, <1>x, <2>2 DEF Part, Phases
<1>12. CASE squid_acct \/ time_group \/ Midnight \/ acct_lookup \/ UNCHANGED vars
  BY <1>1, <1>12 DEF squid_acct, time_group, Midnight, acct_lookup, vars, syncVars
<1>13. ASSUME NEW n \in Nodes, acct(n) PROVE ExportInv'
  BY <1>1, <1>13 DEF acct, syncVars
<1> QED
  BY <1>2, <1>3, <1>4, <1>5, <1>6, <1>7, <1>8, <1>9, <1>10, <1>11, <1>12, <1>13
     DEF Next, Export, Finish

\* A row that the COUNT of time_export found stays until the export has updated it.
LEMMA SeenStep == Types /\ ExportInv /\ SeenInv /\ [Next]_vars => SeenInv'
<1> SUFFICES ASSUME Types, ExportInv, SeenInv, [Next]_vars, plugin' = "time",
                    NEW x \in Exporters, epc'[x] = "write", seen'[x]
             PROVE  rows'[cur'[x]] > 0
  BY DEF SeenInv
<1>y. /\ epc \in [Exporters -> {"idle", "due", "open", "walk", "select", "write"}]
      /\ cur \in [Exporters -> Nodes \cup {None}] /\ rows \in [Nodes -> Nat]
      /\ seen \in [Exporters -> BOOLEAN]
  BY DEF Types
<1>1. CASE /\ plugin' = plugin /\ epc[x] = "write" /\ seen[x] /\ cur'[x] = cur[x]
           /\ rows' = rows
  BY <1>1 DEF SeenInv
<1>2. CASE squid_acct \/ time_group \/ acct_lookup \/ acct_insert \/ acct_add \/ Start
           \/ Loaded \/ Clean \/ UNCHANGED vars
  BY <1>1, <1>2 DEF squid_acct, time_group, acct_lookup, acct_insert, acct_add, Start, Loaded,
                    Clean, vars, syncVars, dbVars
<1>3. ASSUME NEW n \in Nodes, acct(n) PROVE rows'[cur'[x]] > 0
  BY <1>1, <1>3 DEF acct, syncVars, dbVars
<1>4. ASSUME NEW e \in Exporters, SyncBegin(e) \/ SyncOpen(e) \/ SyncEnd(e)
      PROVE  rows'[cur'[x]] > 0
  <2>1. UNCHANGED <<plugin, cur, seen, rows>> /\ \E step \in {"idle", "open", "walk"} : Goto(e, step)
    BY <1>4 DEF SyncBegin, SyncOpen, SyncEnd, SyncRest, Return, dbVars
  <2> QED
    BY <1>1, <1>y, <2>1 DEF Goto
<1>5. ASSUME NEW e \in Exporters, NEW n \in Nodes, Traverse(e, n) PROVE rows'[cur'[x]] > 0
  <2>1. /\ UNCHANGED <<plugin, seen, rows>> /\ cur' = [cur EXCEPT ![e] = n]
        /\ Goto(e, "select")
    BY <1>5 DEF Traverse, First, SyncRest, dbVars
  <2> QED
    BY <1>1, <1>y, <2>1 DEF Goto
<1>6. ASSUME NEW e \in Exporters, Select(e) \/ Write(e) PROVE rows'[cur'[x]] > 0
  <2>1. plugin' = plugin /\ cur[e] \in Nodes
    BY <1>6, NodeEnd
  <2>2. \A n \in Nodes : rows'[n] >= rows[n] /\ rows'[n] \in Nat
    <3>1. rows' = rows \/ rows' = [rows EXCEPT ![cur[e]] = @ + 1]
      BY <1>6 DEF Select, Write, Stored, dbVars
    <3> QED
      BY <1>y, <2>1, <3>1
  <2>3. CASE NodeDone(e)
    <3>1. /\ epc[x] = "write" /\ seen[x] /\ cur'[x] = cur[x]
      BY <1>y, <2>3 DEF NodeDone, Goto
    <3>2. cur[x] \in Nodes /\ rows[cur[x]] > 0
      BY <2>1, <3>1, AtNode DEF SeenInv
    <3> QED
      BY <1>y, <2>2, <3>1, <3>2
  <2>4. CASE ~NodeDone(e)
    <3>1. /\ Goto(e, "write") /\ UNCHANGED <<cur, rows>>
          /\ seen' = [seen EXCEPT ![e] = rows[cur[e]] > 0]
      BY <1>6, <2>1, <2>4, NodeEnd, FailedEnd
    <3>2. CASE x = e
      BY <1>y, <3>1, <3>2
    <3>3. CASE x # e
      BY <1>1, <1>y, <2>1, <3>1, <3>3 DEF Goto
    <3> QED
      BY <3>2, <3>3
  <2> QED
    BY <2>3, <2>4
<1>7. CASE Midnight
  BY <1>7 DEF Midnight
<1>8. CASE Unload
  <2>1. UNCHANGED <<plugin, cur, seen, rows>> /\ Goto("free", "due")
    BY <1>8 DEF Unload, dbVars
  <2> QED
    BY <1>1, <1>y, <2>1 DEF Goto
<1>9. CASE UnloadNothing \/ Stop \/ Crash \/ EarlyPacket
  <2>1. Down
    BY <1>9 DEF UnloadNothing, Stop, Crash, EarlyPacket
  <2>2. epc'[x] = "idle"
    BY <2>1 DEF Down, All
  <2> QED
    BY <2>2
<1> QED
  BY <1>2, <1>3, <1>4, <1>5, <1>6, <1>7, <1>8, <1>9 DEF Next, Export, Finish
---------------------------------------------------------------------------
(* Bytes.                                                                  *)

\* what time_export takes from a counter and cannot write goes back, all of it
LEMMA HoledStep ==
  Types /\ HookInv /\ ExportInv /\ SeenInv /\ LogBytesKept /\ [Next]_vars
  => (plugin' = "time" /\ ~null' => holed' = {})
<1> SUFFICES ASSUME Types, HookInv, ExportInv, SeenInv, LogBytesKept, [Next]_vars,
                    plugin' = "time", ~null'
             PROVE  holed' = {}
  OBVIOUS
<1>1. CASE UNCHANGED <<plugin, null, holed>>
  BY <1>1 DEF LogBytesKept
<1>2. CASE acct_add
  BY <1>2 DEF acct_add, HookInv, LogBytesKept, Types
<1>3. ASSUME NEW e \in Exporters, Write(e) PROVE holed' = {}
  <2>1. plugin = "time" /\ ~null /\ holed = {}
    BY <1>3 DEF Write, SyncRest, LogBytesKept
  <2>2. ~Missed(e)
    BY <1>3, <2>1, AtNode DEF Write, Missed, SeenInv, Types
  <2>3. Late(e) = 0
    <3>1. held[e][cur[e]] \in Nat /\ Amount(e) = held[e][cur[e]]
      BY <1>3, <2>1, AtNode DEF Write, Amount, Types
    <3> QED
      BY <3>1 DEF Late
  <2> QED
    BY <1>3, <2>1, <2>2, <2>3 DEF Write, Failed
<1>4. ASSUME NEW e \in Exporters, Select(e) PROVE holed' = {}
  BY <1>4 DEF Select, Failed, SyncRest, LogBytesKept
<1>5. CASE UnloadNothing \/ Stop \/ Crash \/ EarlyPacket
  BY <1>5 DEF UnloadNothing, Stop, Crash, EarlyPacket, Down
<1>6. CASE squid_acct \/ time_group \/ acct_lookup \/ acct_insert \/ Midnight \/ Start
           \/ Loaded \/ Unload \/ UNCHANGED vars
  BY <1>1, <1>6 DEF squid_acct, time_group, acct_lookup, acct_insert, Midnight, Start, Loaded,
                    Unload, vars, memVars, histVars
<1>7. ASSUME NEW n \in Nodes, acct(n) PROVE holed' = {}
  BY <1>1, <1>7 DEF acct, memVars, histVars
<1>8. ASSUME NEW e \in Exporters, SyncBegin(e) \/ SyncOpen(e) \/ SyncEnd(e)
      PROVE  holed' = {}
  BY <1>1, <1>8 DEF SyncBegin, SyncOpen, SyncEnd, SyncRest
<1>9. ASSUME NEW e \in Exporters, NEW n \in Nodes, Traverse(e, n) PROVE holed' = {}
  BY <1>1, <1>9 DEF Traverse, SyncRest
<1>10. CASE Clean
  BY <1>10 DEF Clean
<1> QED
  BY <1>2, <1>3, <1>4, <1>5, <1>6, <1>7, <1>8, <1>9, <1>10 DEF Next, Export, Finish

InHands(n) == held["job"][n] + held["free"][n]

\* one of the two exports takes or gives bytes of a node
LEMMA HeldSum ==
  ASSUME held \in [Exporters -> [Nodes -> Nat]], NEW e \in Exporters, NEW n \in Nodes,
         NEW x \in Nat, held' = [held EXCEPT ![e][n] = x], NEW m \in Nodes
  PROVE  InHands(m)' = IF m = n THEN InHands(n) - held[e][n] + x ELSE InHands(m)
<1>1. /\ held'[e][n] = x
      /\ \A f \in Exporters, k \in Nodes : f # e \/ k # n => held'[f][k] = held[f][k]
  BY HeldSet
<1>2. "job" \in Exporters /\ "free" \in Exporters /\ (e = "job" \/ e = "free")
  BY DEF Exporters
<1>3. /\ held["job"][m] \in Nat /\ held["free"][m] \in Nat /\ held["job"][n] \in Nat
      /\ held["free"][n] \in Nat
  BY <1>2
<1>4. CASE e = "job"
  BY <1>1, <1>2, <1>3, <1>4 DEF InHands
<1>5. CASE e = "free"
  BY <1>1, <1>2, <1>3, <1>5 DEF InHands
<1> QED
  BY <1>2, <1>4, <1>5

\* What is pending of a node is in the aggregate or in the hands of the exports.
LEMMA PendingSum ==
  ASSUME Types, NEW n \in Nodes PROVE Pending(n) = ag[n] + InHands(n) /\ InHands(n) \in Nat
<1>1. ag[n] \in Nat /\ held["job"][n] \in Nat /\ held["free"][n] \in Nat
  BY DEF Types, Exporters
<1> QED
  BY <1>1 DEF Pending, InHands

\* No step creates or loses a byte of a node without one of the named incidents.
LEMMA BytesStep ==
  Types /\ HookInv /\ TreeInv /\ ExportInv /\ LogBytesKept /\ [Next]_vars
  => \A n \in Nodes \ (holed' \cup doubled') : counted'[n] = temp'[n] + log'[n] + Pending(n)'
<1> SUFFICES ASSUME Types, HookInv, TreeInv, ExportInv, LogBytesKept, [Next]_vars,
                    NEW n \in Nodes, n \notin holed', n \notin doubled'
             PROVE  counted'[n] = temp'[n] + log'[n] + (ag'[n] + InHands(n)')
  <2>1. Types /\ HookInv /\ ExportInv /\ [Next]_vars => Types'
    BY TypesStep
  <2>2. Types' => \A n \in Nodes : Pending(n)' = ag'[n] + InHands(n)'
    <3> SUFFICES ASSUME Types', NEW m \in Nodes PROVE Pending(m)' = ag'[m] + InHands(m)'
      OBVIOUS
    <3>1. ag'[m] \in Nat /\ held'["job"][m] \in Nat /\ held'["free"][m] \in Nat
      BY DEF Types, Exporters
    <3> QED
      BY <3>1 DEF Pending, InHands
  <2> QED
    BY <2>1, <2>2
<1> DEFINE Goal == counted'[n] = temp'[n] + log'[n] + (ag'[n] + InHands(n)')
<1>k. n \notin holed /\ n \notin doubled
      => counted[n] = temp[n] + log[n] + (ag[n] + InHands(n))
  BY PendingSum DEF LogBytesKept
<1>x. "job" \in Exporters /\ "free" \in Exporters
  BY DEF Exporters
<1>y. /\ counted \in [Nodes -> Int] /\ ag \in [Nodes -> Nat]
      /\ temp \in [Nodes -> Nat] /\ log \in [Nodes -> Nat]
      /\ held \in [Exporters -> [Nodes -> Nat]]
  BY DEF Types
<1>z. \A m \in Nodes : InHands(m) \in Nat
  BY PendingSum
<1>u. held' = held => InHands(n)' = InHands(n)
  BY DEF InHands
<1>1. CASE UNCHANGED <<counted, temp, log, ag, held, holed, doubled>>
  BY <1>1, <1>k, <1>u
<1>2. CASE acct_insert
  <2>1. key \in Nodes /\ ag[key] = 0
    BY <1>2 DEF acct_insert, HookInv, TreeInv
  <2>2. /\ UNCHANGED <<temp, log, held, holed, doubled>>
        /\ ag' = [ag EXCEPT ![key] = 1] /\ counted' = [counted EXCEPT ![key] = @ + 1]
    BY <1>2 DEF acct_insert, Counts, dbVars
  <2> QED
    BY <1>k, <1>u, <1>y, <1>z, <2>1, <2>2
<1>3. CASE acct_add
  <2>1. /\ key \in Nodes /\ UNCHANGED <<temp, log, doubled>> /\ holed \subseteq holed'
        /\ counted' = [counted EXCEPT ![key] = @ + 1]
    BY <1>3 DEF acct_add, Counts, dbVars, HookInv
  <2>2. CASE ptr = "tree"
    <3>1. ag' = [ag EXCEPT ![key] = @ + 1] /\ held' = held
      BY <1>3, <2>2 DEF acct_add, Exporters
    <3> QED
      BY <1>k, <1>u, <1>y, <1>z, <2>1, <3>1
  <2>3. CASE ptr # "tree" /\ n # key
    <3>1. /\ ag' = ag
          /\ held' = held \/ \E e \in Exporters : held' = [held EXCEPT ![e][key] = @ + 1]
      BY <1>3, <2>3 DEF acct_add
    <3>2. InHands(n)' = InHands(n)
      <4>1. ASSUME NEW e \in Exporters, held' = [held EXCEPT ![e][key] = @ + 1]
            PROVE  InHands(n)' = InHands(n)
        <5>1. held[e][key] + 1 \in Nat /\ held' = [held EXCEPT ![e][key] = held[e][key] + 1]
          BY <1>y, <2>1, <4>1
        <5> QED
          BY <1>y, <2>1, <2>3, <5>1, HeldSum
      <4> QED
        BY <1>u, <3>1, <4>1
    <3> QED
      BY <1>k, <1>y, <1>z, <2>1, <2>3, <3>1, <3>2
  <2>4. CASE ptr # "tree" /\ n = key
    <3>1. PICK e \in Exporters : held' = [held EXCEPT ![e][key] = @ + 1] /\ ag' = ag
      BY <1>3, <2>4 DEF acct_add
    <3>2. /\ held[e][n] \in Nat /\ held[e][n] + 1 \in Nat
          /\ held' = [held EXCEPT ![e][n] = held[e][n] + 1]
      BY <1>y, <2>4, <3>1
    <3>3. InHands(n)' = InHands(n) - held[e][n] + (held[e][n] + 1)
      <4> DEFINE x == held[e][n] + 1
      <4>1. x \in Nat /\ held' = [held EXCEPT ![e][n] = x]
        BY <3>2
      <4> HIDE DEF x
      <4>2. InHands(n)' = InHands(n) - held[e][n] + x
        BY <1>y, <4>1, HeldSum
      <4> QED
        BY <4>2 DEF x
    <3> QED
      BY <1>k, <1>y, <1>z, <2>1, <2>4, <3>1, <3>2, <3>3
  <2> QED
    BY <2>2, <2>3, <2>4
<1>4. CASE squid_acct
  <2>1. packets' \in Nodes /\ packets' = packets + 1 /\ packets \in Nat
    BY <1>4, NextRecord DEF Types
  <2>2. /\ UNCHANGED <<temp, log, held, holed, doubled>> /\ plugin = "squid"
        /\ ag' = [ag EXCEPT ![packets'] = 1]
        /\ counted' = [counted EXCEPT ![packets'] = @ + 1]
    BY <1>4 DEF squid_acct, Counts, dbVars, syncVars
  <2>3. packets' \notin nodes
    BY <2>1, <2>2 DEF TreeInv
  <2>4. ag[packets'] = 0
    BY <2>1, <2>3 DEF TreeInv
  <2> QED
    BY <1>k, <1>u, <1>y, <1>z, <2>1, <2>2, <2>4
<1>5. ASSUME NEW e \in Exporters, SyncOpen(e) PROVE Goal
  <2>1. UNCHANGED <<temp, log, counted, holed, doubled>>
    BY <1>5 DEF SyncOpen, SyncRest, dbVars
  <2>2. CASE UNCHANGED <<ag, held>>
    BY <1>1, <2>1, <2>2
  <2>3. CASE Swapped(e)
    <3>1. held[e][n] = 0
      BY <1>5, NodeFacts DEF SyncOpen, ExportInv, Part, Walking
    <3>2. /\ ag'[n] = 0 /\ held'[e][n] = ag[n]
          /\ \A f \in Exporters : f # e => held'[f][n] = held[f][n]
      BY <1>y, <2>3 DEF Swapped, Zero
    <3>3. InHands(n)' = InHands(n) + ag[n]
      <4>1. CASE e = "job"
        BY <1>x, <1>y, <3>1, <3>2, <4>1 DEF InHands
      <4>2. CASE e = "free"
        BY <1>x, <1>y, <3>1, <3>2, <4>2 DEF InHands
      <4> QED
        BY <4>1, <4>2 DEF Exporters
    <3> QED
      BY <1>k, <1>y, <1>z, <2>1, <3>2, <3>3
  <2> QED
    BY <1>5, <2>2, <2>3 DEF SyncOpen, Walked
<1>6. ASSUME NEW e \in Exporters, NEW m \in Nodes, Traverse(e, m) PROVE Goal
  <2>1. UNCHANGED <<temp, log, counted, holed, doubled>> /\ epc[e] = "walk"
    BY <1>6 DEF Traverse, SyncRest, dbVars
  <2>2. CASE plugin # "time"
    BY <1>1, <1>6, <2>1, <2>2 DEF Traverse
  <2>3. CASE plugin = "time"
    <3>1. /\ held' = [held EXCEPT ![e][m] = ag[m]] /\ ag' = [ag EXCEPT ![m] = 0]
          /\ ag[m] \in Nat
      BY <1>6, <1>y, <2>3 DEF Traverse
    <3>2. held[e][m] = 0
      BY <2>1, <2>3, NodeFacts DEF ExportInv, Part
    <3>3. InHands(n)' = IF n = m THEN InHands(m) - held[e][m] + ag[m]
                                       ELSE InHands(n)
      BY <1>y, <3>1, HeldSum
    <3> QED
      BY <1>k, <1>y, <1>z, <2>1, <3>1, <3>2, <3>3
  <2> QED
    BY <2>2, <2>3
<1>7. ASSUME NEW e \in Exporters, cur[e] \in Nodes, Failed(e, cur[e]), n \notin doubled,
             counted' = counted, temp'[n] = temp[n], log'[n] = log[n]
      PROVE  Goal
  <2> DEFINE m == cur[e]
  <2>1. holed \subseteq holed'
    BY <1>7 DEF Failed
  <2>2. CASE UNCHANGED <<ag, held>>
    BY <1>7, <1>k, <1>u, <2>1, <2>2
  <2>3. CASE plugin = "time"
    <3>1. /\ held' = [held EXCEPT ![e][m] = 0] /\ 0 \in Nat
          /\ ag' = [ag EXCEPT ![m] = @ + held[e][m]] /\ held[e][m] \in Nat
      BY <1>7, <1>y, <2>3 DEF Failed
    <3>2. InHands(n)' = IF n = m THEN InHands(m) - held[e][m] + 0
                                       ELSE InHands(n)
      BY <1>7, <1>y, <3>1, HeldSum
    <3>3. ag'[n] = IF n = m THEN ag[n] + held[e][m] ELSE ag[n]
      BY <1>7, <1>y, <3>1
    <3> QED
      BY <1>7, <1>k, <1>y, <1>z, <2>1, <3>1, <3>2, <3>3
  <2>4. CASE plugin # "time" /\ holed' = holed \cup {m}
    <3>1. n # m /\ ag' = ag
      BY <1>7, <2>4 DEF Failed
    <3>2. held' = held \/ held' = [held EXCEPT ![e][m] = 0]
      BY <1>7 DEF Failed
    <3>3. InHands(n)' = InHands(n)
      <4>1. 0 \in Nat
        OBVIOUS
      <4> QED
        BY <1>7, <1>u, <1>y, <3>1, <3>2, <4>1, HeldSum
    <3> QED
      BY <1>7, <1>k, <2>1, <3>1, <3>3
  <2> QED
    BY <1>7, <2>2, <2>3, <2>4 DEF Failed
<1>8. ASSUME NEW e \in Exporters, Select(e) PROVE Goal
  <2>1. UNCHANGED <<temp, log, counted, doubled>> /\ cur[e] \in Nodes
    BY <1>8, AtNode DEF Select, SyncRest, dbVars
  <2>2. CASE Failed(e, cur[e])
    BY <1>7, <2>1, <2>2
  <2>3. CASE ~Failed(e, cur[e])
    BY <1>1, <1>8, <2>1, <2>3 DEF Select
  <2> QED
    BY <2>2, <2>3
<1>9. ASSUME NEW e \in Exporters, Write(e) PROVE Goal
  <2> DEFINE m == cur[e]
  <2>1. m \in Nodes /\ counted' = counted /\ epc[e] = "write"
    BY <1>9, AtNode DEF Write, SyncRest
  <2>2. n # m \/ UNCHANGED <<temp, log>> \/ Stored(e)
    BY <1>9 DEF Write, dbVars
  <2>3. n # m => temp'[n] = temp[n] /\ log'[n] = log[n]
    BY <1>9, <1>y, <2>1 DEF Write, Stored, dbVars
  <2>4. CASE Failed(e, m) /\ (UNCHANGED <<dbVars, doubled>> \/ doubled' = doubled \cup {m})
    <3>1. \/ doubled' = doubled /\ UNCHANGED <<temp, log>>
          \/ n # m /\ doubled' = doubled \cup {m}
      BY <2>4 DEF dbVars
    <3> QED
      BY <1>7, <2>1, <2>3, <2>4, <3>1
  <2>5. CASE /\ Stored(e) /\ held' = [held EXCEPT ![e][m] = 0] /\ ag' = ag
             /\ holed' = IF Missed(e) \/ Late(e) > 0 THEN holed \cup {m} ELSE holed
             /\ doubled' = IF Twin(e) THEN doubled \cup {m} ELSE doubled
    <3>2. InHands(n)' = IF n = m THEN InHands(m) - held[e][m] + 0
                                       ELSE InHands(n)
      <4>1. 0 \in Nat
        OBVIOUS
      <4> QED
        BY <1>y, <2>1, <2>5, <4>1, HeldSum
    <3>3. n \notin holed /\ n \notin doubled
      BY <2>5
    <3>4. CASE n # m
      BY <1>k, <2>1, <2>3, <2>5, <3>2, <3>3, <3>4
    <3>5. CASE n = m
      <4>1. ~Missed(e) /\ ~(Late(e) > 0) /\ ~Twin(e)
        BY <2>5, <3>5
      <4>2. held[e][m] \in Nat /\ take[e] \in Nat /\ rows[m] \in Nat
        BY <2>1 DEF Types
      <4>3. Amount(e) = held[e][m]
        <5>1. plugin = "ip" => take[e] <= held[e][m]
          BY <2>1 DEF ExportInv, Part
        <5> QED
          BY <4>1, <4>2, <5>1 DEF Amount, Late
      <4>4. plugin = "squid" \/ ~seen[e] \/ rows[m] = 1
        BY <4>1, <4>2 DEF Missed, Twin
      <4>5. temp'[m] + log'[m] = temp[m] + log[m] + held[e][m]
        <5> DEFINE sum == IF plugin = "squid" \/ ~seen[e] THEN Amount(e)
                                                          ELSE Amount(e) * rows[m]
        <5>1. sum = held[e][m]
          BY <4>2, <4>3, <4>4
        <5>2. \/ temp' = [temp EXCEPT ![m] = @ + sum] /\ log' = log
              \/ log' = [log EXCEPT ![m] = @ + sum] /\ temp' = temp
          BY <2>5 DEF Stored
        <5> HIDE DEF sum
        <5> QED
          BY <1>y, <2>1, <4>2, <5>1, <5>2
      <4>6. temp'[m] \in Nat /\ log'[m] \in Nat
        <5>1. Types'
          BY TypesStep
        <5> QED
          BY <2>1, <5>1 DEF Types
      <4> HIDE DEF m
      <4>7. temp[m] \in Nat /\ log[m] \in Nat /\ ag[m] \in Nat /\ InHands(m) \in Nat
        BY <1>y, <1>z, <2>1
      <4> QED
        BY <1>k, <2>1, <2>5, <3>2, <3>3, <3>5, <4>2, <4>5, <4>6, <4>7
    <3> QED
      BY <3>4, <3>5
  <2> QED
    BY <1>9, <2>4, <2>5 DEF Write
<1>10. CASE time_group
  <2>1. /\ UNCHANGED <<counted, ag, held, holed, doubled>>
        /\ log'[n] = log[n] + temp[n] /\ temp'[n] = 0
    BY <1>10 DEF time_group, Grouped, Zero, memVars, syncVars, histVars
  <2> QED
    BY <1>k, <1>u, <1>y, <1>z, <2>1
<1>11. CASE Loaded \/ Clean
  <2>1. /\ UNCHANGED <<temp, log, held, holed, doubled>>
        /\ counted'[n] = counted[n] - ag[n] /\ ag'[n] = 0
    BY <1>11 DEF Loaded, Clean, Zero, syncVars, dbVars
  <2> QED
    BY <1>k, <1>u, <1>y, <1>z, <2>1
<1>12. CASE UnloadNothing \/ Stop \/ Crash \/ EarlyPacket
  <2>1. Down
    BY <1>12 DEF UnloadNothing, Stop, Crash, EarlyPacket
  <2>2. /\ UNCHANGED <<temp, log>> /\ counted'[n] = temp[n] + log[n] /\ ag'[n] = 0
        /\ held'["job"][n] = 0 /\ held'["free"][n] = 0
    BY <1>x, <2>1 DEF Down, Zero, All, dbVars
  <2> QED
    BY <1>y, <2>2 DEF InHands
<1>13. CASE acct_lookup \/ Midnight \/ Start \/ Unload \/ UNCHANGED vars
  BY <1>1, <1>13 DEF acct_lookup, Midnight, Start, Unload, vars, memVars, syncVars, dbVars, histVars
<1>14. ASSUME NEW m \in Nodes, acct(m) PROVE Goal
  BY <1>1, <1>14 DEF acct, memVars, syncVars, dbVars, histVars
<1>15. ASSUME NEW e \in Exporters, SyncBegin(e) \/ SyncEnd(e) PROVE Goal
  BY <1>1, <1>15 DEF SyncBegin, SyncEnd, SyncRest, dbVars
<1> QED
  BY <1>2, <1>3, <1>4, <1>5, <1>6, <1>8, <1>9, <1>10, <1>11, <1>12, <1>13, <1>14, <1>15
     DEF Next, Export, Finish
---------------------------------------------------------------------------
(* Rows.                                                                   *)

\* No step gives a user a second row without two exports being at it at once.
LEMMA RowStep == Types /\ ExportInv /\ RowInv /\ [Next]_vars => RowInv'
<1> SUFFICES ASSUME Types, ExportInv, RowInv, [Next]_vars, plugin' # "squid", ~overlapped'
             PROVE  /\ \A e, f \in Exporters : Walking(e)' /\ Walking(f)' => e = f
                    /\ \A e \in Exporters : epc'[e] = "write" /\ ~seen'[e] => rows'[cur'[e]] = 0
                    /\ \A n \in Nodes : rows'[n] <= 1
  BY DEF RowInv
<1> DEFINE One == \A e, f \in Exporters : Walking(e) /\ Walking(f) => e = f
           Absent == \A e \in Exporters : epc[e] = "write" /\ ~seen[e] => rows[cur[e]] = 0
           Single == \A n \in Nodes : rows[n] <= 1
           Goal == One' /\ Absent' /\ Single'
<1>k. plugin # "squid" /\ ~overlapped => One /\ Absent /\ Single
  BY DEF RowInv
<1>y. /\ epc \in [Exporters -> {"idle", "due", "open", "walk", "select", "write"}]
      /\ cur \in [Exporters -> Nodes \cup {None}] /\ rows \in [Nodes -> Nat]
      /\ seen \in [Exporters -> BOOLEAN]
  BY DEF Types
<1>1. CASE UNCHANGED <<plugin, overlapped, epc, seen, cur, rows>>
  BY <1>1, <1>k DEF Walking
<1>2. CASE squid_acct \/ time_group \/ acct_lookup \/ acct_insert \/ acct_add \/ Start
           \/ Loaded \/ Clean \/ UNCHANGED vars
  BY <1>1, <1>2 DEF squid_acct, time_group, acct_lookup, acct_insert, acct_add, Start, Loaded,
                    Clean, vars, syncVars, dbVars, histVars
<1>3. ASSUME NEW n \in Nodes, acct(n) PROVE Goal
  BY <1>1, <1>3 DEF acct, syncVars, dbVars, histVars
<1>4. ASSUME NEW e \in Exporters, SyncBegin(e) \/ SyncEnd(e) PROVE Goal
  <2>1. /\ UNCHANGED <<plugin, overlapped, cur, seen, rows>>
        /\ \E step \in {"idle", "open"} : Goto(e, step)
    BY <1>4 DEF SyncBegin, SyncEnd, SyncRest, Return, dbVars
  <2> QED
    BY <1>k, <1>y, <2>1 DEF Goto, Walking
<1>5. ASSUME NEW e \in Exporters, SyncOpen(e) PROVE Goal
  <2>1. /\ UNCHANGED <<plugin, cur, seen, rows>> /\ ~overlapped /\ epc[e] = "open"
        /\ \/ Goto(e, "idle")
           \/ Goto(e, "walk") /\ \A x \in Exporters : ~Walking(x)
    <3>1. UNCHANGED <<plugin, cur, seen, rows>> /\ epc[e] = "open"
      BY <1>5 DEF SyncOpen, SyncRest, dbVars
    <3>2. \/ Goto(e, "idle") /\ overlapped' = overlapped
          \/ Goto(e, "walk") /\ overlapped' = (overlapped \/ \E x \in Exporters : Walking(x))
      BY <1>5 DEF SyncOpen, Return
    <3>3. CASE Goto(e, "idle") /\ overlapped' = overlapped
      BY <3>1, <3>3
    <3>4. CASE Goto(e, "walk") /\ overlapped' = (overlapped \/ \E x \in Exporters : Walking(x))
      <4>1. ~overlapped /\ \A x \in Exporters : ~Walking(x)
        BY <3>4
      <4> QED
        BY <3>1, <3>4, <4>1
    <3> QED
      BY <3>2, <3>3, <3>4
  <2> QED
    BY <1>k, <1>y, <2>1 DEF Goto, Walking
<1>6. ASSUME NEW e \in Exporters, NEW n \in Nodes, Traverse(e, n) PROVE Goal
  <2>1. /\ UNCHANGED <<plugin, overlapped, seen, rows>> /\ cur' = [cur EXCEPT ![e] = n]
        /\ epc[e] = "walk" /\ Goto(e, "select")
    BY <1>6 DEF Traverse, First, SyncRest, dbVars
  <2> QED
    BY <1>k, <1>y, <2>1 DEF Goto, Walking
<1>7. ASSUME NEW e \in Exporters, Select(e) \/ Write(e) PROVE Goal
  <2> DEFINE m == cur[e]
  <2>1. /\ plugin' = plugin /\ overlapped' = overlapped /\ m \in Nodes /\ Walking(e)
        /\ epc[e] \in {"select", "write"}
    BY <1>7, NodeEnd DEF Walking, Select, Write
  <2>2. One /\ Absent /\ Single
    BY <1>k, <2>1
  <2>3. \A f \in Exporters : f # e => ~Walking(f) /\ epc'[f] = epc[f]
    BY <1>7, <1>y, <2>1, <2>2, NodeEnd, FailedEnd DEF NodeDone, Goto
  <2>4. One'
    BY <2>3 DEF Walking
  <2>5. Single'
    <3>1. rows' = rows \/ (rows' = [rows EXCEPT ![m] = @ + 1] /\ epc[e] = "write" /\ ~seen[e])
      BY <1>7, <2>1 DEF Select, Write, Stored, dbVars
    <3>2. CASE rows' = rows
      BY <2>2, <3>2
    <3>3. CASE rows' = [rows EXCEPT ![m] = @ + 1] /\ epc[e] = "write" /\ ~seen[e]
      <4>1. rows[m] = 0
        BY <2>2, <3>3
      <4> QED
        BY <1>y, <2>1, <2>2, <3>3, <4>1
    <3> QED
      BY <3>1, <3>2, <3>3
  <2>6. ASSUME NEW f \in Exporters, epc'[f] = "write", ~seen'[f] PROVE rows'[cur'[f]] = 0
    <3>1. f = e
      BY <2>3, <2>6 DEF Walking
    <3>2. ~NodeDone(e) /\ ~Goto(e, First)
      BY <1>y, <2>1, <2>6, <3>1 DEF NodeDone, Goto, First
    <3>3. /\ Goto(e, "write") /\ UNCHANGED <<cur, rows>>
          /\ seen' = [seen EXCEPT ![e] = rows[m] > 0]
      BY <1>7, <2>1, <3>2, NodeEnd, FailedEnd
    <3>4. ~(rows[m] > 0) /\ rows[m] \in Nat
      BY <1>y, <2>1, <2>6, <3>1, <3>3
    <3> QED
      BY <3>1, <3>3, <3>4
  <2> QED
    BY <2>4, <2>5, <2>6
<1>8. CASE Midnight
  <2>1. UNCHANGED <<plugin, overlapped, epc, seen, cur>> /\ rows' = Zero
    BY <1>8 DEF Midnight, syncVars, histVars
  <2>2. \A n \in Nodes : rows'[n] = 0
    BY <2>1 DEF Zero
  <2>3. \A e \in Exporters : epc[e] = "write" => cur[e] \in Nodes
    BY AtNode
  <2> QED
    BY <1>k, <2>1, <2>2, <2>3 DEF Walking
<1>9. CASE Unload
  <2>1. /\ UNCHANGED <<plugin, overlapped, cur, seen, rows>> /\ Goto("free", "due")
    BY <1>9 DEF Unload, dbVars
  <2> QED
    BY <1>k, <1>y, <2>1 DEF Goto, Walking
<1>10. CASE UnloadNothing \/ Stop \/ Crash \/ EarlyPacket
  <2>1. Down
    BY <1>10 DEF UnloadNothing, Stop, Crash, EarlyPacket
  <2>2. UNCHANGED <<plugin, overlapped, rows>> /\ \A e \in Exporters : epc'[e] = "idle"
    BY <2>1 DEF Down, All, dbVars
  <2> QED
    BY <1>k, <2>2 DEF Walking
<1> QED
  BY <1>2, <1>3, <1>4, <1>5, <1>6, <1>7, <1>8, <1>9, <1>10 DEF Next, Export, Finish
---------------------------------------------------------------------------
(* unload.                                                                 *)

\* A calm unload goes on leaving behind only what its export could not write.
LEMMA UnloadStep ==
  Types /\ HookInv /\ TreeInv /\ ExportInv /\ UnloadInv /\ [Next]_vars => UnloadInv'
<1> SUFFICES ASSUME Types, HookInv, TreeInv, ExportInv, UnloadInv, [Next]_vars
             PROVE  UnloadInv'
  OBVIOUS
<1> DEFINE Flag == flag_export => plugin # "time" /\ \E e \in Exporters : Walking(e)
           Calm == calm => Unloading /\ ~reg /\ epc["job"] = "idle"
           Last == calm /\ (Walking("free") \/ phase = "clean")
                   => \A n \in Nodes \ Left : ag[n] <= since[n]
<1>k. Flag /\ Calm /\ Last
  BY DEF UnloadInv
<1>q. Flag' /\ Calm' /\ Last' => UnloadInv'
  BY DEF UnloadInv
<1>x. /\ "job" \in Exporters /\ "free" \in Exporters /\ "job" # "free"
      /\ \A e \in Exporters : e = "job" \/ e = "free"
  BY DEF Exporters
<1>y. /\ epc \in [Exporters -> {"idle", "due", "open", "walk", "select", "write"}]
      /\ ag \in [Nodes -> Nat] /\ since \in [Nodes -> Nat]
      /\ todo \in [Exporters -> SUBSET Nodes] /\ nodes \subseteq Nodes
  BY DEF Types
<1>z. \A n \in Nodes : since[n] >= 0 /\ (n \notin nodes => ag[n] = 0)
  BY <1>y DEF TreeInv
<1>1. CASE UNCHANGED <<plugin, phase, reg, flag_export, epc, todo, ag, calm, since, skipped>>
  BY <1>1, <1>k, <1>q DEF Walking, Unloading, Left
<1>2. CASE acct_insert
  <2>1. /\ UNCHANGED <<plugin, phase, reg, flag_export, epc, calm>> /\ key \in Nodes
        /\ ag' = [ag EXCEPT ![key] = 1] /\ ag[key] = 0
        /\ since' = IF Unloading THEN [since EXCEPT ![key] = @ + 1] ELSE since
    BY <1>2 DEF acct_insert, Counts, HookInv, TreeInv
  <2>2. Left \subseteq Left'
    <3>1. CASE plugin = "time"
      BY <1>2, <2>1, <3>1 DEF acct_insert, Left
    <3>2. CASE plugin # "time"
      BY <1>2, <2>1, <3>2 DEF acct_insert, Left
    <3> QED
      BY <3>1, <3>2
  <2>3. Flag' /\ Calm'
    BY <1>k, <2>1 DEF Walking, Unloading
  <2>4. Last'
    <3> SUFFICES ASSUME calm', Walking("free")' \/ phase' = "clean",
                        NEW n \in Nodes, n \notin Left'
                 PROVE  ag'[n] <= since'[n]
      OBVIOUS
    <3>1. Unloading /\ ag[n] <= since[n]
      BY <1>k, <2>1, <2>2 DEF Walking
    <3> QED
      BY <1>y, <2>1, <3>1
  <2> QED
    BY <1>q, <2>3, <2>4
<1>3. CASE acct_add
  <2>1. /\ UNCHANGED <<plugin, phase, reg, flag_export, epc, todo, skipped, calm>>
        /\ key \in Nodes
        /\ ag' = IF ptr = "tree" THEN [ag EXCEPT ![key] = @ + 1] ELSE ag
        /\ since' = IF Unloading THEN [since EXCEPT ![key] = @ + 1] ELSE since
    BY <1>3 DEF acct_add, Counts, HookInv
  <2>2. Flag' /\ Calm'
    BY <1>k, <2>1 DEF Walking, Unloading
  <2>3. Last'
    <3> SUFFICES ASSUME calm', Walking("free")' \/ phase' = "clean",
                        NEW n \in Nodes, n \notin Left'
                 PROVE  ag'[n] <= since'[n]
      OBVIOUS
    <3>1. Unloading /\ ag[n] <= since[n]
      BY <1>k, <2>1 DEF Walking, Left
    <3> QED
      BY <1>y, <2>1, <3>1
  <2> QED
    BY <1>q, <2>2, <2>3
<1>4. CASE squid_acct
  <2>1. UNCHANGED <<plugin, phase, reg, flag_export, epc, todo, skipped, calm>> /\ ~Unloading
    BY <1>4 DEF squid_acct, syncVars, Unloading
  <2> QED
    BY <1>k, <1>q, <2>1 DEF Walking, Unloading
<1>5. ASSUME NEW e \in Exporters, SyncBegin(e) PROVE UnloadInv'
  <2>1. /\ UNCHANGED <<plugin, reg, flag_export, todo, skipped, calm, ag, since>>
        /\ ~Walking(e) /\ (e = "job" => reg)
    BY <1>5 DEF SyncBegin, SyncRest, Walking
  <2>2. \/ Goto(e, "open") /\ phase' = phase
        \/ Goto(e, "idle") /\ flag_export /\ phase' = IF e = "free" THEN "clean" ELSE phase
    BY <1>5 DEF SyncBegin, Return
  <2>3. \A f \in Exporters : Walking(f)' <=> Walking(f)
    BY <1>y, <2>1, <2>2 DEF Walking, Goto
  <2>4. calm => e = "free" /\ epc'["job"] = epc["job"] /\ ~flag_export
    BY <1>k, <1>x, <1>y, <2>1, <2>2 DEF Walking, Goto
  <2>5. calm => phase' = phase
    BY <2>2, <2>4
  <2>6. Left' = Left
    BY <2>1 DEF Left
  <2> QED
    BY <1>k, <1>q, <2>1, <2>3, <2>4, <2>5, <2>6 DEF Unloading
<1>6. ASSUME NEW e \in Exporters, SyncOpen(e) PROVE UnloadInv'
  <2>1. /\ UNCHANGED <<plugin, reg, since, skipped>> /\ epc[e] = "open"
    BY <1>6 DEF SyncOpen, SyncRest
  <2>2. CASE Goto(e, "idle") /\ calm' = FALSE /\ flag_export' = flag_export
    <3>1. \A f \in Exporters : Walking(f)' <=> Walking(f)
      BY <1>y, <2>1, <2>2 DEF Walking, Goto
    <3> QED
      BY <1>k, <1>q, <2>1, <2>2, <3>1
  <2>3. CASE Goto(e, "walk") /\ phase' = phase /\ calm' = calm
    <3>1. epc'[e] = "walk" /\ \A f \in Exporters : f # e => epc'[f] = epc[f]
      BY <1>y, <2>3 DEF Goto
    <3>2. Flag'
      <4>1. plugin = "time" => flag_export' = flag_export
        BY <1>6, <2>3, <3>1 DEF SyncOpen, Walked
      <4> QED
        BY <1>k, <2>1, <3>1, <4>1 DEF Walking
    <3>3. calm => e = "free"
      BY <1>k, <1>x, <2>1
    <3>4. Calm'
      BY <1>k, <1>x, <2>1, <2>3, <3>1, <3>3 DEF Unloading
    <3>5. Last'
      <4> SUFFICES ASSUME calm, NEW n \in Nodes, n \notin Left' PROVE ag'[n] <= since'[n]
        BY <2>3
      <4>1. CASE plugin = "time" /\ Walked(e)
        <5>1. Left' = skipped \cup nodes /\ ag' = ag
          BY <1>x, <1>y, <2>1, <3>3, <4>1 DEF Left, Walked
        <5> QED
          BY <1>z, <2>1, <5>1
      <4>2. CASE Swapped(e)
        BY <1>z, <2>1, <4>2 DEF Swapped, Zero
      <4>3. CASE ~Goto(e, "walk")
        BY <2>3, <4>3
      <4>4. CASE calm' = FALSE
        BY <2>3, <4>4
      <4> QED
        BY <1>6, <4>1, <4>2, <4>3, <4>4 DEF SyncOpen
    <3> QED
      BY <1>q, <3>2, <3>4, <3>5
  <2> QED
    BY <1>6, <2>2, <2>3 DEF SyncOpen, Return
<1>7. ASSUME NEW e \in Exporters, NEW n \in Nodes, Traverse(e, n) PROVE UnloadInv'
  <2>1. /\ UNCHANGED <<plugin, phase, reg, flag_export, since, skipped, calm>>
        /\ epc[e] = "walk" /\ todo' = [todo EXCEPT ![e] = @ \ {n}]
        /\ Goto(e, First) /\ First \in {"select", "write"}
        /\ IF plugin = "time" THEN ag' = [ag EXCEPT ![n] = 0] ELSE ag' = ag
    BY <1>7 DEF Traverse, SyncRest, First
  <2>2. \A f \in Exporters : Walking(f)' <=> Walking(f)
    BY <1>y, <2>1 DEF Walking, Goto
  <2>3. calm => e = "free" /\ epc'["job"] = epc["job"]
    BY <1>k, <1>x, <1>y, <2>1 DEF Goto
  <2>4. \A m \in Nodes : ag'[m] <= ag[m] /\ ag'[m] \in Nat
    BY <1>y, <2>1
  <2>5. ASSUME calm, NEW m \in Nodes, m \notin Left', m \in Left PROVE ag'[m] = 0
    <3>1. plugin = "time" /\ m = n
      BY <1>x, <1>y, <2>1, <2>3, <2>5 DEF Left
    <3> QED
      BY <1>y, <2>1, <3>1
  <2>6. Last'
    <3> SUFFICES ASSUME calm', Walking("free")' \/ phase' = "clean",
                        NEW m \in Nodes, m \notin Left'
                 PROVE  ag'[m] <= since'[m]
      OBVIOUS
    <3>1. CASE m \in Left
      BY <1>z, <2>1, <2>5, <3>1
    <3>2. CASE m \notin Left
      <4>1. ag[m] <= since[m]
        BY <1>k, <1>x, <2>1, <2>2, <3>2
      <4> QED
        BY <1>y, <2>1, <2>4, <4>1
    <3> QED
      BY <3>1, <3>2
  <2>7. Flag' /\ Calm'
    BY <1>k, <2>1, <2>2, <2>3 DEF Unloading
  <2> QED
    BY <1>q, <2>6, <2>7
<1>8. ASSUME NEW e \in Exporters, Select(e) \/ Write(e) PROVE UnloadInv'
  <2>1. UNCHANGED <<plugin, phase, reg, flag_export, todo, since, skipped>> /\ Walking(e)
    BY <1>8, NodeEnd DEF Select, Write, Walking
  <2>2. \/ calm' = FALSE
        \/ calm' = calm /\ ag' = ag
    BY <1>8 DEF Select, Write
  <2>3. \A f \in Exporters : (Walking(f)' <=> Walking(f)) /\ (f # e => epc'[f] = epc[f])
    <3>1. \E step \in {"walk", "select", "write"} : Goto(e, step)
      BY <1>8, NodeEnd, FailedEnd DEF NodeDone, First
    <3> QED
      BY <1>y, <2>1, <3>1 DEF Goto, Walking
  <2>4. calm => e = "free"
    BY <1>k, <1>x, <2>1 DEF Walking
  <2>5. Flag' /\ Calm'
    BY <1>k, <1>x, <2>1, <2>2, <2>3, <2>4 DEF Unloading
  <2>6. Last'
    BY <1>k, <1>x, <2>1, <2>2, <2>3 DEF Left
  <2> QED
    BY <1>q, <2>5, <2>6
<1>9. ASSUME NEW e \in Exporters, SyncEnd(e) PROVE UnloadInv'
  <2>1. /\ UNCHANGED <<plugin, reg, todo, skipped, calm, ag, since>>
        /\ epc[e] = "walk" /\ todo[e] = {} /\ Goto(e, "idle")
        /\ phase' = IF e = "free" THEN "clean" ELSE phase
    BY <1>9 DEF SyncEnd, SyncRest, Return
  <2>2. \/ plugin = "time" /\ flag_export' = flag_export
        \/ flag_export' = FALSE
    BY <1>9 DEF SyncEnd, Cleaned
  <2>3. Flag'
    BY <1>k, <2>1, <2>2
  <2>4. calm => e = "free" /\ epc'["job"] = epc["job"]
    BY <1>k, <1>x, <1>y, <2>1 DEF Goto
  <2>5. Calm'
    BY <1>k, <2>1, <2>4 DEF Unloading
  <2>6. Left' = Left
    BY <2>1 DEF Left
  <2>7. Last'
    BY <1>k, <2>1, <2>4, <2>6 DEF Walking
  <2> QED
    BY <1>q, <2>3, <2>5, <2>7
<1>10. CASE Start \/ Loaded
  <2>1. UNCHANGED <<plugin, flag_export, epc, calm>> /\ ~Unloading
    BY <1>10 DEF Start, Loaded, memVars, syncVars, histVars, Unloading
  <2> QED
    BY <1>k, <1>q, <2>1 DEF Walking
<1>11. CASE Clean
  <2>1. /\ UNCHANGED <<plugin, reg, flag_export, epc, calm>> /\ phase = "clean"
        /\ phase' = "stop" /\ ~Walking("free")
    BY <1>11 DEF Clean, syncVars, ExportInv, Phases, Walking
  <2> QED
    BY <1>k, <1>q, <2>1 DEF Walking, Unloading
<1>12. CASE Unload
  <2>1. /\ UNCHANGED <<plugin, flag_export>> /\ phase' = "sync" /\ reg' = FALSE
        /\ Goto("free", "due") /\ calm' = (epc["job"] = "idle") /\ phase = "up"
    BY <1>12 DEF Unload, memVars
  <2>2. epc["free"] = "idle" /\ epc' = [epc EXCEPT !["free"] = "due"]
    BY <2>1 DEF ExportInv, Phases, Goto
  <2>3. \A f \in Exporters : Walking(f)' <=> Walking(f)
    BY <1>y, <2>2 DEF Walking
  <2>4. epc'["job"] = epc["job"] /\ ~Walking("free")'
    BY <1>x, <1>y, <2>2 DEF Walking
  <2> QED
    BY <1>k, <1>q, <2>1, <2>3, <2>4 DEF Unloading
<1>13. CASE UnloadNothing \/ Stop \/ Crash \/ EarlyPacket
  <2>1. Down
    BY <1>13 DEF UnloadNothing, Stop, Crash, EarlyPacket
  <2> QED
    BY <1>q, <2>1 DEF Down
<1>14. CASE acct_lookup \/ Midnight \/ time_group \/ UNCHANGED vars
  BY <1>1, <1>14 DEF acct_lookup, Midnight, time_group, vars, memVars, syncVars, dbVars, histVars
<1>15. ASSUME NEW n \in Nodes, acct(n) PROVE UnloadInv'
  BY <1>1, <1>15 DEF acct, memVars, syncVars, histVars
<1> QED
  BY <1>2, <1>3, <1>4, <1>5, <1>6, <1>7, <1>8, <1>9, <1>10, <1>11, <1>12, <1>13, <1>14, <1>15
     DEF Next, Export, Finish
---------------------------------------------------------------------------
(* Theorems.                                                               *)

\* The inductive invariant holds at load.
LEMMA InvInit == Init => IInv
<1> SUFFICES ASSUME Init PROVE IInv
  OBVIOUS
<1>1. Types /\ plugin \in Plugins
  BY TypesInit DEF Init
<1>2. \A e \in Exporters : /\ epc[e] = "idle" /\ todo[e] = {} /\ cur[e] = None
                           /\ \A n \in Nodes : held[e][n] = 0
  BY DEF Init, All, Zero
<1>3. \A n \in Nodes : /\ ag[n] = 0 /\ temp[n] = 0 /\ log[n] = 0 /\ rows[n] = 0
                       /\ counted[n] = 0
  BY DEF Init, Zero
<1>4. HookInv /\ TreeInv
  BY <1>2, <1>3 DEF Init, HookInv, TreeInv, Exporters
<1>5. ExportInv /\ SeenInv /\ RowInv
  <2>1. "job" \in Exporters /\ "free" \in Exporters
    BY DEF Exporters
  <2>2. Phases
    BY <1>2, <2>1 DEF Init, Phases
  <2>3. \A e \in Exporters : Part(e)
    BY <1>2 DEF Part
  <2>4. SeenInv /\ RowInv
    BY <1>2, <1>3 DEF SeenInv, RowInv, Walking
  <2> QED
    BY <2>2, <2>3, <2>4 DEF ExportInv
<1>6. LogBytesKept
  BY <1>2, <1>3 DEF Init, LogBytesKept, Pending, Exporters
<1>7. UnloadInv
  BY DEF Init, UnloadInv
<1> QED
  BY <1>1, <1>4, <1>5, <1>6, <1>7 DEF IInv

\* Every step keeps the inductive invariant.
LEMMA InvStep == IInv /\ [Next]_vars => IInv'
<1> SUFFICES ASSUME IInv, [Next]_vars PROVE IInv'
  OBVIOUS
<1>1. LogBytesKept'
  BY BytesStep, HoledStep DEF IInv, LogBytesKept
<1> QED
  BY <1>1, TypesStep, HookStep, TreeStep, ExportStep, SeenStep, RowStep, UnloadStep DEF IInv

\* The inductive invariant holds throughout.
LEMMA Inductive == Spec => []IInv
  BY InvInit, InvStep, PTL DEF Spec

\* Whatever packets, failing statements, lost answers, unloads and crashes do, every
\* byte of time_acct, ip_acct and squid_acct is in one place, unless its node met one
\* of the incidents that the history names; time_export gives none up.
THEOREM BytesKept == Spec => []LogBytesKept
<1>1. IInv => LogBytesKept
  BY DEF IInv
<1> QED
  BY <1>1, Inductive, PTL

\* COUNT and the insert of time_export and ip_export never make a second row as long
\* as the scheduler's export and that of unload do not overlap.
THEOREM RowsNotDoubled == Spec => []OneRow
<1>1. IInv => OneRow
  BY DEF IInv, RowInv, OneRow
<1> QED
  BY <1>1, Inductive, PTL

\* The last export of time_free, ip_free and squid_free leaves in the aggregate only
\* what came after unload began, when no job was under way and no statement fails.
THEOREM LastExport == Spec => []UnloadExports
<1>1. IInv => UnloadExports
  <2> SUFFICES ASSUME IInv, phase = "clean", calm, NEW n \in Nodes \ skipped
               PROVE  ag[n] <= since[n]
    BY DEF UnloadExports
  <2>1. todo["free"] = {}
    BY DEF IInv, ExportInv, Part, Phases, Walking, Exporters
  <2>2. Left = skipped
    BY <2>1 DEF Left
  <2> QED
    BY <2>2 DEF IInv, UnloadInv
<1> QED
  BY <1>1, Inductive, PTL
=============================================================================
