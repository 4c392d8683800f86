---------------------------- MODULE PolicyProofs ----------------------------
(***************************************************************************)
(* InLine and DecisionFollowsTables for any lists, rows, definitions,      *)
(* calendar and number of events, for both plugins.  Neither is inductive. *)
(* InLine relies on what a sync still has to do: a row that was returned   *)
(* and not handled yet, the one in hand, and nodes so young that the sweep *)
(* spares them.  The decision relies on more than the md5: a node has the  *)
(* very row of the table unless an edit met an equal md5, no node is left  *)
(* of a removed row, a pattern that compiles is compiled, and the weekday  *)
(* and the time of the day belong together once every_day is over.         *)
(***************************************************************************)
EXTENDS Policy, SequenceTheorems, FiniteSetTheorems, TLAPS

NodeOf(l) == [id : Ids(l), row : RowsOf(l), age : 0 .. 3, sound : BOOLEAN]

Types ==
  /\ plugin \in Plugins
  /\ DOMAIN table = Lists /\ \A l \in Lists : table[l] \in [Ids(l) -> RowsOf(l) \cup {Absent}]
  /\ DOMAIN list = Lists /\ \A l \in Lists : list[l] \in Seq(NodeOf(l))
  /\ lock \in [Lists -> {"free", "sync", "console"}]
  /\ phase \in {"down", "loading", "up"} /\ loading \in Seq(Lists)
  /\ spc \in [Lists -> {"idle", "rows", "apply"}]
  /\ DOMAIN rows = Lists
  /\ \A l \in Lists : rows[l] \subseteq Ids(l) \X {r.md5 : r \in RowsOf(l)}
  /\ DOMAIN cur = Lists /\ \A l \in Lists : spc[l] = "apply" => cur[l] \in Ids(l)
  /\ clean \subseteq Lists /\ settled \subseteq Lists /\ ran \subseteq Lists

\* the sync jobs, decisions and what the history has seen end with the daemon
PhaseInv ==
  phase # "up" =>
    /\ \A l \in Lists : spc[l] = "idle"
    /\ clean = {} /\ settled = {} /\ dpc = "idle" /\ ~calm

\* a list has one node of an id
Unique(s) == \A a, b \in DOMAIN s : s[a].id = s[b].id => a = b

\* a node has the row whose md5 it has, and a row that can be used is usable
RowInv(l) ==
  \A n \in Nodes(l) :
    /\ ~blurred /\ table[l][n.id] # Absent /\ n.row.md5 = table[l][n.id].md5
         => n.row = table[l][n.id]
    /\ n.row.valid => n.sound

\* the list shows the row, as Mirrored says it
Shown(l, i) ==
  \/ \E n \in Nodes(l) : n.id = i /\ n.row.md5 = table[l][i].md5
  \/ (\A n \in Nodes(l) : n.id # i) /\ ~table[l][i].valid

ShownInv(l) == l \in settled => \A i \in Present(l) : Shown(l, i)

\* the sync has handled the row: the sweep will spare its node
Handled(l, i) == Shown(l, i) /\ \A n \in Nodes(l) : n.id = i => n.age = 0

\* a sync of a table that was not edited since its query, or since the list was
\* taken over: each row is to come, in hand or handled
SyncInv(l) ==
  l \in clean \cup settled /\ spc[l] # "idle" =>
    /\ \A r \in rows[l] : r[1] \in Present(l) /\ r[2] = table[l][r[1]].md5
    /\ \A i \in Present(l) :
         \/ \E r \in rows[l] : r[1] = i
         \/ spc[l] = "apply" /\ cur[l] = i
         \/ Handled(l, i)

\* what the sweep of this minute has left
SweptInv(l) ==
  l \in clean /\ spc[l] = "idle" /\ l \in ran => \A n \in Nodes(l) : n.age < 3

\* while a calm decision is made
CalmInv(l) == calm => l \in settled /\ Fits(l)

ListInv(l) ==
  /\ Unique(list[l]) /\ RowInv(l) /\ ShownInv(l)
  /\ SyncInv(l) /\ SweptInv(l) /\ CalmInv(l)

\* weekday and time of the day belong together, but for the moment of every_day
DayInv ==
  /\ now \in 0 .. DayLen * Week - 1 /\ tek_time \in Nat
  /\ day \in {"idle", "due", "begin"} /\ (plugin = "url" \/ phase = "down" => day = "idle")
  /\ plugin = "time" /\ phase # "down" =>
       /\ day = "idle" => week_day = Weekday /\ tek_time = now % DayLen
       /\ day = "begin" => week_day = Weekday

\* the row of the subject asked about in a list of the chain
Asked(j) == table[Chain[plugin][j]][ask.who]

\* a decision is at a list of the chain; a calm one has been let through by the
\* lists before, and holds the row of the table
DecInv ==
  /\ dpc \in {"idle", "lookup", "policy"}
  /\ dpc # "idle" => di \in 1 .. Len(Chain[plugin]) /\ ask.who \in Subjects
  /\ calm => ~blurred /\ day = "idle"
  /\ calm /\ dpc # "idle" =>
       \A j \in 1 .. di - 1 : Asked(j) = Absent \/ TRUE \in PolicyVerdicts(Asked(j))
  /\ calm /\ dpc = "policy" => pol = Asked(di) /\ pol # Absent

IInv ==
  /\ Types /\ PhaseInv /\ (\A l \in Lists : ListInv(l))
  /\ DayInv /\ DecInv /\ DecisionFollowsTables
---------------------------------------------------------------------------
(* The lists as sets of nodes.                                             *)

\* The rows a plugin's tables may have.
LEMMA RowTypes ==
  ASSUME plugin \in Plugins
  PROVE  /\ \A l \in Lists : Absent \notin RowsOf(l) /\ IsFiniteSet(Ids(l))
         /\ \A l \in Lists : \A r \in RowsOf(l) : r.valid \in BOOLEAN
         /\ \A r \in RowsOf("defs") : r.target \in BOOLEAN
         /\ \A l \in Lists \ {"defs"} : \A r \in RowsOf(l) : r.def \in BOOLEAN /\ r.valid
<1>1. \A d \in Defined[plugin] : d.target \in BOOLEAN /\ d.valid \in BOOLEAN
  BY PolicyAssumption
<1>2. \A r \in Assigned : r.def \in BOOLEAN /\ r.valid \in BOOLEAN /\ r.valid = TRUE
  BY PolicyAssumption
<1>3. Absent \notin Assigned /\ Absent \notin Defined[plugin]
  BY PolicyAssumption
<1>4. IsFiniteSet(Subjects) /\ IsFiniteSet(DefIds[plugin])
  BY PolicyAssumption
<1>5. \A l \in Lists : /\ RowsOf(l) = IF l = "defs" THEN Defined[plugin] ELSE Assigned
                       /\ Ids(l) = IF l = "defs" THEN DefIds[plugin] ELSE Subjects
  BY DEF RowsOf, Ids
<1>6. RowsOf("defs") = Defined[plugin]
  BY DEF RowsOf
<1> QED
  BY <1>1, <1>2, <1>3, <1>4, <1>5, <1>6

\* A list is a sequence of nodes with ids and rows of its table.
LEMMA NodesAre ==
  ASSUME Types, NEW l \in Lists
  PROVE  /\ list[l] \in Seq(NodeOf(l)) /\ Nodes(l) \subseteq NodeOf(l)
         /\ DOMAIN list[l] = 1 .. Len(list[l]) /\ Len(list[l]) \in Nat
         /\ \A k \in DOMAIN list[l] : list[l][k] \in Nodes(l)
<1>1. list[l] \in Seq(NodeOf(l))
  BY DEF Types
<1>2. /\ DOMAIN list[l] = 1 .. Len(list[l]) /\ Len(list[l]) \in Nat
      /\ \A k \in DOMAIN list[l] : list[l][k] \in NodeOf(l)
  BY <1>1
<1> QED
  BY <1>1, <1>2 DEF Nodes, ToSet

\* One node of an id.
LEMMA OneOf ==
  ASSUME NEW s, Unique(s), NEW n \in ToSet(s), NEW m \in ToSet(s), n.id = m.id
  PROVE  n = m
<1>1. PICK a \in DOMAIN s : n = s[a]
  BY DEF ToSet
<1>2. PICK b \in DOMAIN s : m = s[b]
  BY DEF ToSet
<1>3. a = b
  BY <1>1, <1>2 DEF Unique
<1> QED
  BY <1>1, <1>2, <1>3

\* In a list with unique ids Mirrored is a statement about its nodes.
LEMMA MirrorIs ==
  ASSUME Types, NEW l \in Lists, NEW i, Unique(list[l])
  PROVE  Mirrored(l, i) <=> Shown(l, i)
<1> DEFINE ks == {k \in DOMAIN list[l] : list[l][k].id = i}
<1>1. \A k \in ks : ks = {k}
  BY DEF Unique
<1>2. ks # {} => Cardinality(ks) = 1
  BY <1>1, FS_Singleton
<1>3. ks = {} => Cardinality(ks) = 0
  BY FS_EmptySet
<1>4. \A n \in Nodes(l) : \E k \in DOMAIN list[l] : n = list[l][k]
  BY DEF Nodes, ToSet
<1>5. \A k \in DOMAIN list[l] : list[l][k] \in Nodes(l)
  BY DEF Nodes, ToSet
<1>6. CASE ks = {}
  <2>1. \A n \in Nodes(l) : n.id # i
    BY <1>4, <1>6
  <2> QED
    BY <1>3, <1>6, <2>1 DEF Mirrored, Shown
<1>7. ASSUME NEW k \in ks PROVE Mirrored(l, i) <=> Shown(l, i)
  <2>1. Cardinality(ks) = 1 /\ ks = {k}
    BY <1>1, <1>2
  <2>2. Mirrored(l, i) <=> list[l][k].row.md5 = table[l][i].md5
    BY <2>1 DEF Mirrored
  <2>3. list[l][k] \in Nodes(l) /\ list[l][k].id = i
    BY <1>5
  <2>4. \A n \in Nodes(l) : n.id = i => n = list[l][k]
    BY <1>4, <2>1
  <2> QED
    BY <2>2, <2>3, <2>4 DEF Shown
<1> QED
  BY <1>6, <1>7

\* Nodes are changed in place, without their ids.
LEMMA MapFacts ==
  ASSUME NEW T, NEW s, NEW S, s \in Seq(S), NEW t,
         DOMAIN t = DOMAIN s, t = [k \in DOMAIN s |-> t[k]],
         \A k \in DOMAIN s : t[k] \in T /\ t[k].id = s[k].id
  PROVE  t \in Seq(T) /\ (Unique(s) => Unique(t))
<1>1. DOMAIN s = 1 .. Len(s) /\ Len(s) \in Nat
  OBVIOUS
<1>2. t \in [1 .. Len(s) -> T]
  BY <1>1
<1>3. t \in Seq(T)
  BY <1>1, <1>2, IsASeq
<1> QED
  BY <1>3 DEF Unique

\* A node with a new id is appended.
LEMMA AppendFacts ==
  ASSUME NEW T, NEW s \in Seq(T), NEW n \in T
  PROVE  /\ Append(s, n) \in Seq(T) /\ n \in ToSet(Append(s, n))
         /\ \A x \in ToSet(Append(s, n)) : x \in ToSet(s) \/ x = n
         /\ \A x \in ToSet(s) : x \in ToSet(Append(s, n))
         /\ Unique(s) /\ (\A m \in ToSet(s) : m.id # n.id) => Unique(Append(s, n))
<1> DEFINE t == Append(s, n)
<1>1. /\ t \in Seq(T) /\ Len(t) = Len(s) + 1 /\ Len(s) \in Nat
      /\ DOMAIN t = 1 .. Len(s) + 1 /\ DOMAIN s = 1 .. Len(s)
      /\ t[Len(s) + 1] = n /\ \A k \in 1 .. Len(s) : t[k] = s[k]
  BY AppendProperties
<1> HIDE DEF t
<1>2. \A k \in DOMAIN t : (k \in DOMAIN s /\ t[k] = s[k]) \/ (k = Len(s) + 1 /\ t[k] = n)
  BY <1>1
<1>3. \A x \in ToSet(t) : x \in ToSet(s) \/ x = n
  BY <1>2 DEF ToSet
<1>4. \A x \in ToSet(s) : x \in ToSet(t)
  <2> SUFFICES ASSUME NEW k \in DOMAIN s PROVE s[k] \in ToSet(t)
    BY DEF ToSet
  <2>1. k \in DOMAIN t /\ t[k] = s[k]
    BY <1>1
  <2> QED
    BY <2>1 DEF ToSet
<1>5. n \in ToSet(t)
  <2>1. Len(s) + 1 \in DOMAIN t
    BY <1>1
  <2> QED
    BY <1>1, <2>1 DEF ToSet
<1>6. ASSUME Unique(s), \A m \in ToSet(s) : m.id # n.id PROVE Unique(t)
  <2>1. \A k \in DOMAIN s : s[k].id # n.id
    BY <1>6 DEF ToSet
  <2> QED
    BY <1>2, <1>6, <2>1 DEF Unique
<1> QED
  BY <1>1, <1>3, <1>4, <1>5, <1>6 DEF t

\* A sequence of the elements of a finite set is as long as the set and leaves
\* none out.
LEMMA SeqsFacts ==
  ASSUME NEW S, IsFiniteSet(S), NEW f \in SetToSeqs(S)
  PROVE  /\ Cardinality(S) \in Nat /\ f \in [1 .. Cardinality(S) -> S]
         /\ \A i, j \in DOMAIN f : f[i] = f[j] => i = j
         /\ \A x \in S : \E i \in DOMAIN f : f[i] = x
<1> DEFINE D == 1 .. Cardinality(S)
<1>1. Cardinality(S) \in Nat
  BY FS_CardinalityType
<1>2. f \in [D -> S] /\ \A i, j \in D : f[i] = f[j] => i = j
  BY DEF SetToSeqs
<1>3. Cardinality(D) = Cardinality(S)
  BY <1>1, FS_Interval
<1>4. f \in Injection(D, S)
  BY <1>2 DEF Injection, IsInjective
<1>5. f \in Surjection(D, S)
  BY <1>3, <1>4, FS_Injection
<1> QED
  BY <1>1, <1>2, <1>5 DEF Surjection

\* The deletion keeps the nodes that are not late, one cell each.
LEMMA DeletedFacts ==
  ASSUME Types, NEW l \in Lists, NEW late, NEW s \in Deleted(l, late)
  PROVE  /\ s \in Seq(NodeOf(l)) /\ ToSet(s) = {n \in Nodes(l) : ~late[n]}
         /\ Unique(list[l]) => Unique(s)
<1> DEFINE kept == {k \in DOMAIN list[l] : ~late[list[l][k]]}
<1>1. PICK f \in Increasing(kept) : s = [k \in DOMAIN f |-> list[l][f[k]]]
  BY DEF Deleted
<1>2. /\ DOMAIN list[l] = 1 .. Len(list[l]) /\ Len(list[l]) \in Nat
      /\ Nodes(l) \subseteq NodeOf(l) /\ \A k \in DOMAIN list[l] : list[l][k] \in Nodes(l)
  BY NodesAre
<1>3. IsFiniteSet(kept)
  BY <1>2, FS_Interval, FS_Subset, 1 \in Int, Len(list[l]) \in Int
<1>4. /\ Cardinality(kept) \in Nat /\ f \in [1 .. Cardinality(kept) -> kept]
      /\ \A i, j \in DOMAIN f : f[i] = f[j] => i = j
      /\ \A x \in kept : \E i \in DOMAIN f : f[i] = x
  <2>1. f \in SetToSeqs(kept)
    BY DEF Increasing
  <2> HIDE DEF kept
  <2> QED
    BY <1>3, <2>1, SeqsFacts
<1>5. \A k \in DOMAIN f : f[k] \in DOMAIN list[l] /\ ~late[list[l][f[k]]]
  BY <1>4
<1>6. DOMAIN s = DOMAIN f /\ \A k \in DOMAIN s : s[k] = list[l][f[k]]
  BY <1>1
<1>7. s \in Seq(NodeOf(l))
  <2> HIDE DEF kept
  <2>1. s \in [1 .. Cardinality(kept) -> NodeOf(l)]
    BY <1>1, <1>2, <1>4, <1>5
  <2> QED
    BY <1>4, <2>1, IsASeq
<1>8. ASSUME NEW n \in ToSet(s) PROVE n \in Nodes(l) /\ ~late[n]
  BY <1>2, <1>5, <1>6, <1>8 DEF ToSet
<1>9. ASSUME NEW n \in Nodes(l), ~late[n] PROVE n \in ToSet(s)
  <2>1. PICK x \in DOMAIN list[l] : n = list[l][x]
    BY DEF Nodes, ToSet
  <2>2. x \in kept
    BY <1>9, <2>1
  <2>3. PICK i \in DOMAIN f : f[i] = x
    BY <1>4, <2>2
  <2> QED
    BY <1>6, <2>1, <2>3 DEF ToSet
<1>10. ASSUME Unique(list[l]) PROVE Unique(s)
  BY <1>4, <1>5, <1>6, <1>10 DEF Unique
<1> QED
  BY <1>7, <1>8, <1>9, <1>10

\* What load reads: rows of the table, once each.
LEMMA LoadFacts ==
  ASSUME Types, NEW l \in Lists, NEW s \in InitList(l)
  PROVE  /\ s \in Seq(NodeOf(l)) /\ Unique(s)
         /\ \A n \in ToSet(s) : \E i \in Present(l) : n = Node(i, table[l][i])
<1>1. PICK I \in SUBSET Present(l) : s \in SetToSeqs({Node(i, table[l][i]) : i \in I})
  <2>1. CASE l # "defs"
    BY <2>1 DEF InitList, InitSubjects
  <2>2. CASE l = "defs" /\ plugin = "url"
    <3> DEFINE I == {i \in Present("defs") : table["defs"][i].valid}
    <3>1. s \in SetToSeqs({Node(i, table[l][i]) : i \in I})
      BY <2>2 DEF InitList, InitPatterns
    <3>2. I \in SUBSET Present(l)
      BY <2>2
    <3> QED
      BY <3>1, <3>2
  <2>3. CASE l = "defs" /\ plugin # "url"
    BY <2>3 DEF InitList, InitSubjects
  <2> QED
    BY <2>1, <2>2, <2>3
<1> DEFINE S == {Node(i, table[l][i]) : i \in I}
<1>2. IsFiniteSet(Ids(l))
  BY PolicyAssumption DEF Ids, Types
<1>3. IsFiniteSet(I)
  BY <1>2, FS_Subset DEF Present
<1>4. IsFiniteSet(S)
  <2> DEFINE g == [i \in I |-> Node(i, table[l][i])]
  <2>1. g \in Surjection(I, S)
    BY DEF Surjection
  <2> QED
    BY <1>3, <2>1, FS_Surjection
<1>5. \A i \in I : Node(i, table[l][i]) \in NodeOf(l) /\ Node(i, table[l][i]).id = i
  <2> TAKE i \in I
  <2>1. i \in Ids(l) /\ table[l][i] \in RowsOf(l)
    BY DEF Present, Types
  <2> QED
    BY <2>1 DEF Node, NodeOf
<1>6. /\ Cardinality(S) \in Nat /\ s \in [1 .. Cardinality(S) -> S]
      /\ \A i, j \in DOMAIN s : s[i] = s[j] => i = j
  BY <1>1, <1>4, SeqsFacts
<1>7. S \subseteq NodeOf(l) /\ \A x, y \in S : x.id = y.id => x = y
  BY <1>5
<1> HIDE DEF S
<1>8. s \in Seq(NodeOf(l))
  <2>1. s \in [1 .. Cardinality(S) -> NodeOf(l)]
    BY <1>6, <1>7
  <2> QED
    BY <1>6, <2>1, IsASeq
<1>9. Unique(s)
  BY <1>6, <1>7 DEF Unique
<1>10. ASSUME NEW n \in ToSet(s) PROVE n \in S
  BY <1>6 DEF ToSet
<1> QED
  BY <1>8, <1>9, <1>10 DEF S

\* Every node becomes what g makes of it.
LEMMA InPlace ==
  ASSUME Types, NEW l \in Lists, NEW g \in [NodeOf(l) -> NodeOf(l)],
         \A n \in NodeOf(l) : g[n].id = n.id,
         NEW t, t = [k \in DOMAIN list[l] |-> g[list[l][k]]]
  PROVE  /\ t \in Seq(NodeOf(l)) /\ (Unique(list[l]) => Unique(t))
         /\ \A n \in Nodes(l) : n \in NodeOf(l) /\ g[n] \in ToSet(t)
         /\ \A m \in ToSet(t) : \E n \in Nodes(l) : m = g[n]
<1>1. /\ list[l] \in Seq(NodeOf(l)) /\ Nodes(l) \subseteq NodeOf(l)
      /\ \A k \in DOMAIN list[l] : list[l][k] \in Nodes(l)
  BY NodesAre
<1>2. DOMAIN t = DOMAIN list[l] /\ \A k \in DOMAIN t : t[k] = g[list[l][k]]
  OBVIOUS
<1>3. t \in Seq(NodeOf(l)) /\ (Unique(list[l]) => Unique(t))
  <2>1. \A k \in DOMAIN list[l] : t[k] \in NodeOf(l) /\ t[k].id = list[l][k].id
    BY <1>1, <1>2
  <2> QED
    BY <1>1, <1>2, <2>1, MapFacts
<1>4. \A n \in Nodes(l) : g[n] \in ToSet(t)
  <2> SUFFICES ASSUME NEW k \in DOMAIN list[l] PROVE g[list[l][k]] \in ToSet(t)
    BY DEF Nodes, ToSet
  <2> QED
    BY <1>2 DEF ToSet
<1>5. \A m \in ToSet(t) : \E n \in Nodes(l) : m = g[n]
  BY <1>1, <1>2 DEF ToSet
<1> QED
  BY <1>1, <1>3, <1>4, <1>5

\* What update_... and insert_... make of the list: the row's node has the row, the
\* others stay; only a pattern that does not compile is left without a node.
LEMMA AppliedFacts ==
  ASSUME Types, NEW l \in Lists, NEW i \in Ids(l), table[l][i] # Absent,
         NEW t, t = Applied(l, i), Unique(list[l])
  PROVE  /\ t \in Seq(NodeOf(l)) /\ Unique(t)
         /\ \A m \in ToSet(t) :
              \/ m \in Nodes(l) /\ m.id # i
              \/ /\ m.id = i /\ m.row = table[l][i] /\ m.age = 0
                 /\ m.row.valid => m.sound
         /\ \A n \in Nodes(l) : n.id # i => n \in ToSet(t)
         /\ (\E m \in ToSet(t) : m.id = i) \/ ~table[l][i].valid
<1> DEFINE r == table[l][i]
<1>1. r \in RowsOf(l) /\ plugin \in {"time", "url"}
  BY DEF Types, Plugins
<1>2. list[l] \in Seq(NodeOf(l)) /\ Nodes(l) \subseteq NodeOf(l)
  BY NodesAre
<1>3. Node(i, r) \in NodeOf(l) /\ Node(i, r).id = i /\ Node(i, r).row = r
      /\ Node(i, r).age = 0 /\ Node(i, r).sound
  BY <1>1 DEF Node, NodeOf
<1>4. CASE user_find(l, i) = {}
  <2>1. \A n \in Nodes(l) : n.id # i
    BY <1>4 DEF user_find
  <2>2. CASE t = Append(list[l], Node(i, r))
    <3> DEFINE n0 == Node(i, r)
    <3>0. n0 \in NodeOf(l) /\ n0.id = i /\ t = Append(list[l], n0)
      BY <1>3, <2>2
    <3> HIDE DEF n0
    <3>1. /\ t \in Seq(NodeOf(l)) /\ n0 \in ToSet(t)
          /\ \A x \in ToSet(t) : x \in Nodes(l) \/ x = n0
          /\ \A x \in Nodes(l) : x \in ToSet(t)
      BY <1>2, <3>0, AppendFacts DEF Nodes
    <3>2. \A m \in ToSet(list[l]) : m.id # n0.id
      BY <2>1, <3>0 DEF Nodes
    <3>3. Unique(t)
      BY <1>2, <3>0, <3>2, AppendFacts
    <3> QED
      BY <1>3, <2>1, <3>1, <3>3 DEF n0
  <2>3. CASE t = list[l] /\ ~r.valid
    BY <1>2, <2>1, <2>3 DEF Nodes
  <2>4. CASE l # "defs"
    BY <1>4, <2>2, <2>4 DEF Applied, Inserted
  <2>5. CASE l = "defs" /\ plugin = "time"
    BY <1>4, <2>2, <2>5 DEF Applied, InsertedTime
  <2>6. CASE l = "defs" /\ plugin = "url"
    BY <1>4, <2>2, <2>3, <2>6 DEF Applied, InsertedPattern
  <2> QED
    BY <1>1, <2>4, <2>5, <2>6
<1>5. CASE user_find(l, i) # {}
  <2>1. PICK n0 \in Nodes(l) : n0.id = i
    BY <1>5 DEF user_find
  <2>2. ASSUME NEW new \in NodeOf(l), new.id = i, new.row = r, new.age = 0, r.valid => new.sound,
               t = Replace(l, LAMBDA n : IF n.id = i THEN new ELSE n)
        PROVE  /\ t \in Seq(NodeOf(l)) /\ Unique(t)
               /\ \A m \in ToSet(t) :
                    \/ m \in Nodes(l) /\ m.id # i
                    \/ /\ m.id = i /\ m.row = table[l][i] /\ m.age = 0
                       /\ m.row.valid => m.sound
               /\ \A n \in Nodes(l) : n.id # i => n \in ToSet(t)
               /\ (\E m \in ToSet(t) : m.id = i)
    <3> DEFINE g == [n \in NodeOf(l) |-> IF n.id = i THEN new ELSE n]
    <3>1. g \in [NodeOf(l) -> NodeOf(l)] /\ \A n \in NodeOf(l) : g[n].id = n.id
      BY <2>2
    <3>2. t = [k \in DOMAIN list[l] |-> g[list[l][k]]]
      <4>1. \A k \in DOMAIN list[l] :
              g[list[l][k]] = IF list[l][k].id = i THEN new ELSE list[l][k]
        BY <1>2
      <4> HIDE DEF g
      <4> QED
        BY <2>2, <4>1 DEF Replace
    <3>3. \A n \in Nodes(l) : g[n] = IF n.id = i THEN new ELSE n
      BY <1>2
    <3> HIDE DEF g
    <3>4. /\ t \in Seq(NodeOf(l)) /\ (Unique(list[l]) => Unique(t))
          /\ \A n \in Nodes(l) : g[n] \in ToSet(t)
          /\ \A m \in ToSet(t) : \E n \in Nodes(l) : m = g[n]
      <4>1. t \in Seq(NodeOf(l)) /\ (Unique(list[l]) => Unique(t))
        BY <3>1, <3>2, InPlace
      <4>2. \A n \in Nodes(l) : g[n] \in ToSet(t)
        BY <3>1, <3>2, InPlace
      <4>3. \A m \in ToSet(t) : \E n \in Nodes(l) : m = g[n]
        BY <3>1, <3>2, InPlace
      <4> QED
        BY <4>1, <4>2, <4>3
    <3>5. \E m \in ToSet(t) : m.id = i
      BY <2>1, <2>2, <3>3, <3>4
    <3>6. \A n \in Nodes(l) : n.id # i => n \in ToSet(t)
      BY <3>3, <3>4
    <3>7. ASSUME NEW m \in ToSet(t)
          PROVE  \/ m \in Nodes(l) /\ m.id # i
                 \/ /\ m.id = i /\ m.row = table[l][i] /\ m.age = 0
                    /\ m.row.valid => m.sound
      <4>1. PICK n \in Nodes(l) : m = IF n.id = i THEN new ELSE n
        BY <3>3, <3>4
      <4> QED
        BY <2>2, <4>1
    <3> QED
      BY <3>4, <3>5, <3>6, <3>7
  <2>3. CASE t = Replace(l, LAMBDA n : IF n.id = i THEN Node(i, r) ELSE n)
    BY <1>3, <2>2, <2>3
  <2>4. CASE l # "defs"
    BY <1>5, <2>3, <2>4 DEF Applied, Updated
  <2>5. CASE l = "defs" /\ plugin = "time"
    BY <1>5, <2>3, <2>5 DEF Applied, UpdatedTime, Replace
  <2>6. CASE l = "defs" /\ plugin = "url"
    <3> DEFINE new == [Node(i, r) EXCEPT !.sound = r.valid]
    <3>1. t = Replace(l, LAMBDA n : IF n.id = i THEN new ELSE n)
      BY <1>5, <2>6 DEF Applied, UpdatedPattern
    <3>2. r.valid \in BOOLEAN
      BY <1>1, RowTypes DEF Types
    <3>3. new \in NodeOf(l) /\ new.id = i /\ new.row = r /\ new.age = 0 /\ (r.valid => new.sound)
      BY <1>1, <3>2 DEF Node, NodeOf
    <3> HIDE DEF new
    <3> QED
      BY <2>2, <3>1, <3>3
  <2> QED
    BY <1>1, <2>4, <2>5, <2>6
<1> QED
  BY <1>4, <1>5
---------------------------------------------------------------------------
(* The lists through the steps.                                            *)

Mirror == Types /\ PhaseInv /\ \A l \in Lists : ListInv(l)

\* The lists, their tables and syncs are the same, and so is what is known of them.
LEMMA SameList ==
  ASSUME NEW l \in Lists, ListInv(l),
         plugin' = plugin, blurred' = blurred, list'[l] = list[l], table'[l] = table[l],
         spc'[l] = spc[l], rows'[l] = rows[l], cur'[l] = cur[l],
         l \in settled' <=> l \in settled, l \in clean' <=> l \in clean,
         l \in ran' <=> l \in ran, calm' => l \in settled /\ Fits(l)
  PROVE  ListInv(l)'
<1>1. Nodes(l)' = Nodes(l) /\ Present(l)' = Present(l)
  BY DEF Nodes, Present, Ids
<1>2. \A i : Shown(l, i)' <=> Shown(l, i)
  BY <1>1 DEF Shown
<1>3. \A i : Handled(l, i)' <=> Handled(l, i)
  BY <1>1, <1>2 DEF Handled
<1>4. Fits(l)' <=> Fits(l)
  BY <1>1 DEF Fits
<1>5. Unique(list[l])' /\ RowInv(l)'
  BY <1>1 DEF ListInv, RowInv, Unique
<1>6. ShownInv(l)'
  BY <1>1, <1>2 DEF ListInv, ShownInv
<1>7. SyncInv(l)'
  BY <1>1, <1>3 DEF ListInv, SyncInv
<1>8. SweptInv(l)' /\ CalmInv(l)'
  BY <1>1, <1>4 DEF ListInv, SweptInv, CalmInv
<1> QED
  BY <1>5, <1>6, <1>7, <1>8 DEF ListInv

\* Quiet steps: the clock, a console, the start and the decisions.
LEMMA QuietStep ==
  ASSUME Mirror, UNCHANGED <<plugin, table, list, settled, blurred, syncVars>>,
         lock' \in [Lists -> {"free", "sync", "console"}],
         phase' \in {"down", "loading", "up"}, loading' \in Seq(Lists),
         phase' # "up" => phase # "up" /\ dpc' = "idle" /\ ~calm',
         calm' => calm \/ Calm
  PROVE  Mirror'
<1>1. Lists' = Lists /\ \A l : Ids(l)' = Ids(l) /\ RowsOf(l)' = RowsOf(l)
  BY DEF Lists, Ids, RowsOf
<1>2. \A l : NodeOf(l)' = NodeOf(l)
  BY <1>1 DEF NodeOf
<1>3. Types'
  BY <1>1, <1>2 DEF Types, Mirror, syncVars
<1>4. PhaseInv'
  BY <1>1 DEF PhaseInv, Mirror, syncVars
<1>5. ASSUME NEW l \in Lists PROVE ListInv(l)'
  <2>1. calm' => l \in settled /\ Fits(l)
    BY DEF Mirror, ListInv, CalmInv, Calm
  <2> QED
    BY <2>1, SameList DEF Mirror, syncVars
<1> QED
  BY <1>1, <1>3, <1>4, <1>5 DEF Mirror

\* Initially every list is empty and nothing runs.
LEMMA MirrorInit == Init => Mirror
<1> SUFFICES ASSUME Init PROVE Mirror
  OBVIOUS
<1>1. plugin \in Plugins /\ table = FirstTable[plugin]
  BY DEF Init
<1>2. DOMAIN table = Lists /\ \A l \in Lists : table[l] \in [Ids(l) -> RowsOf(l) \cup {Absent}]
  <2>1. /\ DOMAIN FirstTable[plugin] = ToSet(Chain[plugin]) \cup {"defs"}
        /\ FirstTable[plugin]["defs"] \in [DefIds[plugin] -> Defined[plugin] \cup {Absent}]
        /\ \A l \in ToSet(Chain[plugin]) :
             FirstTable[plugin][l] \in [Subjects -> Assigned \cup {Absent}]
        /\ "defs" \notin ToSet(Chain[plugin])
    BY <1>1, PolicyAssumption
  <2>2. ASSUME NEW l \in Lists, l # "defs"
        PROVE  table[l] \in [Ids(l) -> RowsOf(l) \cup {Absent}]
    BY <1>1, <2>1, <2>2 DEF Lists, Ids, RowsOf
  <2>3. table["defs"] \in [Ids("defs") -> RowsOf("defs") \cup {Absent}]
    BY <1>1, <2>1 DEF Ids, RowsOf
  <2> QED
    BY <1>1, <2>1, <2>2, <2>3 DEF Lists
<1>3. Types
  BY <1>1, <1>2 DEF Types, Init
<1>4. PhaseInv
  BY DEF PhaseInv, Init
<1>5. ASSUME NEW l \in Lists PROVE ListInv(l)
  <2>1. list[l] = <<>> /\ spc[l] = "idle" /\ settled = {} /\ clean = {} /\ ~calm
    BY DEF Init
  <2>2. Nodes(l) = {} /\ Unique(list[l])
    BY <2>1 DEF Nodes, ToSet, Unique
  <2> QED
    BY <2>1, <2>2 DEF ListInv, RowInv, ShownInv, SyncInv, SweptInv, CalmInv
<1> QED
  BY <1>3, <1>4, <1>5 DEF Mirror

\* Time passes: the nodes age between two syncs.
LEMMA TickStep == Mirror /\ Tick => Mirror'
<1> SUFFICES ASSUME Mirror, Tick PROVE Mirror'
  OBVIOUS
<1>1. Lists' = Lists /\ \A l : Ids(l)' = Ids(l) /\ RowsOf(l)' = RowsOf(l)
  BY DEF Lists, Ids, RowsOf, Tick
<1>2. \A l : NodeOf(l)' = NodeOf(l) /\ Present(l)' = Present(l)
  BY <1>1 DEF NodeOf, Present, Tick
<1>3. ASSUME NEW l \in Lists
      PROVE  /\ list'[l] \in Seq(NodeOf(l)) /\ Unique(list[l])'
             /\ \A n \in Nodes(l) : \E m \in Nodes(l)' : m.id = n.id /\ m.row = n.row
             /\ \A m \in Nodes(l)' :
                  \E n \in Nodes(l) : m.id = n.id /\ m.row = n.row /\ m.sound = n.sound
  <2> DEFINE g == [n \in NodeOf(l) |-> Aged(n)]
  <2>1. ASSUME NEW n \in NodeOf(l)
        PROVE  /\ g[n] \in NodeOf(l) /\ g[n].id = n.id
               /\ g[n].row = n.row /\ g[n].sound = n.sound
    BY DEF Aged, NodeOf
  <2>2. list'[l] = [k \in DOMAIN list[l] |-> Aged(list[l][k])]
    BY DEF Tick, Replace
  <2>3. /\ \A k \in DOMAIN list[l] : list[l][k] \in NodeOf(l)
        /\ Nodes(l) \subseteq NodeOf(l)
    BY NodesAre DEF Mirror
  <2>4. list'[l] = [k \in DOMAIN list[l] |-> g[list[l][k]]]
    BY <2>2, <2>3
  <2>5. g \in [NodeOf(l) -> NodeOf(l)]
    BY <2>1
  <2> HIDE DEF g
  <2>6. /\ list'[l] \in Seq(NodeOf(l)) /\ (Unique(list[l]) => Unique(list'[l]))
        /\ \A n \in Nodes(l) : g[n] \in ToSet(list'[l])
        /\ \A m \in ToSet(list'[l]) : \E n \in Nodes(l) : m = g[n]
    BY <2>1, <2>4, <2>5, InPlace DEF Mirror
  <2>7. Nodes(l)' = ToSet(list'[l]) /\ Unique(list[l])
    BY DEF Nodes, Mirror, ListInv
  <2> QED
    BY <2>1, <2>3, <2>6, <2>7 DEF Unique
<1>4. Types'
  BY <1>1, <1>2, <1>3 DEF Types, Mirror, Tick
<1>5. PhaseInv'
  BY <1>1 DEF PhaseInv, Mirror, Tick
<1>6. ASSUME NEW l \in Lists PROVE ListInv(l)'
  <2>1. RowInv(l)'
    BY <1>3 DEF RowInv, Mirror, ListInv, Tick
  <2>2. ShownInv(l)'
    <3> SUFFICES ASSUME l \in settled, NEW i \in Present(l) PROVE Shown(l, i)'
      BY <1>2 DEF ShownInv, Tick
    <3>1. Shown(l, i)
      BY DEF Mirror, ListInv, ShownInv
    <3> QED
      BY <1>3, <3>1 DEF Shown, Tick
  <2>3. SyncInv(l)' /\ SweptInv(l)' /\ CalmInv(l)'
    BY DEF SyncInv, SweptInv, CalmInv, Tick
  <2> QED
    BY <1>3, <2>1, <2>2, <2>3 DEF ListInv
<1> QED
  BY <1>1, <1>4, <1>5, <1>6 DEF Mirror

\* An edit ends what was known of the list, and is remembered when it met a node
\* with the new row's md5.
LEMMA EditStep ==
  ASSUME Mirror, NEW l \in Lists, NEW i \in Ids(l), Edit(l, i)
  PROVE  Mirror'
<1>1. Lists' = Lists /\ \A k : Ids(k)' = Ids(k) /\ RowsOf(k)' = RowsOf(k)
  BY DEF Lists, Ids, RowsOf, Edit
<1>2. \A k : NodeOf(k)' = NodeOf(k) /\ Nodes(k)' = Nodes(k)
  BY <1>1 DEF NodeOf, Nodes, Edit
<1>3. PICK r \in RowsOf(l) \cup {Absent} :
        /\ table' = [table EXCEPT ![l][i] = r]
        /\ blurred' = \/ blurred
                      \/ \E n \in user_find(l, i) :
                           r # Absent /\ n.row # r /\ n.row.md5 = r.md5
  BY DEF Edit
<1>4. /\ DOMAIN table = Lists /\ table[l] \in [Ids(l) -> RowsOf(l) \cup {Absent}]
  BY DEF Mirror, Types
<1>5. /\ table'[l] = [table[l] EXCEPT ![i] = r]
      /\ \A k \in Lists \ {l} : table'[k] = table[k]
      /\ DOMAIN table' = Lists
  BY <1>3, <1>4
<1>6. Types'
  <2>1. \A k \in Lists : table'[k] \in [Ids(k) -> RowsOf(k) \cup {Absent}]
    <3>1. table'[l] \in [Ids(l) -> RowsOf(l) \cup {Absent}]
      BY <1>4, <1>5
    <3>2. \A k \in Lists \ {l} : table'[k] \in [Ids(k) -> RowsOf(k) \cup {Absent}]
      BY <1>5 DEF Mirror, Types
    <3> QED
      BY <3>1, <3>2
  <2>2. settled' \subseteq Lists /\ clean' \subseteq Lists
    BY DEF Edit, Mirror, Types
  <2> QED
    BY <1>1, <1>2, <1>5, <2>1, <2>2 DEF Types, Mirror, Edit
<1>7. PhaseInv'
  BY <1>1 DEF PhaseInv, Mirror, Edit
<1>8. ASSUME NEW k \in Lists PROVE ListInv(k)'
  <2>1. blurred => blurred'
    BY <1>3
  <2>2. RowInv(k)'
    <3> SUFFICES ASSUME NEW n \in Nodes(k)
                 PROVE  /\ ~blurred' /\ table'[k][n.id] # Absent
                             /\ n.row.md5 = table'[k][n.id].md5 => n.row = table'[k][n.id]
                        /\ n.row.valid => n.sound
      BY <1>2 DEF RowInv
    <3>1. n.id \in Ids(k)
      BY NodesAre DEF Mirror, NodeOf
    <3>2. CASE k = l /\ n.id = i
      <4>1. table'[k][n.id] = r /\ n \in user_find(l, i)
        BY <1>4, <1>5, <3>2 DEF user_find
      <4> QED
        BY <1>3, <4>1 DEF Mirror, ListInv, RowInv
    <3>3. CASE ~(k = l /\ n.id = i)
      <4>1. table'[k][n.id] = table[k][n.id]
        BY <1>4, <1>5, <3>1, <3>3
      <4> QED
        BY <2>1, <4>1 DEF Mirror, ListInv, RowInv
    <3> QED
      BY <3>2, <3>3
  <2>3. CASE k = l
    <3>1. l \notin settled' /\ l \notin clean' /\ ~calm' /\ list' = list
      BY DEF Edit
    <3> QED
      BY <2>2, <2>3, <3>1
      DEF ListInv, Mirror, ShownInv, SyncInv, SweptInv, CalmInv, Unique
  <2>4. CASE k # l
    <3>1. /\ k \in settled' <=> k \in settled
          /\ k \in clean' <=> k \in clean
          /\ ~calm' /\ UNCHANGED <<list, spc, rows, cur, ran>>
      BY <2>4 DEF Edit
    <3>2. Present(k)' = Present(k) /\ \A j : Shown(k, j)' <=> Shown(k, j)
      BY <1>1, <1>2, <1>5, <2>4, <3>1 DEF Present, Shown
    <3>3. \A j : Handled(k, j)' <=> Handled(k, j)
      BY <1>2, <3>2 DEF Handled
    <3>4. ShownInv(k)' /\ CalmInv(k)' /\ Unique(list[k])'
      BY <3>1, <3>2 DEF ListInv, Mirror, ShownInv, CalmInv, Unique
    <3>5. SyncInv(k)'
      BY <1>5, <2>4, <3>1, <3>2, <3>3 DEF ListInv, Mirror, SyncInv
    <3>6. SweptInv(k)'
      BY <1>2, <3>1 DEF ListInv, Mirror, SweptInv
    <3> QED
      BY <2>2, <3>4, <3>5, <3>6 DEF ListInv
  <2> QED
    BY <2>3, <2>4
<1> QED
  BY <1>1, <1>6, <1>7, <1>8 DEF Mirror

\* One list changes; of the others nothing is forgotten.
LEMMA OneList ==
  ASSUME Mirror, NEW l \in Lists, UNCHANGED <<plugin, table, blurred, calm>>,
         PhaseInv', phase' \in {"down", "loading", "up"}, loading' \in Seq(Lists),
         DOMAIN list' = Lists, DOMAIN rows' = Lists, DOMAIN cur' = Lists,
         lock' \in [Lists -> {"free", "sync", "console"}],
         spc' \in [Lists -> {"idle", "rows", "apply"}],
         clean' \subseteq Lists, settled' \subseteq Lists, ran' \subseteq Lists,
         list'[l] \in Seq(NodeOf(l)), rows'[l] \subseteq Ids(l) \X {r.md5 : r \in RowsOf(l)},
         spc'[l] = "apply" => cur'[l] \in Ids(l),
         \A k \in Lists \ {l} :
           /\ list'[k] = list[k] /\ spc'[k] = spc[k] /\ rows'[k] = rows[k] /\ cur'[k] = cur[k]
           /\ (k \in settled' <=> k \in settled) /\ (k \in clean' <=> k \in clean)
           /\ (k \in ran' <=> k \in ran),
         ListInv(l)'
  PROVE  Mirror'
<1>1. Lists' = Lists /\ \A k : Ids(k)' = Ids(k) /\ RowsOf(k)' = RowsOf(k)
  BY DEF Lists, Ids, RowsOf
<1>2. \A k : NodeOf(k)' = NodeOf(k)
  BY <1>1 DEF NodeOf
<1>3. Types'
  <2>1. \A k \in Lists : list'[k] \in Seq(NodeOf(k))
    BY DEF Mirror, Types
  <2>2. \A k \in Lists : rows'[k] \subseteq Ids(k) \X {r.md5 : r \in RowsOf(k)}
    BY DEF Mirror, Types
  <2>3. \A k \in Lists : spc'[k] = "apply" => cur'[k] \in Ids(k)
    BY DEF Mirror, Types
  <2>4. /\ plugin \in Plugins /\ DOMAIN table = Lists
        /\ \A k \in Lists : table[k] \in [Ids(k) -> RowsOf(k) \cup {Absent}]
    BY DEF Mirror, Types
  <2>5. /\ plugin' \in Plugins' /\ (DOMAIN table = Lists)'
        /\ (\A k \in Lists : table[k] \in [Ids(k) -> RowsOf(k) \cup {Absent}])'
    BY <1>1, <2>4 DEF Plugins
  <2>6. /\ (\A k \in Lists : list[k] \in Seq(NodeOf(k)))'
        /\ (\A k \in Lists : rows[k] \subseteq Ids(k) \X {r.md5 : r \in RowsOf(k)})'
        /\ (\A k \in Lists : spc[k] = "apply" => cur[k] \in Ids(k))'
    BY <1>1, <1>2, <2>1, <2>2, <2>3
  <2> QED
    BY <1>1, <2>5, <2>6 DEF Types
<1>4. ASSUME NEW k \in Lists PROVE ListInv(k)'
  <2>1. CASE k = l
    BY <2>1
  <2>2. CASE k # l
    <3>1. ListInv(k) /\ (calm' => k \in settled /\ Fits(k))
      BY DEF Mirror, ListInv, CalmInv
    <3>2. /\ list'[k] = list[k] /\ spc'[k] = spc[k] /\ rows'[k] = rows[k] /\ cur'[k] = cur[k]
          /\ (k \in settled' <=> k \in settled) /\ (k \in clean' <=> k \in clean)
          /\ (k \in ran' <=> k \in ran) /\ table'[k] = table[k]
      BY <2>2
    <3> QED
      BY <3>1, <3>2, SameList
  <2> QED
    BY <2>1, <2>2
<1> QED
  BY <1>1, <1>3, <1>4 DEF Mirror

\* The daemon ends: the lists are empty again.
LEMMA DownStep == Mirror /\ Down => Mirror'
<1> SUFFICES ASSUME Mirror, Down PROVE Mirror'
  OBVIOUS
<1>1. Lists' = Lists /\ \A k : Ids(k)' = Ids(k) /\ RowsOf(k)' = RowsOf(k)
  BY DEF Lists, Ids, RowsOf, Down
<1>2. \A k : NodeOf(k)' = NodeOf(k)
  BY <1>1 DEF NodeOf
<1>3. Types'
  BY <1>1, <1>2 DEF Types, Mirror, Down
<1>4. PhaseInv'
  BY <1>1 DEF PhaseInv, Down
<1>5. ASSUME NEW l \in Lists PROVE ListInv(l)'
  <2>1. list'[l] = <<>> /\ spc'[l] = "idle" /\ settled' = {} /\ clean' = {} /\ ~calm'
    BY DEF Down
  <2>2. Nodes(l)' = {} /\ Unique(list[l])'
    BY <2>1 DEF Nodes, ToSet, Unique
  <2> QED
    BY <2>1, <2>2 DEF ListInv, RowInv, ShownInv, SyncInv, SweptInv, CalmInv
<1> QED
  BY <1>1, <1>3, <1>4, <1>5 DEF Mirror

\* A list is read when the daemon is started.
LEMMA LoadListStep == Mirror /\ LoadList => Mirror'
<1> SUFFICES ASSUME Mirror, LoadList PROVE Mirror'
  OBVIOUS
<1>0. PICK l : l = Head(loading)
  OBVIOUS
<1>1. /\ loading \in Seq(Lists) /\ loading # <<>> /\ loading' = Tail(loading)
      /\ UNCHANGED <<plugin, table, lock, syncVars, timeVars, decVars, settled, blurred>>
      /\ phase = "loading" /\ phase' \in {"loading", "up"}
  BY DEF LoadList, Mirror, Types
<1>2. l \in Lists /\ loading' \in Seq(Lists)
  BY <1>0, <1>1
<1>3. /\ Types /\ list[l] \in Seq(NodeOf(l)) /\ Unique(list[l]) /\ RowInv(l)
      /\ clean = {} /\ settled = {} /\ ~calm /\ dpc = "idle"
      /\ \A k \in Lists : spc[k] = "idle"
  BY <1>1, <1>2, NodesAre DEF Mirror, ListInv, PhaseInv
<1>4. PICK s : /\ list' = [list EXCEPT ![l] = s] \/ (list' = list /\ s = list[l])
               /\ s \in InitList(l) \/ s = list[l]
  BY <1>0 DEF LoadList
<1>5. DOMAIN list = Lists
  BY DEF Mirror, Types
<1>6. /\ list'[l] = s /\ DOMAIN list' = Lists
      /\ \A k \in Lists \ {l} : list'[k] = list[k]
  BY <1>2, <1>4, <1>5
<1>7. s \in Seq(NodeOf(l)) /\ Unique(s)
  BY <1>2, <1>3, <1>4, LoadFacts
<1>8. Lists' = Lists
  BY <1>1 DEF Lists
<1>9. ListInv(l)'
  <2>1. Nodes(l)' = ToSet(s)
    BY <1>6 DEF Nodes
  <2>2. RowInv(l)'
    <3>1. CASE s = list[l]
      BY <1>1, <1>3, <2>1, <3>1 DEF RowInv, Nodes
    <3>2. CASE s \in InitList(l)
      <4>1. \A n \in ToSet(s) : n.row = table[l][n.id] /\ n.sound
        BY <1>2, <1>3, <3>2, LoadFacts DEF Node
      <4> QED
        BY <1>1, <2>1, <4>1 DEF RowInv
    <3> QED
      BY <1>4, <3>1, <3>2
  <2>3. Unique(list[l])'
    BY <1>6, <1>7 DEF Unique
  <2>4. clean' = {} /\ settled' = {} /\ ~calm'
    BY <1>1, <1>3 DEF syncVars, decVars
  <2> QED
    BY <2>2, <2>3, <2>4 DEF ListInv, ShownInv, SyncInv, SweptInv, CalmInv
<1>10. PhaseInv'
  BY <1>1, <1>3, <1>8 DEF PhaseInv, syncVars, decVars
<1>11. /\ DOMAIN rows = Lists /\ DOMAIN cur = Lists
       /\ lock \in [Lists -> {"free", "sync", "console"}]
       /\ spc \in [Lists -> {"idle", "rows", "apply"}]
       /\ clean \subseteq Lists /\ settled \subseteq Lists /\ ran \subseteq Lists
       /\ rows[l] \subseteq Ids(l) \X {r.md5 : r \in RowsOf(l)}
       /\ spc[l] # "apply"
  BY <1>2, <1>3 DEF Types
<1>12. UNCHANGED <<lock, spc, rows, cur, clean, ran, calm>>
  BY <1>1 DEF syncVars, decVars
<1> QED
  BY <1>1, <1>2, <1>6, <1>7, <1>9, <1>10, <1>11, <1>12, OneList

\* What every step of a sync relies on.
LEMMA SyncFacts ==
  ASSUME Mirror, NEW l \in Lists
  PROVE  /\ Types /\ DOMAIN list = Lists /\ DOMAIN rows = Lists /\ DOMAIN cur = Lists
         /\ list[l] \in Seq(NodeOf(l)) /\ Nodes(l) \subseteq NodeOf(l)
         /\ lock \in [Lists -> {"free", "sync", "console"}]
         /\ spc \in [Lists -> {"idle", "rows", "apply"}]
         /\ clean \subseteq Lists /\ settled \subseteq Lists /\ ran \subseteq Lists
         /\ rows[l] \subseteq Ids(l) \X {r.md5 : r \in RowsOf(l)}
         /\ (spc[l] = "apply" => cur[l] \in Ids(l))
         /\ phase \in {"down", "loading", "up"} /\ loading \in Seq(Lists)
         /\ ListInv(l) /\ (spc[l] # "idle" => phase = "up")
<1>1. Types /\ ListInv(l) /\ (spc[l] # "idle" => phase = "up")
  BY DEF Mirror, PhaseInv, Types
<1>2. list[l] \in Seq(NodeOf(l)) /\ Nodes(l) \subseteq NodeOf(l)
  BY <1>1, NodesAre
<1> QED
  BY <1>1, <1>2 DEF Types

\* The query: every row is to come.
LEMMA SyncOpenStep ==
  ASSUME Mirror, NEW l \in Lists, SyncOpen(l)
  PROVE  Mirror'
<1>1. UNCHANGED <<plugin, table, list, lock, cur, settled, phase, loading, decVars, blurred>>
  BY DEF SyncOpen, SyncRest, decVars
<1>2. UNCHANGED calm /\ phase = "up" /\ ran' = ran \cup {l} /\ spc[l] = "idle"
  BY <1>1 DEF decVars, SyncOpen
<1>3. /\ \/ /\ spc' = [spc EXCEPT ![l] = "rows"]
            /\ rows' = [rows EXCEPT ![l] = {<<i, table[l][i].md5>> : i \in Present(l)}]
            /\ clean' = clean \cup {l}
         \/ clean' = clean \ {l} /\ UNCHANGED <<spc, rows>>
  BY DEF SyncOpen
<1>4. Nodes(l)' = Nodes(l) /\ Present(l)' = Present(l)
  BY <1>1 DEF Nodes, Present, Ids
<1>5. ASSUME NEW i \in Present(l)
      PROVE  <<i, table[l][i].md5>> \in Ids(l) \X {r.md5 : r \in RowsOf(l)}
  <2>1. i \in Ids(l) /\ table[l][i] \in RowsOf(l)
    BY SyncFacts DEF Present, Types
  <2> QED
    BY <2>1
<1>6. /\ spc' \in [Lists -> {"idle", "rows", "apply"}] /\ DOMAIN rows' = Lists
      /\ rows'[l] \subseteq Ids(l) \X {r.md5 : r \in RowsOf(l)}
      /\ spc'[l] # "apply" /\ clean' \subseteq Lists /\ ran' \subseteq Lists
      /\ \A k \in Lists \ {l} :
           /\ spc'[k] = spc[k] /\ rows'[k] = rows[k]
           /\ (k \in clean' <=> k \in clean) /\ (k \in ran' <=> k \in ran)
  <2>1. CASE clean' = clean \ {l} /\ UNCHANGED <<spc, rows>>
    BY <1>2, <2>1, SyncFacts
  <2>2. CASE /\ spc' = [spc EXCEPT ![l] = "rows"]
             /\ rows' = [rows EXCEPT ![l] = {<<i, table[l][i].md5>> : i \in Present(l)}]
             /\ clean' = clean \cup {l}
    <3>1. rows'[l] = {<<i, table[l][i].md5>> : i \in Present(l)}
      BY <2>2, SyncFacts
    <3>2. rows'[l] \subseteq Ids(l) \X {r.md5 : r \in RowsOf(l)}
      BY <1>5, <3>1
    <3> QED
      BY <1>2, <2>2, <3>2, SyncFacts
  <2> QED
    BY <1>3, <2>1, <2>2
<1>7. ListInv(l)'
  <2>1. ListInv(l)
    BY SyncFacts
  <2>2. Unique(list[l])' /\ RowInv(l)'
    BY <1>1, <1>4, <2>1 DEF ListInv, RowInv, Unique
  <2>3. ShownInv(l)' /\ CalmInv(l)'
    BY <1>1, <1>2, <1>4, <2>1 DEF ListInv, ShownInv, Shown, CalmInv, Fits
  <2>4. CASE clean' = clean \ {l} /\ UNCHANGED <<spc, rows>>
    BY <1>2, <2>2, <2>3, <2>4 DEF ListInv, SyncInv, SweptInv
  <2>5. CASE /\ spc' = [spc EXCEPT ![l] = "rows"]
             /\ rows' = [rows EXCEPT ![l] = {<<i, table[l][i].md5>> : i \in Present(l)}]
    <3>1. rows'[l] = {<<i, table[l][i].md5>> : i \in Present(l)} /\ spc'[l] = "rows"
      BY <2>5, SyncFacts
    <3>2. \A r \in rows'[l] : r[1] \in Present(l)' /\ r[2] = table'[l][r[1]].md5
      BY <1>1, <1>4, <3>1
    <3>3. \A i \in Present(l)' : \E r \in rows'[l] : r[1] = i
      <4> SUFFICES ASSUME NEW i \in Present(l) PROVE \E r \in rows'[l] : r[1] = i
        BY <1>4
      <4>1. <<i, table[l][i].md5>> \in rows'[l] /\ <<i, table[l][i].md5>>[1] = i
        BY <3>1
      <4> QED
        BY <4>1
    <3>4. SyncInv(l)'
      BY <3>2, <3>3 DEF SyncInv
    <3>5. SweptInv(l)'
      BY <3>1 DEF SweptInv
    <3> QED
      BY <2>2, <2>3, <3>4, <3>5 DEF ListInv
  <2> QED
    BY <1>3, <2>4, <2>5
<1>8. PhaseInv'
  BY <1>1, <1>2 DEF PhaseInv
<1> QED
  BY <1>1, <1>2, <1>6, <1>7, <1>8, SyncFacts, OneList

\* the list with the node of row i kept alive
Kept(l, i) == [k \in DOMAIN list[l] |-> Refreshed(list[l][k], i)]

\* A node that is kept alive is as it was but for its age.
LEMMA RefreshedFacts ==
  ASSUME Types, NEW l \in Lists, NEW i, Unique(list[l]),
         NEW t, t = Kept(l, i)
  PROVE  /\ t \in Seq(NodeOf(l)) /\ Unique(t)
         /\ \A n \in Nodes(l) : \E m \in ToSet(t) :
              m.id = n.id /\ m.row = n.row /\ m.sound = n.sound
         /\ \A m \in ToSet(t) : \E n \in Nodes(l) :
              /\ m.id = n.id /\ m.row = n.row /\ m.sound = n.sound
              /\ (n.id = i => m.age = 0) /\ (n.id # i => m.age = n.age)
<1> DEFINE g == [n \in NodeOf(l) |-> Refreshed(n, i)]
<1>1. ASSUME NEW n \in NodeOf(l)
      PROVE  /\ g[n] \in NodeOf(l) /\ g[n].id = n.id
             /\ g[n].row = n.row /\ g[n].sound = n.sound
             /\ (n.id = i => g[n].age = 0) /\ (n.id # i => g[n].age = n.age)
  BY DEF Refreshed, NodeOf
<1>3. /\ \A k \in DOMAIN list[l] : list[l][k] \in NodeOf(l)
      /\ Nodes(l) \subseteq NodeOf(l)
  BY NodesAre
<1>4. t = [k \in DOMAIN list[l] |-> g[list[l][k]]]
  BY <1>3 DEF Kept
<1>5. g \in [NodeOf(l) -> NodeOf(l)]
  BY <1>1
<1> HIDE DEF g
<1>6. \A n \in NodeOf(l) : g[n].id = n.id
  BY <1>1
<1>7. t \in Seq(NodeOf(l)) /\ (Unique(list[l]) => Unique(t))
  BY <1>4, <1>5, <1>6, InPlace
<1>8. \A n \in Nodes(l) : g[n] \in ToSet(t)
  BY <1>4, <1>5, <1>6, InPlace
<1>9. \A m \in ToSet(t) : \E n \in Nodes(l) : m = g[n]
  BY <1>4, <1>5, <1>6, InPlace
<1> QED
  BY <1>1, <1>3, <1>7, <1>8, <1>9

\* What a refreshed list says of the rows is what it said, and the node of the
\* row in question is young.
LEMMA RefreshedList ==
  ASSUME Types, NEW l \in Lists, NEW i, Unique(list[l]), RowInv(l), UNCHANGED <<table, blurred>>,
         NEW t, list'[l] = t, t = Kept(l, i)
  PROVE  /\ list'[l] \in Seq(NodeOf(l)) /\ Unique(list[l])' /\ RowInv(l)'
         /\ \A j : Shown(l, j) => Shown(l, j)'
         /\ \A j : Handled(l, j) => Handled(l, j)'
         /\ Shown(l, i) => Handled(l, i)'
         /\ Fits(l) => Fits(l)'
<1>1. /\ t \in Seq(NodeOf(l)) /\ Unique(t)
      /\ \A n \in Nodes(l) : \E m \in ToSet(t) :
           m.id = n.id /\ m.row = n.row /\ m.sound = n.sound
      /\ \A m \in ToSet(t) : \E n \in Nodes(l) :
           /\ m.id = n.id /\ m.row = n.row /\ m.sound = n.sound
           /\ (n.id = i => m.age = 0) /\ (n.id # i => m.age = n.age)
  <2>1. t \in Seq(NodeOf(l)) /\ Unique(t)
    BY RefreshedFacts
  <2>2. \A n \in Nodes(l) : \E m \in ToSet(t) :
          m.id = n.id /\ m.row = n.row /\ m.sound = n.sound
    BY RefreshedFacts
  <2>3. \A m \in ToSet(t) : \E n \in Nodes(l) :
          /\ m.id = n.id /\ m.row = n.row /\ m.sound = n.sound
          /\ (n.id = i => m.age = 0) /\ (n.id # i => m.age = n.age)
    BY RefreshedFacts
  <2> QED
    BY <2>1, <2>2, <2>3
<1>2. Nodes(l)' = ToSet(t)
  BY DEF Nodes
<1>3. RowInv(l)'
  BY <1>1, <1>2 DEF RowInv
<1>4. ASSUME NEW j, Shown(l, j) PROVE Shown(l, j)'
  <2>1. CASE \E n \in Nodes(l) : n.id = j /\ n.row.md5 = table[l][j].md5
    BY <1>1, <1>2, <2>1 DEF Shown
  <2>2. CASE (\A n \in Nodes(l) : n.id # j) /\ ~table[l][j].valid
    BY <1>1, <1>2, <2>2 DEF Shown
  <2> QED
    BY <1>4, <2>1, <2>2 DEF Shown
<1>5. ASSUME NEW j, Handled(l, j) PROVE Handled(l, j)'
  <2>1. \A m \in Nodes(l)' : m.id = j => m.age = 0
    BY <1>1, <1>2, <1>5 DEF Handled
  <2>2. Shown(l, j)'
    BY <1>4, <1>5 DEF Handled
  <2> QED
    BY <2>1, <2>2 DEF Handled
<1>6. ASSUME Shown(l, i) PROVE Handled(l, i)'
  <2>1. \A m \in Nodes(l)' : m.id = i => m.age = 0
    BY <1>1, <1>2
  <2> QED
    BY <1>4, <1>6, <2>1 DEF Handled
<1>7. Fits(l) => Fits(l)'
  BY <1>1, <1>2 DEF Fits
<1> QED
  BY <1>1, <1>3, <1>4, <1>5, <1>6, <1>7 DEF Unique

\* A row is kept alive or taken in hand.
LEMMA SyncRowStep ==
  ASSUME Mirror, NEW l \in Lists, SyncRow(l)
  PROVE  Mirror'
<1>1. PICK r \in rows[l] :
        /\ rows' = [rows EXCEPT ![l] = @ \ {r}]
        /\ \/ /\ \E n \in Nodes(l) : n.id = r[1] /\ n.row.md5 = r[2]
              /\ list' = [list EXCEPT ![l] = Kept(l, r[1])]
              /\ UNCHANGED <<spc, cur, lock>>
           \/ /\ lock' = [lock EXCEPT ![l] = "sync"] /\ spc' = [spc EXCEPT ![l] = "apply"]
              /\ cur' = [cur EXCEPT ![l] = r[1]] /\ UNCHANGED list
  BY DEF SyncRow, Replace, Kept, user_find
<1>2. /\ UNCHANGED <<plugin, table, phase, loading, calm, dpc, blurred, clean, ran, settled>>
      /\ spc[l] = "rows"
  BY DEF SyncRow, SyncRest, decVars
<1>3. /\ Types /\ ListInv(l) /\ Unique(list[l]) /\ RowInv(l) /\ phase = "up"
      /\ r[1] \in Ids(l)
  BY <1>2, SyncFacts DEF ListInv
<1>4. Present(l)' = Present(l)
  BY <1>2 DEF Present, Ids
<1>5. rows'[l] = rows[l] \ {r} /\ DOMAIN rows' = Lists
  BY <1>1, SyncFacts
<1>6. PhaseInv'
  BY <1>2, <1>3 DEF PhaseInv
<1>7. SweptInv(l)'
  <2>1. spc'[l] # "idle"
    BY <1>1, <1>2, SyncFacts
  <2> QED
    BY <2>1 DEF SweptInv
<1>8. CASE /\ \E n \in Nodes(l) : n.id = r[1] /\ n.row.md5 = r[2]
           /\ list' = [list EXCEPT ![l] = Kept(l, r[1])]
           /\ UNCHANGED <<spc, cur, lock>>
  <2>1. list'[l] = Kept(l, r[1]) /\ DOMAIN list' = Lists
    BY <1>8, SyncFacts
  <2>2. PICK t : t = Kept(l, r[1])
    OBVIOUS
  <2>3. /\ list'[l] \in Seq(NodeOf(l)) /\ Unique(list[l])' /\ RowInv(l)'
        /\ \A j : Shown(l, j) => Shown(l, j)'
        /\ \A j : Handled(l, j) => Handled(l, j)'
        /\ Shown(l, r[1]) => Handled(l, r[1])'
        /\ Fits(l) => Fits(l)'
    BY <1>2, <1>3, <2>1, <2>2, RefreshedList
  <2>4. ShownInv(l)' /\ CalmInv(l)'
    BY <1>2, <1>3, <1>4, <2>3 DEF ListInv, ShownInv, CalmInv
  <2>5. SyncInv(l)'
    <3> SUFFICES ASSUME l \in clean \cup settled
                 PROVE  /\ \A q \in rows'[l] : q[1] \in Present(l) /\ q[2] = table[l][q[1]].md5
                        /\ \A i \in Present(l) :
                             \/ \E q \in rows'[l] : q[1] = i
                             \/ spc'[l] = "apply" /\ cur'[l] = i
                             \/ Handled(l, i)'
      BY <1>2, <1>4 DEF SyncInv
    <3>1. /\ \A q \in rows[l] : q[1] \in Present(l) /\ q[2] = table[l][q[1]].md5
          /\ \A i \in Present(l) :
               \/ \E q \in rows[l] : q[1] = i
               \/ spc[l] = "apply" /\ cur[l] = i
               \/ Handled(l, i)
      BY <1>2, <1>3 DEF ListInv, SyncInv
    <3>2. Handled(l, r[1])'
      BY <1>8, <2>3, <3>1 DEF Shown
    <3>3. ASSUME NEW i \in Present(l)
          PROVE (\E q \in rows'[l] : q[1] = i) \/ Handled(l, i)'
      <4>1. CASE \E q \in rows[l] : q[1] = i
        BY <1>5, <3>2, <4>1
      <4>2. CASE Handled(l, i)
        BY <2>3, <4>2
      <4> QED
        BY <1>2, <3>1, <4>1, <4>2
    <3> QED
      BY <1>5, <3>1, <3>3
  <2>6. ListInv(l)'
    BY <1>7, <2>3, <2>4, <2>5 DEF ListInv
  <2>7. \A k \in Lists \ {l} : list'[k] = list[k] /\ rows'[k] = rows[k]
    BY <1>1, <1>8, SyncFacts
  <2>8. rows'[l] \subseteq Ids(l) \X {q.md5 : q \in RowsOf(l)}
    BY <1>5, SyncFacts
  <2> QED
    BY <1>2, <1>5, <1>6, <1>8, <2>1, <2>3, <2>6, <2>7, <2>8, SyncFacts, OneList
<1>9. CASE /\ lock' = [lock EXCEPT ![l] = "sync"] /\ spc' = [spc EXCEPT ![l] = "apply"]
           /\ cur' = [cur EXCEPT ![l] = r[1]] /\ UNCHANGED list
  <2>1. spc'[l] = "apply" /\ cur'[l] = r[1] /\ Nodes(l)' = Nodes(l)
    BY <1>9, SyncFacts DEF Nodes
  <2>2. /\ \A j : Shown(l, j)' <=> Shown(l, j)
        /\ \A j : Handled(l, j)' <=> Handled(l, j)
    BY <1>2, <2>1 DEF Shown, Handled
  <2>3. Unique(list[l])' /\ RowInv(l)' /\ ShownInv(l)' /\ CalmInv(l)'
    BY <1>2, <1>3, <1>4, <1>9, <2>1, <2>2
    DEF ListInv, Unique, RowInv, ShownInv, CalmInv, Fits
  <2>4. SyncInv(l)'
    BY <1>2, <1>3, <1>4, <1>5, <2>1, <2>2 DEF ListInv, SyncInv
  <2>5. ListInv(l)'
    BY <1>7, <2>3, <2>4 DEF ListInv
  <2>6. /\ \A k \in Lists \ {l} : rows'[k] = rows[k] /\ spc'[k] = spc[k] /\ cur'[k] = cur[k]
        /\ lock' \in [Lists -> {"free", "sync", "console"}]
        /\ spc' \in [Lists -> {"idle", "rows", "apply"}]
        /\ DOMAIN cur' = Lists
    BY <1>1, <1>9, SyncFacts
  <2>7. rows'[l] \subseteq Ids(l) \X {q.md5 : q \in RowsOf(l)}
    BY <1>5, SyncFacts
  <2> QED
    BY <1>2, <1>3, <1>5, <1>6, <1>9, <2>1, <2>5, <2>6, <2>7, SyncFacts, OneList
<1> QED
  BY <1>1, <1>8, <1>9

\* The row in hand is taken over, or cannot be read and its node is kept alive.
LEMMA SyncApplyStep ==
  ASSUME Mirror, NEW l \in Lists, SyncApply(l)
  PROVE  Mirror'
<1>0. PICK i : i = cur[l]
  OBVIOUS
<1>1. \/ /\ table[l][i] # Absent /\ list' = [list EXCEPT ![l] = Applied(l, i)]
         /\ UNCHANGED clean
      \/ list' = [list EXCEPT ![l] = Kept(l, i)] /\ clean' = clean \ {l}
  BY <1>0 DEF SyncApply, Replace, Kept
<1>2. /\ UNCHANGED <<plugin, table, phase, loading, calm, dpc, blurred, rows, ran, settled>>
      /\ spc[l] = "apply"
      /\ lock' = [lock EXCEPT ![l] = "free"]
      /\ spc' = [spc EXCEPT ![l] = "rows"] /\ cur' = [cur EXCEPT ![l] = Absent]
  BY DEF SyncApply, Released, SyncRest, decVars
<1>3. /\ Types /\ ListInv(l) /\ Unique(list[l]) /\ RowInv(l) /\ phase = "up" /\ i \in Ids(l)
  BY <1>0, <1>2, SyncFacts DEF ListInv
<1>4. Present(l)' = Present(l)
  BY <1>2 DEF Present, Ids
<1>5. /\ spc'[l] = "rows" /\ DOMAIN cur' = Lists
      /\ lock' \in [Lists -> {"free", "sync", "console"}]
      /\ spc' \in [Lists -> {"idle", "rows", "apply"}]
      /\ \A k \in Lists \ {l} : spc'[k] = spc[k] /\ cur'[k] = cur[k]
  BY <1>2, SyncFacts
<1>6. PhaseInv' /\ SweptInv(l)'
  BY <1>2, <1>3, <1>5 DEF PhaseInv, SweptInv
<1>7. l \in clean \cup settled =>
        /\ \A q \in rows[l] : q[1] \in Present(l) /\ q[2] = table[l][q[1]].md5
        /\ \A j \in Present(l) : (\E q \in rows[l] : q[1] = j) \/ i = j \/ Handled(l, j)
  BY <1>0, <1>2, <1>3 DEF ListInv, SyncInv
<1>8. CASE /\ table[l][i] # Absent /\ list' = [list EXCEPT ![l] = Applied(l, i)]
           /\ UNCHANGED clean
  <2>1. PICK t : t = Applied(l, i)
    OBVIOUS
  <2>2. list'[l] = t /\ DOMAIN list' = Lists /\ \A k \in Lists \ {l} : list'[k] = list[k]
    BY <1>8, <2>1, SyncFacts
  <2>3. /\ t \in Seq(NodeOf(l)) /\ Unique(t)
        /\ \A m \in ToSet(t) :
             \/ m \in Nodes(l) /\ m.id # i
             \/ /\ m.id = i /\ m.row = table[l][i] /\ m.age = 0
                /\ m.row.valid => m.sound
        /\ \A n \in Nodes(l) : n.id # i => n \in ToSet(t)
        /\ (\E m \in ToSet(t) : m.id = i) \/ ~table[l][i].valid
    BY <1>3, <1>8, <2>1, AppliedFacts
  <2>4. Nodes(l)' = ToSet(t)
    BY <2>2 DEF Nodes
  <2>5. Unique(list[l])' /\ RowInv(l)'
    BY <1>2, <1>3, <2>2, <2>3, <2>4 DEF Unique, RowInv
  <2>6. Handled(l, i)'
    <3>1. \A m \in Nodes(l)' : m.id = i => m.row = table[l][i] /\ m.age = 0
      BY <2>3, <2>4
    <3>2. Shown(l, i)'
      BY <1>2, <2>3, <2>4, <3>1 DEF Shown
    <3> QED
      BY <3>1, <3>2 DEF Handled
  <2>7. ASSUME NEW j, j # i
        PROVE  (Shown(l, j) => Shown(l, j)') /\ (Handled(l, j) => Handled(l, j)')
    <3>1. \A n : n \in Nodes(l) /\ n.id = j <=> n \in Nodes(l)' /\ n.id = j
      BY <2>3, <2>4, <2>7
    <3>2. Shown(l, j) => Shown(l, j)'
      BY <1>2, <3>1 DEF Shown
    <3> QED
      BY <3>1, <3>2 DEF Handled
  <2>8. ShownInv(l)' /\ SyncInv(l)'
    <3>1. ShownInv(l)'
      BY <1>2, <1>3, <1>4, <2>6, <2>7 DEF ListInv, ShownInv, Handled
    <3>2. SyncInv(l)'
      BY <1>2, <1>4, <1>5, <1>7, <1>8, <2>6, <2>7 DEF SyncInv
    <3> QED
      BY <3>1, <3>2
  <2>9. CalmInv(l)'
    <3>1. Fits(l) => Fits(l)'
      BY <1>2, <1>8, <2>3, <2>4 DEF Fits
    <3> QED
      BY <1>2, <1>3, <3>1 DEF ListInv, CalmInv
  <2>10. ListInv(l)'
    BY <1>6, <2>5, <2>8, <2>9 DEF ListInv
  <2>11. clean' = clean /\ list'[l] \in Seq(NodeOf(l))
    BY <1>8, <2>2, <2>3
  <2> QED
    BY <1>2, <1>5, <1>6, <2>2, <2>10, <2>11, SyncFacts, OneList
<1>9. CASE list' = [list EXCEPT ![l] = Kept(l, i)] /\ clean' = clean \ {l}
  <2>1. PICK t : t = Kept(l, i)
    OBVIOUS
  <2>2. list'[l] = t /\ DOMAIN list' = Lists /\ \A k \in Lists \ {l} : list'[k] = list[k]
    BY <1>9, <2>1, SyncFacts
  <2>3. /\ list'[l] \in Seq(NodeOf(l)) /\ Unique(list[l])' /\ RowInv(l)'
        /\ \A j : Shown(l, j) => Shown(l, j)'
        /\ \A j : Handled(l, j) => Handled(l, j)'
        /\ Shown(l, i) => Handled(l, i)'
        /\ Fits(l) => Fits(l)'
    BY <1>2, <1>3, <2>1, <2>2, RefreshedList
  <2>4. ShownInv(l)' /\ CalmInv(l)'
    BY <1>2, <1>3, <1>4, <2>3 DEF ListInv, ShownInv, CalmInv
  <2>5. SyncInv(l)'
    <3> SUFFICES ASSUME l \in settled
                 PROVE  /\ \A q \in rows[l] : q[1] \in Present(l) /\ q[2] = table[l][q[1]].md5
                        /\ \A j \in Present(l) :
                             (\E q \in rows[l] : q[1] = j) \/ Handled(l, j)'
      BY <1>2, <1>4, <1>9 DEF SyncInv
    <3>1. \A j \in Present(l) : Shown(l, j)
      BY <1>3 DEF ListInv, ShownInv
    <3> QED
      BY <1>7, <2>3, <3>1
  <2>6. ListInv(l)'
    BY <1>6, <2>3, <2>4, <2>5 DEF ListInv
  <2>7. clean' \subseteq Lists /\ \A k \in Lists \ {l} : k \in clean' <=> k \in clean
    BY <1>9, SyncFacts
  <2> QED
    BY <1>2, <1>5, <1>6, <2>2, <2>3, <2>6, <2>7, SyncFacts, OneList
<1> QED
  BY <1>1, <1>8, <1>9

\* The sweep spares what the sync has handled, and leaves nothing old.
LEMMA SyncSweepStep ==
  ASSUME Mirror, NEW l \in Lists, SyncSweep(l)
  PROVE  Mirror'
<1>1. PICK late \in [Nodes(l) -> BOOLEAN] :
        /\ \A n \in Nodes(l) : late[n] \in Expired(n)
        /\ \E s \in Deleted(l, late) : list' = [list EXCEPT ![l] = s]
  BY DEF SyncSweep
<1>2. PICK s \in Deleted(l, late) : list' = [list EXCEPT ![l] = s]
  BY <1>1
<1>3. /\ UNCHANGED <<plugin, table, phase, loading, calm, dpc, blurred, lock, rows, cur, clean, ran>>
      /\ spc[l] = "rows" /\ rows[l] = {} /\ spc' = [spc EXCEPT ![l] = "idle"]
      /\ settled' = IF l \in clean THEN settled \cup {l} ELSE settled
  BY DEF SyncSweep, SyncRest, decVars
<1>4. /\ Types /\ ListInv(l) /\ Unique(list[l]) /\ RowInv(l) /\ phase = "up"
      /\ Nodes(l) \subseteq NodeOf(l)
  BY <1>3, SyncFacts DEF ListInv
<1>5. Present(l)' = Present(l)
  BY <1>3 DEF Present, Ids
<1>6. /\ spc'[l] = "idle" /\ spc' \in [Lists -> {"idle", "rows", "apply"}]
      /\ \A k \in Lists \ {l} : spc'[k] = spc[k] /\ list'[k] = list[k]
      /\ list'[l] = s /\ DOMAIN list' = Lists
  BY <1>2, <1>3, SyncFacts
<1>7. s \in Seq(NodeOf(l)) /\ Unique(s) /\ Nodes(l)' = {n \in Nodes(l) : ~late[n]}
  BY <1>4, <1>6, DeletedFacts DEF Nodes
<1>8. \A n \in Nodes(l) : (n.age = 0 => ~late[n]) /\ (~late[n] => n.age < 3)
  <2> SUFFICES ASSUME NEW n \in Nodes(l)
               PROVE  (n.age = 0 => ~late[n]) /\ (~late[n] => n.age < 3)
    OBVIOUS
  <2>1. n.age \in 0 .. 3 /\ late[n] \in {n.age > 0, n.age > 2}
    BY <1>1, <1>4 DEF NodeOf, Expired
  <2> QED
    BY <2>1
<1>9. ASSUME l \in settled', NEW i \in Present(l) PROVE Shown(l, i)'
  <2>1. Handled(l, i)
    BY <1>3, <1>4, <1>9 DEF ListInv, SyncInv
  <2>2. \A n : n \in Nodes(l) /\ n.id = i <=> n \in Nodes(l)' /\ n.id = i
    BY <1>7, <1>8, <2>1 DEF Handled
  <2> QED
    BY <1>3, <2>1, <2>2 DEF Handled, Shown
<1>10. ListInv(l)'
  <2>1. Unique(list[l])' /\ RowInv(l)'
    BY <1>3, <1>4, <1>6, <1>7 DEF Unique, RowInv
  <2>2. ShownInv(l)'
    BY <1>5, <1>9 DEF ShownInv
  <2>3. SyncInv(l)'
    BY <1>6 DEF SyncInv
  <2>4. SweptInv(l)'
    BY <1>7, <1>8 DEF SweptInv
  <2>5. CalmInv(l)'
    BY <1>3, <1>4, <1>7 DEF ListInv, CalmInv, Fits
  <2> QED
    BY <2>1, <2>2, <2>3, <2>4, <2>5 DEF ListInv
<1>11. PhaseInv'
  BY <1>3, <1>4 DEF PhaseInv
<1>12. /\ settled' \subseteq Lists /\ list'[l] \in Seq(NodeOf(l)) /\ spc'[l] # "apply"
       /\ \A k \in Lists \ {l} : k \in settled' <=> k \in settled
  BY <1>3, <1>6, <1>7, SyncFacts
<1> QED
  BY <1>3, <1>6, <1>10, <1>11, <1>12, SyncFacts, OneList

\* What the lists show of the tables survives every step.
LEMMA MirrorStep == Mirror /\ [Next]_vars => Mirror'
<1> SUFFICES ASSUME Mirror, [Next]_vars PROVE Mirror'
  OBVIOUS
<1>0. /\ lock \in [Lists -> {"free", "sync", "console"}] /\ plugin \in Plugins
      /\ phase \in {"down", "loading", "up"} /\ loading \in Seq(Lists)
      /\ phase # "up" => dpc = "idle" /\ ~calm
  BY DEF Mirror, Types, PhaseInv
<1>1. CASE Tick
  BY <1>1, TickStep
<1>2. CASE every_day
  BY <1>0, <1>2, QuietStep DEF every_day, decVars
<1>3. CASE Start
  <2>1. Append(Chain[plugin], "defs") \in Seq(Lists)
    <3>1. Chain[plugin] \in Seq(STRING)
      BY <1>0, PolicyAssumption
    <3>2. Chain[plugin] \in Seq(Lists) /\ "defs" \in Lists
      <4>1. \A k \in 1 .. Len(Chain[plugin]) : Chain[plugin][k] \in Lists
        BY <3>1 DEF Lists, ToSet
      <4> QED
        BY <3>1, <4>1, IsASeq DEF Lists
    <3> QED
      BY <3>2
  <2> QED
    BY <1>0, <1>3, <2>1, QuietStep DEF Start, decVars
<1>4. CASE LoadList
  BY <1>4, LoadListStep
<1>5. CASE unload
  BY <1>5, DownStep DEF unload
<1>6. CASE autz
  BY <1>0, <1>6, QuietStep DEF autz, DecRest
<1>7. CASE Decision
  <2>1. /\ UNCHANGED <<plugin, table, list, settled, blurred, syncVars, lock, phase, loading>>
        /\ phase = "up"
    BY <1>7, <1>0 DEF Decision, check_user, check_policy, DecRest
  <2>2. calm' => calm
    BY <1>7 DEF Decision, check_user, check_policy, Goes, Answer
  <2> QED
    BY <1>0, <2>1, <2>2, QuietStep
<1>8. ASSUME NEW l \in Lists, SyncOpen(l) PROVE Mirror'
  BY <1>8, SyncOpenStep
<1>9. ASSUME NEW l \in Lists, Sync(l) PROVE Mirror'
  BY <1>9, SyncRowStep, SyncApplyStep, SyncSweepStep, DownStep DEF Sync, SyncCrash
<1>10. ASSUME NEW l \in Lists, PrintList(l) PROVE Mirror'
  <2>1. lock' \in [Lists -> {"free", "sync", "console"}]
    BY <1>0, <1>10 DEF PrintList, Released
  <2> QED
    BY <1>0, <1>10, <2>1, QuietStep DEF PrintList, SyncRest, decVars
<1>11. ASSUME NEW l \in Lists, NEW i \in Ids(l), Edit(l, i) PROVE Mirror'
  BY <1>11, EditStep
<1>12. CASE UNCHANGED vars
  BY <1>0, <1>12, QuietStep DEF vars, decVars
<1>13. CASE regexec_crash
  BY <1>13, DownStep DEF regexec_crash
<1> QED
  BY <1>1, <1>2, <1>3, <1>4, <1>5, <1>6, <1>7, <1>8, <1>9, <1>10, <1>11, <1>12, <1>13 DEF Next
---------------------------------------------------------------------------
(* The calendar and the decisions.                                         *)

\* A minute within the day keeps the weekday.
LEMMA MinuteFacts ==
  ASSUME NEW D \in Nat \ {0}, NEW W \in Nat \ {0}, NEW n \in 0 .. D * W - 1
  PROVE  /\ D * W \in Nat \ {0} /\ (n + 1) % (D * W) \in 0 .. D * W - 1
         /\ ((n + 1) % (D * W)) % D # 0 =>
              /\ (n + 1) % (D * W) = n + 1
              /\ (n + 1) % D = (n % D) + 1 /\ (n + 1) \div D = n \div D
<1>1. D * W \in Nat \ {0}
  OBVIOUS
<1>2. n + 1 < D * W => (n + 1) % (D * W) = n + 1
  BY <1>1
<1>3. n + 1 = D * W => (n + 1) % (D * W) = 0
  BY <1>1
<1>4. 0 % D = 0
  OBVIOUS
<1>5. (n + 1) % D # 0 => (n + 1) % D = (n % D) + 1 /\ (n + 1) \div D = n \div D
  OBVIOUS
<1>6. n + 1 < D * W \/ n + 1 = D * W
  BY <1>1
<1>7. (n + 1) % (D * W) \in 0 .. D * W - 1
  BY <1>1
<1> QED
  BY <1>1, <1>2, <1>3, <1>4, <1>5, <1>6, <1>7

\* Weekday and time of the day through every step.
LEMMA DayStep == Mirror /\ DayInv /\ [Next]_vars => DayInv'
<1> SUFFICES ASSUME Mirror, DayInv, [Next]_vars PROVE DayInv'
  OBVIOUS
<1>0. DayLen \in Nat \ {0} /\ Week \in Nat \ {0} /\ plugin \in {"time", "url"}
  BY PolicyAssumption DEF Mirror, Types, Plugins
<1>1. CASE Tick
  <2>1. CASE plugin = "url"
    BY <1>1, <2>1 DEF Tick, DayInv
  <2>2. CASE plugin = "time"
    <3>1. /\ now' = (now + 1) % (DayLen * Week) /\ tek_time' = tek_time + 1
          /\ day' = IF now' % DayLen = 0 THEN "due" ELSE "idle"
          /\ UNCHANGED <<plugin, phase, week_day>> /\ phase = "up" /\ day = "idle"
      BY <1>1, <2>2 DEF Tick
    <3>2. /\ now \in 0 .. DayLen * Week - 1 /\ tek_time \in Nat
          /\ week_day = now \div DayLen /\ tek_time = now % DayLen
      BY <2>2, <3>1 DEF DayInv, Weekday
    <3>3. now' \in 0 .. DayLen * Week - 1
      BY <1>0, <3>1, <3>2, MinuteFacts
    <3>4. CASE now' % DayLen = 0
      BY <2>2, <3>1, <3>2, <3>3, <3>4 DEF DayInv
    <3>5. CASE now' % DayLen # 0
      <4>1. now' = now + 1 /\ now' % DayLen = (now % DayLen) + 1 /\ now' \div DayLen = now \div DayLen
        <5>1. ((now + 1) % (DayLen * Week)) % DayLen # 0
          BY <3>1, <3>5
        <5>2. /\ (now + 1) % (DayLen * Week) = now + 1
              /\ (now + 1) % DayLen = (now % DayLen) + 1
              /\ (now + 1) \div DayLen = now \div DayLen
          BY <1>0, <3>2, <5>1, MinuteFacts
        <5>3. now' = now + 1
          BY <3>1, <5>2
        <5> QED
          BY <5>2, <5>3
      <4>2. week_day' = Weekday' /\ tek_time' = now' % DayLen
        BY <3>1, <3>2, <4>1 DEF Weekday
      <4> QED
        BY <3>1, <3>2, <3>3, <3>5, <4>2 DEF DayInv
    <3> QED
      BY <3>4, <3>5
  <2> QED
    BY <1>0, <2>1, <2>2
<1>2. CASE every_day
  <2>1. UNCHANGED <<plugin, phase, now>>
    BY <1>2 DEF every_day
  <2>2. now % DayLen \in Nat
    BY <1>0 DEF DayInv
  <2>3. day # "idle" /\ day \in {"idle", "due", "begin"}
    BY <1>2 DEF every_day, DayInv
  <2>4. plugin = "time" /\ phase # "down"
    BY <1>0, <2>3 DEF DayInv
  <2>5. \/ day' = "begin" /\ week_day' = Weekday /\ tek_time' = tek_time
        \/ /\ day = "begin" /\ day' = "idle" /\ tek_time' = now % DayLen
           /\ week_day' = week_day
    BY <1>2 DEF every_day, get_begin_period
  <2> QED
    BY <2>1, <2>2, <2>4, <2>5 DEF DayInv, Weekday
<1>3. CASE Start
  <2>1. now' \in 0 .. DayLen * Week - 1
    BY <1>3 DEF Start, DayInv
  <2>2. now' % DayLen \in Nat
    <3>1. \A m \in 0 .. DayLen * Week - 1 : m % DayLen \in Nat
      BY <1>0
    <3> QED
      BY <2>1, <3>1
  <2> QED
    BY <1>3, <2>1, <2>2 DEF Start, DayInv, Weekday
<1>4. CASE Down
  <2>1. 0 \in 0 .. DayLen * Week - 1
    BY <1>0, MinuteFacts DEF DayInv
  <2> QED
    BY <1>4, <2>1 DEF Down, DayInv
<1>5. CASE LoadList
  BY <1>5 DEF LoadList, DayInv, timeVars, Weekday
<1>6. CASE UNCHANGED <<plugin, phase, timeVars>>
  BY <1>6 DEF DayInv, timeVars, Weekday
<1>7. CASE autz \/ Decision
  BY <1>6, <1>7 DEF autz, Decision, check_user, check_policy, DecRest
<1>8. ASSUME NEW l \in Lists, SyncOpen(l) \/ Sync(l) \/ PrintList(l) PROVE DayInv'
  BY <1>4, <1>6, <1>8
  DEF SyncOpen, Sync, SyncRow, SyncApply, SyncSweep, SyncCrash, PrintList, SyncRest
<1>9. ASSUME NEW l \in Lists, NEW i \in Ids(l), Edit(l, i) PROVE DayInv'
  BY <1>6, <1>9 DEF Edit
<1> QED
  BY <1>1, <1>2, <1>3, <1>4, <1>5, <1>6, <1>7, <1>8, <1>9 DEF Next, unload, regexec_crash, vars

\* While a decision is calm the nodes are the usable rows.
LEMMA CalmFacts ==
  ASSUME Mirror, DecInv, calm, NEW l \in Lists
  PROVE  /\ \A n \in Nodes(l) :
              /\ n.id \in Present(l) /\ n.row = table[l][n.id]
              /\ n.row.valid => n.sound
         /\ \A i \in Present(l) :
              \/ \E n \in Nodes(l) : n.id = i /\ n.row = table[l][i]
              \/ ~table[l][i].valid
<1>1. ~blurred /\ l \in settled /\ Fits(l) /\ Unique(list[l]) /\ RowInv(l) /\ ShownInv(l)
  BY DEF Mirror, ListInv, CalmInv, DecInv
<1>2. \A n \in Nodes(l) : n.id \in Present(l)
  <2>1. Nodes(l) \subseteq NodeOf(l)
    BY SyncFacts
  <2> QED
    BY <1>1, <2>1 DEF Fits, Present, NodeOf
<1>3. \A i \in Present(l) : Shown(l, i)
  BY <1>1 DEF ShownInv
<1>4. ASSUME NEW n \in Nodes(l) PROVE n.row = table[l][n.id] /\ (n.row.valid => n.sound)
  <2>1. PICK m \in Nodes(l) : m.id = n.id /\ m.row.md5 = table[l][n.id].md5
    BY <1>2, <1>3 DEF Shown
  <2>2. m = n
    BY <1>1, <2>1, OneOf DEF Nodes
  <2>3. table[l][n.id] # Absent
    BY <1>2 DEF Present
  <2> QED
    BY <1>1, <2>1, <2>2, <2>3 DEF RowInv
<1>5. ASSUME NEW i \in Present(l)
      PROVE  (\E n \in Nodes(l) : n.id = i /\ n.row = table[l][i]) \/ ~table[l][i].valid
  BY <1>3, <1>4 DEF Shown
<1> QED
  BY <1>2, <1>4, <1>5

\* The lists of a decision.
LEMMA AskedFacts ==
  ASSUME Mirror, NEW j \in 1 .. Len(Chain[plugin]), ask.who \in Subjects
  PROVE  /\ Chain[plugin][j] \in Lists \ {"defs"}
         /\ ask.who \in Ids(Chain[plugin][j]) /\ Asked(j) \in Assigned \cup {Absent}
<1>1. plugin \in Plugins /\ Chain[plugin] \in Seq(STRING) /\ "defs" \notin ToSet(Chain[plugin])
  BY PolicyAssumption DEF Mirror, Types
<1>2. Chain[plugin][j] \in ToSet(Chain[plugin])
  BY <1>1 DEF ToSet
<1>3. Chain[plugin][j] \in Lists \ {"defs"}
  BY <1>1, <1>2 DEF Lists
<1>4. ask.who \in Ids(Chain[plugin][j])
  BY <1>3 DEF Ids
<1>5. table[Chain[plugin][j]] \in [Subjects -> Assigned \cup {Absent}]
  BY <1>3 DEF Mirror, Types, Ids, RowsOf
<1> QED
  BY <1>3, <1>4, <1>5 DEF Asked

\* Elsewhere a decision is left alone, and a calm one keeps its tables and its minute.
LEMMA DecQuiet ==
  ASSUME DecInv, ~astray, UNCHANGED <<plugin, astray>>,
         \/ dpc' = "idle" /\ ~calm'
         \/ /\ UNCHANGED <<dpc, di, ask, pol>>
            /\ calm' => calm /\ UNCHANGED <<table, blurred, day, now>>
  PROVE  DecInv' /\ ~astray'
<1>1. CASE dpc' = "idle" /\ ~calm'
  BY <1>1 DEF DecInv
<1>2. CASE /\ UNCHANGED <<dpc, di, ask, pol>>
           /\ calm' => calm /\ UNCHANGED <<table, blurred, day, now>>
  <2>1. CASE ~calm'
    BY <1>2, <2>1 DEF DecInv
  <2>2. CASE calm'
    <3>1. calm /\ UNCHANGED <<table, blurred, day, now, dpc, di, ask, pol>>
      BY <1>2, <2>2
    <3>2. \A r : PolicyVerdicts(r)' = PolicyVerdicts(r)
      BY <3>1 DEF PolicyVerdicts, Present, Ids, Weekday
    <3>3. \A j : Asked(j)' = Asked(j)
      BY <3>1 DEF Asked
    <3> QED
      BY <3>1, <3>2, <3>3 DEF DecInv
  <2> QED
    BY <2>1, <2>2
<1> QED
  BY <1>1, <1>2

\* The lists of the chain are those of positions 1 to its length.
LEMMA ChainFacts ==
  ASSUME Mirror
  PROVE  /\ Len(Chain[plugin]) \in Nat \ {0} /\ "defs" \notin ToSet(Chain[plugin])
         /\ \A l \in Lists \ {"defs"} :
              \E j \in 1 .. Len(Chain[plugin]) : l = Chain[plugin][j]
<1>1. /\ plugin \in Plugins /\ Chain[plugin] \in Seq(STRING) /\ Chain[plugin] # <<>>
      /\ "defs" \notin ToSet(Chain[plugin])
  BY PolicyAssumption DEF Mirror, Types
<1>2. Len(Chain[plugin]) \in Nat \ {0} /\ DOMAIN Chain[plugin] = 1 .. Len(Chain[plugin])
  BY <1>1
<1> QED
  BY <1>1, <1>2 DEF Lists, ToSet

\* A list that lets a calm decision through, the next one is asked or it ends.
LEMMA GoesStep ==
  ASSUME Mirror, DecInv, ~astray, dpc # "idle", Goes(di),
         UNCHANGED <<plugin, table, now, day, blurred>>,
         calm => Asked(di) = Absent \/ TRUE \in PolicyVerdicts(Asked(di))
  PROVE  DecInv' /\ ~astray'
<1> DEFINE n == Len(Chain[plugin])
<1>1. n \in Nat \ {0} /\ di \in 1 .. n /\ ask.who \in Subjects
  BY ChainFacts DEF DecInv
<1>2. \A j \in 1 .. di :
        calm => Asked(j) = Absent \/ TRUE \in PolicyVerdicts(Asked(j))
  <2>1. \A j \in 1 .. di : j \in 1 .. di - 1 \/ j = di
    BY <1>1
  <2> QED
    BY <2>1 DEF DecInv
<1>3. CASE di < n
  <2>1. dpc' = "lookup" /\ di' = di + 1 /\ UNCHANGED <<ask, calm, astray>>
    BY <1>3 DEF Goes
  <2>2. \A r : PolicyVerdicts(r)' = PolicyVerdicts(r)
    BY <2>1 DEF PolicyVerdicts, Present, Ids, Weekday
  <2>3. \A j : Asked(j)' = Asked(j)
    BY <2>1 DEF Asked
  <2>4. di' \in 1 .. Len(Chain[plugin]) /\ 1 .. di' - 1 = 1 .. di
    BY <1>1, <1>3, <2>1
  <2>5. calm' => \A j \in 1 .. di' - 1 :
          Asked(j)' = Absent \/ TRUE \in PolicyVerdicts(Asked(j))'
    BY <1>2, <2>1, <2>2, <2>3, <2>4
  <2> QED
    BY <1>1, <2>1, <2>4, <2>5 DEF DecInv
<1>4. CASE ~(di < n)
  <2>1. Answer(TRUE)
    BY <1>4 DEF Goes
  <2>2. di = n
    BY <1>1, <1>4
  <2>3. calm => TRUE \in Verdicts
    <3> SUFFICES ASSUME calm, NEW l \in Lists \ {"defs"}, table[l][ask.who] # Absent
                 PROVE  TRUE \in PolicyVerdicts(table[l][ask.who])
      BY DEF Verdicts
    <3>1. PICK j \in 1 .. n : l = Chain[plugin][j]
      BY ChainFacts
    <3>2. Asked(j) = table[l][ask.who]
      BY <3>1 DEF Asked
    <3> QED
      BY <1>2, <2>2, <3>1, <3>2
  <2> QED
    BY <2>1, <2>3 DEF Answer, DecInv
<1> QED
  BY <1>3, <1>4

\* A list that refuses a calm decision ends it.
LEMMA RefusedStep ==
  ASSUME Mirror, DecInv, ~astray, dpc # "idle", Answer(FALSE), UNCHANGED plugin,
         calm => Asked(di) # Absent /\ FALSE \in PolicyVerdicts(Asked(di))
  PROVE  DecInv' /\ ~astray'
<1>1. di \in 1 .. Len(Chain[plugin]) /\ ask.who \in Subjects
  BY DEF DecInv
<1>2. calm => FALSE \in Verdicts
  <2>1. Chain[plugin][di] \in Lists \ {"defs"}
    BY <1>1, AskedFacts
  <2> QED
    BY <2>1 DEF Verdicts, Asked
<1> QED
  BY <1>2 DEF Answer, DecInv

\* A subject is looked up: a calm decision takes the row of the table.
LEMMA LookupStep == Mirror /\ DecInv /\ ~astray /\ check_user => DecInv' /\ ~astray'
<1> SUFFICES ASSUME Mirror, DecInv, ~astray, check_user PROVE DecInv' /\ ~astray'
  OBVIOUS
<1>0. PICK l : l = Chain[plugin][di]
  OBVIOUS
<1>1. UNCHANGED <<plugin, table, now, day, blurred>> /\ dpc = "lookup"
  BY DEF check_user, DecRest, timeVars
<1>2. /\ l \in Lists \ {"defs"} /\ ask.who \in Ids(l) /\ ask.who \in Subjects
      /\ Asked(di) = table[l][ask.who] /\ Asked(di) \in Assigned \cup {Absent}
      /\ di \in 1 .. Len(Chain[plugin])
  BY <1>0, <1>1, AskedFacts DEF DecInv, Asked
<1>3. CASE user_find(l, ask.who) = {} /\ Goes(di)
  <2>1. calm => Asked(di) = Absent
    <3> SUFFICES ASSUME calm, Asked(di) # Absent PROVE FALSE
      OBVIOUS
    <3>1. ask.who \in Present(l)
      BY <1>2 DEF Present
    <3>2. \A n \in Nodes(l) : n.id # ask.who
      BY <1>3 DEF user_find
    <3>3. ~Asked(di).valid
      BY <1>2, <3>1, <3>2, CalmFacts
    <3>4. Asked(di).valid
      BY <1>2, PolicyAssumption
    <3> QED
      BY <3>3, <3>4
  <2> QED
    BY <1>1, <1>3, <2>1, GoesStep
<1>4. CASE \E n \in user_find(l, ask.who) :
             pol' = n.row /\ dpc' = "policy" /\ UNCHANGED <<di, ask, calm, astray>>
  <2>1. PICK n \in Nodes(l) : /\ n.id = ask.who /\ pol' = n.row /\ dpc' = "policy"
                              /\ UNCHANGED <<di, ask, calm, astray>>
    BY <1>4 DEF user_find
  <2>2. calm => n.row = Asked(di) /\ Asked(di) # Absent
    BY <1>2, <2>1, CalmFacts DEF Present
  <2>3. \A r : PolicyVerdicts(r)' = PolicyVerdicts(r)
    BY <1>1, <2>1 DEF PolicyVerdicts, Present, Ids, Weekday
  <2>4. \A j : Asked(j)' = Asked(j)
    BY <1>1, <2>1 DEF Asked
  <2>5. Asked(di)' = Asked(di)
    BY <1>1, <2>1 DEF Asked
  <2> QED
    BY <1>1, <1>2, <2>1, <2>2, <2>3, <2>4, <2>5 DEF DecInv
<1> QED
  BY <1>0, <1>3, <1>4 DEF check_user

\* What a definition may answer is what the tables allow.
LEMMA MatchFacts ==
  ASSUME Mirror, DayInv, DecInv, calm, dpc = "policy",
         NEW mine, mine = {k \in DOMAIN list["defs"] : list["defs"][k].row.policy = pol.policy},
         NEW m \in [mine -> BOOLEAN], \A k \in mine : m[k] \in Matches(list["defs"][k])
  PROVE  /\ \A k \in mine : m[k] => list["defs"][k].row.target \in PolicyVerdicts(pol)
         /\ (\A k \in mine : ~m[k]) => pol.def \in PolicyVerdicts(pol)
<1> DEFINE c == IF plugin = "time" THEN <<Weekday, now % DayLen>> ELSE ask.url
           defs == {table["defs"][i] : i \in Present("defs")}
           sure == {d \in defs : d.policy = pol.policy /\ d.valid /\ c \in d.when}
           maybe == {d \in defs : d.policy = pol.policy /\ ~d.valid}
<1>0. PolicyVerdicts(pol) = {d.target : d \in sure \cup maybe}
                              \cup (IF sure = {} THEN {pol.def} ELSE {})
  BY DEF PolicyVerdicts
<1>1. "defs" \in Lists
  BY DEF Lists
<1>2. /\ \A n \in Nodes("defs") : /\ n.id \in Present("defs") /\ n.row = table["defs"][n.id]
                                  /\ n.row.valid => n.sound
      /\ \A i \in Present("defs") :
           \/ \E n \in Nodes("defs") : n.id = i /\ n.row = table["defs"][i]
           \/ ~table["defs"][i].valid
  BY <1>1, CalmFacts
<1>3. plugin = "time" => week_day = Weekday /\ tek_time = now % DayLen
  <2>1. phase = "up" /\ day = "idle"
    BY DEF Mirror, PhaseInv, DecInv
  <2> QED
    BY <2>1 DEF DayInv
<1>4. ASSUME NEW n \in Nodes("defs"), n.row.valid
      PROVE  Matches(n) = {(c \in n.row.when)}
  <2>1. CASE plugin = "time"
    BY <1>3, <2>1 DEF Matches, MatchesTime
  <2>2. CASE plugin # "time"
    BY <1>2, <1>4, <2>2 DEF Matches, MatchesURL
  <2> QED
    BY <2>1, <2>2
<1>5. \A k \in mine : list["defs"][k] \in Nodes("defs")
  BY DEF Nodes, ToSet
<1> HIDE DEF c
<1>6. ASSUME NEW k \in mine, m[k]
      PROVE  list["defs"][k].row.target \in PolicyVerdicts(pol)
  <2>1. PICK n \in Nodes("defs") : n = list["defs"][k]
    BY <1>5
  <2>2. n.row \in defs /\ n.row.policy = pol.policy /\ m[k] \in Matches(n)
    BY <1>2, <2>1
  <2>3. n.row.valid => c \in n.row.when
    BY <1>4, <1>6, <2>2
  <2>4. n.row \in sure \cup maybe
    BY <2>2, <2>3
  <2> HIDE DEF sure, maybe, defs
  <2> QED
    BY <1>0, <2>1, <2>4
<1>7. ASSUME \A k \in mine : ~m[k] PROVE pol.def \in PolicyVerdicts(pol)
  <2>1. ASSUME NEW d \in sure PROVE FALSE
    <3>1. PICK i \in Present("defs") : d = table["defs"][i]
      OBVIOUS
    <3>2. PICK n \in Nodes("defs") : n.id = i /\ n.row = d
      BY <1>2, <3>1
    <3>3. PICK k \in DOMAIN list["defs"] : n = list["defs"][k]
      BY DEF Nodes, ToSet
    <3>4. k \in mine /\ m[k] \in Matches(n)
      BY <3>2, <3>3
    <3>5. c \in d.when /\ d.valid
      OBVIOUS
    <3>6. m[k] \in {(c \in d.when)}
      BY <1>4, <3>2, <3>4, <3>5
    <3> QED
      BY <1>7, <3>4, <3>5, <3>6
  <2>2. sure = {}
    BY <2>1
  <2> HIDE DEF sure, maybe, defs
  <2> QED
    BY <1>0, <2>2
<1> QED
  BY <1>6, <1>7

\* The definitions are asked: what the policy answers is what the tables allow.
LEMMA VerdictStep ==
  Mirror /\ DayInv /\ DecInv /\ ~astray /\ check_policy => DecInv' /\ ~astray'
<1> SUFFICES ASSUME Mirror, DayInv, DecInv, ~astray, check_policy PROVE DecInv' /\ ~astray'
  OBVIOUS
<1>1. UNCHANGED <<plugin, table, now, day, blurred>> /\ dpc = "policy"
  BY DEF check_policy, DecRest, timeVars
<1>2. /\ di \in 1 .. Len(Chain[plugin]) /\ ask.who \in Subjects
      /\ Asked(di) \in Assigned \cup {Absent}
      /\ calm => pol = Asked(di) /\ pol # Absent
  BY <1>1, AskedFacts DEF DecInv
<1> DEFINE mine == {k \in DOMAIN list["defs"] : list["defs"][k].row.policy = pol.policy}
           hits(m) == {k \in mine : m[k]}
           res(m) == {list["defs"][k].row.target :
                        k \in {h \in hits(m) : \A j \in hits(m) : h <= j}}
<1>3. PICK m \in [mine -> BOOLEAN] :
        /\ \A k \in mine : m[k] \in Matches(list["defs"][k])
        /\ \E r \in IF hits(m) = {} THEN {pol.def} ELSE res(m) :
             IF r THEN Goes(di) ELSE Answer(FALSE)
  BY DEF check_policy
<1>4. PICK r \in IF hits(m) = {} THEN {pol.def} ELSE res(m) :
        IF r THEN Goes(di) ELSE Answer(FALSE)
  BY <1>3
<1>5. /\ IF r THEN Goes(di) ELSE Answer(FALSE)
      /\ \/ (\A k \in mine : ~m[k]) /\ r = pol.def
         \/ \E k \in mine : m[k] /\ r = list["defs"][k].row.target
  <2>1. CASE hits(m) = {}
    <3>1. \A k \in mine : ~m[k]
      BY <2>1
    <3> QED
      BY <1>4, <2>1, <3>1
  <2>2. CASE hits(m) # {}
    <3>1. r \in res(m)
      BY <1>4, <2>2
    <3> QED
      BY <1>4, <3>1
  <2> QED
    BY <2>1, <2>2
<1>6. calm => r \in PolicyVerdicts(Asked(di)) /\ r \in BOOLEAN
  <2> SUFFICES ASSUME calm PROVE r \in PolicyVerdicts(pol) /\ r \in BOOLEAN
    BY <1>2
  <2>1. /\ \A k \in mine : m[k] => list["defs"][k].row.target \in PolicyVerdicts(pol)
        /\ (\A k \in mine : ~m[k]) => pol.def \in PolicyVerdicts(pol)
    BY <1>1, <1>3, MatchFacts
  <2>2. pol.def \in BOOLEAN
    BY <1>2, PolicyAssumption
  <2>3. ASSUME NEW k \in mine PROVE list["defs"][k].row.target \in BOOLEAN
    <3>1. list["defs"][k] \in NodeOf("defs")
      BY NodesAre DEF Mirror, Lists
    <3>2. list["defs"][k].row \in RowsOf("defs")
      BY <3>1 DEF NodeOf
    <3> QED
      BY <3>2, RowTypes DEF Mirror, Types
  <2> QED
    BY <1>5, <2>1, <2>2, <2>3
<1>7. CASE r = TRUE
  <2>1. Goes(di)
    BY <1>5, <1>7
  <2> QED
    BY <1>1, <1>6, <1>7, <2>1, GoesStep
<1>8. CASE ~r
  <2>1. Answer(FALSE)
    BY <1>5, <1>8
  <2>2. calm => FALSE \in PolicyVerdicts(Asked(di)) /\ Asked(di) # Absent
    BY <1>2, <1>6, <1>8
  <2> QED
    BY <1>1, <2>1, <2>2, RefusedStep
<1> QED
  BY <1>5, <1>7, <1>8

\* A decision begins, goes on, or is none of a step's business.
LEMMA DecStep ==
  Mirror /\ DayInv /\ DecInv /\ ~astray /\ [Next]_vars => DecInv' /\ ~astray'
<1> SUFFICES ASSUME Mirror, DayInv, DecInv, ~astray, [Next]_vars PROVE DecInv' /\ ~astray'
  OBVIOUS
<1>1. CASE Tick
  BY <1>1, DecQuiet DEF Tick
<1>2. CASE every_day
  <2>1. day # "idle" /\ UNCHANGED <<plugin, decVars>>
    BY <1>2 DEF every_day
  <2> QED
    BY <2>1, DecQuiet DEF decVars, DecInv
<1>3. CASE Start
  <2>1. ~calm
    BY <1>3 DEF Start, Mirror, PhaseInv
  <2> QED
    BY <1>3, <2>1, DecQuiet DEF Start, decVars
<1>4. CASE LoadList
  BY <1>4, DecQuiet DEF LoadList, decVars, timeVars
<1>5. CASE Down
  BY <1>5, DecQuiet DEF Down
<1>6. CASE autz
  <2>1. /\ dpc' = "lookup" /\ di' = 1 /\ ask'.who \in Subjects /\ UNCHANGED <<plugin, astray>>
        /\ calm' => ~blurred' /\ day' = "idle"
    BY <1>6 DEF autz, DecRest, Calm, timeVars
  <2>2. 1 \in 1 .. Len(Chain[plugin])
    BY ChainFacts
  <2>3. 1 .. di' - 1 = {}
    BY <2>1
  <2> QED
    BY <2>1, <2>2, <2>3 DEF DecInv
<1>7. CASE Decision
  BY <1>7, LookupStep, VerdictStep DEF Decision
<1>8. CASE UNCHANGED <<plugin, table, timeVars, decVars, blurred>>
  BY <1>8, DecQuiet DEF timeVars, decVars
<1>9. ASSUME NEW l \in Lists, SyncOpen(l) \/ Sync(l) \/ PrintList(l) PROVE DecInv' /\ ~astray'
  BY <1>5, <1>8, <1>9
  DEF SyncOpen, Sync, SyncRow, SyncApply, SyncSweep, SyncCrash, PrintList, SyncRest
<1>10. ASSUME NEW l \in Lists, NEW i \in Ids(l), Edit(l, i) PROVE DecInv' /\ ~astray'
  BY <1>10, DecQuiet DEF Edit
<1> QED
  BY <1>1, <1>2, <1>3, <1>4, <1>5, <1>6, <1>7, <1>8, <1>9, <1>10 DEF Next, unload, regexec_crash, vars
---------------------------------------------------------------------------
(* The theorems.                                                           *)

\* IInv holds when the daemon has not been started.
LEMMA InvInit == Init => IInv
<1> SUFFICES ASSUME Init PROVE IInv
  OBVIOUS
<1>1. Mirror
  BY MirrorInit
<1>2. DayInv
  <2>1. DayLen \in Nat \ {0} /\ Week \in Nat \ {0}
    BY PolicyAssumption
  <2>2. DayLen * Week \in Nat \ {0}
    BY <2>1
  <2>3. 0 \in 0 .. DayLen * Week - 1
    BY <2>2
  <2> QED
    BY <2>3 DEF Init, DayInv
<1>3. DecInv /\ DecisionFollowsTables
  BY DEF Init, DecInv, DecisionFollowsTables
<1> QED
  BY <1>1, <1>2, <1>3 DEF IInv, Mirror

\* IInv holds after every step.
LEMMA InvStep == IInv /\ [Next]_vars => IInv'
<1> SUFFICES ASSUME IInv, [Next]_vars PROVE IInv'
  OBVIOUS
<1>1. Mirror
  BY DEF IInv, Mirror
<1>2. Mirror'
  BY <1>1, MirrorStep
<1>3. DayInv'
  BY <1>1, DayStep DEF IInv
<1>4. DecInv' /\ ~astray'
  BY <1>1, DecStep DEF IInv, DecisionFollowsTables
<1> QED
  BY <1>2, <1>3, <1>4 DEF IInv, Mirror, DecisionFollowsTables

\* The inductive invariant: what the lists show, what the syncs still have to do,
\* the calendar, and how far a decision has come.
THEOREM Inductive == Spec => []IInv
<1>1. Init => IInv
  BY InvInit
<1>2. IInv /\ [Next]_vars => IInv'
  BY InvStep
<1> QED
  BY <1>1, <1>2, PTL DEF Spec

\* A list whose sync ran through on a table that is not edited any more has one
\* node with the md5 of every row, through failing queries and lost selects, and
\* sync_..._list forgets a removed row in the third minute after it last saw it.
THEOREM ListsInLine == Spec => []InLine
<1>1. IInv => InLine
  <2> SUFFICES ASSUME IInv, NEW l \in settled
               PROVE  /\ \A i \in Present(l) : Mirrored(l, i)
                      /\ l \in clean /\ spc[l] = "idle" /\ l \in ran =>
                           \A n \in Nodes(l) : n.age < 3
    BY DEF InLine
  <2>1. Types /\ l \in Lists /\ ListInv(l)
    BY DEF IInv, Types
  <2>2. \A i \in Present(l) : Mirrored(l, i)
    BY <2>1, MirrorIs DEF ListInv, ShownInv
  <2> QED
    BY <2>1, <2>2 DEF ListInv, SweptInv
<1> QED
  BY <1>1, Inductive, PTL

\* check_user, check_group_... and check_policy, each in a critical section of its
\* own, come to an answer the tables allow when the lists have taken them over,
\* whatever syncs, consoles and jobs do in between.
THEOREM DecisionsFollow == Spec => []DecisionFollowsTables
<1>1. IInv => DecisionFollowsTables
  BY DEF IInv
<1> QED
  BY <1>1, Inductive, PTL
===========================================================================
