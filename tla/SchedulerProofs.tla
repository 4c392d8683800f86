-------------------------- MODULE SchedulerProofs --------------------------
(***************************************************************************)
(* TLAPS proofs about Scheduler, for any jobs, crontabs, calendar, nodes,  *)
(* threads and failures: types, the walk of the list, the life of a node   *)
(* and, on a machine that keeps up, one run per job and no missed minute.  *)
(***************************************************************************)
EXTENDS Scheduler, FiniteSetTheorems, SequenceTheorems, TLAPS

\* A job is linked at the head of the list.
LEMMA ConsFacts ==
  ASSUME NEW S, NEW s \in Seq(S), NEW n \in S
  PROVE  /\ <<n>> \o s \in Seq(S)
         /\ ToSet(<<n>> \o s) = {n} \cup ToSet(s)
         /\ Len(<<n>> \o s) = Len(s) + 1
         /\ (<<n>> \o s)[1] = n
         /\ \A k \in 1 .. Len(s) : (<<n>> \o s)[k + 1] = s[k]
<1> DEFINE t == <<n>> \o s
<1>1. /\ t \in Seq(S)
      /\ Len(t) = Len(s) + 1
      /\ t[1] = n
      /\ \A k \in 1 .. Len(s) : t[k + 1] = s[k]
  OBVIOUS
<1>2. DOMAIN t = 1 .. Len(s) + 1 /\ DOMAIN s = 1 .. Len(s) /\ Len(s) \in Nat
  BY <1>1
<1> HIDE DEF t
<1>3. ASSUME NEW x \in ToSet(t) PROVE x \in {n} \cup ToSet(s)
  <2>1. PICK k \in 1 .. Len(s) + 1 : x = t[k]
    BY <1>2 DEF ToSet
  <2>2. CASE k = 1
    BY <1>1, <2>1, <2>2
  <2>3. CASE k # 1
    <3>1. k - 1 \in 1 .. Len(s) /\ x = s[k - 1]
      BY <1>1, <1>2, <2>1, <2>3
    <3> QED
      BY <3>1, <1>2 DEF ToSet
  <2> QED
    BY <2>2, <2>3
<1>4. ASSUME NEW x \in {n} \cup ToSet(s) PROVE x \in ToSet(t)
  <2>1. CASE x = n
    BY <1>1, <1>2, <2>1 DEF ToSet
  <2>2. CASE x \in ToSet(s)
    <3>1. PICK k \in 1 .. Len(s) : x = s[k]
      BY <1>2, <2>2 DEF ToSet
    <3>2. k + 1 \in DOMAIN t /\ t[k + 1] = x
      BY <1>1, <1>2, <3>1
    <3> QED
      BY <3>2 DEF ToSet
  <2> QED
    BY <2>1, <2>2
<1>5. ToSet(t) = {n} \cup ToSet(s)
  BY <1>3, <1>4
<1> QED
  BY <1>1, <1>5 DEF t

\* A cell is taken out of the list.
LEMMA RemoveFacts ==
  ASSUME NEW S, NEW s \in Seq(S), NEW i \in 1 .. Len(s)
  PROVE  /\ RemoveAt(s, i) \in Seq(S)
         /\ Len(RemoveAt(s, i)) = Len(s) - 1
         /\ \A k \in 1 .. Len(s) - 1 :
              RemoveAt(s, i)[k] = IF k < i THEN s[k] ELSE s[k + 1]
<1> DEFINE p == SubSeq(s, 1, i - 1)
           q == SubSeq(s, i + 1, Len(s))
<1>1. p \in Seq(S) /\ Len(p) = i - 1 /\ \A k \in 1 .. i - 1 : p[k] = s[k]
  OBVIOUS
<1>2. q \in Seq(S) /\ Len(q) = Len(s) - i /\ \A k \in 1 .. Len(s) - i : q[k] = s[k + i]
  OBVIOUS
<1> HIDE DEF p, q
<1>3. /\ p \o q \in Seq(S) /\ Len(p \o q) = Len(p) + Len(q)
      /\ \A k \in 1 .. Len(p) + Len(q) :
           (p \o q)[k] = IF k <= Len(p) THEN p[k] ELSE q[k - Len(p)]
  BY <1>1, <1>2, ConcatProperties
<1>4. RemoveAt(s, i) = p \o q
  BY DEF RemoveAt, p, q
<1>5. RemoveAt(s, i) \in Seq(S) /\ Len(RemoveAt(s, i)) = Len(s) - 1
  <2>1. (i - 1) + (Len(s) - i) = Len(s) - 1
    OBVIOUS
  <2> QED
    BY <1>1, <1>2, <1>3, <1>4, <2>1
<1>6. ASSUME NEW k \in 1 .. Len(s) - 1
      PROVE  RemoveAt(s, i)[k] = IF k < i THEN s[k] ELSE s[k + 1]
  <2>1. RemoveAt(s, i)[k] = IF k < i THEN p[k] ELSE q[k - (i - 1)]
    BY <1>1, <1>2, <1>3, <1>4
  <2>2. k >= i => k - (i - 1) \in 1 .. Len(s) - i /\ k - (i - 1) + i = k + 1
    OBVIOUS
  <2> QED
    BY <1>1, <1>2, <2>1, <2>2
<1> QED
  BY <1>5, <1>6

Distinct(s) == \A a, b \in 1 .. Len(s) : s[a] = s[b] => a = b

\* A list without repetitions keeps none, and loses the element of the cell.
LEMMA RemoveSet ==
  ASSUME NEW S, NEW s \in Seq(S), NEW i \in 1 .. Len(s), Distinct(s)
  PROVE  Distinct(RemoveAt(s, i)) /\ ToSet(RemoveAt(s, i)) = ToSet(s) \ {s[i]}
<1> DEFINE t == RemoveAt(s, i)
           at(k) == IF k < i THEN k ELSE k + 1
<1>1. t \in Seq(S) /\ Len(t) = Len(s) - 1
      /\ \A k \in 1 .. Len(s) - 1 : t[k] = s[at(k)]
  BY RemoveFacts
<1>2. Len(s) \in Nat /\ DOMAIN t = 1 .. Len(s) - 1 /\ DOMAIN s = 1 .. Len(s)
  BY <1>1
<1> HIDE DEF t
<1>3. Distinct(t)
  BY <1>1, <1>2 DEF Distinct
<1>4. ASSUME NEW x \in ToSet(t) PROVE x \in ToSet(s) \ {s[i]}
  <2>1. PICK k \in 1 .. Len(s) - 1 : x = t[k]
    BY <1>2, <1>4 DEF ToSet
  <2>2. at(k) \in 1 .. Len(s) /\ at(k) # i /\ x = s[at(k)]
    BY <1>1, <1>2, <2>1
  <2> QED
    BY <1>2, <2>2 DEF ToSet, Distinct
<1>5. ASSUME NEW x \in ToSet(s) \ {s[i]} PROVE x \in ToSet(t)
  <2>1. PICK k \in 1 .. Len(s) : x = s[k]
    BY <1>2, <1>5 DEF ToSet
  <2>2. k # i
    BY <1>5, <2>1
  <2>3. PICK j \in 1 .. Len(s) - 1 : at(j) = k
    <3>1. CASE k < i
      <4>1. k \in 1 .. Len(s) - 1 /\ at(k) = k
        BY <1>2, <3>1
      <4> QED
        BY <4>1
    <3>2. CASE k > i
      <4>1. k - 1 \in 1 .. Len(s) - 1 /\ at(k - 1) = k
        BY <1>2, <3>2
      <4> QED
        BY <4>1
    <3> QED
      BY <2>2, <3>1, <3>2
  <2>4. t[j] = x
    BY <1>1, <2>1, <2>3
  <2> QED
    BY <1>2, <2>4 DEF ToSet
<1> QED
  BY <1>3, <1>4, <1>5 DEF t
---------------------------------------------------------------------------
(* Types.                                                                  *)

\* Every variable is in its range at the start.
LEMMA TypeInit == Init => TypeOK
<1> SUFFICES ASSUME Init PROVE TypeOK
  OBVIOUS
<1>1. Len(Calendar) \in Nat \ {0}
  BY SchedulerAssumption
<1>2. <<>> \in Seq(Nodes)
  OBVIOUS
<1>3. prompt \in BOOLEAN /\ doexit \in BOOLEAN
  BY DEF Init
<1>4. now \in 1 .. Len(Calendar) /\ faults \in 0 .. MaxFaults /\ wake \in 0 .. 1
  BY <1>1, SchedulerAssumption DEF Init
<1> QED
  BY <1>2, <1>3, <1>4 DEF Init, TypeOK

\* the node the walk comes to next
LEMMA NextNodeType ==
  ASSUME TypeOK, mnode \in ToSet(list)
  PROVE  NextNode(mnode) = Null \/ NextNode(mnode) \in ToSet(list)
<1> DEFINE i == CHOOSE k \in 1 .. Len(list) : list[k] = mnode
<1>1. i \in 1 .. Len(list) /\ Len(list) \in Nat
  BY DEF TypeOK, ToSet
<1>2. NextNode(mnode) = IF i = Len(list) THEN Null ELSE list[i + 1]
  BY DEF NextNode
<1> HIDE DEF i
<1>3. i # Len(list) => i + 1 \in 1 .. Len(list)
  BY <1>1
<1> QED
  BY <1>2, <1>3 DEF ToSet, TypeOK

\* The list is made of nodes.
LEMMA ListElements == ASSUME TypeOK PROVE ToSet(list) \subseteq Nodes
  BY DEF TypeOK, ToSet

\* The walk begins on the list.
LEMMA ListHead == ASSUME TypeOK PROVE list # <<>> => Head(list) \in ToSet(list)
  BY DEF TypeOK, ToSet

\* A step keeps the ranges; the walk stays on the list, so it reads nodes.
LEMMA TypeStep == TypeOK /\ WalkOnList /\ [Next]_vars => TypeOK'
<1> SUFFICES ASSUME TypeOK, WalkOnList, [Next]_vars PROVE TypeOK'
  OBVIOUS
<1> USE SchedulerAssumption
<1>1. CASE UNCHANGED vars
  BY <1>1 DEF vars, jobVars, mgrVars, childVars, freeVars, histVars, TypeOK
<1>2. CASE Tick
  <2>1. now' \in 1 .. Len(Calendar)
    <3>1. Len(Calendar) \in Nat \ {0} /\ now \in 1 .. Len(Calendar)
      BY DEF TypeOK
    <3> QED
      BY <1>2, <3>1 DEF Tick
  <2>2. since' \subseteq Nodes
    BY <1>2, ListElements DEF Tick
  <2> QED
    BY <1>2, <2>1, <2>2 DEF Tick, jobVars, childVars, freeVars, TypeOK
<1>3. ASSUME NEW j \in Jobs, schedulers_register(j) PROVE TypeOK'
  <2>1. PICK n \in Unused : /\ mem' = [mem EXCEPT ![n] = "linked"]
                            /\ name' = [name EXCEPT ![n] = j]
                            /\ list' = <<n>> \o list
    BY <1>3 DEF schedulers_register
  <2>2. n \in Nodes /\ list' \in Seq(Nodes)
    BY <2>1, ConsFacts DEF Unused, TypeOK
  <2> QED
    BY <1>3, <2>1, <2>2 DEF schedulers_register, mgrVars, childVars, freeVars, histVars, TypeOK
<1>4. ASSUME NEW j \in Jobs, schedulers_unregister(j) PROVE TypeOK'
  <2>1. PICK i \in 1 .. Len(list) : /\ list' = RemoveAt(list, i)
                                    /\ mem' = [mem EXCEPT ![list[i]] = "leaked"]
    <3>1. DOMAIN list = 1 .. Len(list)
      BY DEF TypeOK
    <3> QED
      BY <1>4, <3>1 DEF schedulers_unregister, Unlink, Found
  <2>2. list' \in Seq(Nodes)
    BY <2>1, RemoveFacts DEF TypeOK
  <2> QED
    BY <1>4, <2>1, <2>2 DEF schedulers_unregister, Unlink, mgrVars, childVars, freeVars,
                            histVars, TypeOK
<1>5. CASE PrintBegin \/ PrintEnd
  BY <1>5 DEF PrintBegin, PrintEnd, ConsoleRest, jobVars, mgrVars, childVars, freeVars, histVars,
              TypeOK
<1>6. CASE MCheck \/ MCalc \/ MWake \/ MUnlock
  BY <1>6 DEF MCheck, MCalc, MWake, MUnlock, ManagerRest, jobVars, childVars, freeVars,
              histVars, TypeOK
<1>7. CASE MLock
  <2>1. mnode' \in Nodes \cup {Null}
    BY <1>7 DEF MLock, TypeOK
  <2> QED
    BY <1>7, <2>1 DEF MLock, ManagerRest, jobVars, childVars, freeVars, histVars, TypeOK
<1>8. CASE MWalk
  <2>1. mnode \in Nodes /\ mnode' \in Nodes \cup {Null} /\ visited' \subseteq Nodes
    BY <1>8, NextNodeType, ListElements DEF MWalk, WalkOnList, TypeOK
  <2>2. /\ child' \in [Children -> {"none", "created", "running", "leaving"}]
        /\ task' \in [Children -> Nodes \cup {Null}]
        /\ faults' \in 0 .. MaxFaults
    <3>1. CASE UNCHANGED childVars
      BY <1>8, <3>1 DEF MWalk, Create, childVars, TypeOK
    <3>2. ASSUME NEW c \in Idle, child' = [child EXCEPT ![c] = "created"],
                 task' = [task EXCEPT ![c] = mnode], UNCHANGED faults
          PROVE  <2>2!:
      BY <2>1, <3>2 DEF Idle, TypeOK
    <3> QED
      BY <1>8, <3>1, <3>2 DEF MWalk, Create
  <2> QED
    BY <1>8, <2>1, <2>2 DEF MWalk, jobVars, freeVars, TypeOK
<1>9. ASSUME NEW c \in Children, ChildStart(c) \/ ChildReturn(c) \/ ChildExit(c)
      PROVE  TypeOK'
  <2>1. /\ child' \in [Children -> {"none", "created", "running", "leaving"}]
        /\ task' \in [Children -> Nodes \cup {Null}]
        /\ status' \in [Nodes -> {"SLEEP", "RUN"}]
    BY <1>9 DEF ChildStart, ChildReturn, ChildExit, TypeOK
  <2>2. ChildRest
    BY <1>9 DEF ChildStart, ChildReturn, ChildExit
  <2> QED
    BY <2>1, <2>2 DEF ChildRest, jobVars, mgrVars, freeVars, histVars, TypeOK
<1>10. CASE FreeSignal
  BY <1>10 DEF FreeSignal, jobVars, childVars, histVars, TypeOK
<1>11. CASE FreeNodes \/ FreeJoin
  <2>1. <<>> \in Seq(Nodes)
    OBVIOUS
  <2> QED
    BY <1>11, <2>1 DEF FreeNodes, FreeJoin, FreeJobs, FreeRest, mgrVars, childVars, histVars,
                       TypeOK
<1>12. CASE Crash
  <2>1. <<>> \in Seq(Nodes)
    OBVIOUS
  <2> QED
    BY <1>12, <2>1 DEF Crash, TypeOK
<1> QED
  BY <1>1, <1>2, <1>3, <1>4, <1>5, <1>6, <1>7, <1>8, <1>9, <1>10, <1>11, <1>12
  DEF Next, Manager, Console, PrintCrash, ChildCrash
---------------------------------------------------------------------------
(* The mutex, the list and the nodes.                                      *)

\* the manager is inside the walk exactly while it holds scheduler_mutex
LockInv ==
  /\ mpc = "walk" <=> lock = "manager"
  /\ mnode # Null => mpc = "walk"
  /\ mpc = "exited" \/ fpc # "run" => doexit
  /\ WalkOnList

\* The list has the linked nodes, each once, under the names of registered jobs.
\* main frees those that are still linked in the end, and no others.
ListInv ==
  /\ Distinct(list)
  /\ \A n \in Nodes : n \in ToSet(list) <=> mem[n] = "linked"
  /\ \A n \in ToSet(list) : name[n] \in owners
  /\ \A n, m \in ToSet(list) : name[n] = name[m] => n = m
  /\ \A n \in Nodes : mem[n] = "freed" => name[n] \in owners /\ fpc \in {"join", "freed"}

\* a thread that exists has a node
ThreadInv == \A c \in Children : child[c] # "none" => task[c] \in Nodes

\* The mutex is the manager's exactly while it walks, and its cursor stays on the list.
LEMMA LockStep ==
  TypeOK /\ LockInv /\ ListInv /\ ThreadInv /\ [Next]_vars => LockInv'
<1> SUFFICES ASSUME TypeOK, LockInv, ListInv, ThreadInv, [Next]_vars PROVE LockInv'
  OBVIOUS
<1> USE SchedulerAssumption DEF LockInv, WalkOnList
<1>1. CASE UNCHANGED vars \/ Tick \/ PrintBegin \/ PrintEnd \/ FreeSignal \/ FreeJoin
           \/ MCheck \/ MCalc \/ MWake \/ MUnlock
  BY <1>1 DEF vars, Tick, PrintBegin, PrintEnd, ConsoleRest, FreeSignal, FreeJoin, FreeRest,
              MCheck, MCalc, MWake, MUnlock, ManagerRest, jobVars, mgrVars, freeVars
<1>2. ASSUME NEW j \in Jobs, schedulers_register(j) \/ schedulers_unregister(j)
      PROVE  LockInv'
  BY <1>2 DEF schedulers_register, schedulers_unregister, Unlink, mgrVars, freeVars
<1>3. CASE MLock
  <2>1. list # <<>> => Head(list) \in ToSet(list)
    BY ListHead
  <2> QED
    BY <1>3, <2>1 DEF MLock, ManagerRest, jobVars, freeVars
<1>4. CASE MWalk
  BY <1>4, NextNodeType DEF MWalk, jobVars, freeVars
<1>5. ASSUME NEW c \in Children, ChildStart(c) \/ ChildReturn(c) \/ ChildExit(c)
      PROVE  LockInv'
  BY <1>5 DEF ChildStart, ChildReturn, ChildExit, ChildRest, jobVars, mgrVars, freeVars
<1>6. CASE FreeNodes
  BY <1>6 DEF FreeNodes, FreeRest, mgrVars
<1>7. CASE fpc # "run" /\ Crash
  BY <1>7 DEF Crash
<1>8. CASE PrintCrash
  BY <1>7, <1>8 DEF PrintCrash
<1>9. ASSUME NEW c \in Children, ChildCrash(c) PROVE LockInv'
  <2>1. mem[task[c]] = "freed" /\ task[c] \in Nodes
    BY <1>9 DEF ChildCrash, ThreadInv
  <2> QED
    BY <1>7, <1>9, <2>1 DEF ChildCrash, ListInv
<1> QED
  BY <1>1, <1>2, <1>3, <1>4, <1>5, <1>6, <1>8, <1>9 DEF Next, Manager, Console

\* Registering, unregistering and freeing keep each linked node on the list once, and
\* what is freed is named by a job that is still registered.
LEMMA ListStep == TypeOK /\ ListInv /\ [Next]_vars => ListInv'
<1> SUFFICES ASSUME TypeOK, ListInv, [Next]_vars PROVE ListInv'
  OBVIOUS
<1>1. CASE UNCHANGED <<list, owners, mem, name, fpc>>
  BY <1>1 DEF ListInv
<1>2. ASSUME NEW j \in Jobs, schedulers_register(j) PROVE ListInv'
  <2>1. PICK n \in Unused : /\ mem' = [mem EXCEPT ![n] = "linked"]
                            /\ name' = [name EXCEPT ![n] = j]
                            /\ list' = <<n>> \o list
    BY <1>2 DEF schedulers_register
  <2>2. /\ n \in Nodes /\ n \notin ToSet(list) /\ ToSet(list') = {n} \cup ToSet(list)
        /\ ToSet(list) \subseteq Nodes
    BY <2>1, ConsFacts, ListElements DEF Unused, TypeOK, ListInv
  <2>3. Distinct(list')
    <3>1. /\ Len(list') = Len(list) + 1 /\ list'[1] = n /\ Len(list) \in Nat
          /\ \A k \in 1 .. Len(list) : list'[k + 1] = list[k]
      BY <2>1, <2>2, ConsFacts DEF TypeOK
    <3>2. \A k \in 1 .. Len(list) : list[k] # n
      BY <2>2 DEF ToSet, TypeOK
    <3>3. ASSUME NEW a \in 1 .. Len(list'), NEW b \in 1 .. Len(list'), list'[a] = list'[b]
          PROVE  a = b
      <4>1. CASE a = 1 \/ b = 1
        <5>1. \A k \in 1 .. Len(list') : k # 1 => list'[k] # n
          <6> SUFFICES ASSUME NEW k \in 1 .. Len(list'), k # 1 PROVE list'[k] # n
            OBVIOUS
          <6>1. k - 1 \in 1 .. Len(list) /\ k = (k - 1) + 1
            BY <3>1
          <6> QED
            BY <3>1, <3>2, <6>1
        <5> QED
          BY <3>1, <3>3, <4>1, <5>1
      <4>2. CASE a # 1 /\ b # 1
        <5>1. a - 1 \in 1 .. Len(list) /\ b - 1 \in 1 .. Len(list)
          BY <3>1, <4>2
        <5>2. list[a - 1] = list[b - 1]
          BY <3>1, <3>3, <5>1
        <5> QED
          BY <5>1, <5>2 DEF ListInv, Distinct
      <4> QED
        BY <4>1, <4>2
    <3> QED
      BY <3>3 DEF Distinct
  <2>4. fpc = "run" /\ fpc' = "run" /\ owners' = owners \cup {j} /\ j \notin owners
    BY <1>2 DEF schedulers_register, Loading, freeVars
  <2> QED
    BY <2>1, <2>2, <2>3, <2>4 DEF ListInv, TypeOK
<1>3. ASSUME NEW j \in Jobs, schedulers_unregister(j) PROVE ListInv'
  <2>1. PICK i \in 1 .. Len(list) : /\ list' = RemoveAt(list, i) /\ name[list[i]] = j
                                    /\ mem' = [mem EXCEPT ![list[i]] = "leaked"]
    <3>1. DOMAIN list = 1 .. Len(list)
      BY DEF TypeOK
    <3> QED
      BY <1>3, <3>1 DEF schedulers_unregister, Unlink, Found
  <2>2. /\ ToSet(list') = ToSet(list) \ {list[i]} /\ Distinct(list')
        /\ list[i] \in ToSet(list) /\ ToSet(list) \subseteq Nodes
    <3>1. list \in Seq(Nodes) /\ DOMAIN list = 1 .. Len(list) /\ Distinct(list)
      BY DEF TypeOK, ListInv
    <3>2. list[i] \in ToSet(list)
      BY <3>1 DEF ToSet
    <3> QED
      BY <2>1, <3>1, <3>2, RemoveSet, ListElements
  <2>3. owners' = owners \ {j} /\ name' = name /\ fpc' = fpc /\ fpc = "run"
    BY <1>3 DEF schedulers_unregister, Unlink, Loading, freeVars
  <2> QED
    BY <2>1, <2>2, <2>3 DEF ListInv, TypeOK
<1>4. CASE FreeSignal
  BY <1>4 DEF FreeSignal, Loading, jobVars, ListInv
<1>5. CASE FreeNodes
  <2>1. fpc = "lock" /\ fpc' = "join" /\ UNCHANGED <<owners, name>>
    BY <1>5 DEF FreeNodes, FreeRest
  <2>2. /\ mem' = [n \in Nodes |-> IF n \in ToSet(list) THEN "freed" ELSE mem[n]]
        /\ list' = <<>>
    BY <1>5 DEF FreeNodes, FreeJobs
  <2>3. ToSet(list') = {} /\ Distinct(list')
    BY <2>2 DEF ToSet, Distinct
  <2> QED
    BY <2>1, <2>2, <2>3 DEF ListInv
<1>6. CASE FreeJoin
  BY <1>6 DEF FreeJoin, FreeRest, ListInv
<1>9. CASE Crash
  <2>1. ToSet(list') = {} /\ Distinct(list')
    BY <1>9 DEF Crash, ToSet, Distinct
  <2> QED
    BY <1>9, <2>1 DEF Crash, ListInv
<1>7. CASE UNCHANGED vars \/ Tick \/ PrintBegin \/ PrintEnd \/ Manager
  BY <1>1, <1>7 DEF vars, Tick, PrintBegin, PrintEnd, ConsoleRest, Manager, MCheck, MCalc, MWake, MLock,
                    MWalk, MUnlock, ManagerRest, jobVars, freeVars
<1>8. ASSUME NEW c \in Children, ChildStart(c) \/ ChildReturn(c) \/ ChildExit(c)
      PROVE  ListInv'
  BY <1>1, <1>8 DEF ChildStart, ChildReturn, ChildExit, ChildRest, jobVars, freeVars
<1> QED
  BY <1>2, <1>3, <1>4, <1>5, <1>6, <1>7, <1>8, <1>9 DEF Next, Console, PrintCrash, ChildCrash

\* A thread that exists goes on having a node.
LEMMA ThreadStep == TypeOK /\ LockInv /\ ThreadInv /\ [Next]_vars => ThreadInv'
<1> SUFFICES ASSUME TypeOK, LockInv, ThreadInv, [Next]_vars PROVE ThreadInv'
  OBVIOUS
<1>1. CASE UNCHANGED childVars
  BY <1>1 DEF ThreadInv, childVars
<1>2. CASE MWalk
  <2>1. mnode \in Nodes
    BY <1>2, ListElements DEF MWalk, LockInv, WalkOnList
  <2>2. ASSUME NEW c \in Idle, child' = [child EXCEPT ![c] = "created"],
               task' = [task EXCEPT ![c] = mnode]
        PROVE  ThreadInv'
    BY <2>1, <2>2 DEF ThreadInv, TypeOK
  <2> QED
    BY <1>1, <1>2, <2>2 DEF MWalk, Create
<1>3. ASSUME NEW c \in Children, ChildStart(c) \/ ChildReturn(c) \/ ChildExit(c)
      PROVE  ThreadInv'
  BY <1>3 DEF ChildStart, ChildReturn, ChildExit, ThreadInv, TypeOK
<1>4. CASE UNCHANGED vars \/ Tick \/ PrintBegin \/ PrintEnd \/ FreeSignal \/ FreeNodes
           \/ FreeJoin \/ MCheck \/ MCalc \/ MWake \/ MLock \/ MUnlock
  BY <1>1, <1>4 DEF vars, Tick, PrintBegin, PrintEnd, ConsoleRest, FreeSignal, FreeNodes,
                    FreeJoin, FreeRest, MCheck, MCalc, MWake, MLock, MUnlock, ManagerRest
<1>5. ASSUME NEW j \in Jobs, schedulers_register(j) \/ schedulers_unregister(j)
      PROVE  ThreadInv'
  BY <1>1, <1>5 DEF schedulers_register, schedulers_unregister, Unlink
<1>6. CASE Crash
  BY <1>6 DEF Crash, ThreadInv
<1> QED
  BY <1>2, <1>3, <1>4, <1>5, <1>6 DEF Next, Manager, Console, PrintCrash, ChildCrash
---------------------------------------------------------------------------
(* A machine that keeps up with the clock.                                 *)

\* What the walk of this minute has seen: nothing before it begins, the cells
\* before the manager's during it, every job of the whole minute after it.
ClockInv ==
  /\ \A c \in Children : child[c] = "created" => task[c] \in visited
  /\ mpc = "lock" \/ (mpc = "sleep" /\ wake = 0 /\ ~doexit) => visited = {}
  /\ mpc = "walk" /\ mnode # Null =>
       \E i \in 1 .. Len(list) :
         /\ list[i] = mnode
         /\ \A k \in 1 .. Len(list) : list[k] \in visited <=> k < i
  /\ mpc = "walk" /\ mnode = Null => ToSet(list) \subseteq visited
  /\ mpc \in {"check", "calc"} \/ (mpc = "sleep" /\ wake > 0) =>
       since \cap ToSet(list) \subseteq visited
  /\ \A n \in since : mem[n] # "unused"

\* a job that runs is marked, and no other thread has it
RunInv ==
  /\ \A c \in Children : child[c] = "running" => status[task[c]] = "RUN"
  /\ \A c, d \in Children :
       /\ child[c] \in {"created", "running"} /\ child[d] \in {"created", "running"}
       /\ task[c] = task[d]
       => c = d

IInv ==
  /\ TypeOK /\ LockInv /\ ListInv /\ ThreadInv
  /\ prompt => ClockInv /\ RunInv

\* On a machine that keeps up, the walk has visited what is before its cursor, and in the end all.
LEMMA ClockStep ==
  TypeOK /\ LockInv /\ ListInv /\ ClockInv /\ prompt /\ [Next]_vars => ClockInv'
<1> SUFFICES ASSUME TypeOK, LockInv, ListInv, ClockInv, prompt, [Next]_vars
             PROVE  ClockInv'
  OBVIOUS
<1>n. Null \notin Nodes /\ Null # "manager"
  BY SchedulerAssumption
<1>t. /\ wake \in 0 .. 1 /\ list \in Seq(Nodes) /\ Len(list) \in Nat
      /\ DOMAIN list = 1 .. Len(list) /\ ToSet(list) \subseteq Nodes
  BY ListElements DEF TypeOK
<1>1. CASE UNCHANGED <<child, task, mpc, wake, doexit, mnode, list, visited, since, mem>>
  BY <1>1 DEF ClockInv
<1>2. CASE Tick
  <2>1. /\ mpc \in {"sleep", "exited"} /\ mpc' = mpc /\ wake' = 0 /\ visited' = {}
        /\ since' = ToSet(list) /\ list' = list /\ mem' = mem
        /\ \A c \in Children : child'[c] \in {"none", "running"}
    BY <1>2, <1>t DEF Tick, jobVars, childVars
  <2> QED
    BY <1>t, <2>1 DEF ClockInv, ListInv
<1>3. ASSUME NEW j \in Jobs, schedulers_register(j) PROVE ClockInv'
  <2>1. PICK n \in Unused : /\ mem' = [mem EXCEPT ![n] = "linked"]
                            /\ list' = <<n>> \o list
    BY <1>3 DEF schedulers_register
  <2>2. ToSet(list') = {n} \cup ToSet(list)
    BY <1>t, <2>1, ConsFacts DEF Unused
  <2>3. n \notin since /\ mpc # "walk"
    BY <1>n, <1>3, <2>1 DEF ClockInv, LockInv, Unused, schedulers_register
  <2>4. UNCHANGED <<child, task, mpc, wake, doexit, mnode, visited, since>>
    BY <1>3 DEF schedulers_register, childVars, mgrVars, freeVars, histVars
  <2>5. \A m \in since : mem'[m] # "unused"
    BY <2>1 DEF ClockInv, TypeOK
  <2> QED
    BY <2>2, <2>3, <2>4, <2>5 DEF ClockInv
<1>4. ASSUME NEW j \in Jobs, schedulers_unregister(j) PROVE ClockInv'
  <2>1. PICK i \in 1 .. Len(list) : /\ list' = RemoveAt(list, i)
                                    /\ mem' = [mem EXCEPT ![list[i]] = "leaked"]
    BY <1>4, <1>t DEF schedulers_unregister, Unlink, Found
  <2>2. ToSet(list') \subseteq ToSet(list)
    BY <1>t, <2>1, RemoveSet DEF ListInv
  <2>3. UNCHANGED <<child, task, mpc, wake, doexit, mnode, visited, since>> /\ mpc # "walk"
    BY <1>n, <1>4 DEF schedulers_unregister, Unlink, childVars, mgrVars, freeVars, histVars,
                      LockInv
  <2>4. \A m \in since : mem'[m] # "unused"
    BY <2>1 DEF ClockInv, TypeOK
  <2> QED
    BY <2>2, <2>3, <2>4 DEF ClockInv
<1>5. CASE MCheck \/ MCalc \/ MWake
  <2>1. UNCHANGED <<child, task, doexit, mnode, list, visited, since, mem>>
    BY <1>5 DEF MCheck, MCalc, MWake, ManagerRest, jobVars, childVars, freeVars, histVars
  <2>2. mpc' # "walk"
    BY <1>5 DEF MCheck, MCalc, MWake
  <2>3. mpc' = "lock" \/ (mpc' = "sleep" /\ wake' = 0 /\ ~doexit') => visited' = {}
    BY <1>5, <2>1 DEF MCheck, MCalc, MWake, ClockInv
  <2>4. mpc' \in {"check", "calc"} \/ (mpc' = "sleep" /\ wake' > 0)
        => since \cap ToSet(list) \subseteq visited
    BY <1>5, <2>1 DEF MCheck, MCalc, MWake, ClockInv
  <2> QED
    BY <2>1, <2>2, <2>3, <2>4 DEF ClockInv
<1>6. CASE MLock
  <2>1. /\ UNCHANGED <<child, task, list, visited, since, mem>>
        /\ mpc' = "walk" /\ visited = {} /\ mnode' = IF list = <<>> THEN Null ELSE Head(list)
    BY <1>6 DEF MLock, ManagerRest, jobVars, childVars, histVars, ClockInv
  <2>2. CASE list = <<>>
    <3>1. ToSet(list) = {}
      BY <2>2 DEF ToSet
    <3> QED
      BY <2>1, <2>2, <3>1 DEF ClockInv
  <2>3. CASE list # <<>>
    <3>1. 1 \in 1 .. Len(list) /\ list[1] = Head(list) /\ Head(list) \in Nodes
      BY <1>t, <2>3
    <3>2. \A k \in 1 .. Len(list) : list[k] \in visited <=> k < 1
      BY <1>t, <2>1
    <3> QED
      BY <1>n, <2>1, <2>3, <3>1, <3>2 DEF ClockInv
  <2> QED
    BY <2>2, <2>3
<1>7. CASE MWalk
  <2>1. PICK i \in 1 .. Len(list) :
          list[i] = mnode /\ \A k \in 1 .. Len(list) : list[k] \in visited <=> k < i
    BY <1>7 DEF MWalk, ClockInv
  <2>2. /\ UNCHANGED <<list, since, mem, mpc, wake, doexit>> /\ mpc = "walk"
        /\ visited' = visited \cup {mnode} /\ mnode' = NextNode(mnode)
    BY <1>7 DEF MWalk, jobVars, freeVars
  <2>i. i \in 1 .. Len(list) /\ Len(list) \in Nat
    BY <1>t
  <2> DEFINE at == CHOOSE k \in 1 .. Len(list) : list[k] = mnode
  <2>3. NextNode(mnode) = IF at = Len(list) THEN Null ELSE list[at + 1]
    BY DEF NextNode
  <2>4. mnode' = IF i = Len(list) THEN Null ELSE list[i + 1]
    <3>1. at = i
      BY <2>1 DEF ListInv, Distinct
    <3> QED
      BY <2>2, <2>3, <3>1
  <2>5. \A k \in 1 .. Len(list) : list[k] \in visited' <=> k < i + 1
    <3> SUFFICES ASSUME NEW k \in 1 .. Len(list)
                 PROVE  list[k] \in visited' <=> k < i + 1
      OBVIOUS
    <3>1. list[k] = mnode <=> k = i
      BY <2>1 DEF ListInv, Distinct
    <3> QED
      BY <2>1, <2>2, <3>1
  <2>6. mnode' # Null => \E a \in 1 .. Len(list) :
          list[a] = mnode' /\ \A k \in 1 .. Len(list) : list[k] \in visited' <=> k < a
    <3> SUFFICES ASSUME mnode' # Null
                 PROVE  \E a \in 1 .. Len(list) : /\ list[a] = mnode'
                          /\ \A k \in 1 .. Len(list) : list[k] \in visited' <=> k < a
      OBVIOUS
    <3>1. i + 1 \in 1 .. Len(list)
      <4>1. i # Len(list)
        BY <2>4
      <4> QED
        BY <2>i, <4>1
    <3> QED
      BY <2>4, <2>5, <3>1
  <2>7. mnode' = Null => ToSet(list) \subseteq visited'
    <3> SUFFICES ASSUME mnode' = Null, NEW k \in 1 .. Len(list) PROVE list[k] \in visited'
      BY <1>t DEF ToSet
    <3>1. i = Len(list)
      <4>1. i # Len(list) => i + 1 \in 1 .. Len(list)
        BY <2>i
      <4>2. \A m \in 1 .. Len(list) : list[m] \in Nodes
        BY <1>t
      <4> QED
        BY <1>n, <2>4, <4>1, <4>2
    <3> QED
      BY <2>5, <3>1, <1>t
  <2>8. \A c \in Children : child'[c] = "created" => task'[c] \in visited'
    BY <1>7, <2>2 DEF MWalk, Create, childVars, ClockInv, TypeOK, Idle
  <2> QED
    BY <2>2, <2>6, <2>7, <2>8 DEF ClockInv
<1>8. CASE MUnlock
  BY <1>8 DEF MUnlock, ManagerRest, jobVars, childVars, freeVars, histVars, ClockInv
<1>9. ASSUME NEW c \in Children, ChildStart(c) \/ ChildReturn(c) \/ ChildExit(c)
      PROVE  ClockInv'
  <2>1. UNCHANGED <<mpc, wake, doexit, mnode, list, visited, since, mem>>
    BY <1>9 DEF ChildStart, ChildReturn, ChildExit, ChildRest, jobVars, mgrVars, freeVars,
                histVars
  <2>2. \A d \in Children : child'[d] = "created" => child[d] = "created" /\ task'[d] = task[d]
    BY <1>9 DEF ChildStart, ChildReturn, ChildExit, TypeOK
  <2> QED
    BY <2>1, <2>2 DEF ClockInv
<1>10. CASE FreeSignal
  <2>1. /\ UNCHANGED <<child, task, mpc, mnode, list, visited, since, mem>> /\ doexit'
        /\ wake' = IF mpc = "sleep" THEN 0 ELSE wake
    BY <1>10 DEF FreeSignal, jobVars, childVars, histVars
  <2> QED
    BY <2>1 DEF ClockInv
<1>11. CASE FreeNodes
  <2>1. /\ UNCHANGED <<child, task, mpc, wake, doexit, mnode, visited, since>>
        /\ mpc # "walk" /\ list' = <<>>
    BY <1>n, <1>11 DEF FreeNodes, FreeJobs, FreeRest, mgrVars, childVars, histVars, LockInv
  <2>2. \A n \in since : mem'[n] # "unused"
    BY <1>11 DEF FreeNodes, FreeJobs, ClockInv, TypeOK
  <2>3. ToSet(list') = {}
    BY <2>1 DEF ToSet
  <2> QED
    BY <2>1, <2>2, <2>3 DEF ClockInv
<1>12. CASE UNCHANGED vars \/ PrintBegin \/ PrintEnd \/ FreeJoin
  BY <1>1, <1>12 DEF vars, PrintBegin, PrintEnd, ConsoleRest, FreeJoin, FreeRest, jobVars,
                     mgrVars, childVars, freeVars, histVars
<1>13. CASE Crash
  BY <1>13 DEF Crash, ClockInv
<1> QED
  BY <1>2, <1>3, <1>4, <1>5, <1>6, <1>7, <1>8, <1>9, <1>10, <1>11, <1>12, <1>13
  DEF Next, Manager, Console, PrintCrash, ChildCrash

\* On a machine that keeps up, a job has at most one thread.
LEMMA RunStep ==
  TypeOK /\ LockInv /\ ThreadInv /\ ClockInv /\ RunInv /\ [Next]_vars => RunInv'
<1> SUFFICES ASSUME TypeOK, LockInv, ThreadInv, ClockInv, RunInv, [Next]_vars
             PROVE  RunInv'
  OBVIOUS
<1>1. CASE UNCHANGED <<child, task, status>>
  BY <1>1 DEF RunInv
<1>2. CASE MWalk
  <2>1. mnode \in Nodes /\ mnode \notin visited /\ status' = status
    <3>1. PICK i \in 1 .. Len(list) :
            list[i] = mnode /\ \A k \in 1 .. Len(list) : list[k] \in visited <=> k < i
      BY <1>2 DEF MWalk, ClockInv
    <3>2. ~(i < i)
      BY DEF TypeOK
    <3>3. mnode \in Nodes
      BY <1>2 DEF MWalk, TypeOK
    <3> QED
      BY <1>2, <3>1, <3>2, <3>3 DEF MWalk
  <2>2. ASSUME NEW c \in Idle, status[mnode] = "SLEEP",
               child' = [child EXCEPT ![c] = "created"], task' = [task EXCEPT ![c] = mnode]
        PROVE  RunInv'
    <3>1. \A d \in Children : child[d] \in {"created", "running"} => task[d] # mnode
      BY <2>1, <2>2 DEF ClockInv, RunInv
    <3>2. /\ child'[c] = "created" /\ task'[c] = mnode /\ child[c] = "none"
          /\ \A d \in Children : d # c => child'[d] = child[d] /\ task'[d] = task[d]
      BY <2>2 DEF Idle, TypeOK
    <3> QED
      BY <2>1, <3>1, <3>2 DEF RunInv
  <2> QED
    BY <1>1, <1>2, <2>1, <2>2 DEF MWalk, Create, childVars
<1>3. ASSUME NEW c \in Children, ChildStart(c) \/ ChildReturn(c) \/ ChildExit(c)
      PROVE  RunInv'
  <2>1. /\ \A d \in Children : d # c => child'[d] = child[d] /\ task'[d] = task[d]
        /\ child'[c] \in {"created", "running"} => child[c] = "created" /\ task'[c] = task[c]
    BY <1>3 DEF ChildStart, ChildReturn, ChildExit, TypeOK
  <2>2. child'[c] = "running" => status'[task[c]] = "RUN"
    BY <1>3 DEF ChildStart, ChildReturn, ChildExit, TypeOK, ThreadInv
  <2>3. ASSUME NEW d \in Children, d # c, child'[d] = "running" PROVE status'[task[d]] = "RUN"
    <3>1. child[d] = "running" /\ status[task[d]] = "RUN"
      BY <2>1, <2>3 DEF RunInv
    <3>2. CASE ChildStart(c)
      BY <3>1, <3>2 DEF ChildStart, TypeOK, ThreadInv
    <3>3. CASE ChildReturn(c)
      <4>1. task[d] # task[c]
        BY <2>3, <3>1, <3>3 DEF ChildReturn, RunInv
      <4> QED
        BY <3>1, <3>3, <4>1 DEF ChildReturn, TypeOK, ThreadInv
    <3>4. CASE ChildExit(c)
      BY <3>1, <3>4 DEF ChildExit
    <3> QED
      BY <1>3, <3>2, <3>3, <3>4
  <2> QED
    BY <2>1, <2>2, <2>3 DEF RunInv
<1>4. CASE UNCHANGED vars \/ Tick \/ PrintBegin \/ PrintEnd \/ FreeSignal \/ FreeNodes
           \/ FreeJoin \/ MCheck \/ MCalc \/ MWake \/ MLock \/ MUnlock
  BY <1>1, <1>4 DEF vars, Tick, PrintBegin, PrintEnd, ConsoleRest, FreeSignal, FreeNodes,
                    FreeJoin, FreeRest, MCheck, MCalc, MWake, MLock, MUnlock, ManagerRest, childVars
<1>5. ASSUME NEW j \in Jobs, schedulers_register(j) \/ schedulers_unregister(j)
      PROVE  RunInv'
  BY <1>1, <1>5 DEF schedulers_register, schedulers_unregister, Unlink, childVars
<1>6. CASE Crash
  BY <1>6 DEF Crash, RunInv
<1> QED
  BY <1>2, <1>3, <1>4, <1>5, <1>6 DEF Next, Manager, Console, PrintCrash, ChildCrash

\* The inductive invariant holds at the start.
LEMMA InvInit == Init => IInv
<1> SUFFICES ASSUME Init PROVE IInv
  OBVIOUS
<1>1. TypeOK
  BY TypeInit
<1>2. Len(<<>>) = 0 /\ ToSet(list) = {} /\ Distinct(list)
  BY DEF Init, ToSet, Distinct
<1>3. LockInv /\ ListInv /\ ThreadInv
  BY <1>2, SchedulerAssumption DEF Init, LockInv, WalkOnList, ListInv, ThreadInv
<1>4. ClockInv /\ RunInv
  BY <1>2 DEF Init, ClockInv, RunInv
<1> QED
  BY <1>1, <1>3, <1>4 DEF IInv

\* Every step keeps the inductive invariant.
LEMMA InvStep == IInv /\ [Next]_vars => IInv'
<1> SUFFICES ASSUME IInv, [Next]_vars PROVE IInv'
  OBVIOUS
<1>1. TypeOK /\ LockInv /\ ListInv /\ ThreadInv /\ WalkOnList
  BY DEF IInv, LockInv
<1>2. TypeOK' /\ LockInv' /\ ListInv' /\ ThreadInv'
  BY <1>1, TypeStep, LockStep, ListStep, ThreadStep
<1>3. prompt' = prompt
  BY DEF Next, vars, Tick, Manager, MCheck, MCalc, MWake, MLock, MWalk, MUnlock, ManagerRest,
         Console, PrintBegin, PrintCrash, PrintEnd, ConsoleRest, schedulers_register,
         schedulers_unregister, Unlink, ChildStart, ChildCrash, Crash,
         ChildReturn, ChildExit, ChildRest, FreeSignal, FreeNodes, FreeJoin, FreeRest
<1>4. prompt' => ClockInv' /\ RunInv'
  BY <1>1, <1>3, ClockStep, RunStep DEF IInv
<1> QED
  BY <1>2, <1>4 DEF IInv

\* The inductive invariant holds throughout.
LEMMA Inductive == Spec => []IInv
  BY InvInit, InvStep, PTL DEF Spec
---------------------------------------------------------------------------
(* Theorems.                                                               *)

\* Every variable of the scheduler keeps its type, in particular the manager
\* never sleeps for more than the rest of the minute.
THEOREM TypeCorrect == Spec => []TypeOK
<1>1. IInv => TypeOK
  BY DEF IInv
<1> QED
  BY <1>1, Inductive, PTL

\* schedulers_register and schedulers_unregister of the modules, the console and
\* schedulers_free never take the list cell away on which thr_scheduler stands.
THEOREM WalkSafe == Spec => []WalkOnList
<1>1. IInv => WalkOnList
  BY DEF IInv, LockInv
<1> QED
  BY <1>1, Inductive, PTL

\* thr_scheduler_child never writes status or delay_time of a node that was freed
\* although schedulers_unregister had taken its job off the list.
THEOREM NodesOutliveThreads == Spec => []NodeOutlivesThread
<1>1. IInv => NodeOutlivesThread
  BY DEF IInv, ListInv, ThreadInv, NodeOutlivesThread
<1> QED
  BY <1>1, Inductive, PTL

\* On a machine that keeps up with the clock thr_scheduler never starts a job
\* that a thread of an earlier minute is still running.
THEOREM OneRun == Spec => []OneRunPerJob
<1>1. IInv => OneRunPerJob
  <2> SUFFICES ASSUME IInv, prompt, NEW n \in Nodes PROVE Cardinality(Busy(n)) <= 1
    BY DEF OneRunPerJob
  <2>1. \A c, d \in Busy(n) : c = d
    BY DEF IInv, RunInv, Busy
  <2>2. CASE Busy(n) = {}
    <3>1. Cardinality(Busy(n)) = 0
      BY <2>2, FS_EmptySet
    <3> QED
      BY <3>1
  <2>3. CASE Busy(n) # {}
    <3>1. PICK c : Busy(n) = {c}
      BY <2>1, <2>3
    <3>2. Cardinality(Busy(n)) = 1
      BY <3>1, FS_Singleton
    <3> QED
      BY <3>2
  <2> QED
    BY <2>2, <2>3
<1> QED
  BY <1>1, Inductive, PTL

\* On such a machine the walk of thr_scheduler looks, in every minute before
\* schedulers_free, at every job that is registered for the whole of it.
THEOREM NoMinuteMissed == Spec => EveryMinuteVisited
<1> DEFINE Seen == prompt /\ now' # now /\ ~doexit => (since \cap ToSet(list)) \subseteq visited
<1>1. IInv /\ [Next]_vars => [Seen]_vars
  <2> SUFFICES ASSUME IInv, Next, prompt, now' # now, ~doexit
               PROVE  (since \cap ToSet(list)) \subseteq visited
    OBVIOUS
  <2>1. Tick
    BY DEF Next, Manager, MCheck, MCalc, MWake, MLock, MWalk, MUnlock, ManagerRest,
           Console, PrintBegin, PrintCrash, PrintEnd, ConsoleRest, schedulers_register,
         schedulers_unregister, Unlink, ChildStart, ChildCrash, Crash,
           ChildReturn, ChildExit, ChildRest, FreeSignal, FreeNodes, FreeJoin, FreeRest
  <2>2. mpc = "sleep" /\ wake > 0
    BY <2>1 DEF Tick, IInv, LockInv
  <2> QED
    BY <2>2 DEF IInv, ClockInv
<1> QED
  BY <1>1, Inductive, PTL DEF Spec, EveryMinuteVisited
=============================================================================
