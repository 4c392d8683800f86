------------------------- MODULE UsersTableProofs -------------------------
(***************************************************************************)
(* TLAPS proofs about UsersTable, for any number of users, rules, nodes,   *)
(* packets, edits and failures: the bytes accounted to a user are          *)
(* conserved between the collector, the sync and the database.             *)
(***************************************************************************)
EXTENDS UsersTable, TLAPS

Counter == 0 .. (Word - 1)
Holding == {"usub", "uexp", "urest"}   \* the sync holds t_traffic of a user

CounterType ==
  /\ nBytes \in [Nodes -> Counter]
  /\ counted \in [Nodes -> Nat] /\ exported \in [Nodes -> Nat]
  /\ sret \in {"user", "clean"}
  /\ spc \in Holding /\ snode \in Nodes => stake \in Counter

\* every byte is somewhere, on any list or none
Identity ==
  \A n \in Nodes : counted[n] < Word =>
    counted[n] = exported[n] + nBytes[n] + InFlight(n)

\* between its read and its subtraction t_traffic stays covered: the
\* collector only adds to the counter meanwhile
Covered ==
  spc = "usub" /\ snode \in Nodes /\ counted[snode] < Word =>
    stake <= nBytes[snode]

BytesInv == CounterType /\ Identity /\ Covered

Sound == ~Races /\ ~LostReplies

LEMMA WrapType ==
  ASSUME NEW x \in Int
  PROVE  Wrap(x) \in Counter
  BY TableAssumption DEF Wrap, Counter

LEMMA WrapIs ==
  ASSUME NEW x \in Counter
  PROVE  Wrap(x) = x
  BY TableAssumption DEF Wrap, Counter

\* A step that leaves the counters and whatever the sync holds.
LEMMA Still ==
  ASSUME BytesInv, UNCHANGED <<nBytes, counted, exported>>,
         sret' \in {"user", "clean"}, UNCHANGED <<spc, snode, stake>>
  PROVE  BytesInv'
  BY DEF BytesInv, CounterType, Identity, Covered, InFlight

\* A step of the sync that leaves the counters, before and after which it
\* holds nothing it has subtracted.
LEMMA Elsewhere ==
  ASSUME BytesInv, UNCHANGED <<nBytes, counted, exported>>,
         sret' \in {"user", "clean"},
         spc \notin {"uexp", "urest"}, spc' \notin Holding
  PROVE  BytesInv'
<1>1. CounterType' /\ Covered'
  BY DEF BytesInv, CounterType, Covered, Holding
<1>2. ASSUME NEW n \in Nodes
      PROVE  InFlight(n) = 0 /\ InFlight(n)' = 0
  BY DEF InFlight, Holding
<1>3. Identity'
  BY <1>2 DEF BytesInv, Identity
<1> QED
  BY <1>1, <1>3 DEF BytesInv

\* The collector adds one byte to the node it found.
LEMMA Added ==
  ASSUME Sound, BytesInv, NEW c,
         NEW x \in Outcomes(nBytes[c], cload[2], 1),
         nBytes' = [nBytes EXCEPT ![c] = x],
         counted' = [counted EXCEPT ![c] = @ + 1],
         UNCHANGED <<exported, sret, spc, snode, stake>>
  PROVE  BytesInv'
<1>1. x = Wrap(nBytes[c] + 1)
  BY DEF Outcomes, Sound
<1>2. c \in Nodes => x \in Counter
  BY <1>1, WrapType DEF BytesInv, CounterType, Counter
<1>3. CounterType'
  <2>1. nBytes' \in [Nodes -> Counter]
    BY <1>2 DEF BytesInv, CounterType
  <2>2. counted \in [Nodes -> Nat] /\ (c \in Nodes => counted[c] + 1 \in Nat)
    BY DEF BytesInv, CounterType
  <2>3. counted' \in [Nodes -> Nat]
    BY <2>2
  <2> QED
    BY <2>1, <2>3 DEF BytesInv, CounterType, Holding
<1>4. ASSUME NEW n \in Nodes, counted'[n] < Word
      PROVE  /\ counted'[n] = exported'[n] + nBytes'[n] + InFlight(n)'
             /\ nBytes'[n] >= nBytes[n] /\ counted[n] < Word
  <2>1. counted[n] \in Nat /\ exported[n] \in Nat /\ nBytes[n] \in Counter
    BY DEF BytesInv, CounterType
  <2>2. InFlight(n)' = InFlight(n) /\ InFlight(n) \in Nat
    BY DEF InFlight, BytesInv, CounterType, Holding, Counter
  <2>3. CASE n # c
    <3>1. counted'[n] = counted[n] /\ nBytes'[n] = nBytes[n]
      BY <2>3 DEF BytesInv, CounterType
    <3> QED
      BY <3>1, <2>1, <2>2, <1>4 DEF BytesInv, Identity, Counter
  <2>4. CASE n = c
    <3>1. counted'[n] = counted[n] + 1 /\ nBytes'[n] = x
      BY <2>4 DEF BytesInv, CounterType
    <3>2. counted[n] = exported[n] + nBytes[n] + InFlight(n)
      BY <3>1, <2>1, <1>4, TableAssumption DEF BytesInv, Identity
    <3>3. nBytes[n] + 1 \in Counter
      BY <3>1, <3>2, <2>1, <2>2, <1>4, TableAssumption DEF Counter
    <3>4. x = nBytes[n] + 1
      BY <3>3, <2>4, <1>1, WrapIs
    <3> QED
      BY <3>1, <3>2, <3>4, <2>1, <2>2, <1>4, TableAssumption DEF Counter
  <2> QED
    BY <2>3, <2>4
<1>5. Identity'
  BY <1>4 DEF Identity
<1>6. Covered'
  <2> SUFFICES ASSUME spc' = "usub", snode' \in Nodes, counted'[snode'] < Word
               PROVE  stake' <= nBytes'[snode']
    BY DEF Covered
  <2>1. stake \in Counter /\ snode \in Nodes /\ nBytes[snode] \in Counter
        /\ nBytes'[snode] \in Counter
    BY <1>3 DEF BytesInv, CounterType, Holding
  <2>2. nBytes'[snode] >= nBytes[snode] /\ counted[snode] < Word
    BY <1>4, <2>1
  <2>3. stake <= nBytes[snode]
    BY <2>1, <2>2 DEF BytesInv, Covered
  <2> QED
    BY <2>1, <2>2, <2>3 DEF Counter
<1> QED
  BY <1>3, <1>5, <1>6 DEF BytesInv

\* t_traffic is read, or nothing is there to read.
LEMMA TakeStep ==
  ASSUME BytesInv, UserTake
  PROVE  BytesInv'
<1>1. UNCHANGED <<nBytes, counted, exported, sret>> /\ spc = "user"
  BY DEF UserTake, SyncRest, uHist
<1>2. \/ spc' = "idle"
      \/ spc' = spc
      \/ \E n \in todo : spc' = "usub" /\ snode' = n /\ stake' = nBytes[n]
  BY DEF UserTake
<1>3. CASE spc' \in {"idle", "user"}
  BY <1>1, <1>3, Elsewhere DEF Holding, BytesInv, CounterType
<1>4. CASE spc' = "usub" /\ stake' = nBytes[snode']
  <2>1. CounterType' /\ Covered'
    BY <1>1, <1>4 DEF BytesInv, CounterType, Covered, Holding, Counter
  <2>2. Identity'
    BY <1>1, <1>4 DEF BytesInv, Identity, InFlight
  <2> QED
    BY <2>1, <2>2 DEF BytesInv
<1> QED
  BY <1>1, <1>2, <1>3, <1>4

\* node->traffic -= t_traffic.
LEMMA SubStep ==
  ASSUME Sound, BytesInv, UserSub
  PROVE  BytesInv'
<1>1. UNCHANGED <<counted, exported, sret, snode, stake>>
      /\ spc = "usub" /\ spc' = "uexp"
  BY DEF UserSub, SyncRest, uHist, pickVars, takeVars
<1>2. nBytes' = [nBytes EXCEPT ![snode] = Wrap(nBytes[snode] + (-stake))]
  BY DEF UserSub, Outcomes, Sound
<1>3. snode \in Nodes => /\ stake \in Counter /\ nBytes[snode] \in Counter
                        /\ nBytes[snode] + (-stake) \in Int
  BY <1>1 DEF BytesInv, CounterType, Holding, Counter
<1>4. CounterType'
  BY <1>1, <1>2, <1>3, WrapType DEF BytesInv, CounterType, Holding
<1>5. ASSUME NEW n \in Nodes, counted'[n] < Word
      PROVE  counted'[n] = exported'[n] + nBytes'[n] + InFlight(n)'
  <2>1. counted[n] = exported[n] + nBytes[n] + InFlight(n) /\ InFlight(n) = 0
    BY <1>1, <1>5 DEF BytesInv, Identity, InFlight
  <2>2. CASE n # snode
    BY <2>1, <2>2, <1>1, <1>2 DEF BytesInv, CounterType, InFlight
  <2>3. CASE n = snode
    <3>1. stake <= nBytes[n]
      BY <2>3, <1>1, <1>5 DEF BytesInv, Covered
    <3>2. nBytes[n] + (-stake) \in Counter
      BY <3>1, <2>3, <1>3, TableAssumption DEF Counter
    <3>3. nBytes'[n] = nBytes[n] - stake
      BY <3>2, <2>3, <1>2, <1>3, WrapIs DEF BytesInv, CounterType, Counter
    <3>4. InFlight(n)' = stake
      BY <2>3, <1>1 DEF InFlight
    <3>5. exported[n] \in Nat /\ nBytes[n] \in Int /\ stake \in Int
      BY <2>3, <1>3 DEF BytesInv, CounterType, Counter
    <3> QED
      BY <3>3, <3>4, <3>5, <2>1, <1>1
  <2> QED
    BY <2>2, <2>3
<1>6. Identity' /\ Covered'
  BY <1>1, <1>5 DEF Identity, Covered
<1> QED
  BY <1>4, <1>6 DEF BytesInv

\* The update of Users succeeds, or it fails and the bytes are kept.
LEMMA ExportStep ==
  ASSUME Sound, BytesInv, users_mysql_export
  PROVE  BytesInv'
<1>1. UNCHANGED <<nBytes, counted, sret, snode>> /\ spc = "uexp"
  BY DEF users_mysql_export, pickVars
<1>2. CASE spc' = "urest" /\ UNCHANGED <<stake, exported>>
  <2>1. CounterType' /\ Covered'
    BY <1>1, <1>2 DEF BytesInv, CounterType, Covered, Holding
  <2>2. Identity'
    BY <1>1, <1>2 DEF BytesInv, Identity, InFlight
  <2> QED
    BY <2>1, <2>2 DEF BytesInv
<1>3. CASE Exported(snode) /\ spc' = "export"
  <2>1. snode \in Nodes => stake \in Nat
    BY <1>1 DEF BytesInv, CounterType, Holding, Counter
  <2>2. exported' \in [Nodes -> Nat]
    <3>1. exported \in [Nodes -> Nat]
          /\ (snode \in Nodes => exported[snode] + stake \in Nat)
      BY <2>1 DEF BytesInv, CounterType
    <3> QED
      BY <3>1, <1>3 DEF Exported
  <2>3. CounterType' /\ Covered'
    BY <2>2, <1>1, <1>3 DEF BytesInv, CounterType, Covered, Holding
  <2>4. ASSUME NEW n \in Nodes, counted'[n] < Word
        PROVE  counted'[n] = exported'[n] + nBytes'[n] + InFlight(n)'
    <3>1. counted[n] = exported[n] + nBytes[n] + InFlight(n)
      BY <1>1, <2>4 DEF BytesInv, Identity
    <3>2. exported[n] \in Nat /\ nBytes[n] \in Nat /\ InFlight(n)' = 0
      BY <1>3 DEF BytesInv, CounterType, Counter, InFlight
    <3>3. CASE n = snode
      <4>1. InFlight(n) = stake /\ exported'[n] = exported[n] + stake
        BY <3>3, <1>1, <1>3 DEF InFlight, Exported, BytesInv, CounterType
      <4> QED
        BY <4>1, <3>1, <3>2, <3>3, <2>1, <1>1
    <3>4. CASE n # snode
      <4>1. InFlight(n) = 0 /\ exported'[n] = exported[n]
        BY <3>4, <1>3 DEF InFlight, Exported, BytesInv, CounterType
      <4> QED
        BY <4>1, <3>1, <3>2, <1>1
    <3> QED
      BY <3>3, <3>4
  <2> QED
    BY <2>3, <2>4 DEF BytesInv, Identity
<1> QED
  BY <1>2, <1>3 DEF users_mysql_export, Sound

\* node->traffic += t_traffic.
LEMMA RestoreStep ==
  ASSUME Sound, BytesInv, UserRestore
  PROVE  BytesInv'
<1>1. UNCHANGED <<counted, exported, sret, snode>>
      /\ spc = "urest" /\ spc' = "user"
  BY DEF UserRestore, SyncRest, uHist, pickVars
<1>2. nBytes' = [nBytes EXCEPT ![snode] = Wrap(nBytes[snode] + stake)]
  BY DEF UserRestore, Outcomes, Sound
<1>3. snode \in Nodes => /\ stake \in Counter /\ nBytes[snode] \in Counter
                        /\ nBytes[snode] + stake \in Int
  BY <1>1 DEF BytesInv, CounterType, Holding, Counter
<1>4. CounterType'
  BY <1>1, <1>2, <1>3, WrapType DEF BytesInv, CounterType, Holding
<1>5. ASSUME NEW n \in Nodes, counted'[n] < Word
      PROVE  counted'[n] = exported'[n] + nBytes'[n] + InFlight(n)'
  <2>1. counted[n] = exported[n] + nBytes[n] + InFlight(n)
        /\ InFlight(n)' = 0 /\ counted[n] < Word
    BY <1>1, <1>5 DEF BytesInv, Identity, InFlight
  <2>2. exported[n] \in Nat /\ nBytes[n] \in Nat
    BY DEF BytesInv, CounterType, Counter
  <2>3. CASE n # snode
    <3>1. nBytes'[n] = nBytes[n] /\ InFlight(n) = 0
      BY <2>3, <1>2 DEF BytesInv, CounterType, InFlight
    <3> QED
      BY <3>1, <2>1, <2>2, <1>1
  <2>4. CASE n = snode
    <3>1. InFlight(n) = stake
      BY <2>4, <1>1 DEF InFlight
    <3>2. nBytes[n] + stake \in Counter
      BY <3>1, <2>1, <2>2, <2>4, <1>3, TableAssumption DEF Counter
    <3>3. nBytes'[n] = nBytes[n] + stake
      BY <3>2, <2>4, <1>2, WrapIs DEF BytesInv, CounterType
    <3> QED
      BY <3>1, <3>3, <2>1, <2>2, <2>4, <1>1, <1>3 DEF Counter
  <2> QED
    BY <2>3, <2>4
<1>6. Identity' /\ Covered'
  BY <1>1, <1>5 DEF Identity, Covered
<1> QED
  BY <1>4, <1>6 DEF BytesInv

\* The other steps of the sync neither touch a user's counter nor hold any
\* of it.
LEMMA OtherSyncStep ==
  ASSUME BytesInv,
         \/ users_sync \/ SyncRow \/ rules_sync_traffic \/ rules_clean
         \/ UpdateReread \/ rules_mysql_load \/ users_delete
         \/ users_sync_traffic \/ RuleTake \/ RuleSub \/ rules_mysql_export
         \/ RuleRestore
  PROVE  BytesInv'
<1> USE DEF SyncRest, uHist, pickVars
<1> DEFINE Quiet == /\ UNCHANGED <<nBytes, counted, exported>>
                    /\ spc \notin Holding /\ spc' \notin Holding
                    /\ sret' \in {"user", "clean"}
<1>0. sret \in {"user", "clean"}
  BY DEF BytesInv, CounterType
<1>1. CASE users_sync
  <2>1. Quiet
    BY <1>0, <1>1 DEF users_sync, Holding
  <2> QED
    BY <2>1, Elsewhere DEF Holding
<1>2. CASE SyncRow
  <2>1. spc = "row" /\ UNCHANGED <<nBytes, counted, exported, sret>>
    BY <1>2 DEF SyncRow
  <2>2. PICK u \in todo : RowInsert(u) \/ RowFresh(u) \/ RowUpdate(u)
    BY <1>2 DEF SyncRow
  <2>3. spc' \in {"row", "load", "unload"}
    <3>1. CASE RowInsert(u)
      BY <3>1 DEF RowInsert, users_mysql_insert, NextRow
    <3>2. CASE RowFresh(u)
      BY <3>2 DEF RowFresh, NextRow
    <3>3. CASE RowUpdate(u)
      BY <3>3 DEF RowUpdate, NextRow
    <3> QED
      BY <2>2, <3>1, <3>2, <3>3
  <2>4. Quiet
    BY <2>1, <2>3, <1>0 DEF Holding
  <2> QED
    BY <2>4, Elsewhere DEF Holding
<1>3. CASE rules_sync_traffic
  <2>1. Quiet
    BY <1>0, <1>3 DEF rules_sync_traffic, Holding
  <2> QED
    BY <2>1, Elsewhere DEF Holding
<1>4. CASE rules_clean
  <2>1. Quiet
    BY <1>0, <1>4 DEF rules_clean, Holding
  <2> QED
    BY <2>1, Elsewhere DEF Holding
<1>5. CASE UpdateReread
  <2>1. Quiet
    BY <1>0, <1>5 DEF UpdateReread, Holding
  <2> QED
    BY <2>1, Elsewhere DEF Holding
<1>6. CASE rules_mysql_load
  <2>1. Quiet
    BY <1>0, <1>6 DEF rules_mysql_load, Holding
  <2> QED
    BY <2>1, Elsewhere DEF Holding
<1>7. CASE users_delete
  <2>1. Quiet
    BY <1>0, <1>7 DEF users_delete, Holding
  <2> QED
    BY <2>1, Elsewhere DEF Holding
<1>8. CASE users_sync_traffic
  <2>1. Quiet
    BY <1>0, <1>8 DEF users_sync_traffic, Holding
  <2> QED
    BY <2>1, Elsewhere DEF Holding
<1>9. CASE RuleTake
  <2>1. Quiet
    BY <1>0, <1>9 DEF RuleTake, Holding
  <2> QED
    BY <2>1, Elsewhere DEF Holding
<1>10. CASE RuleSub
  <2>1. Quiet
    BY <1>0, <1>10 DEF RuleSub, Holding
  <2> QED
    BY <2>1, Elsewhere DEF Holding
<1>11. CASE rules_mysql_export
  <2>1. Quiet
    BY <1>0, <1>11 DEF rules_mysql_export, Holding
  <2> QED
    BY <2>1, Elsewhere DEF Holding
<1>12. CASE RuleRestore
  <2>1. Quiet
    BY <1>0, <1>12 DEF RuleRestore, Holding
  <2> QED
    BY <2>1, Elsewhere DEF Holding
<1> QED
  BY <1>1, <1>2, <1>3, <1>4, <1>5, <1>6, <1>7, <1>8, <1>9, <1>10, <1>11, <1>12

LEMMA CollectorStep ==
  ASSUME Sound, BytesInv, Collector
  PROVE  BytesInv'
<1> USE DEF CollectorRest, pickVars, takeVars
<1>0. sret \in {"user", "clean"}
  BY DEF BytesInv, CounterType
<1>1. CASE AcctFind
  BY <1>0, <1>1, Still DEF AcctFind
<1>2. CASE AcctLoad
  BY <1>0, <1>2, Still DEF AcctLoad
<1>3. CASE AcctStore
  <2>1. CASE UNCHANGED <<nBytes, counted>>
    BY <1>0, <1>3, <2>1, Still DEF AcctStore
  <2>2. CASE ~UNCHANGED <<nBytes, counted>>
    <3>1. PICK x \in Outcomes(nBytes[cnode], cload[2], 1) :
            nBytes' = [nBytes EXCEPT ![cnode] = x]
      BY <1>3, <2>2 DEF AcctStore
    <3>2. counted' = [counted EXCEPT ![cnode] = @ + 1]
      BY <1>3, <2>2 DEF AcctStore
    <3>3. UNCHANGED <<exported, sret, spc, snode, stake>>
      BY <1>3 DEF AcctStore
    <3> QED
      BY <3>1, <3>2, <3>3, Added
  <2> QED
    BY <2>1, <2>2
<1>4. CASE AcctFreed
  <2>1. CASE UNCHANGED <<nBytes, counted>>
    BY <1>0, <1>4, <2>1, Still DEF AcctFreed
  <2>2. CASE ~UNCHANGED <<nBytes, counted>>
    <3>1. PICK x \in Outcomes(nBytes[cnode], cload[2], 1) :
            nBytes' = [nBytes EXCEPT ![cnode] = x]
      BY <1>4, <2>2 DEF AcctFreed
    <3>2. counted' = [counted EXCEPT ![cnode] = @ + 1]
      BY <1>4, <2>2 DEF AcctFreed
    <3>3. UNCHANGED <<exported, sret, spc, snode, stake>>
      BY <1>4 DEF AcctFreed
    <3> QED
      BY <3>1, <3>2, <3>3, Added
  <2> QED
    BY <2>1, <2>2
<1> QED
  BY <1>1, <1>2, <1>3, <1>4 DEF Collector

LEMMA BytesInit == Init => BytesInv
<1> SUFFICES ASSUME Init PROVE BytesInv
  OBVIOUS
<1>1. 0 \in Counter
  BY TableAssumption DEF Counter
<1>2. CounterType
  BY <1>1 DEF Init, Zero, CounterType, Holding
<1>3. Identity
  BY DEF Init, Zero, Identity, InFlight
<1> QED
  BY <1>2, <1>3 DEF Init, Covered, BytesInv

\* killall -9 and start: the history restarts with the process.
LEMMA RestartStep ==
  ASSUME KillRestart
  PROVE  BytesInv'
<1>1. 0 \in Counter
  BY TableAssumption DEF Counter
<1>2. CounterType'
  BY <1>1 DEF KillRestart, Zero, CounterType, Holding
<1>3. Identity'
  BY DEF KillRestart, Zero, Identity, InFlight
<1> QED
  BY <1>2, <1>3 DEF KillRestart, Covered, BytesInv

LEMMA BytesNext == Sound /\ BytesInv /\ [Next]_vars => BytesInv'
<1> SUFFICES ASSUME Sound, BytesInv, [Next]_vars PROVE BytesInv'
  OBVIOUS
<1>0. sret \in {"user", "clean"}
  BY DEF BytesInv, CounterType
<1>1. CASE Admin
  BY <1>0, <1>1, Still DEF Admin, uHist, pickVars, takeVars
<1>2. CASE \E u \in Users : users_auth(u)
  BY <1>0, <1>2, Still DEF users_auth, CollectorRest, pickVars, takeVars
<1>3. CASE Collector
  BY <1>3, CollectorStep
<1>4. CASE Sync
  BY <1>4, OtherSyncStep, TakeStep, SubStep, ExportStep, RestoreStep DEF Sync
<1>5. CASE users_free
  BY <1>0, <1>5, Still DEF users_free, uHist, pickVars, takeVars
<1>6. CASE KillRestart
  BY <1>6, RestartStep
<1>7. CASE UNCHANGED vars
  BY <1>0, <1>7, Still DEF vars, uHist, pickVars, takeVars
<1>8. CASE Passing
  BY <1>0, <1>8, Still DEF Passing, uHist, pickVars, takeVars
<1> QED
  BY <1>1, <1>2, <1>3, <1>4, <1>5, <1>6, <1>7, <1>8 DEF Next

\* Every byte users_acct adds to a user is in the database, in the node or in
\* the hands of users_sync_traffic, for any table, traffic, edits, failing
\* statements and restarts, unless an update is torn, a reply is lost or the
\* 32-bit counter wraps.
THEOREM BytesConserved == Spec => []UserBytesConserved
<1>1. CASE Sound
  <2>1. BytesInv => UserBytesConserved
    BY DEF BytesInv, Identity, UserBytesConserved
  <2> QED
    BY <1>1, <2>1, BytesInit, BytesNext, PTL DEF Spec
<1>2. CASE ~Sound
  <2>1. UserBytesConserved
    BY <1>2 DEF Sound, UserBytesConserved
  <2> QED
    BY <2>1, PTL
<1> QED
  BY <1>1, <1>2
===========================================================================
