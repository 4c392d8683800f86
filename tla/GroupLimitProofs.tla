-------------------------- MODULE GroupLimitProofs --------------------------
(***************************************************************************)
(* BytesAccounted and LimitHeld for any rules, settings, periods, threads  *)
(* and any width of the integer that is exported.  Neither is inductive:   *)
(* a step of the export relies on the copy being of one rule, an edit on a *)
(* rule in the list not being one the web interface has still to add, and  *)
(* the limit on how many threads are between the test and the count.       *)
(***************************************************************************)
EXTENDS GroupLimit, FiniteSetTheorems, TLAPS

\* the counters are integers, the copy of sync_traffic is of a rule
Counters ==
  /\ this \in [Columned -> [Rules -> Int]]
  /\ counted \in [Columned -> [Rules -> Int]]
  /\ twice \in [Columned -> [Rules -> Int]]
  /\ alpha \in [Rules -> Int]
  /\ known \subseteq Rules
  /\ spc = "exec" => cp.id \in Rules /\ cp.alpha \in Int

\* a rule in the list has, or had, a row
KnownHadRow == \A i \in known : row[i] # Absent

RowsOfRules == row \in [Rules -> Settings \cup {Absent, Gone}] /\ \A r \in rows : r.id \in Rules

Ledger == Counters /\ KnownHadRow /\ RowsOfRules /\ BytesAccounted

\* The ledger holds when the daemon is first started: no rule is in the list.
LEMMA LedgerInit == Init => Ledger
<1> SUFFICES ASSUME Init PROVE Ledger
  OBVIOUS
<1>1. Counters
  BY DEF Init, Counters, Zero
<1>2. KnownHadRow /\ BytesAccounted
  BY DEF Init, KnownHadRow, BytesAccounted
<1>3. RowsOfRules
  BY GroupLimitAssumption DEF Init, RowsOfRules
<1> QED
  BY <1>1, <1>2, <1>3 DEF Ledger

\* A step that leaves the columns, the counters, the list, the copy and the table
\* alone keeps the ledger.
LEMMA LedgerQuiet ==
  ASSUME Ledger, UNCHANGED <<row, this, counted, twice, alpha, known, cut>>,
         \A r \in rows' : r.id \in Rules,
         (spc' # "exec" /\ spc # "exec") \/ UNCHANGED <<spc, cp>>
  PROVE  Ledger'
<1>1. Counters' /\ KnownHadRow' /\ RowsOfRules'
  BY DEF Ledger, Counters, KnownHadRow, RowsOfRules
<1>2. \A i : InFlight(i)' = InFlight(i)
  BY DEF InFlight
<1>3. BytesAccounted'
  BY <1>2 DEF Ledger, BytesAccounted, Live
<1> QED
  BY <1>1, <1>3 DEF Ledger

\* The daemon ends: the list is empty.
LEMMA LedgerDown == ASSUME Ledger, Down PROVE Ledger'
<1>1. Counters'
  BY DEF Ledger, Counters, Down, Zero, dbVars
<1>2. KnownHadRow' /\ BytesAccounted'
  BY DEF Down, KnownHadRow, BytesAccounted
<1>3. RowsOfRules'
  BY DEF Ledger, RowsOfRules, Down, dbVars
<1> QED
  BY <1>1, <1>2, <1>3 DEF Ledger

\* An edit: a rule in the list does not come to life again.
LEMMA LedgerEdit == ASSUME Ledger, NEW i \in Rules, Edit(i) PROVE Ledger'
<1>1. UNCHANGED <<this, counted, twice, alpha, known, cut, spc, cp, rows>>
  BY DEF Edit, nodeVars, syncVars, histVars
<1>2. PICK s \in (Settings \cup {Gone}) \ {row[i]} :
        row[i] # Gone /\ (row[i] = Absent => s # Gone) /\ row' = [row EXCEPT ![i] = s]
  BY DEF Edit
<1>3. Counters' /\ RowsOfRules' 
  BY <1>1, <1>2 DEF Ledger, Counters, RowsOfRules
<1>4. KnownHadRow'
  <2> SUFFICES ASSUME NEW k \in known PROVE row'[k] # Absent
    BY <1>1 DEF KnownHadRow
  <2>1. k \in Rules /\ row[k] # Absent /\ row \in [Rules -> Settings \cup {Absent, Gone}]
    BY DEF Ledger, Counters, KnownHadRow, RowsOfRules
  <2>2. s # Absent
    BY <1>2, GroupLimitAssumption
  <2> QED
    BY <1>2, <2>1, <2>2
<1>5. BytesAccounted'
  <2> SUFFICES ASSUME NEW p \in Columned, NEW k \in known \ cut, row'[k] \in Settings
               PROVE  counted[p][k] + twice[p][k] = this[p][k] + alpha[k] + InFlight(k)
    BY <1>1 DEF BytesAccounted, Live, InFlight
  <2>1. k \in Rules /\ row[k] # Absent /\ row \in [Rules -> Settings \cup {Absent, Gone}]
    BY DEF Ledger, Counters, KnownHadRow, RowsOfRules
  <2>2. row[k] \in Settings
    BY <1>2, <2>1, GroupLimitAssumption
  <2> QED
    BY <2>2 DEF Ledger, BytesAccounted, Live
<1> QED
  BY <1>3, <1>4, <1>5 DEF Ledger

\* One byte more on both sides of the account; and a copy that is added to the
\* columns and to what was counted twice, and given back.
LEMMA Add1 ==
  \A a, b, c, d, e \in Int : a + b = c + d + e => (a + 1) + b = c + (d + 1) + e
OBVIOUS

LEMMA AddTwice ==
  \A a, b, c, d, e \in Int : a + b = c + d + e => a + (b + e) = (c + e) + (d + e) + 0
OBVIOUS

\* A packet is counted in the list and in the history alike.
LEMMA LedgerAcct == ASSUME Ledger, NEW i \in Rules, my_acct(i) PROVE Ledger'
<1>1. UNCHANGED <<row, this, twice, known, cut, spc, cp, rows>>
  BY DEF my_acct, HookDone, dbVars, syncVars
<1>2. /\ alpha' = [alpha EXCEPT ![i] = @ + 1]
      /\ counted' = [p \in Columned |-> [counted[p] EXCEPT ![i] = @ + 1]]
  BY DEF my_acct
<1>3. Counters' /\ KnownHadRow' /\ RowsOfRules'
  BY <1>1, <1>2 DEF Ledger, Counters, KnownHadRow, RowsOfRules
<1>4. BytesAccounted'
  <2> SUFFICES ASSUME NEW p \in Columned, NEW k \in known \ cut, Live(k)
               PROVE  counted'[p][k] + twice[p][k] = this[p][k] + alpha'[k] + InFlight(k)
    BY <1>1 DEF BytesAccounted, Live, InFlight
  <2>1. counted[p][k] + twice[p][k] = this[p][k] + alpha[k] + InFlight(k)
    BY DEF Ledger, BytesAccounted
  <2>2. /\ k \in Rules /\ this[p][k] \in Int /\ alpha[k] \in Int /\ InFlight(k) \in Int
        /\ counted[p][k] \in Int /\ twice[p][k] \in Int
    BY DEF Ledger, Counters, InFlight
  <2>3. counted'[p][k] = IF k = i THEN counted[p][k] + 1 ELSE counted[p][k]
    BY <1>2, <2>2 DEF Ledger, Counters
  <2>4. alpha'[k] = IF k = i THEN alpha[k] + 1 ELSE alpha[k]
    BY <1>2, <2>2 DEF Ledger, Counters
  <2>5. CASE k = i
    <3>1. counted'[p][k] = counted[p][k] + 1 /\ alpha'[k] = alpha[k] + 1
      BY <2>3, <2>4, <2>5
    <3>2. (counted[p][k] + 1) + twice[p][k] = this[p][k] + (alpha[k] + 1) + InFlight(k)
      BY <2>1, <2>2, Add1
    <3> QED
      BY <3>1, <3>2
  <2>6. CASE k # i
    <3>1. counted'[p][k] = counted[p][k] /\ alpha'[k] = alpha[k]
      BY <2>3, <2>4, <2>6
    <3> QED
      BY <2>1, <3>1
  <2> QED
    BY <2>5, <2>6
<1> QED
  BY <1>3, <1>4 DEF Ledger

\* A row of the result: only a rule that is new changes the counters, and it
\* begins with what the table has.
LEMMA LedgerRow == ASSUME Ledger, NEW r \in rows, SyncRow(r) PROVE Ledger'
<1> DEFINE i == r.id
<1>1. /\ UNCHANGED <<row, this, cut, spc, cp>> /\ spc = "rows"
      /\ rows' = rows \ {r} /\ i \in Rules
  BY DEF SyncRow, dbVars, Ledger, RowsOfRules
<1>2. \A k \in rows' : k.id \in Rules
  BY <1>1 DEF Ledger, RowsOfRules
<1>3. CASE UNCHANGED <<known, alpha, counted, twice>>
  BY <1>1, <1>2, <1>3, LedgerQuiet
<1>4. CASE i \notin known /\ Live(i) /\ insert_limit(i)
  <2>1. /\ known' = known \cup {i} /\ alpha' = [alpha EXCEPT ![i] = 0]
        /\ counted' = [p \in Columned |-> [counted[p] EXCEPT ![i] = this[p][i]]]
        /\ twice' = [p \in Columned |-> [twice[p] EXCEPT ![i] = 0]]
    BY <1>4 DEF insert_limit
  <2>2. Counters' /\ RowsOfRules'
    BY <1>1, <1>2, <2>1 DEF Ledger, Counters, RowsOfRules
  <2>3. KnownHadRow'
    BY <1>1, <1>4, <2>1, GroupLimitAssumption DEF Ledger, KnownHadRow, Live
  <2>4. BytesAccounted'
    <3> SUFFICES ASSUME NEW p \in Columned, NEW k \in known' \ cut, Live(k)
                 PROVE  counted'[p][k] + twice'[p][k] = this[p][k] + alpha'[k] + 0
      BY <1>1 DEF BytesAccounted, Live, InFlight
    <3>1. CASE k = i
      BY <1>1, <2>1, <3>1 DEF Ledger, Counters
    <3>2. CASE k # i
      <4>1. /\ k \in Rules /\ counted'[p][k] = counted[p][k] /\ alpha'[k] = alpha[k]
            /\ twice'[p][k] = twice[p][k]
        BY <2>1, <3>2 DEF Ledger, Counters
      <4>2. counted[p][k] + twice[p][k] = this[p][k] + alpha[k] + 0
        BY <1>1, <2>1, <3>2 DEF Ledger, BytesAccounted, InFlight
      <4> QED
        BY <4>1, <4>2
    <3> QED
      BY <3>1, <3>2
  <2> QED
    BY <2>2, <2>3, <2>4 DEF Ledger
<1> QED
  BY <1>3, <1>4 DEF SyncRow, update_limit

\* limits_delete touches the counters of the node it removes only.
LEMMA LedgerDelete == ASSUME Ledger, NEW i \in Rules, limits_delete(i) PROVE Ledger'
<1>1. /\ UNCHANGED <<row, this, cut, rows, spc>> /\ spc = "rows"
      /\ known' = known \ {i} /\ alpha' = [alpha EXCEPT ![i] = 0]
      /\ counted' = [p \in Columned |-> [counted[p] EXCEPT ![i] = 0]]
      /\ twice' = [p \in Columned |-> [twice[p] EXCEPT ![i] = 0]]
  BY DEF limits_delete, Forget, dbVars
<1>2. Counters' /\ KnownHadRow' /\ RowsOfRules'
  BY <1>1 DEF Ledger, Counters, KnownHadRow, RowsOfRules
<1>3. BytesAccounted'
  <2> SUFFICES ASSUME NEW p \in Columned, NEW k \in known \ cut, k # i, Live(k)
               PROVE  counted'[p][k] + twice'[p][k] = this[p][k] + alpha'[k] + 0
    BY <1>1 DEF BytesAccounted, Live, InFlight
  <2>1. /\ k \in Rules /\ alpha'[k] = alpha[k] /\ counted'[p][k] = counted[p][k]
        /\ twice'[p][k] = twice[p][k]
    BY <1>1 DEF Ledger, Counters
  <2>2. counted[p][k] + twice[p][k] = this[p][k] + alpha[k] + 0
    BY <1>1 DEF Ledger, BytesAccounted, InFlight
  <2> QED
    BY <2>1, <2>2
<1> QED
  BY <1>2, <1>3 DEF Ledger

\* sync_traffic moves the bytes of a node to the copy.
LEMMA LedgerCopy == ASSUME Ledger, NEW i \in Rules, CopyNode(i) PROVE Ledger'
<1>1. /\ UNCHANGED <<row, this, counted, twice, cut, rows, known>>
      /\ spc = "walk" /\ spc' = "exec" /\ cp'.id = i /\ cp'.alpha = alpha[i]
      /\ alpha' = [alpha EXCEPT ![i] = 0]
  BY DEF CopyNode, dbVars, histVars
<1>2. Counters' /\ KnownHadRow' /\ RowsOfRules'
  BY <1>1 DEF Ledger, Counters, KnownHadRow, RowsOfRules
<1>3. BytesAccounted'
  <2> SUFFICES ASSUME NEW p \in Columned, NEW k \in known \ cut, Live(k)
               PROVE  counted[p][k] + twice[p][k] = this[p][k] + alpha'[k] + InFlight(k)'
    BY <1>1 DEF BytesAccounted, Live
  <2>1. k \in Rules /\ this[p][k] \in Int /\ alpha[k] \in Int
    BY DEF Ledger, Counters
  <2>2. counted[p][k] + twice[p][k] = this[p][k] + alpha[k] + 0
    BY <1>1 DEF Ledger, BytesAccounted, InFlight
  <2>3. InFlight(k)' = IF k = i THEN alpha[k] ELSE 0
    BY <1>1 DEF InFlight
  <2>4. alpha'[k] = IF k = i THEN 0 ELSE alpha[k]
    BY <1>1, <2>1 DEF Ledger, Counters
  <2> QED
    BY <2>1, <2>2, <2>3, <2>4
<1> QED
  BY <1>2, <1>3 DEF Ledger

\* The update adds the copy's bytes to the columns, they return to the node, or
\* both when the reply is lost; a copy that does not fit an int takes its rule out
\* of the statement.
LEMMA LedgerExec == ASSUME Ledger, Exec PROVE Ledger'
<1> DEFINE i == cp.id
           landed == IF Live(i) THEN cp.alpha ELSE 0
<1>1. /\ UNCHANGED <<row, counted, rows, known>> /\ spc = "exec" /\ spc' = "walk"
      /\ i \in Rules /\ cp.alpha \in Int
  BY DEF Exec, Ledger, Counters
<1>2. \A k : InFlight(k)' = 0 /\ InFlight(k) = IF k = i THEN cp.alpha ELSE 0
  BY <1>1 DEF InFlight
<1>3. Written => /\ Live(i) => this' = [p \in Columned |-> [this[p] EXCEPT ![i] = @ + (cp.alpha % Word)]]
                 /\ ~Live(i) => this' = this
                 /\ cut' = IF cp.alpha % Word = cp.alpha THEN cut ELSE cut \cup {i}
  BY DEF Written
<1>4. cp.alpha % Word \in Int
  BY <1>1, GroupLimitAssumption
<1>5. /\ this' \in [Columned -> [Rules -> Int]] /\ alpha' \in [Rules -> Int]
      /\ twice' \in [Columned -> [Rules -> Int]]
  <2>1. Written \/ UNCHANGED this
    BY DEF Exec
  <2>2. this' \in [Columned -> [Rules -> Int]]
    BY <1>1, <1>3, <1>4, <2>1 DEF Ledger, Counters
  <2>3. alpha' = alpha \/ alpha' = [alpha EXCEPT ![i] = @ + cp.alpha]
    BY DEF Exec, Restored
  <2>4. alpha' \in [Rules -> Int]
    BY <1>1, <2>3 DEF Ledger, Counters
  <2>5. twice' = twice \/ twice' = [p \in Columned |-> [twice[p] EXCEPT ![i] = @ + landed]]
    BY DEF Exec
  <2>6. landed \in Int
    BY <1>1
  <2> HIDE DEF landed
  <2>7. twice' \in [Columned -> [Rules -> Int]]
    BY <1>1, <2>5, <2>6 DEF Ledger, Counters
  <2> QED
    BY <2>2, <2>4, <2>7
<1>6. Counters' /\ KnownHadRow' /\ RowsOfRules'
  BY <1>1, <1>5 DEF Ledger, Counters, KnownHadRow, RowsOfRules
<1>7. BytesAccounted'
  <2> SUFFICES ASSUME NEW p \in Columned, NEW k \in known \ cut', Live(k)
               PROVE  counted[p][k] + twice'[p][k] = this'[p][k] + alpha'[k] + 0
    BY <1>1, <1>2 DEF BytesAccounted, Live
  <2>1. k \notin cut
    BY <1>3 DEF Exec
  <2>2. /\ k \in Rules /\ this[p][k] \in Int /\ alpha[k] \in Int
        /\ counted[p][k] \in Int /\ twice[p][k] \in Int
    BY DEF Ledger, Counters
  <2>3. counted[p][k] + twice[p][k] = this[p][k] + alpha[k] + InFlight(k)
    BY <2>1 DEF Ledger, BytesAccounted
  <2>4. Written => this'[p][k] = IF k = i THEN this[p][k] + cp.alpha ELSE this[p][k]
    <3>1. ASSUME Written, k # i PROVE this'[p][k] = this[p][k]
      BY <1>3, <2>2, <3>1 DEF Ledger, Counters
    <3>2. ASSUME Written, k = i PROVE this'[p][k] = this[p][k] + cp.alpha
      <4>1. cp.alpha % Word = cp.alpha
        BY <1>3, <3>2
      <4> QED
        BY <1>3, <2>2, <3>2, <4>1 DEF Ledger, Counters
    <3> QED
      BY <3>1, <3>2
  <2>5. Restored => alpha'[k] = IF k = i THEN alpha[k] + cp.alpha ELSE alpha[k]
    BY <2>2 DEF Restored, Ledger, Counters
  <2>6. CASE Written /\ UNCHANGED <<alpha, twice>>
    BY <1>1, <1>2, <2>2, <2>3, <2>4, <2>6
  <2>7. CASE Restored /\ UNCHANGED <<this, twice>>
    BY <1>1, <1>2, <2>2, <2>3, <2>5, <2>7
  <2>8. CASE /\ Restored /\ Written
             /\ twice' = [q \in Columned |-> [twice[q] EXCEPT ![i] = @ + landed]]
    <3>1. twice'[p][k] = IF k = i THEN twice[p][k] + cp.alpha ELSE twice[p][k]
      <4>1. k = i => landed = cp.alpha
        OBVIOUS
      <4> HIDE DEF landed
      <4> QED
        BY <2>2, <2>8, <4>1 DEF Ledger, Counters
    <3>2. CASE k = i
      <4>1. InFlight(k) = cp.alpha /\ cp.alpha \in Int
        BY <1>1, <1>2, <3>2
      <4>2. /\ twice'[p][k] = twice[p][k] + cp.alpha /\ alpha'[k] = alpha[k] + cp.alpha
            /\ this'[p][k] = this[p][k] + cp.alpha
        BY <2>4, <2>5, <2>8, <3>1, <3>2
      <4> QED
        BY <2>2, <2>3, <4>1, <4>2, AddTwice
    <3>3. CASE k # i
      BY <1>2, <2>3, <2>4, <2>5, <2>8, <3>1, <3>3
    <3> QED
      BY <3>2, <3>3
  <2> QED
    BY <2>6, <2>7, <2>8 DEF Exec
<1> QED
  BY <1>6, <1>7 DEF Ledger

\* A new period takes the column off both sides, and the bytes counted twice with it.
LEMMA LedgerPeriod ==
  ASSUME Ledger, NEW q \in Columned, NewPeriod(q),
         UNCHANGED <<row, alpha, cut, rows, known, spc, cp>>
  PROVE  Ledger'
<1>1. /\ this' = [this EXCEPT ![q] = Zero] /\ twice' = [twice EXCEPT ![q] = Zero]
      /\ counted' = [counted EXCEPT ![q] = [i \in Rules |->
                       IF i \in known THEN (@[i] + twice[q][i]) - this[q][i] ELSE 0]]
  BY DEF NewPeriod
<1>2. Counters' /\ KnownHadRow' /\ RowsOfRules'
  <2>1. /\ [i \in Rules |-> IF i \in known THEN (counted[q][i] + twice[q][i]) - this[q][i] ELSE 0]
             \in [Rules -> Int]
        /\ Zero \in [Rules -> Int]
    BY DEF Ledger, Counters, Zero
  <2> QED
    BY <1>1, <2>1 DEF Ledger, Counters, KnownHadRow, RowsOfRules
<1>3. BytesAccounted'
  <2> SUFFICES ASSUME NEW p \in Columned, NEW k \in known \ cut, Live(k)
               PROVE  counted'[p][k] + twice'[p][k] = this'[p][k] + alpha[k] + InFlight(k)
    BY <1>1 DEF BytesAccounted, Live, InFlight
  <2>1. /\ k \in Rules /\ this[p][k] \in Int /\ alpha[k] \in Int /\ InFlight(k) \in Int
        /\ counted[p][k] \in Int /\ twice[p][k] \in Int
    BY DEF Ledger, Counters, InFlight
  <2>2. counted[p][k] + twice[p][k] = this[p][k] + alpha[k] + InFlight(k)
    BY DEF Ledger, BytesAccounted
  <2>3. counted'[p][k] = IF p = q THEN (counted[p][k] + twice[p][k]) - this[p][k] ELSE counted[p][k]
    BY <1>1, <2>1 DEF Ledger, Counters
  <2>4. this'[p][k] = IF p = q THEN 0 ELSE this[p][k]
    BY <1>1, <2>1 DEF Ledger, Counters, Zero
  <2>5. twice'[p][k] = IF p = q THEN 0 ELSE twice[p][k]
    BY <1>1, <2>1 DEF Ledger, Counters, Zero
  <2> QED
    BY <2>1, <2>2, <2>3, <2>4, <2>5
<1> QED
  BY <1>2, <1>3 DEF Ledger

\* Every step keeps the ledger.
LEMMA LedgerStep == Ledger /\ [Next]_vars => Ledger'
<1> SUFFICES ASSUME Ledger, [Next]_vars PROVE Ledger'
  OBVIOUS
<1>0. \A r \in rows : r.id \in Rules
  BY DEF Ledger, RowsOfRules
<1>1. CASE UNCHANGED vars
  BY <1>0, <1>1, LedgerQuiet DEF vars, dbVars, nodeVars, syncVars, histVars
<1>2. CASE SyncOpen
  <2>1. \A r \in rows' : r.id \in Rules
    BY <1>0, <1>2 DEF SyncOpen
  <2> QED
    BY <1>2, <2>1, LedgerQuiet DEF SyncOpen, Return, dbVars, histVars
<1>3. CASE WalkEnd
  BY <1>0, <1>3, LedgerQuiet DEF WalkEnd, Return, dbVars, nodeVars, histVars
<1>4. CASE Start
  BY <1>0, <1>4, LedgerQuiet DEF Start, dbVars, nodeVars, syncVars, histVars
<1>5. ASSUME NEW i \in Rules, my_autz(i) \/ my_acct_none(i) PROVE Ledger'
  BY <1>0, <1>5, LedgerQuiet DEF my_autz, my_acct_none, HookDone, dbVars, nodeVars, syncVars
<1>6. ASSUME NEW p \in Periods, TaskReset(p) PROVE Ledger'
  BY <1>0, <1>6, LedgerQuiet DEF TaskReset, dbVars, syncVars
<1>7. ASSUME NEW p \in Columned, TaskFail(p) PROVE Ledger'
  <2>1. UNCHANGED <<row, alpha, cut, rows, known, spc, cp>>
    BY <1>7 DEF TaskFail, nodeVars, syncVars
  <2>2. CASE NewPeriod(p)
    BY <2>1, <2>2, LedgerPeriod
  <2>3. CASE UNCHANGED <<this, counted, twice>>
    BY <1>0, <2>1, <2>3, LedgerQuiet
  <2> QED
    BY <1>7, <2>2, <2>3 DEF TaskFail
<1>8. ASSUME NEW i \in Rules, limits_delete(i) PROVE Ledger'
  BY <1>8, LedgerDelete
<1>16. CASE sync_traffic
  BY <1>0, <1>16, LedgerQuiet DEF sync_traffic, Return, dbVars, nodeVars, histVars
<1>9. CASE Exec
  BY <1>9, LedgerExec
<1>10. CASE SyncCrash \/ unload \/ WalkCrash
  BY <1>10, LedgerDown DEF SyncCrash, unload, WalkCrash
<1>11. ASSUME NEW r \in rows, SyncRow(r) PROVE Ledger'
  BY <1>11, LedgerRow
<1>12. ASSUME NEW i \in Rules, CopyNode(i) PROVE Ledger'
  BY <1>12, LedgerCopy
<1>13. ASSUME NEW i \in Rules, Edit(i) PROVE Ledger'
  BY <1>13, LedgerEdit
<1>14. ASSUME NEW i \in Rules, my_acct(i) PROVE Ledger'
  BY <1>14, LedgerAcct
<1>15. ASSUME NEW p \in Columned, TaskCommit(p) PROVE Ledger'
  <2>1. NewPeriod(p) /\ UNCHANGED <<row, alpha, cut, rows, known, spc, cp>>
    BY <1>15 DEF TaskCommit, nodeVars, syncVars
  <2> QED
    BY <2>1, LedgerPeriod
<1> QED
  BY <1>1, <1>2, <1>3, <1>4, <1>5, <1>6, <1>7, <1>8, <1>9, <1>10, <1>11, <1>12,
     <1>13, <1>14, <1>15, <1>16 DEF Next, Sync

\* Every byte my_acct counts is in the column of the period, in alpha or in the copy
\* being written, for any rules, periods, packets, failures and edits, as long as no
\* export of the rule exceeded 32 bits.
THEOREM BytesAlwaysAccounted == Spec => []BytesAccounted
<1>1. Ledger => BytesAccounted
  BY DEF Ledger
<1> QED
  BY <1>1, LedgerInit, LedgerStep, PTL DEF Spec
---------------------------------------------------------------------------
(* LimitHeld.  It is not inductive: what may pass is decided by the        *)
(* counter, so used is bounded by the counter, or by the table's while a   *)
(* rule has no node, and the bound must hold with every packet on its way  *)
(* counted.  A node is only removed when its rule is gone for good, and    *)
(* the threads bound the packets on their way.                             *)

\* the counters, and the export's copy is of a rule in the list
MeterTypes ==
  /\ traffic \in [Rules -> Nat] /\ dbTraffic \in [Rules -> Nat]
  /\ used \in [Rules -> Nat] /\ slack \in [Rules -> Nat]
  /\ spc \in {"idle", "rows", "walk", "exec"}
  /\ spc \in {"walk", "exec"} => todo \subseteq known
  /\ spc = "exec" => cp.id \in known /\ cp.traffic \in Nat

\* the packets between my_autz and my_acct, numbered as they came
Tokens(S, f) ==
  /\ f \in [S -> Rules] /\ Cardinality(S) = busy
  /\ \A i \in Rules : passed[i] = Cardinality({n \in S : f[n] = i})

\* as many of them as threads hold one
ThreadsHold ==
  /\ passed \in [Rules -> Nat] /\ busy \in 0 .. Collectors /\ packets \in Nat
  /\ \E S \in SUBSET (1 .. packets) : \E f \in [S -> Rules] : Tokens(S, f)

\* a node that is still marked has a row to come, or its rule is gone
MarkedGone ==
  /\ marked \subseteq known
  /\ spc = "rows" =>
       \A i \in marked : row[i] = Gone \/ \E r \in rows : r.id = i

\* what bounds the bytes counted: the node's counter, or the table's; and the limit
\* bounds them together with those on their way
Metered ==
  \A i \in Rules : Limited(i) =>
    /\ i \in known => used[i] <= traffic[i] + slack[i]
    /\ i \notin known /\ row[i] # Gone => used[i] <= dbTraffic[i] + slack[i]
    /\ i \in known \/ row[i] # Gone => used[i] + passed[i] <= Limit[i] + slack[i] + Collectors - 1

Meter == MeterTypes /\ ThreadsHold /\ MarkedGone /\ Metered

\* no rule has more packets on their way than there are threads that hold one
LEMMA PassedBounded ==
  ASSUME ThreadsHold
  PROVE  \A i \in Rules : passed[i] \in Nat /\ passed[i] <= busy /\ busy <= Collectors
<1> TAKE i \in Rules
<1>1. PICK S \in SUBSET (1 .. packets) : \E f \in [S -> Rules] : Tokens(S, f)
  BY DEF ThreadsHold
<1>2. PICK f \in [S -> Rules] : Tokens(S, f)
  BY <1>1
<1>3. packets \in Nat /\ busy \in 0 .. Collectors /\ passed[i] \in Nat
  BY DEF ThreadsHold
<1>4. IsFiniteSet(S)
  <2>1. IsFiniteSet(1 .. packets)
    BY <1>3, FS_Interval
  <2> QED
    BY <2>1, <1>1, FS_Subset
<1>5. Cardinality({n \in S : f[n] = i}) <= Cardinality(S)
  <2>1. {n \in S : f[n] = i} \in SUBSET S
    OBVIOUS
  <2> QED
    BY <1>4, <2>1, FS_Subset
<1>6. Collectors \in Nat
  BY GroupLimitAssumption
<1> QED
  BY <1>2, <1>3, <1>5, <1>6 DEF Tokens

\* my_autz: the packet gets the next number
LEMMA AutzHolds == ASSUME ThreadsHold, NEW i \in Rules, my_autz(i) PROVE ThreadsHold'
<1>1. /\ busy < Collectors /\ busy' = busy + 1 /\ packets' = packets + 1
      /\ passed' = [passed EXCEPT ![i] = @ + 1]
  BY DEF my_autz
<1>2. /\ packets \in Nat /\ busy \in 0 .. Collectors /\ passed \in [Rules -> Nat]
      /\ Collectors \in Nat
  BY GroupLimitAssumption DEF ThreadsHold
<1>3. PICK S \in SUBSET (1 .. packets) : \E f \in [S -> Rules] : Tokens(S, f)
  BY DEF ThreadsHold
<1>4. PICK f \in [S -> Rules] : Tokens(S, f)
  BY <1>3
<1>m. PICK m \in Nat : m = packets + 1
  BY <1>2
<1> DEFINE T == S \cup {m}
           g == [n \in T |-> IF n = m THEN i ELSE f[n]]
           On(k) == {n \in S : f[n] = k}
           OnNow(k) == {n \in T : g[n] = k}
<1>5. m \notin S /\ T \in SUBSET (1 .. packets')
  BY <1>1, <1>2, <1>3, <1>m
<1>6. IsFiniteSet(S)
  <2>1. IsFiniteSet(1 .. packets)
    BY <1>2, FS_Interval
  <2> QED
    BY <2>1, <1>3, FS_Subset
<1>7. Cardinality(T) = busy'
  <2>1. Cardinality(S \cup {m}) = Cardinality(S) + 1
    BY <1>5, <1>6, FS_AddElement
  <2> QED
    BY <2>1, <1>1, <1>4 DEF Tokens
<1>8. \A k \in Rules : passed'[k] = Cardinality(OnNow(k))
  <2> SUFFICES ASSUME NEW k \in Rules PROVE passed'[k] = Cardinality(OnNow(k))
    OBVIOUS
  <2>1. passed[k] = Cardinality(On(k))
    BY <1>4 DEF Tokens
  <2>2. CASE k # i
    <3>1. OnNow(k) = On(k)
      BY <1>5, <2>2
    <3> QED
      BY <1>1, <1>2, <2>1, <2>2, <3>1
  <2>3. CASE k = i
    <3>1. OnNow(k) = On(k) \cup {m}
      BY <1>5, <2>3
    <3>2. IsFiniteSet(On(k)) /\ m \notin On(k)
      BY <1>5, <1>6, FS_Subset
    <3>3. Cardinality(On(k) \cup {m}) = Cardinality(On(k)) + 1
      BY <3>2, FS_AddElement
    <3> QED
      BY <1>1, <1>2, <2>1, <2>3, <3>1, <3>3
  <2> QED
    BY <2>2, <2>3
<1>9. g \in [T -> Rules]
  BY <1>5
<1>10. Tokens(T, g)'
  BY <1>7, <1>8, <1>9 DEF Tokens
<1>11. passed' \in [Rules -> Nat] /\ busy' \in 0 .. Collectors /\ packets' \in Nat
  BY <1>1, <1>2
<1> HIDE DEF T, g
<1> QED
  BY <1>5, <1>9, <1>10, <1>11 DEF ThreadsHold

\* a thread is done with one of the rule's packets
LEMMA AcctHolds == ASSUME ThreadsHold, NEW i \in Rules, HookDone(i) PROVE ThreadsHold'
<1>1. /\ passed[i] > 0 /\ busy' = busy - 1 /\ packets' = packets
      /\ passed' = [passed EXCEPT ![i] = @ - 1]
  BY DEF HookDone
<1>2. /\ packets \in Nat /\ busy \in 0 .. Collectors /\ passed \in [Rules -> Nat]
      /\ Collectors \in Nat
  BY GroupLimitAssumption DEF ThreadsHold
<1>3. PICK S \in SUBSET (1 .. packets) : \E f \in [S -> Rules] : Tokens(S, f)
  BY DEF ThreadsHold
<1>4. PICK f \in [S -> Rules] : Tokens(S, f)
  BY <1>3
<1> DEFINE On(k) == {n \in S : f[n] = k}
<1>5. \A k \in Rules : passed[k] = Cardinality(On(k))
  BY <1>4 DEF Tokens
<1>6. IsFiniteSet(S)
  <2>1. IsFiniteSet(1 .. packets)
    BY <1>2, FS_Interval
  <2> QED
    BY <2>1, <1>3, FS_Subset
<1>7. PICK m \in S : f[m] = i
  <2>1. On(i) # {}
    BY <1>1, <1>5, FS_EmptySet
  <2> QED
    BY <2>1
<1> DEFINE T == S \ {m}
           g == [n \in T |-> f[n]]
           OnNow(k) == {n \in T : g[n] = k}
<1>8. Cardinality(T) = busy'
  <2>1. Cardinality(S \ {m}) = Cardinality(S) - 1
    BY <1>6, <1>7, FS_RemoveElement
  <2> QED
    BY <2>1, <1>1, <1>4 DEF Tokens
<1>9. \A k \in Rules : passed'[k] = Cardinality(OnNow(k))
  <2> SUFFICES ASSUME NEW k \in Rules PROVE passed'[k] = Cardinality(OnNow(k))
    OBVIOUS
  <2>1. CASE k # i
    <3>1. OnNow(k) = On(k)
      BY <1>7, <2>1
    <3> QED
      BY <1>1, <1>2, <1>5, <2>1, <3>1
  <2>2. CASE k = i
    <3>1. OnNow(k) = On(k) \ {m}
      BY <1>7, <2>2
    <3>2. IsFiniteSet(On(k)) /\ m \in On(k)
      BY <1>6, <1>7, <2>2, FS_Subset
    <3>3. Cardinality(On(k) \ {m}) = Cardinality(On(k)) - 1
      BY <3>2, FS_RemoveElement
    <3> QED
      BY <1>1, <1>2, <1>5, <2>2, <3>1, <3>3
  <2> QED
    BY <2>1, <2>2
<1>10. g \in [T -> Rules] /\ T \in SUBSET (1 .. packets')
  BY <1>1, <1>3
<1>11. Tokens(T, g)'
  BY <1>8, <1>9, <1>10 DEF Tokens
<1>12. busy' \in 0 .. Collectors
  <2>1. passed[i] <= busy
    BY PassedBounded
  <2> QED
    BY <2>1, <1>1, <1>2
<1>13. passed' \in [Rules -> Nat] /\ packets' \in Nat
  BY <1>1, <1>2
<1> HIDE DEF T, g
<1> QED
  BY <1>10, <1>11, <1>12, <1>13 DEF ThreadsHold

\* no thread holds a packet of a daemon that is down
LEMMA NoneHold ==
  ASSUME packets' \in Nat, passed' = Zero, busy' = 0
  PROVE  ThreadsHold'
<1> DEFINE g == [n \in {} |-> None]
<1>1. g \in [{} -> Rules] /\ {} \in SUBSET (1 .. packets')
  OBVIOUS
<1>2. Cardinality({}) = 0
  BY FS_EmptySet
<1>3. \A i \in Rules : passed'[i] = Cardinality({n \in {} : g[n] = i})
  <2> TAKE i \in Rules
  <2>1. {n \in {} : g[n] = i} = {}
    OBVIOUS
  <2> QED
    BY <1>2, <2>1 DEF Zero
<1>4. Tokens({}, g)'
  BY <1>1, <1>2, <1>3 DEF Tokens
<1>5. passed' \in [Rules -> Nat] /\ busy' \in 0 .. Collectors
  BY GroupLimitAssumption DEF Zero
<1> HIDE DEF g
<1> QED
  BY <1>1, <1>4, <1>5 DEF ThreadsHold

\* Only the hooks, and a stop, change what the threads hold.
LEMMA HoldStep == ThreadsHold /\ [Next]_vars => ThreadsHold'
<1> SUFFICES ASSUME ThreadsHold, [Next]_vars PROVE ThreadsHold'
  OBVIOUS
<1>1. CASE UNCHANGED hookVars
  BY <1>1 DEF hookVars, ThreadsHold, Tokens
<1>2. ASSUME NEW i \in Rules, my_autz(i) PROVE ThreadsHold'
  BY <1>2, AutzHolds
<1>3. ASSUME NEW i \in Rules, my_acct(i) \/ my_acct_none(i) PROVE ThreadsHold'
  BY <1>3, AcctHolds DEF my_acct, my_acct_none
<1>4. CASE Down
  <2>1. packets' \in Nat /\ passed' = Zero /\ busy' = 0
    BY <1>4 DEF Down, ThreadsHold
  <2> QED
    BY <2>1, NoneHold
<1>5. Sync => UNCHANGED hookVars \/ Down
  BY DEF Sync, SyncOpen, limits_delete, sync_traffic, Exec, WalkEnd, SyncCrash, SyncRow, CopyNode, SyncRest
<1>6. \A i \in Rules : Edit(i) => UNCHANGED hookVars
  BY DEF Edit
<1>7. \A p \in Periods : TaskReset(p) => UNCHANGED hookVars
  BY DEF TaskReset
<1>8. \A p \in Columned : TaskCommit(p) \/ TaskFail(p) => UNCHANGED hookVars
  BY DEF TaskCommit, TaskFail
<1>9. (Start => UNCHANGED hookVars) /\ (unload \/ WalkCrash => Down)
  BY DEF Start, unload, WalkCrash
<1>10. UNCHANGED vars => UNCHANGED hookVars
  BY DEF vars
<1> QED
  BY <1>1, <1>2, <1>3, <1>4, <1>5, <1>6, <1>7, <1>8, <1>9, <1>10 DEF Next

\* The bounds hold when the daemon is first started.
LEMMA MeterInit == Init => Meter
<1> SUFFICES ASSUME Init PROVE Meter
  OBVIOUS
<1>1. MeterTypes /\ MarkedGone
  BY DEF Init, MeterTypes, MarkedGone, Zero
<1>2. ThreadsHold
  <2> DEFINE g == [n \in {} |-> None]
  <2>1. g \in [{} -> Rules] /\ {} \in SUBSET (1 .. packets)
    OBVIOUS
  <2>2. Cardinality({}) = 0
    BY FS_EmptySet
  <2>3. \A i \in Rules : passed[i] = Cardinality({n \in {} : g[n] = i})
    <3> TAKE i \in Rules
    <3>1. {n \in {} : g[n] = i} = {}
      OBVIOUS
    <3> QED
      BY <2>2, <3>1 DEF Zero, Init
  <2>4. Tokens({}, g)
    BY <2>1, <2>2, <2>3 DEF Tokens, Init
  <2>5. passed \in [Rules -> Nat] /\ busy \in 0 .. Collectors /\ packets \in Nat
    BY GroupLimitAssumption DEF Zero, Init
  <2> HIDE DEF g
  <2> QED
    BY <2>1, <2>4, <2>5 DEF ThreadsHold
<1>3. Metered
  BY GroupLimitAssumption DEF Init, Metered, Limited, Zero
<1> QED
  BY <1>1, <1>2, <1>3 DEF Meter

\* A step that leaves the counters, the list and the table alone keeps the bounds.
LEMMA MeteredQuiet ==
  ASSUME Metered, UNCHANGED <<used, slack, traffic, passed, dbTraffic, known, row>>
  PROVE  Metered'
BY DEF Metered, Limited

\* The export's types and marks hardly change outside of sync_limits.
LEMMA MeterAside ==
  ASSUME Meter, UNCHANGED <<row, dbTraffic, known, marked, spc, rows, todo, cp, used, slack,
                            traffic, passed>>
  PROVE  MeterTypes' /\ MarkedGone' /\ Metered'
BY MeteredQuiet DEF Meter, MeterTypes, MarkedGone

\* A stop: what the daemon counted and the table does not know becomes slack.
LEMMA MeterDown == ASSUME Ledger, Meter, Down PROVE MeterTypes' /\ MarkedGone' /\ Metered'
<1>1. /\ known' = {} /\ marked' = {} /\ traffic' = Zero /\ spc' = "idle" /\ passed' = Zero
      /\ UNCHANGED <<row, dbTraffic, used>>
      /\ slack' = [i \in Rules |-> slack[i] + Forgotten(i)]
  BY DEF Down, dbVars
<1>2. \A i \in Rules : /\ traffic[i] \in Nat /\ dbTraffic[i] \in Nat /\ used[i] \in Nat
                       /\ slack[i] \in Nat /\ passed[i] \in Nat
  BY DEF Meter, MeterTypes, ThreadsHold
<1>3. \A i \in Rules : /\ Forgotten(i) \in Nat
                       /\ i \in known /\ Limited(i) => traffic[i] <= dbTraffic[i] + Forgotten(i)
  <2> TAKE i \in Rules
  <2>1. traffic[i] \in Nat /\ dbTraffic[i] \in Nat
    BY <1>2
  <2>2. CASE i \in known /\ Limited(i) /\ traffic[i] > dbTraffic[i]
    <3>1. Forgotten(i) = traffic[i] - dbTraffic[i]
      BY <2>2 DEF Forgotten
    <3> QED
      BY <2>1, <2>2, <3>1
  <2>3. CASE ~(i \in known /\ Limited(i) /\ traffic[i] > dbTraffic[i])
    <3>1. Forgotten(i) = 0
      BY <2>3 DEF Forgotten
    <3> QED
      BY <2>1, <2>3, <3>1
  <2> QED
    BY <2>2, <2>3
<1>4. \A i \in Rules : slack'[i] = slack[i] + Forgotten(i) /\ slack'[i] \in Nat
  BY <1>1, <1>2, <1>3
<1>5. MeterTypes' /\ MarkedGone'
  BY <1>1, <1>4 DEF Meter, MeterTypes, MarkedGone, Zero
<1>6. Metered'
  <2> SUFFICES ASSUME NEW i \in Rules, Limited(i), row[i] # Gone
               PROVE  /\ used[i] <= dbTraffic[i] + slack'[i]
                      /\ used[i] + 0 <= Limit[i] + slack'[i] + Collectors - 1
    BY <1>1 DEF Metered, Limited, Zero
  <2>1. /\ i \in known => used[i] <= traffic[i] + slack[i]
        /\ i \notin known => used[i] <= dbTraffic[i] + slack[i]
        /\ used[i] + passed[i] <= Limit[i] + slack[i] + Collectors - 1
    BY DEF Meter, Metered
  <2>2. Limit[i] \in Nat /\ Collectors \in Nat
    BY GroupLimitAssumption DEF Limited
  <2> QED
    BY <1>2, <1>3, <1>4, <2>1, <2>2
<1> QED
  BY <1>5, <1>6

\* An edit: a rule that is gone stays gone, a rule that is new has used nothing up.
LEMMA MeterEdit ==
  ASSUME Ledger, Meter, NEW i \in Rules, Edit(i)
  PROVE  MeterTypes' /\ MarkedGone' /\ Metered'
<1>1. UNCHANGED <<dbTraffic, known, marked, spc, rows, todo, cp, used, slack, traffic, passed>>
  BY DEF Edit, nodeVars, syncVars, hookVars, histVars
<1>2. PICK s : row[i] # Gone /\ row' = [row EXCEPT ![i] = s]
  BY DEF Edit
<1>3. \A k \in Rules : row[k] = Gone => row'[k] = Gone
  BY <1>2 DEF Ledger, RowsOfRules
<1>4. MeterTypes' /\ MarkedGone'
  BY <1>1, <1>3 DEF Meter, MeterTypes, MarkedGone, Ledger, Counters
<1>5. Metered'
  BY <1>1, <1>3 DEF Meter, Metered, Limited
<1> QED
  BY <1>4, <1>5

\* my_autz decides by a counter that is below the limit, and fewer threads than there
\* are hold a packet; a packet that is not metered becomes slack.
LEMMA MeterAutz ==
  ASSUME Ledger, Meter, NEW i \in Rules, my_autz(i)
  PROVE  MeterTypes' /\ MarkedGone' /\ Metered'
<1>1. /\ UNCHANGED <<row, dbTraffic, known, marked, spc, rows, todo, cp, used, traffic>>
      /\ passed' = [passed EXCEPT ![i] = @ + 1] /\ busy < Collectors
  BY DEF my_autz, dbVars, nodeVars, syncVars
<1>2. PICK found \in Finds(i) :
        /\ found => Allowed(i)
        /\ slack' = IF Limited(i) /\ ~found THEN [slack EXCEPT ![i] = @ + 1] ELSE slack
  BY DEF my_autz
<1>3. \A k \in Rules : /\ traffic[k] \in Nat /\ dbTraffic[k] \in Nat /\ used[k] \in Nat
                       /\ slack[k] \in Nat /\ passed[k] \in Nat
  BY DEF Meter, MeterTypes, ThreadsHold
<1>4. slack' \in [Rules -> Nat] /\ \A k \in Rules : slack'[k] >= slack[k]
  BY <1>2, <1>3 DEF Meter, MeterTypes
<1>5. MeterTypes' /\ MarkedGone'
  BY <1>1, <1>4 DEF Meter, MeterTypes, MarkedGone
<1>6. Metered'
  <2> SUFFICES ASSUME NEW k \in Rules, Limited(k), k \in known \/ row[k] # Gone
               PROVE  /\ k \in known => used[k] <= traffic[k] + slack'[k]
                      /\ k \notin known => used[k] <= dbTraffic[k] + slack'[k]
                      /\ used[k] + passed'[k] <= Limit[k] + slack'[k] + Collectors - 1
    BY <1>1 DEF Metered, Limited
  <2>1. /\ k \in known => used[k] <= traffic[k] + slack[k]
        /\ k \notin known => used[k] <= dbTraffic[k] + slack[k]
        /\ used[k] + passed[k] <= Limit[k] + slack[k] + Collectors - 1
    BY DEF Meter, Metered
  <2>2. Limit[k] \in Nat /\ Collectors \in Nat /\ slack'[k] \in Nat /\ slack'[k] >= slack[k]
    BY <1>4, GroupLimitAssumption DEF Limited
  <2>3. passed'[k] = IF k = i THEN passed[k] + 1 ELSE passed[k]
    BY <1>1 DEF Meter, ThreadsHold
  <2>4. /\ k \in known => used[k] <= traffic[k] + slack'[k]
        /\ k \notin known => used[k] <= dbTraffic[k] + slack'[k]
    BY <1>3, <2>1, <2>2
  <2>5. CASE k # i
    <3>1. passed'[k] = passed[k]
      BY <2>3, <2>5
    <3> QED
      BY <1>3, <2>1, <2>2, <2>4, <3>1
  <2>6. CASE k = i /\ found
    <3>1. k \in known /\ slack'[k] = slack[k] /\ passed'[k] = passed[k] + 1
      BY <1>2, <2>3, <2>6 DEF Finds
    <3>2. traffic[k] < Limit[k]
      BY <1>2, <2>6 DEF Allowed
    <3>3. passed[k] <= busy /\ busy \in Nat
      BY PassedBounded DEF Meter, ThreadsHold
    <3> QED
      BY <1>1, <1>3, <2>1, <2>2, <2>4, <3>1, <3>2, <3>3
  <2>7. CASE k = i /\ ~found
    <3>1. slack'[k] = slack[k] + 1 /\ passed'[k] = passed[k] + 1
      BY <1>2, <2>3, <2>7 DEF Meter, MeterTypes
    <3> QED
      BY <1>3, <2>1, <2>2, <2>4, <3>1
  <2> QED
    BY <2>5, <2>6, <2>7
<1> QED
  BY <1>5, <1>6

\* my_acct moves a packet from the threads to the counter of the node, or nowhere.
LEMMA MeterAcct ==
  ASSUME Ledger, Meter, NEW i \in Rules, my_acct(i) \/ my_acct_none(i)
  PROVE  MeterTypes' /\ MarkedGone' /\ Metered'
<1>1. /\ UNCHANGED <<row, dbTraffic, known, marked, spc, rows, todo, cp, slack>>
      /\ passed' = [passed EXCEPT ![i] = @ - 1] /\ passed[i] > 0
  BY DEF my_acct, my_acct_none, HookDone, dbVars, syncVars
<1>2. \/ /\ i \in known /\ traffic' = [traffic EXCEPT ![i] = @ + 1]
         /\ used' = IF Limited(i) THEN [used EXCEPT ![i] = @ + 1] ELSE used
      \/ UNCHANGED <<traffic, used>>
  BY DEF my_acct, my_acct_none, Finds
<1>3. \A k \in Rules : /\ traffic[k] \in Nat /\ dbTraffic[k] \in Nat /\ used[k] \in Nat
                       /\ slack[k] \in Nat /\ passed[k] \in Nat
  BY DEF Meter, MeterTypes, ThreadsHold
<1>4. traffic' \in [Rules -> Nat] /\ used' \in [Rules -> Nat]
  BY <1>2 DEF Meter, MeterTypes
<1>5. MeterTypes' /\ MarkedGone'
  BY <1>1, <1>4 DEF Meter, MeterTypes, MarkedGone
<1>6. Metered'
  <2> SUFFICES ASSUME NEW k \in Rules, Limited(k), k \in known \/ row[k] # Gone
               PROVE  /\ k \in known => used'[k] <= traffic'[k] + slack[k]
                      /\ k \notin known => used'[k] <= dbTraffic[k] + slack[k]
                      /\ used'[k] + passed'[k] <= Limit[k] + slack[k] + Collectors - 1
    BY <1>1 DEF Metered, Limited
  <2>1. /\ k \in known => used[k] <= traffic[k] + slack[k]
        /\ k \notin known => used[k] <= dbTraffic[k] + slack[k]
        /\ used[k] + passed[k] <= Limit[k] + slack[k] + Collectors - 1
    BY DEF Meter, Metered
  <2>2. Limit[k] \in Nat /\ Collectors \in Nat
    BY GroupLimitAssumption DEF Limited
  <2>3. passed'[k] = IF k = i THEN passed[k] - 1 ELSE passed[k]
    BY <1>1 DEF Meter, ThreadsHold
  <2>4. CASE traffic'[k] = traffic[k] /\ used'[k] = used[k]
    BY <1>3, <2>1, <2>2, <2>3, <2>4
  <2>5. CASE k = i /\ k \in known /\ traffic'[k] = traffic[k] + 1 /\ used'[k] = used[k] + 1
    <3>1. passed'[k] = passed[k] - 1
      BY <2>3, <2>5
    <3> QED
      BY <1>3, <2>1, <2>2, <2>5, <3>1
  <2>6. \/ traffic'[k] = traffic[k] /\ used'[k] = used[k]
        \/ k = i /\ k \in known /\ traffic'[k] = traffic[k] + 1 /\ used'[k] = used[k] + 1
    BY <1>2 DEF Meter, MeterTypes
  <2> QED
    BY <2>4, <2>5, <2>6
<1> QED
  BY <1>5, <1>6

\* The query marks the nodes: those without a row are of rules that are gone.
LEMMA MeterOpen ==
  ASSUME Ledger, Meter, SyncOpen
  PROVE  MeterTypes' /\ MarkedGone' /\ Metered'
<1>1. /\ UNCHANGED <<row, dbTraffic, known, traffic, used, slack, passed, todo>>
      /\ spc = "idle"
  BY DEF SyncOpen, SyncRest, dbVars, histVars, hookVars
<1>2. Metered'
  BY <1>1, MeteredQuiet DEF Meter
<1>3. CASE spc' = "rows" /\ marked' = known
           /\ rows' = {[id |-> i, cols |-> row[i]] : i \in {j \in Rules : Live(j)}}
  <2>1. MeterTypes'
    BY <1>1, <1>3 DEF Meter, MeterTypes
  <2>2. \A i \in known : row[i] = Gone \/ \E r \in rows' : r.id = i
    <3> SUFFICES ASSUME NEW i \in known, row[i] # Gone PROVE \E r \in rows' : r.id = i
      OBVIOUS
    <3>1. i \in Rules /\ row[i] \in Settings
      BY DEF Ledger, Counters, KnownHadRow, RowsOfRules
    <3>2. [id |-> i, cols |-> row[i]] \in rows'
      BY <1>3, <3>1 DEF Live
    <3> QED
      BY <3>2
  <2> QED
    BY <1>1, <1>2, <1>3, <2>1, <2>2 DEF MarkedGone
<1>4. CASE spc' = "idle" /\ marked' = marked
  BY <1>1, <1>2, <1>4 DEF Meter, MeterTypes, MarkedGone
<1> QED
  BY <1>3, <1>4 DEF SyncOpen, Return

\* A row: a rule that has no node gets one with the table's counter.
LEMMA MeterRow ==
  ASSUME Ledger, Meter, NEW q \in rows, SyncRow(q)
  PROVE  MeterTypes' /\ MarkedGone' /\ Metered'
<1> DEFINE i == q.id
<1>1. /\ UNCHANGED <<row, dbTraffic, used, slack, passed, spc, todo, cp>> /\ spc = "rows"
      /\ rows' = rows \ {q} /\ marked' = marked \ {i} /\ i \in Rules
  BY DEF SyncRow, SyncRest, dbVars, hookVars, Ledger, RowsOfRules
<1>2. CASE UNCHANGED <<known, traffic>>
  <2>1. MeterTypes' /\ MarkedGone'
    BY <1>1, <1>2 DEF Meter, MeterTypes, MarkedGone
  <2>2. Metered'
    BY <1>1, <1>2, MeteredQuiet DEF Meter
  <2> QED
    BY <2>1, <2>2
<1>3. CASE i \notin known /\ Live(i) /\ insert_limit(i)
  <2>1. known' = known \cup {i} /\ traffic' = [traffic EXCEPT ![i] = dbTraffic[i]]
    BY <1>3 DEF insert_limit
  <2>2. MeterTypes'
    BY <1>1, <2>1 DEF Meter, MeterTypes
  <2>3. MarkedGone'
    BY <1>1, <2>1 DEF Meter, MarkedGone
  <2>4. Metered'
    <3> SUFFICES ASSUME NEW k \in Rules, Limited(k), k \in known'
                 PROVE  /\ used[k] <= traffic'[k] + slack[k]
                        /\ used[k] + passed[k] <= Limit[k] + slack[k] + Collectors - 1
      BY <1>1, <2>1 DEF Meter, Metered, Limited
    <3>2. CASE k = i
      <4>1. row[k] # Gone
        BY <1>3, <3>2, GroupLimitAssumption DEF Live
      <4>2. /\ used[k] <= dbTraffic[k] + slack[k]
            /\ used[k] + passed[k] <= Limit[k] + slack[k] + Collectors - 1
        BY <1>3, <3>2, <4>1 DEF Meter, Metered
      <4>3. traffic'[k] = dbTraffic[k]
        BY <2>1, <3>2 DEF Meter, MeterTypes
      <4> QED
        BY <4>2, <4>3
    <3>3. CASE k # i
      <4>1. k \in known /\ traffic'[k] = traffic[k]
        BY <2>1, <3>3 DEF Meter, MeterTypes
      <4> QED
        BY <4>1 DEF Meter, Metered
    <3> QED
      BY <3>2, <3>3
  <2> QED
    BY <2>2, <2>3, <2>4
<1> QED
  BY <1>2, <1>3 DEF SyncRow, update_limit

\* limits_delete: a node that is still marked is of a rule that is gone.
LEMMA MeterDelete ==
  ASSUME Ledger, Meter, NEW i \in Rules, limits_delete(i)
  PROVE  MeterTypes' /\ MarkedGone' /\ Metered'
<1>1. /\ UNCHANGED <<row, dbTraffic, passed, spc, rows>>
      /\ spc = "rows" /\ rows = {} /\ i \in marked
      /\ known' = known \ {i} /\ marked' = marked \ {i}
      /\ used' = [used EXCEPT ![i] = 0] /\ slack' = [slack EXCEPT ![i] = 0]
      /\ traffic' = [traffic EXCEPT ![i] = 0]
  BY DEF limits_delete, SyncRest, dbVars, hookVars
<1>2. MeterTypes' /\ MarkedGone'
  BY <1>1 DEF Meter, MeterTypes, MarkedGone
<1>3. row[i] = Gone
  BY <1>1 DEF Meter, MarkedGone
<1>4. Metered'
  <2> SUFFICES ASSUME NEW k \in Rules, k # i, Limited(k)
               PROVE  /\ k \in known => used[k] <= traffic[k] + slack[k]
                      /\ k \notin known /\ row[k] # Gone => used[k] <= dbTraffic[k] + slack[k]
                      /\ k \in known \/ row[k] # Gone =>
                           used[k] + passed[k] <= Limit[k] + slack[k] + Collectors - 1
    BY <1>1, <1>3 DEF Metered, Limited, Meter, MeterTypes
  <2> QED
    BY DEF Meter, Metered
<1> QED
  BY <1>2, <1>4

\* sync_traffic copies a node.
LEMMA MeterCopy ==
  ASSUME Ledger, Meter, NEW i \in Rules, CopyNode(i)
  PROVE  MeterTypes' /\ MarkedGone' /\ Metered'
<1>1. /\ UNCHANGED <<row, dbTraffic, used, slack, passed, traffic, known, marked>>
      /\ spc = "walk" /\ i \in todo /\ todo' = todo \ {i} /\ spc' = "exec"
      /\ cp'.id = i /\ cp'.traffic = traffic[i]
  BY DEF CopyNode, SyncRest, dbVars, histVars, hookVars
<1>2. MeterTypes' /\ MarkedGone'
  BY <1>1 DEF Meter, MeterTypes, MarkedGone
<1>3. Metered'
  BY <1>1, MeteredQuiet DEF Meter
<1> QED
  BY <1>2, <1>3

\* The update writes the counter of a rule in the list; the others' stay.
LEMMA MeterExec ==
  ASSUME Ledger, Meter, Exec
  PROVE  MeterTypes' /\ MarkedGone' /\ Metered'
<1>1. /\ UNCHANGED <<row, used, slack, passed, traffic, known, marked, todo>>
      /\ spc = "exec" /\ spc' = "walk"
      /\ dbTraffic' = [dbTraffic EXCEPT ![cp.id] = cp.traffic] \/ dbTraffic' = dbTraffic
  BY DEF Exec, Written, SyncRest, hookVars
<1>2. cp.id \in known /\ cp.traffic \in Nat /\ dbTraffic \in [Rules -> Nat]
  BY <1>1 DEF Meter, MeterTypes
<1>3. dbTraffic' \in [Rules -> Nat] /\ \A k \in Rules \ known : dbTraffic'[k] = dbTraffic[k]
  BY <1>1, <1>2 DEF Ledger, Counters
<1>4. MeterTypes' /\ MarkedGone'
  BY <1>1, <1>3 DEF Meter, MeterTypes, MarkedGone
<1>5. Metered'
  BY <1>1, <1>3 DEF Meter, Metered, Limited
<1> QED
  BY <1>4, <1>5

\* A new period: only the packets on their way count for it, as slack.
LEMMA MeterReset ==
  ASSUME Ledger, Meter, NEW p \in Periods, TaskReset(p)
  PROVE  MeterTypes' /\ MarkedGone' /\ Metered'
<1>1. UNCHANGED <<row, dbTraffic, known, marked, spc, rows, todo, cp, passed>>
  BY DEF TaskReset, dbVars, syncVars, hookVars
<1>2. PICK hit \in SUBSET known : ZeroTraffic(hit)
  BY DEF TaskReset
<1>3. /\ traffic' = [i \in Rules |-> IF i \in hit THEN 0 ELSE traffic[i]]
      /\ used' = [i \in Rules |-> IF i \in hit THEN 0 ELSE used[i]]
      /\ slack' = [i \in Rules |-> IF i \notin hit THEN slack[i]
                                ELSE IF Limited(i) THEN passed[i] ELSE 0]
  BY <1>2 DEF ZeroTraffic
<1>4. \A k \in Rules : /\ traffic[k] \in Nat /\ used[k] \in Nat
                       /\ slack[k] \in Nat /\ passed[k] \in Nat
  BY DEF Meter, MeterTypes, ThreadsHold
<1>5. traffic' \in [Rules -> Nat] /\ used' \in [Rules -> Nat] /\ slack' \in [Rules -> Nat]
  BY <1>3, <1>4
<1>6. MeterTypes' /\ MarkedGone'
  BY <1>1, <1>5 DEF Meter, MeterTypes, MarkedGone
<1>7. Metered'
  <2> SUFFICES ASSUME NEW k \in Rules, Limited(k), k \in known \/ row[k] # Gone
               PROVE  /\ k \in known => used'[k] <= traffic'[k] + slack'[k]
                      /\ k \notin known => used'[k] <= dbTraffic[k] + slack'[k]
                      /\ used'[k] + passed[k] <= Limit[k] + slack'[k] + Collectors - 1
    BY <1>1 DEF Metered, Limited
  <2>1. CASE k \in hit
    <3>1. traffic'[k] = 0 /\ used'[k] = 0 /\ slack'[k] = passed[k] /\ k \in known
      BY <1>2, <1>3, <2>1
    <3>2. Limit[k] \in Nat /\ Collectors \in Nat \ {0}
      BY GroupLimitAssumption DEF Limited
    <3> QED
      BY <1>4, <3>1, <3>2
  <2>2. CASE k \notin hit
    <3>1. traffic'[k] = traffic[k] /\ used'[k] = used[k] /\ slack'[k] = slack[k]
      BY <1>3, <2>2
    <3> QED
      BY <3>1 DEF Meter, Metered
  <2> QED
    BY <2>1, <2>2
<1> QED
  BY <1>6, <1>7

\* Every step keeps the bounds.
LEMMA MeterStep == Ledger /\ Meter /\ [Next]_vars => Meter'
<1> SUFFICES ASSUME Ledger, Meter, [Next]_vars PROVE Meter'
  OBVIOUS
<1>0. ThreadsHold'
  BY HoldStep DEF Meter
<1> DEFINE Rest == MeterTypes' /\ MarkedGone' /\ Metered'
<1> SUFFICES Rest
  BY <1>0 DEF Meter
<1>1. CASE UNCHANGED vars
  BY <1>1, MeterAside DEF vars, dbVars, nodeVars, syncVars, hookVars, histVars
<1>2. CASE SyncOpen
  BY <1>2, MeterOpen
<1>3. CASE WalkEnd
  <2>1. /\ UNCHANGED <<row, dbTraffic, used, slack, passed, traffic, known, marked>>
        /\ spc' = "idle"
    BY <1>3 DEF WalkEnd, Return, SyncRest, dbVars, nodeVars, histVars, hookVars
  <2> QED
    BY <2>1, MeteredQuiet DEF Meter, MeterTypes, MarkedGone
<1>4. CASE Start
  BY <1>4, MeterAside DEF Start, dbVars, nodeVars, syncVars, hookVars, histVars
<1>5. ASSUME NEW i \in Rules, my_autz(i) PROVE Rest
  BY <1>5, MeterAutz
<1>6. ASSUME NEW p \in Periods, TaskReset(p) PROVE Rest
  BY <1>6, MeterReset
<1>7. ASSUME NEW p \in Columned, TaskFail(p) PROVE Rest
  BY <1>7, MeterAside DEF TaskFail, nodeVars, syncVars, hookVars
<1>8. ASSUME NEW i \in Rules, limits_delete(i) PROVE Rest
  BY <1>8, MeterDelete
<1>16. CASE sync_traffic
  <2>1. /\ UNCHANGED <<row, dbTraffic, used, slack, passed, traffic, known, marked>>
        /\ spc = "rows" /\ marked = {}
        /\ (spc' = "walk" /\ todo' = known) \/ spc' = "idle"
    BY <1>16 DEF sync_traffic, Return, SyncRest, dbVars, nodeVars, histVars, hookVars
  <2> QED
    BY <2>1, MeteredQuiet DEF Meter, MeterTypes, MarkedGone
<1>9. CASE Exec
  BY <1>9, MeterExec
<1>10. CASE SyncCrash \/ unload \/ WalkCrash
  BY <1>10, MeterDown DEF SyncCrash, unload, WalkCrash
<1>11. ASSUME NEW r \in rows, SyncRow(r) PROVE Rest
  BY <1>11, MeterRow
<1>12. ASSUME NEW i \in Rules, CopyNode(i) PROVE Rest
  BY <1>12, MeterCopy
<1>13. ASSUME NEW i \in Rules, Edit(i) PROVE Rest
  BY <1>13, MeterEdit
<1>14. ASSUME NEW i \in Rules, my_acct(i) \/ my_acct_none(i) PROVE Rest
  BY <1>14, MeterAcct
<1>15. ASSUME NEW p \in Columned, TaskCommit(p) PROVE Rest
  BY <1>15, MeterAside DEF TaskCommit, nodeVars, syncVars, hookVars
<1> QED
  BY <1>1, <1>2, <1>3, <1>4, <1>5, <1>6, <1>7, <1>8, <1>9, <1>10, <1>11, <1>12,
     <1>13, <1>14, <1>15, <1>16 DEF Next, Sync

\* Between two resets a limited rule never counts more than its limit, a packet of
\* each further thread, what a stop made the daemon forget and what was let through
\* unmetered, for any rules, limits (0 included) and threads, whatever edits, packets
\* that end uncounted, exports that fail and restarts come between.
THEOREM LimitsHold == Spec => []LimitHeld
<1>1. Ledger /\ Meter => LimitHeld
  <2> SUFFICES ASSUME Ledger, Meter, NEW i \in known, Limited(i)
               PROVE  used[i] <= Limit[i] + slack[i] + Collectors - 1
    BY DEF LimitHeld
  <2>1. i \in Rules
    BY DEF Ledger, Counters
  <2>2. used[i] + passed[i] <= Limit[i] + slack[i] + Collectors - 1
    BY <2>1 DEF Meter, Metered
  <2>3. /\ used[i] \in Nat /\ passed[i] \in Nat /\ slack[i] \in Nat
        /\ Limit[i] \in Nat /\ Collectors \in Nat
    BY <2>1, GroupLimitAssumption DEF Meter, MeterTypes, ThreadsHold, Limited
  <2> QED
    BY <2>2, <2>3
<1> QED
  BY <1>1, LedgerInit, LedgerStep, MeterInit, MeterStep, PTL DEF Spec
=============================================================================
