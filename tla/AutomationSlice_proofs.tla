------------------------- MODULE AutomationSlice_proofs -------------------------
(***************************************************************************)
(* Proofs about automation slices whose containers make one pass at a time *)
(* (AutomationSliceEntryPoint_Ops), for any number of items, containers,     *)
(* tries, rows stored before, and failures.                                *)
(***************************************************************************)
EXTENDS AutomationSlice, TLAPS

-----------------------------------------------------------------------------
(* Rows.                                                                   *)

LEMMA NoRowIsARow == NoRow \in AnyRow /\ NoRow.status = "None" /\ NoRow.tries = 0
  BY DEF AnyRow, NoRow

LEMMA RowFields ==
  ASSUME NEW row \in AnyRow
  PROVE  /\ row.tries \in Nat
         /\ row # NoRow => row.status \in {"Pending", "Processing", "Completed", "Failed", "Abandoned"}
         /\ row = NoRow <=> row.status = "None"
  <1>1. CASE row = NoRow
    BY <1>1, NoRowIsARow
  <1>2. CASE row # NoRow
    BY <1>2 DEF AnyRow
  <1> QED  BY <1>1, <1>2

LEMMA WithIsRow ==
  ASSUME NEW row \in AnyRow, row # NoRow,
         NEW status \in {"Pending", "Processing", "Completed", "Failed", "Abandoned"}
  PROVE  /\ With(row, status) \in AnyRow /\ With(row, status) # NoRow
         /\ With(row, status).status = status /\ With(row, status).tries = row.tries
  <1>1. row \in [status: {"Pending", "Processing", "Completed", "Failed", "Abandoned"}, tries: Nat]
    BY DEF AnyRow
  <1>2. /\ With(row, status) \in
             [status: {"Pending", "Processing", "Completed", "Failed", "Abandoned"}, tries: Nat]
        /\ With(row, status).status = status /\ With(row, status).tries = row.tries
    BY <1>1 DEF With
  <1>3. With(row, status) # NoRow
    BY <1>2, NoRowIsARow
  <1> QED  BY <1>2, <1>3 DEF AnyRow

LEMMA FailedIsRow ==
  ASSUME NEW row \in AnyRow, row # NoRow
  PROVE  /\ AfterFailedAttempt(row) \in AnyRow /\ AfterFailedAttempt(row) # NoRow
         /\ AfterFailedAttempt(row).tries = row.tries + 1
         /\ AfterFailedAttempt(row).status =
              IF row.tries + 1 >= MaxTries THEN "Abandoned" ELSE "Failed"
  <1> DEFINE new == AfterFailedAttempt(row)
  <1>1. row.tries \in Nat
    BY RowFields
  <1>2. new = [status |-> IF row.tries + 1 >= MaxTries THEN "Abandoned" ELSE "Failed",
               tries |-> row.tries + 1]
    BY DEF AfterFailedAttempt
  <1>3. /\ new.tries = row.tries + 1
        /\ new.status = IF row.tries + 1 >= MaxTries THEN "Abandoned" ELSE "Failed"
    BY <1>2
  <1>4. new \in [status: {"Pending", "Processing", "Completed", "Failed", "Abandoned"}, tries: Nat]
    BY <1>1, <1>2
  <1>5. new # NoRow
    BY <1>3, NoRowIsARow
  <1> QED  BY <1>3, <1>4, <1>5 DEF AnyRow

\* A row to work on is held, and has a try to spare unless it was never tried.
LEMMA ActionableRow ==
  ASSUME NEW row \in AnyRow, IsActionable(row)
  PROVE  /\ row # NoRow /\ row.status \in {"Pending", "Failed"}
         /\ row.status = "Failed" => row.tries < MaxTries
  BY NoRowIsARow DEF IsActionable

-----------------------------------------------------------------------------
(* Steps in general.                                                       *)

LEMMA Types ==
  ASSUME TypeOK, NEW p \in Passes
  PROVE  /\ DictOf[p] \in Dicts /\ pass[p] \in Pass
         /\ \A i \in Items : /\ todoItems[DictOf[p]][i] \in AnyRow /\ pass[p].pending[i] \in AnyRow
                             /\ attempts[DictOf[p]][i] \in Nat /\ table[i] \in AnyRow
         /\ MaxTries \in Nat \ {0} /\ MaxFaults \in Nat
  <1>1. DictOf[p] \in Dicts
    BY DEF Dicts
  <1> QED  BY <1>1, AutomationAssumption DEF TypeOK, Pass

\* A step of a pass, or of its container as a whole: what else it must see to.
LEMMA StepInItsContainer ==
  ASSUME IndInv, OnePassEach, TypeOK', NEW p \in Passes,
         \A q \in Passes \ {p} : pass'[q] = pass[q],
         \A e \in Dicts \ {DictOf[p]} : todoItems'[e] = todoItems[e] /\ attempts'[e] = attempts[e],
         announced \cup unheard \subseteq announced' \cup unheard',
         \A i \in Items : TriesCount(DictOf[p], i)',
         PassHoldsRows(p)',
         pass'[p].at \notin {"work", "announce"} => pass'[p].abandoned = {},
         \A i \in Items : todoItems'[DictOf[p]][i].status = "Abandoned" =>
             i \in announced' \cup unheard' \/ i \in pass'[p].abandoned,
         \A i \in Items : \/ table'[i] = table[i]
                          \/ pass[p].abandoned = {} /\ table'[i] = todoItems[DictOf[p]][i]
  PROVE  IndInv'
  <1> DEFINE d == DictOf[p]
  <1>1. d \in Dicts
    BY DEF Dicts
  <1>2. \A q \in Passes \ {p} : DictOf[q] \in Dicts \ {d}
    BY DEF Dicts, OnePassEach
  <1> HIDE DEF d
  <1>3. \A e \in Dicts, i \in Items : TriesCount(e, i)'
    <2> SUFFICES ASSUME NEW e \in Dicts, NEW i \in Items
                 PROVE  TriesCount(e, i)'
      OBVIOUS
    <2>1. CASE e = d
      BY <2>1 DEF d
    <2>2. CASE e # d
      BY <2>2 DEF d, IndInv, TriesCount
    <2> QED  BY <2>1, <2>2
  <1>4. \A q \in Passes : PassHoldsRows(q)'
    <2> SUFFICES ASSUME NEW q \in Passes, q # p
                 PROVE  PassHoldsRows(q)'
      OBVIOUS
    <2>1. /\ pass'[q] = pass[q] /\ todoItems'[DictOf[q]] = todoItems[DictOf[q]]
          /\ attempts'[DictOf[q]] = attempts[DictOf[q]]
      BY <1>2 DEF d
    <2> QED  BY <2>1 DEF IndInv, PassHoldsRows
  <1>5. GivenUpIsKnown'
    <2>1. \A q \in Passes : pass'[q].at \notin {"work", "announce"} => pass'[q].abandoned = {}
      BY DEF IndInv, GivenUpIsKnown
    <2>2. ASSUME NEW e \in Dicts, NEW i \in Items, todoItems'[e][i].status = "Abandoned"
          PROVE  \/ i \in announced' \cup unheard'
                 \/ \E q \in Passes : DictOf[q] = e /\ i \in pass'[q].abandoned
      <3>1. CASE e = d
        BY <2>2, <3>1 DEF d
      <3>2. CASE e # d
        <4>1. todoItems[e][i].status = "Abandoned"
          BY <2>2, <3>2 DEF d
        <4>2. \/ i \in announced \cup unheard
              \/ \E q \in Passes : DictOf[q] = e /\ i \in pass[q].abandoned
          BY <4>1 DEF IndInv, GivenUpIsKnown
        <4>3. \A q \in Passes : DictOf[q] = e => pass'[q] = pass[q]
          BY <3>2 DEF d
        <4> QED  BY <4>2, <4>3
      <3> QED  BY <3>1, <3>2
    <2> QED  BY <2>1, <2>2 DEF GivenUpIsKnown
  <1>6. AbandonedIsAnnounced'
    <2> SUFFICES ASSUME NEW i \in Items, table'[i].status = "Abandoned"
                 PROVE  i \in announced' \cup unheard'
      BY DEF AbandonedIsAnnounced
    <2>1. CASE table'[i] = table[i]
      BY <2>1 DEF IndInv, AbandonedIsAnnounced
    <2>2. CASE pass[p].abandoned = {} /\ table'[i] = todoItems[DictOf[p]][i]
      <3>1. \/ i \in announced \cup unheard
            \/ \E q \in Passes : DictOf[q] = d /\ i \in pass[q].abandoned
        BY <1>1, <2>2 DEF IndInv, GivenUpIsKnown, d
      <3>2. \A q \in Passes : DictOf[q] = d => q = p
        BY DEF OnePassEach, d
      <3> QED  BY <2>2, <3>1, <3>2
    <2> QED  BY <2>1, <2>2
  <1> QED  BY <1>3, <1>4, <1>5, <1>6 DEF IndInv

\* A step of a pass that is not at its work and does not come to it.
LEMMA StepBesideWork ==
  ASSUME IndInv, OnePassEach, TypeOK', NEW p \in Passes,
         pass[p].at # "work", pass'[p].at # "work",
         pass'[p].left = pass[p].left, pass'[p].commands = pass[p].commands,
         \A q \in Passes \ {p} : pass'[q] = pass[q],
         \A e \in Dicts \ {DictOf[p]} : todoItems'[e] = todoItems[e],
         UNCHANGED attempts,
         announced \cup unheard \subseteq announced' \cup unheard',
         \A i \in Items : TriesCount(DictOf[p], i)',
         pass'[p].at \notin {"work", "announce"} => pass'[p].abandoned = {},
         \A i \in Items : todoItems'[DictOf[p]][i].status = "Abandoned" =>
             i \in announced' \cup unheard' \/ i \in pass'[p].abandoned,
         \A i \in Items : \/ table'[i] = table[i]
                          \/ pass[p].abandoned = {} /\ table'[i] = todoItems[DictOf[p]][i]
  PROVE  IndInv'
  <1>1. PassHoldsRows(p)'
    BY DEF IndInv, PassHoldsRows
  <1>2. \A e \in Dicts \ {DictOf[p]} : todoItems'[e] = todoItems[e] /\ attempts'[e] = attempts[e]
    OBVIOUS
  <1> QED  BY <1>1, <1>2, StepInItsContainer

\* What a pass knows before a step.
LEMMA Known ==
  ASSUME IndInv, OnePassEach, NEW p \in Passes
  PROVE  /\ \A i \in Items : TriesCount(DictOf[p], i)
         /\ pass[p].at \notin {"work", "announce"} => pass[p].abandoned = {}
         /\ \A i \in Items : todoItems[DictOf[p]][i].status = "Abandoned" =>
              i \in announced \cup unheard \/ i \in pass[p].abandoned
         /\ PassHoldsRows(p)
  <1>1. DictOf[p] \in Dicts
    BY DEF Dicts
  <1>2. \A q \in Passes : DictOf[q] = DictOf[p] => q = p
    BY DEF OnePassEach
  <1> QED  BY <1>1, <1>2 DEF IndInv, GivenUpIsKnown

\* A row keeps its count as long as neither it nor the count changes.
LEMMA TriesCountStays ==
  ASSUME NEW d \in Dicts, NEW i \in Items, TriesCount(d, i),
         todoItems'[d][i] = todoItems[d][i], attempts'[d][i] = attempts[d][i]
  PROVE  TriesCount(d, i)'
  BY DEF TriesCount

-----------------------------------------------------------------------------
(* The steps.                                                              *)

LEMMA InitIndInv ==
  ASSUME Init
  PROVE  IndInv
  <1>1. \A i \in Items : StoredBefore[i] \subseteq Rows \cup {NoRow}
    BY AutomationAssumption
  <1>2. Rows \cup {NoRow} \subseteq AnyRow
    BY AutomationAssumption DEF Rows, AnyRow
  <1>3. table \in [Items -> AnyRow]
    BY <1>1, <1>2 DEF Init
  <1>4. TypeOK
    <2>1. outcomesOf \in [Items -> SUBSET Outcomes]
      BY AutomationAssumption DEF Init
    <2>2. Idle \in Pass
      BY NoRowIsARow DEF Idle, Pass
    <2>3. /\ todoItems \in [Dicts -> [Items -> AnyRow]] /\ loaded \in [Dicts -> BOOLEAN]
          /\ attempts \in [Dicts -> [Items -> Nat]]
      BY NoRowIsARow, AutomationAssumption DEF Init
    <2>4. due \subseteq Events
      BY DEF Init, Events
    <2> QED  BY <1>3, <2>1, <2>2, <2>3, <2>4, AutomationAssumption DEF Init, TypeOK
  <1>5. ASSUME NEW d \in Dicts, NEW i \in Items
        PROVE  TriesCount(d, i) /\ todoItems[d][i].status # "Abandoned"
    BY NoRowIsARow, AutomationAssumption DEF Init, TriesCount
  <1>6. \A p \in Passes : PassHoldsRows(p) /\ pass[p].abandoned = {}
    BY DEF Init, Idle, PassHoldsRows
  <1>7. AbandonedIsAnnounced
    BY DEF Init, AbandonedIsAnnounced
  <1> QED  BY <1>4, <1>5, <1>6, <1>7 DEF IndInv, GivenUpIsKnown

LEMMA BeginKeeps ==
  ASSUME IndInv, OnePassEach, NEW p \in Passes, NEW event \in due \cup {Sweep}, Begin(p, event)
  PROVE  IndInv'
  <1>1. TypeOK
    BY DEF IndInv
  <1>2. event \in Events \cup {Sweep}
    BY <1>1 DEF TypeOK
  <1>3. /\ \A q \in Passes \ {p} : pass'[q] = pass[q]
        /\ pass'[p] \in Pass /\ pass'[p].at \in {"load", "settle", "route"}
        /\ pass'[p].left = pass[p].left /\ pass'[p].commands = pass[p].commands
        /\ pass'[p].abandoned = pass[p].abandoned /\ pass' \in [Passes -> Pass]
    <2>1. pass[p] \in Pass /\ pass \in [Passes -> Pass]
      BY <1>1 DEF TypeOK
    <2> QED  BY <1>2, <2>1 DEF Begin, AfterLoad, Pass
  <1>4. TypeOK'
    BY <1>1, <1>3 DEF TypeOK, Begin, targets
  <1>5. UNCHANGED <<todoItems, table, attempts, announced, unheard>>
    BY DEF Begin, targets
  <1>6. pass[p].at = "idle" /\ DictOf[p] \in Dicts
    BY DEF Begin, Dicts
  <1>7. \A i \in Items : TriesCount(DictOf[p], i)'
    BY <1>5, <1>6, Known, TriesCountStays
  <1> QED  BY <1>3, <1>4, <1>5, <1>6, <1>7, Known, StepBesideWork

LEMMA LoadKeeps ==
  ASSUME IndInv, OnePassEach, NEW p \in Passes, Load(p)
  PROVE  IndInv'
  <1> DEFINE d == DictOf[p]
  <1>1. TypeOK /\ d \in Dicts
    BY DEF IndInv, Dicts
  <1>2. /\ \A q \in Passes \ {p} : pass'[q] = pass[q]
        /\ pass'[p].at \in {"settle", "route"}
        /\ pass'[p].left = pass[p].left /\ pass'[p].commands = pass[p].commands
        /\ pass'[p].abandoned = pass[p].abandoned /\ pass' \in [Passes -> Pass]
    <2>1. pass[p] \in Pass /\ pass \in [Passes -> Pass]
      BY <1>1 DEF TypeOK
    <2> QED  BY <2>1 DEF Load, Go, AfterLoad, Pass
  <1>3. /\ \A e \in Dicts \ {d} : todoItems'[e] = todoItems[e]
        /\ todoItems' \in [Dicts -> [Items -> AnyRow]]
        /\ \A i \in Items : \/ todoItems'[d][i] = todoItems[d][i]
                            \/ /\ todoItems[d][i] = NoRow
                               /\ todoItems'[d][i].status \in {"Pending", "Failed"}
                               /\ todoItems'[d][i] \in AnyRow
    <2>1. CASE todoItems' = todoItems
      BY <1>1, <2>1 DEF TypeOK
    <2>2. CASE SetRows(p, [i \in Items |->
                 IF todoItems[d][i] = NoRow /\ Restorable(table[i])
                 THEN table[i] ELSE todoItems[d][i]])
      <3> DEFINE new == [i \in Items |-> IF todoItems[d][i] = NoRow /\ Restorable(table[i])
                                         THEN table[i] ELSE todoItems[d][i]]
      <3>1. new \in [Items -> AnyRow]
        BY <1>1 DEF TypeOK
      <3>2. \A i \in Items : \/ new[i] = todoItems[d][i]
                             \/ /\ todoItems[d][i] = NoRow
                                /\ new[i].status \in {"Pending", "Failed"} /\ new[i] \in AnyRow
        BY <3>1 DEF Restorable
      <3>3. todoItems' = [todoItems EXCEPT ![d] = new]
        BY <2>2 DEF SetRows
      <3> HIDE DEF new, d
      <3> QED  BY <1>1, <3>1, <3>2, <3>3 DEF TypeOK
    <2> QED  BY <2>1, <2>2 DEF Load
  <1>4. UNCHANGED <<table, attempts, announced, unheard>> /\ pass[p].at = "load"
    BY DEF Load, targets
  <1>5. TypeOK'
    <2>1. loaded' \in [Dicts -> BOOLEAN] /\ stranded' \subseteq Items /\ faults' \in 0 .. MaxFaults
      BY <1>1, AutomationAssumption DEF Load, TypeOK, Fault
    <2> QED  BY <1>1, <1>2, <1>3, <2>1 DEF Load, TypeOK, targets
  <1>6. ASSUME NEW i \in Items
        PROVE  /\ TriesCount(d, i)'
               /\ todoItems'[d][i].status = "Abandoned" => i \in announced \cup unheard
    <2>1. TriesCount(d, i) /\ pass[p].abandoned = {}
          /\ (todoItems[d][i].status = "Abandoned" => i \in announced \cup unheard)
      BY <1>4, Known
    <2>2. CASE todoItems'[d][i] = todoItems[d][i]
      BY <1>1, <1>4, <2>1, <2>2, TriesCountStays
    <2>3. CASE todoItems[d][i] = NoRow /\ todoItems'[d][i].status \in {"Pending", "Failed"}
               /\ todoItems'[d][i] \in AnyRow
      <3>1. attempts[d][i] = 0 /\ MaxTries \in Nat
        BY <2>1, <2>3, NoRowIsARow, AutomationAssumption DEF TriesCount
      <3>2. todoItems'[d][i].tries \in Nat
        BY <2>3, RowFields
      <3> QED  BY <1>4, <2>3, <3>1, <3>2 DEF TriesCount
    <2> QED  BY <1>3, <2>2, <2>3
  <1> HIDE DEF d
  <1>7. pass'[p].abandoned = {}
    BY <1>2, <1>4, Known
  <1> QED  BY <1>2, <1>3, <1>4, <1>5, <1>6, <1>7, StepBesideWork DEF d

LEMMA RouteKeeps ==
  ASSUME IndInv, OnePassEach, NEW p \in Passes, Route(p)
  PROVE  IndInv'
  <1> DEFINE d == DictOf[p]
             j == pass[p].event.item
  <1>1. TypeOK /\ d \in Dicts
    BY DEF IndInv, Dicts
  <1>2. /\ \A q \in Passes \ {p} : pass'[q] = pass[q]
        /\ pass'[p].at = "save"
        /\ pass'[p].left = pass[p].left /\ pass'[p].commands = pass[p].commands
        /\ pass'[p].abandoned = pass[p].abandoned /\ pass' \in [Passes -> Pass]
    <2>1. pass[p] \in Pass /\ pass \in [Passes -> Pass]
      BY <1>1 DEF TypeOK
    <2> QED  BY <2>1 DEF Route, Go, Pass
  <1>3. j \in Items
    <2>1. pass[p].event \in Events \cup {Sweep}
      BY <1>1 DEF TypeOK, Pass
    <2>2. pass[p].event = Collect(j) \/ pass[p].event = Resolve(j)
      BY DEF Route
    <2>3. pass[p].event \in Events
      BY <2>1, <2>2 DEF Collect, Resolve, Sweep
    <2>4. PICK i \in Items : pass[p].event = Collect(i) \/ pass[p].event = Resolve(i)
      BY <2>3 DEF Events
    <2>5. j = i
      BY <2>4 DEF Collect, Resolve
    <2> QED  BY <2>5
  <1>4. UNCHANGED <<table, attempts, announced, unheard>> /\ pass[p].at = "route"
    BY DEF Route, targets
  <1> HIDE DEF j
  <1>5. \/ todoItems' = todoItems
        \/ todoItems[d][j] = NoRow /\ todoItems' = [todoItems EXCEPT ![d][j] = NewRow]
        \/ /\ todoItems[d][j] # NoRow
           /\ todoItems' = [todoItems EXCEPT ![d][j] = With(todoItems[d][j], "Completed")]
    BY DEF Route, IsNew, j
  <1>6. /\ \A e \in Dicts \ {d} : todoItems'[e] = todoItems[e]
        /\ todoItems' \in [Dicts -> [Items -> AnyRow]]
        /\ \A i \in Items :
             \/ todoItems'[d][i] = todoItems[d][i]
             \/ todoItems[d][i] = NoRow /\ todoItems'[d][i].status = "Pending"
             \/ todoItems'[d][i].status = "Completed"
    <2>1. CASE todoItems' = todoItems
      BY <1>1, <2>1 DEF TypeOK
    <2>2. CASE todoItems[d][j] = NoRow /\ todoItems' = [todoItems EXCEPT ![d][j] = NewRow]
      <3>1. NewRow \in AnyRow /\ NewRow.status = "Pending"
        BY DEF NewRow, AnyRow
      <3> QED  BY <1>1, <1>3, <2>2, <3>1 DEF TypeOK
    <2>3. CASE /\ todoItems[d][j] # NoRow
               /\ todoItems' = [todoItems EXCEPT ![d][j] = With(todoItems[d][j], "Completed")]
      <3> DEFINE new == With(todoItems[d][j], "Completed")
      <3>1. new \in AnyRow /\ new.status = "Completed"
        BY <1>1, <1>3, <2>3, WithIsRow DEF TypeOK
      <3> HIDE DEF new
      <3>2. todoItems' = [todoItems EXCEPT ![d][j] = new]
        BY <2>3 DEF new
      <3> QED  BY <1>1, <1>3, <3>1, <3>2 DEF TypeOK
    <2> QED  BY <1>5, <2>1, <2>2, <2>3
  <1>7. TypeOK'
    <2>1. stranded' \subseteq Items /\ faults' \in 0 .. MaxFaults
      BY <1>1, <1>3, AutomationAssumption DEF Route, TypeOK, Fault, j
    <2> QED  BY <1>1, <1>2, <1>6, <2>1 DEF Route, TypeOK, targets
  <1>8. ASSUME NEW i \in Items
        PROVE  /\ TriesCount(d, i)'
               /\ todoItems'[d][i].status = "Abandoned" => i \in announced \cup unheard
    <2>1. TriesCount(d, i) /\ pass[p].abandoned = {}
          /\ (todoItems[d][i].status = "Abandoned" => i \in announced \cup unheard)
      BY <1>4, Known
    <2>2. CASE todoItems'[d][i] = todoItems[d][i]
      BY <1>1, <1>4, <2>1, <2>2, TriesCountStays
    <2>3. CASE todoItems[d][i] = NoRow /\ todoItems'[d][i].status = "Pending"
      BY <1>4, <2>1, <2>3, NoRowIsARow DEF TriesCount
    <2>4. CASE todoItems'[d][i].status = "Completed"
      BY <1>4, <2>1, <2>4 DEF TriesCount
    <2> QED  BY <1>6, <2>2, <2>3, <2>4
  <1> HIDE DEF d
  <1>9. pass'[p].abandoned = {}
    BY <1>2, <1>4, Known
  <1> QED  BY <1>2, <1>4, <1>6, <1>7, <1>8, <1>9, StepBesideWork DEF d

\* A container writes its rows while nothing its pass gave up waits to be announced.
LEMMA SyncWrites ==
  ASSUME TypeOK, NEW p \in Passes, Sync(p)
  PROVE  /\ \A i \in Items : table'[i] = table[i] \/ table'[i] = todoItems[DictOf[p]][i]
         /\ table' \in [Items -> AnyRow] /\ faults' \in 0 .. MaxFaults
  <1>1. \A i \in Items : todoItems[DictOf[p]][i] \in AnyRow /\ table[i] \in AnyRow
    BY Types
  <1>2. faults' \in 0 .. MaxFaults
    BY AutomationAssumption DEF TypeOK, Sync, Fault
  <1>3. \E saved : table' = [i \in Items |-> IF i \in saved THEN todoItems[DictOf[p]][i] ELSE table[i]]
    BY DEF Sync
  <1> QED  BY <1>1, <1>2, <1>3

LEMMA SaveKeeps ==
  ASSUME IndInv, OnePassEach, NEW p \in Passes, Save(p) \/ Finish(p)
  PROVE  IndInv'
  <1>1. TypeOK /\ pass[p] \in Pass /\ pass \in [Passes -> Pass] /\ DictOf[p] \in Dicts
    BY DEF IndInv, TypeOK, Dicts
  <1>2. PassHoldsRows(p) /\ pass[p].at \in {"save", "finish"} /\ pass[p].abandoned = {}
    BY Known DEF Save, Finish
  <1>3. pass[p].left = {} /\ pass[p].commands = {}
    BY <1>2 DEF PassHoldsRows
  <1>4. /\ \A q \in Passes \ {p} : pass'[q] = pass[q]
        /\ pass'[p].at \in {"settle", "idle"} /\ pass'[p].left = {} /\ pass'[p].commands = {}
        /\ pass'[p].abandoned = {} /\ pass' \in [Passes -> Pass]
    <2>1. CASE Save(p)
      BY <1>1, <1>2, <1>3, <2>1 DEF Save, Go, Pass
    <2>2. CASE Finish(p)
      <3>1. Idle \in Pass /\ Idle.at = "idle" /\ Idle.left = {} /\ Idle.commands = {} /\ Idle.abandoned = {}
        BY NoRowIsARow DEF Idle, Pass
      <3> HIDE DEF Idle
      <3> QED  BY <1>1, <2>2, <3>1 DEF Finish
    <2> QED  BY <2>1, <2>2
  <1>5. /\ \A i \in Items : table'[i] = table[i] \/ table'[i] = todoItems[DictOf[p]][i]
        /\ table' \in [Items -> AnyRow] /\ faults' \in 0 .. MaxFaults
    BY <1>1, SyncWrites DEF Save, Finish
  <1>6. UNCHANGED <<todoItems, attempts, announced, unheard>>
    BY DEF Save, Finish, targets
  <1>7. TypeOK'
    <2>1. acked' \subseteq Events \cup {Sweep}
      BY <1>1 DEF TypeOK, Pass, Save, Finish
    <2> QED  BY <1>1, <1>4, <1>5, <2>1 DEF Save, Finish, TypeOK, targets
  <1>8. \A i \in Items : TriesCount(DictOf[p], i)'
    BY <1>1, <1>6, Known, TriesCountStays
  <1> QED  BY <1>2, <1>3, <1>4, <1>5, <1>6, <1>7, <1>8, Known, StepBesideWork

LEMMA SettleKeeps ==
  ASSUME IndInv, OnePassEach, NEW p \in Passes, NEW overdue \in SUBSET Unanswered(p), Settle(p, overdue)
  PROVE  IndInv'
  <1> DEFINE d == DictOf[p]
             rows == todoItems[d]
             after == [i \in Items |->
                         CASE i \in overdue -> AfterFailedAttempt(rows[i])
                           [] IsSpent(rows[i]) -> With(rows[i], "Abandoned")
                           [] OTHER -> rows[i]]
             pending == {i \in Items : IsActionable(after[i])}
             taken == [i \in Items |-> IF i \in pending THEN after[i] ELSE NoRow]
  <1>1. TypeOK /\ d \in Dicts /\ pass[p] \in Pass /\ pass \in [Passes -> Pass]
    BY DEF IndInv, TypeOK, Dicts
  <1>2. pass[p].at = "settle" /\ pass[p].abandoned = {} /\ pass[p].commands = {}
    BY Known DEF Settle, PassHoldsRows
  <1>3. ASSUME NEW i \in Items
        PROVE  /\ after[i] \in AnyRow
               /\ \/ after[i] = rows[i]
                  \/ /\ rows[i].status = "Processing" /\ after[i].tries = rows[i].tries + 1
                     /\ after[i].status \in {"Abandoned", "Failed"}
                  \/ after[i].status = "Abandoned"
               /\ after[i].status = "Processing" => after[i] = rows[i]
    <2>1. rows[i] \in AnyRow
      BY <1>1 DEF TypeOK
    <2>2. CASE i \in overdue
      <3>1. rows[i].status = "Processing" /\ rows[i] # NoRow
        BY <2>2, NoRowIsARow DEF Unanswered
      <3>2. ~ IsSpent(rows[i])
        BY <3>1 DEF IsSpent
      <3>3. after[i] = AfterFailedAttempt(rows[i])
        BY <2>2, <3>2
      <3> QED  BY <2>1, <3>1, <3>3, FailedIsRow
    <2>3. CASE i \notin overdue /\ IsSpent(rows[i])
      <3>1. rows[i] # NoRow
        BY <2>3, NoRowIsARow DEF IsSpent
      <3>2. after[i] = With(rows[i], "Abandoned")
        BY <2>3
      <3> QED  BY <2>1, <3>1, <3>2, WithIsRow
    <2>4. CASE i \notin overdue /\ ~ IsSpent(rows[i])
      <3>1. after[i] = rows[i]
        BY <2>4
      <3> QED  BY <2>1, <3>1
    <2> QED  BY <2>2, <2>3, <2>4
  <1>4. after \in [Items -> AnyRow]
    BY <1>3
  <1>5. taken \in [Items -> AnyRow] /\ pending \subseteq Items
        /\ NewlyAbandoned(rows, after) \subseteq Items
    BY <1>4, NoRowIsARow DEF NewlyAbandoned
  <1>6. /\ todoItems' = [todoItems EXCEPT ![d] = after]
        /\ pass' = [pass EXCEPT ![p].at = "work", ![p].left = pending, ![p].pending = taken,
                                ![p].abandoned = NewlyAbandoned(rows, after)]
        /\ UNCHANGED <<outcomesOf, loaded, table, due, acked, stranded, faults>>
        /\ UNCHANGED <<answered, sent, attempts, announced, unheard>>
    BY DEF Settle, SetRows, targets
  <1> DEFINE abandoned == NewlyAbandoned(rows, after)
  <1>7. \A i \in Items : after[i].status = "Abandoned" => i \in announced \cup unheard \/ i \in abandoned
    <2>1. \A i \in Items : rows[i].status = "Abandoned" => i \in announced \cup unheard
      BY <1>2, Known
    <2> QED  BY <2>1 DEF NewlyAbandoned
  <1>8. \A i \in Items : /\ i \in pending <=> IsActionable(after[i])
                         /\ i \in pending => taken[i] = after[i]
                         /\ taken[i] # NoRow => i \in pending
    OBVIOUS
  <1>9. \A i \in Items : TriesCount(d, i)
    BY Known
  <1> HIDE DEF after, pending, taken, abandoned
  <1>10. /\ \A q \in Passes \ {p} : pass'[q] = pass[q]
         /\ pass'[p].at = "work" /\ pass'[p].left = pending /\ pass'[p].commands = {}
         /\ pass'[p].pending = taken /\ pass'[p].abandoned = abandoned
         /\ pass' \in [Passes -> Pass]
    BY <1>1, <1>2, <1>5, <1>6 DEF Pass, abandoned
  <1>11. /\ \A e \in Dicts \ {d} : todoItems'[e] = todoItems[e]
         /\ todoItems'[d] = after /\ todoItems' \in [Dicts -> [Items -> AnyRow]]
    BY <1>1, <1>4, <1>6 DEF TypeOK
  <1>12. TypeOK'
    BY <1>1, <1>6, <1>10, <1>11 DEF TypeOK
  <1>13. \A i \in Items : TriesCount(d, i)'
    <2> SUFFICES ASSUME NEW i \in Items
                 PROVE  TriesCount(d, i)'
      OBVIOUS
    <2>1. /\ after[i] \in AnyRow /\ rows[i] \in AnyRow /\ TriesCount(d, i)
          /\ attempts[d][i] \in Nat /\ attempts'[d][i] = attempts[d][i]
          /\ todoItems'[d][i] = after[i]
      BY <1>1, <1>3, <1>6, <1>9, <1>11 DEF TypeOK
    <2>2. after[i].tries \in Nat /\ rows[i].tries \in Nat
      BY <2>1, RowFields
    <2> QED  BY <1>3, <2>1, <2>2 DEF TriesCount
  <1>14. PassHoldsRows(p)'
    <2>1. ASSUME NEW i \in Items
          PROVE  /\ i \in pending => taken[i] = after[i] /\ IsActionable(after[i])
                 /\ ~ (taken[i] # NoRow /\ after[i].status = "Processing")
      BY <1>8 DEF IsActionable
    <2> QED  BY <1>10, <1>11, <2>1 DEF PassHoldsRows
  <1> QED  BY <1>6, <1>7, <1>10, <1>11, <1>12, <1>13, <1>14, StepInItsContainer

LEMMA WorkKeeps ==
  ASSUME IndInv, OnePassEach, NEW p \in Passes, NEW i \in Items, Work(p, i)
  PROVE  IndInv'
  <1> DEFINE d == DictOf[p]
             row == pass[p].pending[i]
  <1>1. /\ TypeOK /\ d \in Dicts /\ pass[p] \in Pass /\ pass \in [Passes -> Pass]
        /\ todoItems[d] \in [Items -> AnyRow] /\ row \in AnyRow /\ MaxTries \in Nat \ {0}
    BY AutomationAssumption DEF IndInv, TypeOK, Dicts, Pass
  <1>2. PassHoldsRows(p) /\ pass[p].at = "work" /\ i \in pass[p].left
    BY Known DEF Work
  <1>3. i \notin pass[p].commands /\ row = todoItems[d][i] /\ IsActionable(row) /\ row # NoRow
    BY <1>1, <1>2, ActionableRow DEF PassHoldsRows
  <1>4. PICK outcome \in outcomesOf[i] :
          LET done == IF outcome = "wait" THEN todoItems[DictOf[p]][i] ELSE Worked(row, outcome)
              spent == outcome = "unencodable" /\ done.status = "Abandoned"
          IN  /\ todoItems' = [todoItems EXCEPT ![DictOf[p]][i] = done]
              /\ pass' = [pass EXCEPT
                   ![p].left = @ \ {i},
                   ![p].commands = IF outcome = "send" THEN @ \cup {i} ELSE @,
                   ![p].abandoned = IF spent THEN @ \cup {i} ELSE @]
    BY DEF Work
  <1>5. UNCHANGED <<outcomesOf, loaded, table, due, acked, stranded, faults>>
        /\ UNCHANGED <<answered, sent, attempts, announced, unheard>>
    BY DEF Work, targets
  <1>6. outcome \in {"send", "wait", "unencodable", "gone"}
    BY <1>1, <1>4 DEF TypeOK, Outcomes
  <1> DEFINE done == IF outcome = "wait" THEN todoItems[d][i] ELSE Worked(row, outcome)
             commands == IF outcome = "send" THEN pass[p].commands \cup {i} ELSE pass[p].commands
             abandoned == IF outcome = "unencodable" /\ done.status = "Abandoned"
                          THEN pass[p].abandoned \cup {i} ELSE pass[p].abandoned
  <1>7. /\ done \in AnyRow
        /\ outcome = "wait" => done = row
        /\ outcome = "send" => done = With(row, "Processing") /\ done.status = "Processing"
                               /\ done.tries = row.tries
        /\ outcome = "gone" => done.status = "Completed"
        /\ outcome = "unencodable" => done.tries = row.tries + 1 /\ done.status \in {"Failed", "Abandoned"}
    <2>1. CASE outcome = "wait"
      BY <1>1, <1>3, <2>1
    <2>2. CASE outcome = "send"
      BY <1>1, <1>3, <2>2, WithIsRow DEF Worked
    <2>3. CASE outcome = "gone"
      BY <1>1, <1>3, <2>3, WithIsRow DEF Worked
    <2>4. CASE outcome = "unencodable"
      BY <1>1, <1>3, <2>4, FailedIsRow DEF Worked
    <2> QED  BY <1>6, <2>1, <2>2, <2>3, <2>4
  <1>8. /\ todoItems' = [todoItems EXCEPT ![d][i] = done]
        /\ pass' = [pass EXCEPT ![p].left = @ \ {i}, ![p].commands = commands, ![p].abandoned = abandoned]
    BY <1>4
  <1>9. /\ commands \subseteq Items /\ abandoned \subseteq Items
        /\ \A j \in Items \ {i} : j \in commands <=> j \in pass[p].commands
        /\ i \in commands <=> outcome = "send"
        /\ pass[p].abandoned \subseteq abandoned
        /\ outcome = "unencodable" /\ done.status = "Abandoned" => i \in abandoned
    BY <1>1, <1>3 DEF Pass
  <1> HIDE DEF row, done, commands, abandoned
  <1>10. /\ \A q \in Passes \ {p} : pass'[q] = pass[q]
         /\ pass'[p].at = "work" /\ pass'[p].left = pass[p].left \ {i} /\ pass'[p].commands = commands
         /\ pass'[p].pending = pass[p].pending /\ pass'[p].abandoned = abandoned
         /\ pass' \in [Passes -> Pass]
    BY <1>1, <1>2, <1>8, <1>9 DEF Pass
  <1>11. /\ \A e \in Dicts \ {d} : todoItems'[e] = todoItems[e]
         /\ todoItems'[d][i] = done /\ \A j \in Items \ {i} : todoItems'[d][j] = todoItems[d][j]
         /\ todoItems' \in [Dicts -> [Items -> AnyRow]]
    BY <1>1, <1>7, <1>8 DEF TypeOK
  <1>12. TypeOK'
    BY <1>1, <1>5, <1>10, <1>11 DEF TypeOK
  <1>13. /\ attempts[d][i] \in Nat /\ row.tries \in Nat /\ done.tries \in Nat
         /\ TriesCount(d, i) /\ attempts[d][i] < MaxTries /\ attempts[d][i] <= row.tries
    <2>1. attempts[d][i] \in Nat /\ row.tries \in Nat /\ done.tries \in Nat /\ TriesCount(d, i)
      BY <1>1, <1>7, RowFields, Known DEF TypeOK
    <2>2. row.status \in {"Pending", "Failed"} /\ (row.status = "Failed" => row.tries < MaxTries)
      BY <1>1, <1>3, ActionableRow
    <2>3. row.status = "Pending" => attempts[d][i] = 0
      BY <1>3, <2>1 DEF TriesCount, row
    <2>4. row.status = "Failed" => attempts[d][i] <= row.tries
      BY <1>3, <2>1 DEF TriesCount, row
    <2> QED  BY <1>1, <2>1, <2>2, <2>3, <2>4
  <1>14. \A j \in Items : TriesCount(d, j)'
    <2>1. \A j \in Items \ {i} : TriesCount(d, j)'
      BY <1>1, <1>5, <1>11, Known, TriesCountStays
    <2>2. TriesCount(d, i)'
      <3>1. todoItems'[d][i] = done /\ attempts'[d][i] = attempts[d][i]
        BY <1>5, <1>11
      <3>2. CASE outcome = "wait"
        BY <1>1, <1>3, <1>7, <1>13, <3>1, <3>2, TriesCountStays DEF row
      <3>3. CASE outcome = "send"
        BY <1>1, <1>7, <1>13, <3>1, <3>3 DEF TriesCount
      <3>4. CASE outcome = "gone"
        BY <1>1, <1>7, <1>13, <3>1, <3>4 DEF TriesCount
      <3>5. CASE outcome = "unencodable"
        BY <1>1, <1>7, <1>13, <3>1, <3>5 DEF TriesCount
      <3> QED  BY <1>6, <3>2, <3>3, <3>4, <3>5
    <2> QED  BY <2>1, <2>2
  <1>15. PassHoldsRows(p)'
    <2> SUFFICES ASSUME NEW j \in Items
                 PROVE  /\ j \in pass[p].left \ {i} =>
                             j \notin commands /\ pass[p].pending[j] = todoItems'[d][j]
                             /\ IsActionable(todoItems'[d][j])
                        /\ j \in commands =>
                             /\ IsActionable(pass[p].pending[j])
                             /\ todoItems'[d][j] = With(pass[p].pending[j], "Processing")
                             /\ attempts[d][j] < MaxTries /\ attempts[d][j] <= pass[p].pending[j].tries
                        /\ pass[p].pending[j] # NoRow /\ todoItems'[d][j].status = "Processing" => j \in commands
      BY <1>5, <1>10 DEF PassHoldsRows
    <2>1. CASE j # i
      <3>1. todoItems'[d][j] = todoItems[d][j] /\ (j \in commands <=> j \in pass[p].commands)
        BY <1>9, <1>11, <2>1
      <3> QED  BY <1>2, <3>1 DEF PassHoldsRows
    <2>2. CASE j = i
      <3>1. todoItems'[d][i] = done /\ (i \in commands <=> outcome = "send")
            /\ pass[p].pending[i] = row
        BY <1>9, <1>11 DEF row
      <3>2. i \in commands => /\ IsActionable(row) /\ done = With(row, "Processing")
                              /\ attempts[d][i] < MaxTries /\ attempts[d][i] <= row.tries
        BY <1>3, <1>7, <1>9, <1>13
      <3>3. done.status = "Processing" => i \in commands
        <4>1. row.status \in {"Pending", "Failed"}
          BY <1>1, <1>3, ActionableRow
        <4> QED  BY <1>6, <1>7, <1>9, <4>1
      <3> QED  BY <2>2, <3>1, <3>2, <3>3
    <2> QED  BY <2>1, <2>2
  <1>16. \A j \in Items : todoItems'[d][j].status = "Abandoned" =>
           j \in announced \cup unheard \/ j \in abandoned
    <2> SUFFICES ASSUME NEW j \in Items, todoItems'[d][j].status = "Abandoned"
                 PROVE  j \in announced \cup unheard \/ j \in abandoned
      OBVIOUS
    <2>1. CASE j # i
      BY <1>9, <1>11, <2>1, Known
    <2>2. CASE j = i
      <3>1. done.status = "Abandoned"
        BY <1>11, <2>2
      <3>2. row.status \in {"Pending", "Failed"}
        BY <1>1, <1>3, ActionableRow
      <3>3. outcome = "unencodable"
        BY <1>6, <1>7, <3>1, <3>2
      <3> QED  BY <1>9, <2>2, <3>1, <3>3
    <2> QED  BY <2>1, <2>2
  <1> QED  BY <1>5, <1>10, <1>11, <1>12, <1>14, <1>15, <1>16, StepInItsContainer

LEMMA PublishKeeps ==
  ASSUME IndInv, OnePassEach, NEW p \in Passes, Publish(p)
  PROVE  IndInv'
  <1> DEFINE d == DictOf[p]
             rows == todoItems[d]
             taken == pass[p].pending
             commands == pass[p].commands
             failed == [i \in Items |-> IF taken[i] # NoRow /\ FailsWithBatch(rows[i])
                                        THEN AfterFailedAttempt(taken[i]) ELSE rows[i]]
  <1>1. /\ TypeOK /\ d \in Dicts /\ pass[p] \in Pass /\ pass \in [Passes -> Pass]
        /\ rows \in [Items -> AnyRow] /\ taken \in [Items -> AnyRow] /\ commands \subseteq Items
        /\ attempts[d] \in [Items -> Nat] /\ MaxTries \in Nat \ {0}
    BY AutomationAssumption DEF IndInv, TypeOK, Dicts, Pass
  <1>2. PassHoldsRows(p) /\ pass[p].at = "work" /\ (\A i \in Items : TriesCount(d, i))
    BY Known DEF Publish
  <1>3. /\ UNCHANGED <<outcomesOf, loaded, table, due, acked, answered, announced, unheard, stranded>>
        /\ attempts' = [attempts EXCEPT ![d] =
                          [i \in Items |-> IF i \in commands THEN attempts[d][i] + 1 ELSE attempts[d][i]]]
    BY <1>1 DEF Publish, Count, TypeOK
  <1>4. PICK new, abandoned :
          /\ \/ new = rows /\ todoItems' = todoItems /\ abandoned = pass[p].abandoned
                /\ UNCHANGED faults
             \/ new = failed /\ todoItems' = [todoItems EXCEPT ![d] = failed]
                /\ abandoned = pass[p].abandoned \cup NewlyAbandoned(rows, failed) /\ Fault
          /\ Published(p, abandoned)
    BY DEF Publish, SetRows
  <1>5. \A i \in Items : i \in commands =>
           /\ taken[i] # NoRow /\ rows[i].status = "Processing" /\ rows[i].tries = taken[i].tries
           /\ attempts[d][i] < MaxTries /\ attempts[d][i] <= taken[i].tries
    BY <1>1, <1>2, ActionableRow, WithIsRow DEF PassHoldsRows
  <1>6. \A i \in Items : taken[i] # NoRow /\ rows[i].status = "Processing" => i \in commands
    BY <1>2 DEF PassHoldsRows
  <1>7. ASSUME NEW i \in Items
        PROVE  /\ failed[i] \in AnyRow
               /\ i \in commands => /\ failed[i].tries = taken[i].tries + 1
                                    /\ failed[i].status \in {"Failed", "Abandoned"}
               /\ i \notin commands => failed[i] = rows[i]
    <2>1. CASE i \in commands
      <3>1. failed[i] = AfterFailedAttempt(taken[i])
        BY <1>5, <2>1 DEF FailsWithBatch
      <3> QED  BY <1>1, <1>5, <2>1, <3>1, FailedIsRow
    <2>2. CASE i \notin commands
      <3>1. failed[i] = rows[i]
        BY <1>6, <2>2 DEF FailsWithBatch
      <3> QED  BY <1>1, <2>2, <3>1
    <2> QED  BY <2>1, <2>2
  <1>8. failed \in [Items -> AnyRow] /\ NewlyAbandoned(rows, failed) \subseteq Items
    BY <1>7 DEF NewlyAbandoned
  <1>9. \A i \in Items : rows[i].status = "Abandoned" => i \in announced \cup unheard \/ i \in pass[p].abandoned
    BY Known
  <1>10. \A i \in Items : failed[i].status = "Abandoned" =>
           \/ i \in announced \cup unheard \/ i \in pass[p].abandoned
           \/ i \in NewlyAbandoned(rows, failed)
    BY <1>9 DEF NewlyAbandoned
  <1> HIDE DEF failed
  <1>11. /\ \A e \in Dicts \ {d} : todoItems'[e] = todoItems[e] /\ attempts'[e] = attempts[e]
         /\ todoItems'[d] = new /\ todoItems' \in [Dicts -> [Items -> AnyRow]]
         /\ attempts' \in [Dicts -> [Items -> Nat]]
         /\ \A i \in Items : attempts'[d][i] = IF i \in commands THEN attempts[d][i] + 1 ELSE attempts[d][i]
    <2>1. /\ \A e \in Dicts \ {d} : todoItems'[e] = todoItems[e]
          /\ todoItems'[d] = new /\ todoItems' \in [Dicts -> [Items -> AnyRow]]
      BY <1>1, <1>4, <1>8 DEF TypeOK
    <2>2. /\ \A e \in Dicts \ {d} : attempts'[e] = attempts[e]
          /\ attempts' \in [Dicts -> [Items -> Nat]]
          /\ \A i \in Items : attempts'[d][i] = IF i \in commands THEN attempts[d][i] + 1 ELSE attempts[d][i]
      <3> DEFINE counts == [i \in Items |-> IF i \in commands THEN attempts[d][i] + 1 ELSE attempts[d][i]]
      <3>1. counts \in [Items -> Nat]
        BY <1>1
      <3>2. \A i \in Items : counts[i] = IF i \in commands THEN attempts[d][i] + 1 ELSE attempts[d][i]
        OBVIOUS
      <3>3. attempts' = [attempts EXCEPT ![d] = counts]
        BY <1>3
      <3> HIDE DEF counts, commands, d
      <3>4. attempts'[d] = counts /\ \A e \in Dicts \ {d} : attempts'[e] = attempts[e]
        BY <1>1, <3>3 DEF TypeOK
      <3>5. attempts' \in [Dicts -> [Items -> Nat]]
        BY <1>1, <3>1, <3>3 DEF TypeOK
      <3> QED  BY <3>2, <3>4, <3>5
    <2> QED  BY <2>1, <2>2
  <1>12. abandoned \subseteq Items /\ faults' \in 0 .. MaxFaults
    BY <1>1, <1>4, <1>8, AutomationAssumption DEF Pass, Fault, TypeOK
  <1>13. /\ \A q \in Passes \ {p} : pass'[q] = pass[q]
         /\ pass'[p].at = "announce" /\ pass'[p].left = {} /\ pass'[p].commands = {}
         /\ pass'[p].abandoned = abandoned /\ pass' \in [Passes -> Pass]
    <2> DEFINE next == [Idle EXCEPT !.at = "announce", !.event = pass[p].event, !.abandoned = abandoned]
    <2>1. /\ next \in Pass /\ next.at = "announce" /\ next.left = {} /\ next.commands = {}
          /\ next.abandoned = abandoned
      BY <1>1, <1>12, NoRowIsARow DEF Idle, Pass
    <2>2. pass' = [pass EXCEPT ![p] = next]
      BY <1>4 DEF Published
    <2> HIDE DEF next
    <2> QED  BY <1>1, <2>1, <2>2
  <1>14. sent' \subseteq Items
    BY <1>1 DEF Publish, TypeOK
  <1>15. TypeOK'
    BY <1>1, <1>3, <1>11, <1>12, <1>13, <1>14 DEF TypeOK
  <1>16. \A i \in Items : TriesCount(d, i)'
    <2> SUFFICES ASSUME NEW i \in Items
                 PROVE  TriesCount(d, i)'
      OBVIOUS
    <2>1. /\ attempts[d][i] \in Nat /\ taken[i].tries \in Nat /\ rows[i].tries \in Nat
          /\ rows[i] \in AnyRow /\ TriesCount(d, i) /\ todoItems'[d][i] = new[i]
      BY <1>1, <1>2, <1>11, RowFields
    <2>2. CASE i \notin commands
      <3>1. new[i] = rows[i] /\ attempts'[d][i] = attempts[d][i]
        BY <1>4, <1>7, <1>11, <2>2
      <3> QED  BY <1>1, <2>1, <3>1, TriesCountStays
    <2>3. CASE i \in commands
      <3>1. /\ attempts'[d][i] = attempts[d][i] + 1 /\ attempts[d][i] < MaxTries
            /\ attempts[d][i] <= taken[i].tries
        BY <1>5, <1>11, <2>3
      <3>2. CASE new = rows
        <4>1. new[i].status = "Processing" /\ new[i].tries = taken[i].tries
          BY <1>5, <2>3, <3>2
        <4> QED  BY <1>1, <2>1, <3>1, <4>1 DEF TriesCount
      <3>3. CASE new = failed
        <4>1. new[i].status \in {"Failed", "Abandoned"} /\ new[i].tries = taken[i].tries + 1
          BY <1>7, <2>3, <3>3
        <4> QED  BY <1>1, <2>1, <3>1, <4>1 DEF TriesCount
      <3> QED  BY <1>4, <3>2, <3>3
    <2> QED  BY <2>2, <2>3
  <1>17. PassHoldsRows(p)'
    BY <1>13 DEF PassHoldsRows
  <1>18. \A i \in Items : todoItems'[d][i].status = "Abandoned" =>
           i \in announced' \cup unheard' \/ i \in abandoned
    BY <1>3, <1>4, <1>9, <1>10, <1>11
  <1> HIDE DEF d
  <1> QED  BY <1>3, <1>11, <1>13, <1>15, <1>16, <1>17, <1>18, StepInItsContainer DEF d

LEMMA AnnounceKeeps ==
  ASSUME IndInv, OnePassEach, NEW p \in Passes, Announce(p)
  PROVE  IndInv'
  <1>1. TypeOK /\ pass[p] \in Pass /\ pass \in [Passes -> Pass] /\ DictOf[p] \in Dicts
    BY DEF IndInv, TypeOK, Dicts
  <1>2. /\ \A q \in Passes \ {p} : pass'[q] = pass[q]
        /\ pass[p].at = "announce" /\ pass'[p].at = "finish"
        /\ pass'[p].left = pass[p].left /\ pass'[p].commands = pass[p].commands
        /\ pass'[p].abandoned = {} /\ pass' \in [Passes -> Pass]
    BY <1>1 DEF Announce, Pass
  <1>3. UNCHANGED <<outcomesOf, todoItems, loaded, table, due, acked, answered, sent, attempts, stranded>>
    BY DEF Announce
  <1>4. announced' \cup unheard' = announced \cup unheard \cup pass[p].abandoned
    BY DEF Announce
  <1>5. TypeOK'
    <2>1. announced' \subseteq Items /\ unheard' \subseteq Items /\ faults' \in 0 .. MaxFaults
      BY <1>1, AutomationAssumption DEF Announce, TypeOK, Pass, Fault
    <2> QED  BY <1>1, <1>2, <1>3, <2>1 DEF TypeOK
  <1>6. \A i \in Items : TriesCount(DictOf[p], i)'
    BY <1>1, <1>3, Known, TriesCountStays
  <1>7. \A i \in Items : todoItems'[DictOf[p]][i].status = "Abandoned" => i \in announced' \cup unheard'
    BY <1>3, <1>4, Known
  <1> QED  BY <1>2, <1>3, <1>4, <1>5, <1>6, <1>7, StepBesideWork

\* A container goes, with its rows, its pass and its counts.
LEMMA LoseKeeps ==
  ASSUME IndInv, OnePassEach, NEW d \in Dicts, Crash(d) \/ Recycle(d)
  PROVE  IndInv'
  <1>0. Lose(d) /\ faults' \in 0 .. MaxFaults
    BY AutomationAssumption DEF IndInv, TypeOK, Crash, Recycle, Fault
  <1>1. PICK p \in Passes : DictOf[p] = d
    BY DEF Dicts
  <1>2. TypeOK /\ pass \in [Passes -> Pass]
    BY DEF IndInv, TypeOK
  <1>3. Idle \in Pass /\ Idle.at = "idle" /\ Idle.left = {} /\ Idle.commands = {} /\ Idle.abandoned = {}
    BY NoRowIsARow DEF Idle, Pass
  <1>4. pass' = [q \in Passes |-> IF DictOf[q] = d THEN Idle ELSE pass[q]]
    BY <1>0 DEF Lose
  <1> HIDE DEF Idle
  <1>5. /\ \A q \in Passes \ {p} : pass'[q] = pass[q]
        /\ pass'[p] = Idle /\ pass' \in [Passes -> Pass]
    BY <1>1, <1>2, <1>3, <1>4 DEF OnePassEach
  <1>6. /\ \A e \in Dicts \ {d} : todoItems'[e] = todoItems[e] /\ attempts'[e] = attempts[e]
        /\ \A i \in Items : todoItems'[d][i] = NoRow /\ attempts'[d][i] = 0
        /\ todoItems' \in [Dicts -> [Items -> AnyRow]] /\ attempts' \in [Dicts -> [Items -> Nat]]
    BY <1>0, <1>2, NoRowIsARow DEF Lose, TypeOK
  <1>7. UNCHANGED <<outcomesOf, table, acked, answered, sent, announced, unheard>>
    BY <1>0 DEF Lose
  <1>8. TypeOK'
    <2>1. \A q \in Passes : pass[q].event \in Events \cup {Sweep}
      BY <1>2 DEF Pass
    <2>2. due' \subseteq Events
      BY <1>0, <1>2, <2>1 DEF Lose, TypeOK
    <2>3. loaded' \in [Dicts -> BOOLEAN] /\ stranded' \subseteq Items /\ faults' \in 0 .. MaxFaults
      BY <1>0, <1>2 DEF Lose, TypeOK
    <2> QED  BY <1>2, <1>5, <1>6, <1>7, <2>2, <2>3 DEF TypeOK
  <1>9. \A i \in Items : TriesCount(d, i)' /\ todoItems'[d][i].status # "Abandoned"
    BY <1>6, NoRowIsARow, AutomationAssumption DEF TriesCount
  <1>10. PassHoldsRows(p)'
    BY <1>3, <1>5 DEF PassHoldsRows
  <1> QED  BY <1>1, <1>3, <1>5, <1>6, <1>7, <1>8, <1>9, <1>10, StepInItsContainer

LEMMA AnswerKeeps ==
  ASSUME IndInv, NEW i \in Items, Answer(i)
  PROVE  IndInv'
  <1>1. UNCHANGED <<outcomesOf, todoItems, loaded, table, pass, acked, sent, attempts, announced, unheard,
                    stranded, faults>>
        /\ answered' = answered \cup {i} /\ due' = due \cup {Resolve(i)}
    BY DEF Answer
  <1>2. TypeOK'
    BY <1>1 DEF IndInv, TypeOK, Events
  <1>3. /\ \A d \in Dicts, j \in Items : TriesCount(d, j)'
        /\ \A p \in Passes : PassHoldsRows(p)'
    BY <1>1 DEF IndInv, TriesCount, PassHoldsRows
  <1>4. GivenUpIsKnown' /\ AbandonedIsAnnounced'
    BY <1>1 DEF IndInv, GivenUpIsKnown, AbandonedIsAnnounced
  <1> QED  BY <1>2, <1>3, <1>4 DEF IndInv

LEMMA NextKeeps ==
  ASSUME IndInv, OnePassEach, [Next]_vars
  PROVE  IndInv'
  <1>1. ASSUME NEW event \in due \cup {Sweep}, Deliver(event)
        PROVE  IndInv'
    BY <1>1, BeginKeeps DEF Deliver
  <1>2. ASSUME NEW p \in Passes, Step(p)
        PROVE  IndInv'
    BY <1>2, LoadKeeps, RouteKeeps, SaveKeeps, SettleKeeps, WorkKeeps, PublishKeeps, AnnounceKeeps DEF Step
  <1>3. CASE UNCHANGED vars
    <2>1. UNCHANGED <<outcomesOf, todoItems, loaded, table, pass, due, acked, answered, sent,
                      attempts, announced, unheard, stranded, faults>>
      BY <1>3 DEF vars
    <2>2. TypeOK'
      BY <2>1 DEF IndInv, TypeOK
    <2>3. /\ \A d \in Dicts, j \in Items : TriesCount(d, j)'
          /\ \A p \in Passes : PassHoldsRows(p)'
      BY <2>1 DEF IndInv, TriesCount, PassHoldsRows
    <2>4. GivenUpIsKnown' /\ AbandonedIsAnnounced'
      BY <2>1 DEF IndInv, GivenUpIsKnown, AbandonedIsAnnounced
    <2> QED  BY <2>2, <2>3, <2>4 DEF IndInv
  <1> QED  BY <1>1, <1>2, <1>3, LoseKeeps, AnswerKeeps DEF Next

-----------------------------------------------------------------------------
(* The results.                                                            *)

(* Where each container makes one pass at a time, as a Lambda does: the    *)
(* rows' types are kept, every publish of an item is one of its row's      *)
(* tries, a pass publishes what it marked, and a row given up is announced *)
(* or about to be.                                                         *)
THEOREM ListIsSound ==
  ASSUME OnePassEach
  PROVE  Spec => []IndInv
  <1>1. Init => IndInv
    BY InitIndInv
  <1>2. IndInv /\ [Next]_vars => IndInv'
    BY NextKeeps
  <1> QED  BY <1>1, <1>2, PTL DEF Spec

(* In one life of its container an item is sent no more often than         *)
(* Spec.maxRetries allows (phase2), whatever fails, times out or is         *)
(* delivered again.                                                        *)
THEOREM BudgetIsKept ==
  ASSUME OnePassEach
  PROVE  Spec => []BudgetPerLifetime
  <1>1. IndInv => BudgetPerLifetime
    BY DEF IndInv, TriesCount, BudgetPerLifetime
  <1> QED  BY <1>1, ListIsSound, PTL

(* No item is given up in silence: a row the table shows as abandoned was  *)
(* announced through onExhausted, or the announcement failed to go out,    *)
(* wherever the container died.                                            *)
THEOREM NoneGivenUpInSilence ==
  ASSUME OnePassEach
  PROVE  Spec => []AbandonedIsAnnounced
  <1>1. IndInv => AbandonedIsAnnounced
    BY DEF IndInv
  <1> QED  BY <1>1, ListIsSound, PTL

\* What a step makes of a row its container knows completed.
LEMMA CompletedRowStays ==
  ASSUME IndInv, OnePassEach, [Next]_vars, NEW d \in Dicts, NEW i \in Items,
         todoItems[d][i].status = "Completed"
  PROVE  todoItems'[d][i].status = "Completed" \/ todoItems'[d][i] = NoRow
  <1> DEFINE Stays == todoItems'[d][i].status = "Completed" \/ todoItems'[d][i] = NoRow
  <1>1. TypeOK /\ todoItems[d][i] # NoRow
    BY NoRowIsARow DEF IndInv
  <1>2. ASSUME UNCHANGED todoItems
        PROVE  Stays
    BY <1>2
  <1>3. ASSUME NEW p \in Passes, DictOf[p] # d,
               \E rows : todoItems' = [todoItems EXCEPT ![DictOf[p]] = rows]
        PROVE  Stays
    BY <1>1, <1>3 DEF TypeOK
  <1>4. ASSUME NEW p \in Passes, Load(p)
        PROVE  Stays
    <2>1. CASE DictOf[p] = d
      BY <1>1, <1>4, <2>1 DEF Load, SetRows, TypeOK
    <2>2. CASE DictOf[p] # d
      BY <1>1, <1>4, <2>2 DEF Load, SetRows, TypeOK
    <2> QED  BY <2>1, <2>2
  <1>5. ASSUME NEW p \in Passes, Route(p)
        PROVE  Stays
    <2> DEFINE j == pass[p].event.item
    <2>1. \/ todoItems' = todoItems
          \/ todoItems[DictOf[p]][j] = NoRow /\ todoItems' = [todoItems EXCEPT ![DictOf[p]][j] = NewRow]
          \/ todoItems' = [todoItems EXCEPT ![DictOf[p]][j] = With(todoItems[DictOf[p]][j], "Completed")]
      BY <1>5 DEF Route, IsNew
    <2> HIDE DEF j
    <2>2. CASE DictOf[p] = d /\ j = i
      <3>1. With(todoItems[d][i], "Completed").status = "Completed"
        BY <1>1, WithIsRow DEF TypeOK
      <3> QED  BY <1>1, <2>1, <2>2, <3>1 DEF TypeOK
    <2>3. CASE ~ (DictOf[p] = d /\ j = i)
      BY <1>1, <2>1, <2>3 DEF TypeOK
    <2> QED  BY <2>2, <2>3
  <1>6. ASSUME NEW p \in Passes, NEW overdue \in SUBSET Unanswered(p), Settle(p, overdue)
        PROVE  Stays
    <2> DEFINE rows == todoItems[DictOf[p]]
               after == [k \in Items |->
                           CASE k \in overdue -> AfterFailedAttempt(rows[k])
                             [] IsSpent(rows[k]) -> With(rows[k], "Abandoned")
                             [] OTHER -> rows[k]]
    <2>1. todoItems' = [todoItems EXCEPT ![DictOf[p]] = after]
      BY <1>6 DEF Settle, SetRows
    <2>2. CASE DictOf[p] = d
      <3>1. i \notin overdue /\ ~ IsSpent(rows[i])
        BY <2>2 DEF Unanswered, IsSpent
      <3>2. after[i] = rows[i]
        BY <3>1
      <3> HIDE DEF after
      <3> QED  BY <1>1, <2>1, <2>2, <3>2 DEF TypeOK
    <2>3. CASE DictOf[p] # d
      BY <1>3, <2>1, <2>3
    <2> QED  BY <2>2, <2>3
  <1>7. ASSUME NEW p \in Passes, NEW k \in Items, Work(p, k)
        PROVE  Stays
    <2>1. \E done : todoItems' = [todoItems EXCEPT ![DictOf[p]][k] = done]
      BY <1>7 DEF Work
    <2>2. DictOf[p] = d => k # i
      <3>1. IsActionable(todoItems[DictOf[p]][k])
        BY <1>7, Known DEF PassHoldsRows, Work
      <3> QED  BY <3>1 DEF IsActionable
    <2> QED  BY <1>1, <2>1, <2>2 DEF TypeOK
  <1>8. ASSUME NEW p \in Passes, Publish(p)
        PROVE  Stays
    <2> DEFINE rows == todoItems[DictOf[p]]
               failed == [k \in Items |-> IF pass[p].pending[k] # NoRow /\ FailsWithBatch(rows[k])
                                          THEN AfterFailedAttempt(pass[p].pending[k]) ELSE rows[k]]
    <2>1. todoItems' = todoItems \/ todoItems' = [todoItems EXCEPT ![DictOf[p]] = failed]
      BY <1>8 DEF Publish, SetRows
    <2>2. CASE todoItems' = [todoItems EXCEPT ![DictOf[p]] = failed] /\ DictOf[p] = d
      <3>1. failed[i] = rows[i]
        BY <2>2 DEF FailsWithBatch
      <3> HIDE DEF failed
      <3> QED  BY <1>1, <2>2, <3>1 DEF TypeOK
    <2>3. CASE todoItems' = [todoItems EXCEPT ![DictOf[p]] = failed] /\ DictOf[p] # d
      BY <1>3, <2>3
    <2> QED  BY <1>2, <2>1, <2>2, <2>3
  <1>9. ASSUME NEW e \in Dicts, Crash(e) \/ Recycle(e)
        PROVE  Stays
    BY <1>1, <1>9 DEF Crash, Recycle, Lose, TypeOK
  <1>10. ASSUME NEW p \in Passes, Save(p) \/ Announce(p) \/ Finish(p)
         PROVE  Stays
    BY <1>2, <1>10 DEF Save, Announce, Finish
  <1>11. ASSUME NEW event \in due \cup {Sweep}, Deliver(event)
         PROVE  Stays
    BY <1>2, <1>11 DEF Deliver, Begin
  <1>12. ASSUME NEW k \in Items, Answer(k)
         PROVE  Stays
    BY <1>2, <1>12 DEF Answer
  <1>13. CASE UNCHANGED vars
    BY <1>2, <1>13 DEF vars
  <1>14. ASSUME NEW p \in Passes, Step(p)
         PROVE  Stays
    BY <1>14, <1>4, <1>5, <1>6, <1>7, <1>8, <1>10 DEF Step
  <1>15. CASE \E event \in due \cup {Sweep} : Deliver(event)
    BY <1>11, <1>15
  <1>16. CASE \E p \in Passes : Step(p)
    BY <1>14, <1>16
  <1>17. CASE \E e \in Dicts : Crash(e) \/ Recycle(e)
    BY <1>9, <1>17
  <1>18. CASE \E k \in Items : Answer(k)
    BY <1>12, <1>18
  <1>19. CASE Next
    BY <1>15, <1>16, <1>17, <1>18, <1>19 DEF Next
  <1> QED  BY <1>13, <1>19

(* Once a container knows an item completed, no late failure, timeout or   *)
(* second collection makes it work to do again while the container lives   *)
(* (phase1, phase2).                                                       *)
THEOREM CompletedIsFinal ==
  ASSUME OnePassEach
  PROVE  Spec => CompletedStays
  <1> DEFINE Stays == \A d \in Dicts, i \in Items :
                        todoItems[d][i].status = "Completed" =>
                          \/ todoItems'[d][i].status = "Completed"
                          \/ todoItems'[d][i] = NoRow
  <1>1. IndInv /\ [Next]_vars => [Stays]_vars
    BY CompletedRowStays
  <1> HIDE DEF Stays
  <1>2. Spec => [][Stays]_vars
    BY <1>1, ListIsSound, PTL DEF Spec
  <1> QED  BY <1>2 DEF CompletedStays, Stays
=================================================================================
