--------------------------- MODULE PopulateDBProofs ---------------------------
(***************************************************************************)
(* Proofs about populate_db writing its cache, for any number of tables,   *)
(* rows and readers: the types, and that a single run replaces the tables  *)
(* in order with at most one in between.                                   *)
(***************************************************************************)
EXTENDS PopulateDB, TLAPS

-----------------------------------------------------------------------------
(* Rows and tables. *)

LEMMA FirstRowsEmpty == \A w : FirstRows(w, 0) = <<>>
  BY DEF FirstRows

LEMMA FirstRowsAppend ==
  ASSUME NEW w, NEW n \in Nat
  PROVE  Append(FirstRows(w, n), <<w, n + 1>>) = FirstRows(w, n + 1)
  <1>. DEFINE s == FirstRows(w, n)
  <1>1. s \in Seq({<<w, i>> : i \in Nat}) /\ Len(s) = n
    BY DEF FirstRows
  <1>2. /\ DOMAIN Append(s, <<w, n + 1>>) = 1..(n + 1)
        /\ \A i \in 1..n : Append(s, <<w, n + 1>>)[i] = s[i]
        /\ Append(s, <<w, n + 1>>)[n + 1] = <<w, n + 1>>
    BY <1>1
  <1>3. \A i \in 1..n : s[i] = <<w, i>>
    BY DEF FirstRows
  <1>4. Append(s, <<w, n + 1>>) \in Seq({<<w, i>> : i \in Nat})
    BY <1>1
  <1>. QED
    BY <1>2, <1>3, <1>4 DEF FirstRows

LEMMA StepsAreTables == Dropped \in Table /\ Created \in Table /\ Indexed \in Table
  BY DEF Dropped, Created, Indexed, Table

LEMMA IndexedExcept ==
  ASSUME NEW table \in Table, NEW indexed
  PROVE  [table EXCEPT !.indexed = indexed]
            = [exists |-> table.exists, indexed |-> indexed, rows |-> table.rows]
  BY DEF Table

LEMMA ViewType ==
  ASSUME DBTypeOK, NEW c \in Conns
  PROVE  /\ View(c) \in Image
         /\ View(c).tab \in [Tables -> Table]
         /\ View(c).cookie \in Nat
  BY DEF DBTypeOK, View, Image

LEMMA ExecDDLType ==
  ASSUME DBTypeOK, NEW c \in Conns, NEW tab \in [Tables -> Table], ExecDDL(c, tab)
  PROVE  DBTypeOK'
  <1>1. [tab |-> tab, cookie |-> View(c).cookie + 1] \in Image
    BY ViewType DEF Image
  <1>. QED
    BY <1>1 DEF ExecDDL, DBTypeOK, Image

LEMMA OtherCallsType ==
  ASSUME DBTypeOK, NEW c \in Conns,
         \/ ExecNothing(c) \/ ExecBegin(c) \/ Rollback(c) \/ CommitOK(c)
         \/ CommitBusy(c) \/ CommitError(c) \/ StepSelect(c) \/ EndSelect(c)
  PROVE  DBTypeOK'
  <1>1. CASE ExecNothing(c)
    BY <1>1, ViewType DEF ExecNothing, DBTypeOK
  <1>2. CASE ExecBegin(c)
    BY <1>2 DEF ExecBegin, DBTypeOK
  <1>3. CASE Rollback(c) \/ CommitError(c)
    BY <1>3 DEF Rollback, CommitError, DBTypeOK, Locks
  <1>4. CASE CommitOK(c)
    BY <1>4 DEF CommitOK, DBTypeOK, Locks
  <1>5. CASE CommitBusy(c)
    BY <1>5 DEF CommitBusy, DBTypeOK, Locks
  <1>6. CASE StepSelect(c)
    BY <1>6 DEF StepSelect, DBTypeOK, Locks, Image
  <1>7. CASE EndSelect(c)
    BY <1>7 DEF EndSelect, DBTypeOK, Locks
  <1>. QED
    BY <1>1, <1>2, <1>3, <1>4, <1>5, <1>6, <1>7

LEMMA StepInsertType ==
  ASSUME DBTypeOK, NEW c \in Conns, NEW tab \in [Tables -> Table], StepInsert(c, tab)
  PROVE  DBTypeOK'
  <1>1. [View(c) EXCEPT !.tab = tab] \in Image
    BY ViewType DEF Image
  <1>. QED
    BY <1>1 DEF StepInsert, DBTypeOK, Writing, Locks

-----------------------------------------------------------------------------
(* The types, for any number of runs.                                      *)

Typed == TypeOK /\ WorkingOnTable

LEMMA InitTyped == Init => Typed
  <1>. SUFFICES ASSUME Init PROVE Typed
    OBVIOUS
  <1>1. PICK image \in InitialFiles : DBInit(image) /\ base = [w \in Writers |-> image]
    BY DEF Init
  <1>2. image \in Image
    BY InitialFilesAssumption
  <1>3. DBTypeOK
    BY <1>1, <1>2 DEF DBInit, DBTypeOK, Locks
  <1>. QED
    BY <1>1, <1>2, <1>3, NumRowsAssumption, NumTablesAssumption
    DEF Init, Typed, TypeOK, WorkingOnTable, States, Working, Statements, Tables

\* A statement that changes the current table only gives well-typed tables.
LEMMA WithType ==
  ASSUME DBTypeOK, NEW w \in Writers, NEW contents \in Table
  PROVE  With(w, contents) \in [Tables -> Table]
  BY ViewType, WritersAssumption DEF With

LEMMA CurrentType ==
  ASSUME DBTypeOK, NEW w \in Writers, k[w] \in Tables
  PROVE  Current(w) \in Table
  BY ViewType, WritersAssumption DEF Current

LEMMA NextTableTyped ==
  ASSUME Typed, NEW w \in Writers, pc[w] = "insert", NextTable(w)
  PROVE  /\ pc' \in [Writers -> States]
         /\ k' \in [Writers -> 1..(NumTables + 1)]
         /\ row_id' \in [Writers -> Nat]
         /\ \A v \in Writers : k'[v] \in Tables => row_id'[v] <= NumRows[k'[v]]
         /\ WorkingOnTable'
  <1>1. k[w] \in 1..NumTables
    BY DEF Typed, WorkingOnTable, Working, Tables
  <1>. QED
    BY <1>1, NumTablesAssumption, NumRowsAssumption
    DEF Typed, TypeOK, WorkingOnTable, NextTable, Goto, States, Working, Statements, Tables

LEMMA RunTyped ==
  ASSUME Typed, NEW w \in Writers, Run(w)
  PROVE  Typed'
  <1>. USE WritersAssumption
  <1>0. /\ DBTypeOK /\ w \in Conns
        /\ pc \in [Writers -> States]
        /\ k \in [Writers -> 1..(NumTables + 1)]
        /\ row_id \in [Writers -> Nat]
        /\ \A v \in Writers : k[v] \in Tables => row_id[v] <= NumRows[k[v]]
        /\ base \in [Writers -> Image]
        /\ published \in [Writers -> 0..NumTables]
        /\ pc[w] \in Working => k[w] \in Tables
        /\ pc[w] = "open" => k[w] = 1
    BY DEF Typed, TypeOK, WorkingOnTable
  <1>1. CASE Open(w)
    <2>1. DBTypeOK' /\ file \in Image
      BY <1>0, <1>1 DEF Open, dbVars, DBTypeOK
    <2>2. NumTables # 0 => 1 \in Tables
      BY NumTablesAssumption DEF Tables
    <2>. QED
      BY <1>0, <1>1, <2>1, <2>2
      DEF Open, Goto, Typed, TypeOK, WorkingOnTable, States, Working, Statements
  <1>2. CASE DropTable(w)
    <2>1. DBTypeOK'
      BY <1>0, <1>2, ExecDDLType, OtherCallsType, WithType, StepsAreTables DEF DropTable
    <2>. QED
      BY <1>0, <1>2, <2>1
      DEF DropTable, Goto, Typed, TypeOK, WorkingOnTable, States, Working, Statements
  <1>3. CASE CreateTable(w)
    <2>1. DBTypeOK'
      BY <1>0, <1>3, ExecDDLType, WithType, StepsAreTables DEF CreateTable
    <2>. QED
      BY <1>0, <1>3, <2>1
      DEF CreateTable, Goto, Typed, TypeOK, WorkingOnTable, States, Working, Statements
  <1>4. CASE DropIndex(w)
    <2>1. pc[w] \in Working
      BY <1>4 DEF DropIndex, Working, Statements
    <2>2. [Current(w) EXCEPT !.indexed = FALSE] \in Table
      BY <1>0, <2>1, CurrentType DEF Table
    <2>3. DBTypeOK'
      BY <1>0, <1>4, <2>2, ExecDDLType, OtherCallsType, WithType DEF DropIndex
    <2>. QED
      BY <1>0, <1>4, <2>3
      DEF DropIndex, Goto, Typed, TypeOK, WorkingOnTable, States, Working, Statements
  <1>5. CASE CreateIndex(w)
    <2>1. pc[w] \in Working
      BY <1>5 DEF CreateIndex, Working, Statements
    <2>2. [Current(w) EXCEPT !.indexed = TRUE] \in Table
      BY <1>0, <2>1, CurrentType DEF Table
    <2>3. DBTypeOK'
      BY <1>0, <1>5, <2>2, ExecDDLType, WithType DEF CreateIndex
    <2>. QED
      BY <1>0, <1>5, <2>3
      DEF CreateIndex, Goto, Typed, TypeOK, WorkingOnTable, States, Working, Statements
  <1>6. CASE BeginTransaction(w)
    <2>1. DBTypeOK'
      BY <1>0, <1>6, OtherCallsType DEF BeginTransaction
    <2>. QED
      BY <1>0, <1>6, <2>1
      DEF BeginTransaction, Goto, Typed, TypeOK, WorkingOnTable, States, Working, Statements
  <1>7. CASE InsertRow(w)
    <2>1. k[w] \in Tables /\ row_id[w] + 1 \in 1..NumRows[k[w]]
      BY <1>0, <1>7, NumRowsAssumption DEF InsertRow, Working
    <2>2. <<w, row_id[w] + 1>> \in Rows
      BY <2>1, RowsAssumption
    <2>3. [Current(w) EXCEPT !.rows = Append(@, <<w, row_id[w] + 1>>)] \in Table
      <3>. DEFINE cur == Current(w)
      <3>1. cur \in Table
        BY <1>0, <2>1, CurrentType
      <3>. HIDE DEF cur
      <3>2. Append(cur.rows, <<w, row_id[w] + 1>>) \in Seq(Rows)
        BY <3>1, <2>2 DEF Table
      <3>3. [cur EXCEPT !.rows = Append(@, <<w, row_id[w] + 1>>)]
               = [exists |-> cur.exists, indexed |-> cur.indexed,
                  rows |-> Append(cur.rows, <<w, row_id[w] + 1>>)]
        BY <3>1 DEF Table
      <3>4. [cur EXCEPT !.rows = Append(@, <<w, row_id[w] + 1>>)] \in Table
        BY <3>1, <3>2, <3>3 DEF Table
      <3>. QED
        BY <3>4 DEF cur
    <2>4. DBTypeOK'
      BY <1>0, <1>7, <2>3, StepInsertType, WithType DEF InsertRow
    <2>5. UNCHANGED <<pc, k, base, published>> /\ row_id' = [row_id EXCEPT ![w] = @ + 1]
      BY <1>7 DEF InsertRow
    <2>6. \A v \in Writers : k[v] \in Tables => row_id'[v] <= NumRows[k[v]]
      BY <1>0, <2>1, <2>5, NumRowsAssumption
    <2>. QED
      BY <1>0, <2>4, <2>5, <2>6 DEF Typed, TypeOK, WorkingOnTable
  <1>8. CASE EndTransaction(w)
    <2>1. DBTypeOK' /\ base' = base
      BY <1>0, <1>8, OtherCallsType DEF EndTransaction, NextTable
    <2>2. k[w] \in 0..NumTables
      BY <1>0, <1>8 DEF EndTransaction, Working, Tables
    <2>3. published' \in [Writers -> 0..NumTables]
      BY <1>0, <1>8, <2>2 DEF EndTransaction
    <2>. QED
      BY <1>0, <1>8, <2>1, <2>3, NextTableTyped DEF EndTransaction, Typed, TypeOK
  <1>9. CASE CloseDatabase(w) \/ Exit1(w)
    <2>1. DBTypeOK'
      BY <1>0, <1>9, OtherCallsType DEF CloseDatabase, Exit1
    <2>. QED
      BY <1>0, <1>9, <2>1
      DEF CloseDatabase, Exit1, Goto, Typed, TypeOK, WorkingOnTable, States, Ended, Working, Statements
  <1>. QED
    BY <1>1, <1>2, <1>3, <1>4, <1>5, <1>6, <1>7, <1>8, <1>9 DEF Run

LEMMA StepTyped == Typed /\ [Next]_vars => Typed'
  <1>. SUFFICES ASSUME Typed, [Next]_vars PROVE Typed'
    OBVIOUS
  <1>1. ASSUME NEW w \in Writers, Crash(w) PROVE Typed'
    <2>1. DBTypeOK'
      BY <1>1, OtherCallsType, WritersAssumption DEF Crash, Typed, TypeOK
    <2>. QED
      BY <1>1, <2>1
      DEF Crash, Goto, Typed, TypeOK, WorkingOnTable, States, Ended, Working, Statements
  <1>2. ASSUME NEW r \in Readers, Query(r) \/ Finalize(r) PROVE Typed'
    <2>1. DBTypeOK' /\ UNCHANGED <<pc, k, row_id, base, published>>
      BY <1>2, OtherCallsType DEF Query, Finalize, Readers, Typed, TypeOK
    <2>. QED
      BY <2>1 DEF Typed, TypeOK, WorkingOnTable
  <1>3. CASE UNCHANGED vars
    BY <1>3 DEF vars, dbVars, Typed, TypeOK, DBTypeOK, WorkingOnTable
  <1>. QED
    BY <1>1, <1>2, <1>3, RunTyped DEF Next, AllEnded

\* The variables keep their types, whatever the number of runs and readers, and
\* no run inserts more rows than its table has.
THEOREM TypeOKHolds == Spec => []TypeOK
  <1>1. Typed => TypeOK
    BY DEF Typed
  <1>. QED
    BY <1>1, InitTyped, StepTyped, PTL DEF Spec

-----------------------------------------------------------------------------
(* A single run.  Its tables change in two ways: a statement changes the    *)
(* current table (TableStep), or END goes on to the next (EndStep).         *)

\* All that is known of a single run before and after a step.
Single(w) == Typed /\ FileAtomic(w) /\ (~IOErrors => FileInOrder(w)) /\ SingleRun(w)

\* The types that the steps of a run rest on.
LEMMA SingleFacts ==
  ASSUME NEW w \in Writers, Single(w)
  PROVE  /\ w \in Conns
         /\ DBTypeOK
         /\ pc \in [Writers -> States] /\ pc[w] \in States
         /\ k \in [Writers -> Nat] /\ k[w] \in Nat
         /\ row_id \in [Writers -> Nat] /\ row_id[w] \in Nat
         /\ published \in [Writers -> Nat] /\ published[w] \in Nat
         /\ base \in [Writers -> Image]
         /\ pc[w] \in Working => k[w] \in Tables
         /\ NumTables \in Nat
  BY WritersAssumption, NumTablesAssumption
  DEF Single, Typed, TypeOK, WorkingOnTable

LEMMA ReadersAreOthers ==
  ASSUME NEW w \in Writers, Writers = {w}, NEW r \in Readers
  PROVE  r \in Conns /\ r # w
  BY DEF Readers

\* What a statement that changes the schema does, as the run sees it.
LEMMA ExecDDLEffect ==
  ASSUME NEW w \in Writers, Single(w), pc[w] # "insert",
         NEW tab, ExecDDL(w, tab)
  PROVE  /\ View(w)'.tab = tab
         /\ UNCHANGED <<lock, txn>>
         /\ IF lock[w] = "none" THEN file' = View(w)' ELSE UNCHANGED file
  <1>1. w \in Conns /\ DBTypeOK
    BY SingleFacts
  <1>2. /\ lock[w] \in Writing => txn[w]
        /\ txn[w] => lock[w] = "pending"
        /\ lock[w] \notin Writing => lock[w] = "none"
    BY <1>1 DEF Single, SingleRun, TransactionOK, DBTypeOK, Locks, Writing
  <1>. QED
    BY <1>1, <1>2 DEF ExecDDL, View, DBTypeOK, Writing

\* A step of the run that only changes its current table, in its view and, when
\* it holds no lock, in the file.
TableStep(w, contents) ==
  /\ View(w)'.tab = With(w, contents)
  /\ UNCHANGED <<lock, txn, k, row_id, base, published>>
  /\ IF lock[w] = "none" THEN file' = View(w)' ELSE UNCHANGED file
  /\ \E state \in {"create", "dropIndex", "createIndex", "begin"} : Goto(w, state)

LEMMA TableStepSingle ==
  ASSUME NEW w \in Writers, Writers = {w}, Single(w), pc[w] \in Statements,
         NEW contents \in Steps, TableStep(w, contents), Typed',
         ExpectedTable(w)' = contents
  PROVE  Single(w)'
  <1>1. /\ w \in Conns /\ DBTypeOK /\ pc \in [Writers -> States]
        /\ k[w] \in Tables /\ Tables \subseteq Nat
        /\ published[w] \in Nat /\ k[w] \in Nat
    BY SingleFacts DEF Working, Tables
  <1>2. PICK state \in {"create", "dropIndex", "createIndex", "begin"} : Goto(w, state)
    BY DEF TableStep
  <1>3. pc'[w] = state /\ pc'[w] \in Working \ {"insert"}
    BY <1>1, <1>2 DEF Goto, Working, Statements
  <1>4. /\ View(w)'.tab[k[w]] = contents
        /\ \A t \in Tables \ {k[w]} : View(w)'.tab[t] = View(w).tab[t]
    BY <1>1, ViewType DEF TableStep, With
  <1>5. /\ \A t \in Tables \ {k[w]} : file'.tab[t] = file.tab[t]
        /\ file'.tab[k[w]] \in {file.tab[k[w]], contents}
        /\ lock[w] = "none" => file' = View(w)'
        /\ lock[w] # "none" => file' = file
    BY <1>1, <1>4 DEF TableStep, View, Writing
  <1>6. /\ UNCHANGED <<lock, txn, k, row_id, base, published>>
        /\ \A t : Outcomes(w, t)' = Outcomes(w, t)
    BY DEF TableStep, Outcomes, Full, AllRows, FirstRows, Steps, Dropped, Created, Indexed
  <1>7. /\ published[w] < k[w]
        /\ row_id[w] = 0
        /\ ~IOErrors /\ lock[w] = "none" => published[w] = k[w] - 1
        /\ \A t \in Tables :
             /\ t < k[w] => View(w).tab[t] \in Outcomes(w, t)
             /\ t > k[w] => View(w).tab[t] = base[w].tab[t] /\ file.tab[t] = base[w].tab[t]
             /\ t <= published[w] => file.tab[t] = View(w).tab[t]
    BY DEF Single, SingleRun, PublishedOK, CompleteOK, ViewOK, Statements, Working, Ended
  <1>8. FileAtomic(w)'
    BY <1>5, <1>6 DEF Single, FileAtomic, Outcomes
  <1>9. ~IOErrors => FileInOrder(w)'
    <2>. SUFFICES ASSUME ~IOErrors PROVE FileInOrder(w)'
      OBVIOUS
    <2>1. CASE lock[w] = "none"
      <3>1. published[w] + 1 = k[w]
        BY <2>1, <1>1, <1>7
      <3>2. ASSUME NEW t \in Tables
            PROVE  /\ t <= published[w] => file'.tab[t] = Full(w, t)
                   /\ t = published[w] + 1 => file'.tab[t] \in {base[w].tab[t]} \cup Steps
                   /\ t > published[w] + 1 => file'.tab[t] = base[w].tab[t]
        <4>1. /\ t <= published[w] => file.tab[t] = Full(w, t)
              /\ t = published[w] + 1 => file.tab[t] \in {base[w].tab[t]} \cup Steps
              /\ t > published[w] + 1 => file.tab[t] = base[w].tab[t]
          BY DEF Single, FileInOrder
        <4>. QED
          BY <1>1, <1>5, <3>1, <4>1
      <3>. QED
        BY <1>6, <3>2 DEF FileInOrder, Full, AllRows, FirstRows, Steps, Dropped, Created, Indexed
    <2>2. CASE lock[w] # "none"
      BY <2>2, <1>5, <1>6 DEF Single, FileInOrder
    <2>. QED
      BY <2>1, <2>2
  <1>10. ReadersOnlyRead' /\ TransactionOK(w)'
    BY <1>3, <1>6
    DEF Single, SingleRun, ReadersOnlyRead, TransactionOK, Statements, Working, Ended
  <1>11. ViewOK(w)'
    <2>1. Current(w)' = contents
      BY <1>4, <1>6 DEF Current
    <2>2. \A t \in Tables :
             /\ t < k'[w] => View(w)'.tab[t] \in Outcomes(w, t)'
             /\ t > k'[w] => View(w)'.tab[t] = base'[w].tab[t] /\ file'.tab[t] = base'[w].tab[t]
             /\ t <= published'[w] => file'.tab[t] = View(w)'.tab[t]
      <3>. SUFFICES ASSUME NEW t \in Tables
           PROVE  /\ t < k[w] => View(w)'.tab[t] \in Outcomes(w, t)
                  /\ t > k[w] => View(w)'.tab[t] = base[w].tab[t] /\ file'.tab[t] = base[w].tab[t]
                  /\ t <= published[w] => file'.tab[t] = View(w)'.tab[t]
        BY <1>6
      <3>1. t < k[w] \/ t > k[w] \/ t <= published[w] => t # k[w]
        BY <1>1, <1>7
      <3>2. t # k[w] => View(w)'.tab[t] = View(w).tab[t] /\ file'.tab[t] = file.tab[t]
        BY <1>4, <1>5
      <3>. QED
        BY <1>7, <3>1, <3>2
    <2>3. base'[w] \in InitialFiles
      BY <1>6 DEF Single, SingleRun, ViewOK
    <2>. QED
      BY <1>3, <2>1, <2>2, <2>3 DEF ViewOK, Working, Statements
  <1>12. PublishedOK(w)'
    BY <1>6, <1>7 DEF PublishedOK
  <1>13. CompleteOK(w)'
    <2>1. ASSUME ~IOErrors, NEW t \in Tables, t < k'[w]
          PROVE  View(w)'.tab[t] = Full(w, t)
      BY <2>1, <1>1, <1>4, <1>6 DEF Single, SingleRun, CompleteOK, Working
    <2>. QED
      BY <2>1, <1>6, <1>7 DEF CompleteOK, Full, AllRows, FirstRows
  <1>. QED
    BY <1>8, <1>9, <1>10, <1>11, <1>12, <1>13 DEF Single, SingleRun

\* A statement that changes the schema is such a step.
LEMMA DDLSingle ==
  ASSUME NEW w \in Writers, Writers = {w}, Single(w), pc[w] \in Statements, Typed',
         NEW contents \in Steps, ExecDDL(w, With(w, contents)),
         \E state \in {"create", "dropIndex", "createIndex", "begin"} : Goto(w, state),
         UNCHANGED <<k, row_id, base, published>>,
         ExpectedTable(w)' = contents
  PROVE  Single(w)'
  <1>1. pc[w] # "insert"
    BY DEF Statements
  <1>2. TableStep(w, contents)
    BY <1>1, ExecDDLEffect DEF TableStep
  <1>. QED
    BY <1>2, TableStepSingle

\* So is one that finds nothing to do, if the table is one of the steps.
LEMMA NothingSingle ==
  ASSUME NEW w \in Writers, Writers = {w}, Single(w), pc[w] \in Statements, Typed',
         ExecNothing(w), Current(w) \in Steps,
         \E state \in {"create", "dropIndex", "createIndex", "begin"} : Goto(w, state),
         UNCHANGED <<k, row_id, base, published>>,
         ExpectedTable(w)' = Current(w)
  PROVE  Single(w)'
  <1>1. /\ w \in Conns /\ DBTypeOK /\ k[w] \in Tables
        /\ lock[w] \notin Writing => lock[w] = "none"
        /\ lock[w] \in Writing => lock[w] # "none"
    BY SingleFacts DEF Single, SingleRun, TransactionOK, DBTypeOK, Locks, Writing, Working
  <1>2. View(w)' = View(w) /\ UNCHANGED <<file, lock, txn>>
    BY DEF ExecNothing, View
  <1>3. With(w, Current(w)) = View(w).tab
    BY <1>1, ViewType DEF With, Current
  <1>4. lock[w] = "none" => View(w) = file
    BY DEF View, Writing
  <1>5. TableStep(w, Current(w))
    BY <1>2, <1>3, <1>4 DEF TableStep
  <1>. QED
    BY <1>5, TableStepSingle

\* The three ways in which END ends: committed, refused, or rolled back.
Committed(w) ==
  lock'[w] = "none" /\ ~txn'[w] /\ published'[w] = k[w] /\ file' = View(w) /\ View(w)' = View(w)
Refused(w) ==
  /\ lock'[w] = "pending" /\ txn'[w] /\ published'[w] = published[w]
  /\ UNCHANGED file /\ View(w)' = View(w)
RolledBack(w) ==
  /\ IOErrors
  /\ lock'[w] = "none" /\ ~txn'[w] /\ published'[w] = published[w]
  /\ UNCHANGED file /\ View(w)' = file

LEMMA EndOutcomes ==
  ASSUME NEW w \in Writers, Single(w), EndTransaction(w)
  PROVE  /\ Committed(w) \/ Refused(w) \/ RolledBack(w)
         /\ \A r \in Readers : r # w => UNCHANGED <<lock[r], txn[r]>>
  <1>1. /\ w \in Conns /\ published \in [Writers -> Nat]
        /\ lock \in [Conns -> Locks] /\ txn \in [Conns -> BOOLEAN]
        /\ Readers \subseteq Conns
    BY SingleFacts DEF DBTypeOK, Readers
  <1>2. CASE CommitOK(w) /\ published' = [published EXCEPT ![w] = k[w]]
    BY <1>1, <1>2 DEF CommitOK, Committed, View, Writing
  <1>3. CASE CommitBusy(w) /\ UNCHANGED published
    BY <1>1, <1>3 DEF CommitBusy, Refused, View, Writing
  <1>4. CASE IOErrors /\ CommitError(w) /\ UNCHANGED published
    BY <1>1, <1>4 DEF CommitError, Rollback, RolledBack, View, Writing
  <1>. QED
    BY <1>2, <1>3, <1>4 DEF EndTransaction

LEMMA EndSingle ==
  ASSUME NEW w \in Writers, Writers = {w}, Single(w), Typed', EndTransaction(w)
  PROVE  Single(w)'
  <1>1. /\ w \in Conns /\ DBTypeOK /\ pc \in [Writers -> States] /\ pc[w] = "insert"
        /\ k[w] \in Tables /\ Tables = 1..NumTables /\ NumTables \in Nat
        /\ k \in [Writers -> Nat] /\ row_id \in [Writers -> Nat]
        /\ published[w] \in Nat /\ published[w] < k[w]
    BY SingleFacts
    DEF EndTransaction, Working, Tables, Single, SingleRun, PublishedOK
  <1>2. /\ k'[w] = k[w] + 1
        /\ row_id'[w] = 0
        /\ base' = base
        /\ pc'[w] = IF k[w] < NumTables THEN "drop" ELSE "close"
    BY <1>1 DEF EndTransaction, NextTable, Goto
  <1>3. Committed(w) \/ Refused(w) \/ RolledBack(w)
    BY EndOutcomes
  <1>4. /\ View(w).tab[k[w]] = Full(w, k[w])
        /\ \A t \in Tables :
             /\ t < k[w] => View(w).tab[t] \in Outcomes(w, t)
             /\ t > k[w] => View(w).tab[t] = base[w].tab[t] /\ file.tab[t] = base[w].tab[t]
             /\ t <= published[w] => file.tab[t] = View(w).tab[t]
    <2>1. Current(w) = [Indexed EXCEPT !.rows = FirstRows(w, NumRows[k[w]])]
      BY <1>1 DEF Single, SingleRun, ViewOK, ExpectedTable, Working, EndTransaction
    <2>2. Current(w) = Full(w, k[w])
      BY <2>1 DEF Indexed, Full, AllRows
    <2>. QED
      BY <1>1, <2>2 DEF Single, SingleRun, ViewOK, Working, Current
  <1>5. \A t \in Tables : View(w).tab[t] \in Outcomes(w, t) /\ file.tab[t] \in Outcomes(w, t)
    BY <1>1, <1>4 DEF Outcomes, Single, FileAtomic
  <1>6. \A t : Outcomes(w, t)' = Outcomes(w, t) /\ Full(w, t)' = Full(w, t)
    BY <1>2 DEF Outcomes, Full, AllRows, FirstRows, Steps, Dropped, Created, Indexed
  <1>7. /\ file' \in {file, View(w)}
        /\ View(w)' \in {file, View(w)}
        /\ published'[w] \in {published[w], k[w]}
    BY <1>3 DEF Committed, Refused, RolledBack
  <1>8. FileAtomic(w)'
    BY <1>5, <1>6, <1>7 DEF FileAtomic
  <1>9. ASSUME ~IOErrors
        PROVE  /\ \A t \in Tables : t <= k[w] => View(w).tab[t] = Full(w, t)
               /\ Committed(w) \/ Refused(w)
    <2>1. \A t \in Tables : t < k[w] => View(w).tab[t] = Full(w, t)
      BY <1>1, <1>9 DEF Single, SingleRun, CompleteOK, Working
    <2>2. \A t \in Tables : t <= k[w] => t < k[w] \/ t = k[w]
      BY <1>1
    <2>. QED
      BY <1>3, <1>4, <1>9, <2>1, <2>2 DEF RolledBack
  <1>10. ASSUME ~IOErrors PROVE FileInOrder(w)'
    <2>1. CASE Committed(w)
      <3>1. ASSUME NEW t \in Tables
            PROVE  /\ t <= k[w] => file'.tab[t] = Full(w, t)
                   /\ t > k[w] => file'.tab[t] = base[w].tab[t]
        BY <1>4, <1>9, <1>10, <2>1 DEF Committed
      <3>2. published'[w] = k[w] /\ (\A t \in Tables : t >= k[w] + 1 => t > k[w])
        BY <1>1, <2>1 DEF Committed
      <3>. QED
        BY <1>1, <1>2, <1>6, <3>1, <3>2 DEF FileInOrder
    <2>2. CASE Refused(w)
      BY <1>2, <1>6, <1>10, <2>2
      DEF Refused, Single, FileInOrder, Steps, Dropped, Created, Indexed
    <2>. QED
      BY <1>9, <1>10, <2>1, <2>2
  <1>11. ReadersOnlyRead'
    BY EndOutcomes, ReadersAreOthers DEF Single, SingleRun, ReadersOnlyRead, Readers
  <1>12. TransactionOK(w)'
    BY <1>2, <1>3 DEF Committed, Refused, RolledBack, TransactionOK, Writing, Ended
  <1>13. ViewOK(w)'
    <2>1. pc'[w] = "close" => k'[w] = NumTables + 1
      BY <1>1, <1>2
    <2>2. pc'[w] = "drop" => k'[w] \in Tables /\ k'[w] > k[w]
      BY <1>1, <1>2
    <2>3. pc'[w] = "drop" => Current(w)' = base'[w].tab[k'[w]]
      BY <1>2, <1>4, <1>7, <2>2 DEF Current
    <2>4. \A t \in Tables :
             /\ View(w)'.tab[t] \in Outcomes(w, t)'
             /\ t > k'[w] => View(w)'.tab[t] = base'[w].tab[t] /\ file'.tab[t] = base'[w].tab[t]
      <3>1. \A t \in Tables : t > k'[w] => t > k[w]
        BY <1>1, <1>2
      <3>. QED
        BY <1>2, <1>4, <1>5, <1>6, <1>7, <3>1
    <2>5. \A t \in Tables : t <= published'[w] => file'.tab[t] = View(w)'.tab[t]
      BY <1>3, <1>4 DEF Committed, Refused, RolledBack
    <2>6. base'[w] \in InitialFiles
      BY <1>2 DEF Single, SingleRun, ViewOK
    <2>. QED
      BY <1>2, <2>1, <2>3, <2>4, <2>5, <2>6 DEF ViewOK, ExpectedTable, Working, Statements
  <1>14. PublishedOK(w)'
    BY <1>1, <1>2, <1>7 DEF PublishedOK
  <1>15. CompleteOK(w)'
    <2>1. ASSUME ~IOErrors
          PROVE  /\ \A t \in Tables : t < k'[w] => View(w)'.tab[t] = Full(w, t)'
                 /\ lock'[w] = "none" => published'[w] = k'[w] - 1
      <3>1. \A t \in Tables : t < k'[w] => t <= k[w]
        BY <1>1, <1>2
      <3>. QED
        BY <1>1, <1>2, <1>6, <1>9, <2>1, <3>1 DEF Committed, Refused
    <2>. QED
      BY <2>1 DEF CompleteOK
  <1>. QED
    BY <1>8, <1>10, <1>11, <1>12, <1>13, <1>14, <1>15 DEF Single, SingleRun

\* The end of the process: nothing is left of an open transaction.
LEMMA RollbackSingle ==
  ASSUME NEW w \in Writers, Writers = {w}, Single(w), Typed', Rollback(w),
         NEW state \in Ended, Goto(w, state),
         UNCHANGED <<k, row_id, base, published>>
  PROVE  Single(w)'
  <1>1. /\ w \in Conns /\ lock \in [Conns -> Locks] /\ txn \in [Conns -> BOOLEAN]
        /\ pc \in [Writers -> States]
    BY SingleFacts DEF DBTypeOK
  <1>2. /\ lock' = [lock EXCEPT ![w] = "none"] /\ txn' = [txn EXCEPT ![w] = FALSE]
        /\ pc'[w] \in Ended /\ UNCHANGED file
    BY <1>1 DEF Rollback, Goto
  <1>3. FileAtomic(w)' /\ (~IOErrors => FileInOrder(w)')
    BY <1>2 DEF Single, FileAtomic, FileInOrder, Outcomes, Full, AllRows, FirstRows,
                Steps, Dropped, Created, Indexed
  <1>4. ReadersOnlyRead'
    BY <1>1, <1>2, ReadersAreOthers DEF Single, SingleRun, ReadersOnlyRead, Readers
  <1>5. TransactionOK(w)' /\ ViewOK(w)' /\ PublishedOK(w)' /\ CompleteOK(w)'
    BY <1>1, <1>2
    DEF Single, SingleRun, TransactionOK, ViewOK, PublishedOK, CompleteOK, Writing, Ended,
        Working, Statements
  <1>. QED
    BY <1>3, <1>4, <1>5 DEF Single, SingleRun

LEMMA OpenSingle ==
  ASSUME NEW w \in Writers, Writers = {w}, Single(w), Typed', Open(w)
  PROVE  Single(w)'
  <1>1. /\ w \in Conns /\ lock[w] \in Locks /\ pc \in [Writers -> States]
        /\ pc[w] = "open" /\ k[w] = 1 /\ Tables = 1..NumTables /\ NumTables \in Nat
        /\ base[w] = file /\ base \in [Writers -> Image] /\ published[w] = 0
        /\ row_id[w] = 0
    BY SingleFacts
    DEF Open, Single, SingleRun, ViewOK, PublishedOK, Typed, WorkingOnTable, DBTypeOK,
        Tables, Ended
  <1>2. /\ UNCHANGED <<dbVars, k, row_id, base, published>>
        /\ pc'[w] = IF NumTables = 0 THEN "close" ELSE "drop"
    BY <1>1 DEF Open, Goto
  <1>3. lock[w] = "none" /\ ~txn[w] /\ View(w)' = file
    BY <1>1, <1>2 DEF Single, SingleRun, TransactionOK, Locks, Writing, View, dbVars
  <1>4. /\ FileAtomic(w)' /\ (~IOErrors => FileInOrder(w)')
        /\ ReadersOnlyRead'
    BY <1>2 DEF Single, SingleRun, FileAtomic, FileInOrder, Outcomes, Full, AllRows,
                FirstRows, Steps, Dropped, Created, Indexed, ReadersOnlyRead, dbVars
  <1>5. TransactionOK(w)' /\ PublishedOK(w)'
    BY <1>1, <1>2, <1>3 DEF TransactionOK, PublishedOK, dbVars, Writing, Ended
  <1>6. ViewOK(w)'
    <2>1. pc'[w] = "close" => k'[w] = NumTables + 1
      BY <1>1, <1>2
    <2>2. \A t \in Tables : ~(t < k'[w]) /\ ~(t <= published'[w])
      BY <1>1, <1>2
    <2>3. base'[w] \in InitialFiles
      BY <1>2 DEF Single, SingleRun, ViewOK
    <2>. QED
      BY <1>1, <1>2, <1>3, <2>1, <2>2, <2>3
      DEF ViewOK, Current, ExpectedTable, Working, Statements, dbVars
  <1>7. CompleteOK(w)'
    BY <1>1, <1>2 DEF CompleteOK
  <1>. QED
    BY <1>4, <1>5, <1>6, <1>7 DEF Single, SingleRun

LEMMA BeginSingle ==
  ASSUME NEW w \in Writers, Writers = {w}, Single(w), Typed', BeginTransaction(w)
  PROVE  Single(w)'
  <1>1. /\ w \in Conns /\ txn \in [Conns -> BOOLEAN] /\ pc \in [Writers -> States]
        /\ pc[w] = "begin" /\ pc'[w] = "insert"
        /\ txn' = [txn EXCEPT ![w] = TRUE]
        /\ UNCHANGED <<file, priv, lock, k, row_id, base, published>>
    BY SingleFacts DEF BeginTransaction, ExecBegin, Goto, DBTypeOK
  <1>2. View(w)' = View(w) /\ Current(w)' = Current(w)
    BY <1>1 DEF View, Current
  <1>3. /\ FileAtomic(w)' /\ (~IOErrors => FileInOrder(w)')
        /\ \A t : Outcomes(w, t)' = Outcomes(w, t) /\ Full(w, t)' = Full(w, t)
    BY <1>1 DEF Single, FileAtomic, FileInOrder, Outcomes, Full, AllRows,
                FirstRows, Steps, Dropped, Created, Indexed
  <1>4. ReadersOnlyRead'
    BY <1>1, ReadersAreOthers DEF Single, SingleRun, ReadersOnlyRead, Readers
  <1>5. TransactionOK(w)' /\ PublishedOK(w)'
    BY <1>1 DEF Single, SingleRun, TransactionOK, PublishedOK, Ended
  <1>6. Current(w) = [Indexed EXCEPT !.rows = FirstRows(w, 0)] /\ row_id[w] = 0
    <2>1. Current(w) = Indexed
      BY <1>1 DEF Single, SingleRun, ViewOK, ExpectedTable, Working
    <2>2. Indexed = [Indexed EXCEPT !.rows = FirstRows(w, 0)]
      BY FirstRowsEmpty DEF Indexed
    <2>. QED
      BY <1>1, <2>1, <2>2 DEF Single, SingleRun, PublishedOK, Ended
  <1>7. ViewOK(w)'
    <2>1. Current(w)' = ExpectedTable(w)'
      BY <1>1, <1>2, <1>6 DEF ExpectedTable, FirstRows, Indexed
    <2>. QED
      BY <1>1, <1>2, <1>3, <2>1 DEF Single, SingleRun, ViewOK, Working
  <1>8. CompleteOK(w)'
    BY <1>1, <1>2, <1>3 DEF Single, SingleRun, CompleteOK, Working, Ended
  <1>. QED
    BY <1>3, <1>4, <1>5, <1>7, <1>8 DEF Single, SingleRun

LEMMA InsertSingle ==
  ASSUME NEW w \in Writers, Writers = {w}, Single(w), Typed', InsertRow(w)
  PROVE  Single(w)'
  <1>. DEFINE new == [Current(w) EXCEPT !.rows = Append(@, <<w, row_id[w] + 1>>)]
  <1>1. /\ w \in Conns /\ DBTypeOK /\ pc[w] = "insert" /\ k[w] \in Tables
        /\ row_id \in [Writers -> Nat] /\ row_id[w] \in Nat
        /\ published[w] < k[w] /\ Tables \subseteq Nat
        /\ published[w] \in Nat
    BY SingleFacts DEF InsertRow, Working, Single, SingleRun, PublishedOK, Tables
  <1>2. /\ UNCHANGED <<file, txn, pc, k, base, published>>
        /\ row_id'[w] = row_id[w] + 1
        /\ lock'[w] \in Writing
        /\ \A r \in Conns \ {w} : lock'[r] = lock[r]
    BY <1>1 DEF InsertRow, StepInsert, DBTypeOK
  <1>3. /\ View(w)'.tab[k[w]] = new
        /\ \A t \in Tables \ {k[w]} : View(w)'.tab[t] = View(w).tab[t]
    <2>1. View(w)' = [View(w) EXCEPT !.tab = With(w, new)]
      BY <1>1, <1>2 DEF InsertRow, StepInsert, View, DBTypeOK
    <2>2. View(w)'.tab = With(w, new)
      BY <1>1, <2>1, ViewType DEF Image
    <2>. QED
      BY <1>1, <2>2, ViewType DEF With
  <1>4. new = [Indexed EXCEPT !.rows = FirstRows(w, row_id[w] + 1)]
    <2>1. Current(w) = [Indexed EXCEPT !.rows = FirstRows(w, row_id[w])]
      BY <1>1 DEF Single, SingleRun, ViewOK, ExpectedTable, Working
    <2>2. Append(FirstRows(w, row_id[w]), <<w, row_id[w] + 1>>) = FirstRows(w, row_id[w] + 1)
      BY <1>1, FirstRowsAppend
    <2>. QED
      BY <2>1, <2>2 DEF Indexed
  <1>. HIDE DEF new
  <1>5. /\ FileAtomic(w)' /\ (~IOErrors => FileInOrder(w)')
        /\ \A t : Outcomes(w, t)' = Outcomes(w, t) /\ Full(w, t)' = Full(w, t)
    BY <1>2 DEF Single, FileAtomic, FileInOrder, Outcomes, Full, AllRows,
                FirstRows, Steps, Dropped, Created, Indexed
  <1>6. ReadersOnlyRead'
    BY <1>2, ReadersAreOthers DEF Single, SingleRun, ReadersOnlyRead, Readers
  <1>7. TransactionOK(w)' /\ PublishedOK(w)'
    BY <1>1, <1>2 DEF Single, SingleRun, TransactionOK, PublishedOK, Writing, Ended
  <1>8. ViewOK(w)'
    <2>1. Current(w)' = ExpectedTable(w)'
      BY <1>1, <1>2, <1>3, <1>4 DEF Current, ExpectedTable, FirstRows, Indexed
    <2>2. \A t \in Tables : t < k[w] \/ t > k[w] \/ t <= published[w] => t # k[w]
      BY <1>1
    <2>. QED
      BY <1>1, <1>2, <1>3, <1>5, <2>1, <2>2 DEF Single, SingleRun, ViewOK, Working
  <1>9. CompleteOK(w)'
    <2>1. \A t \in Tables : t < k[w] => t # k[w]
      BY <1>1
    <2>. QED
      BY <1>1, <1>2, <1>3, <1>5, <2>1
      DEF Single, SingleRun, CompleteOK, Writing, Working, Ended
  <1>. QED
    BY <1>5, <1>6, <1>7, <1>8, <1>9 DEF Single, SingleRun

\* DROP, CREATE and the two statements about the index.
LEMMA StatementSingle ==
  ASSUME NEW w \in Writers, Writers = {w}, Single(w), Typed',
         DropTable(w) \/ CreateTable(w) \/ DropIndex(w) \/ CreateIndex(w)
  PROVE  Single(w)'
  <1>1. /\ pc \in [Writers -> States]
        /\ pc[w] \in Statements => Current(w) = ExpectedTable(w)
    BY SingleFacts DEF Single, SingleRun, ViewOK, Working
  <1>2. Dropped \in Steps /\ Created \in Steps /\ Indexed \in Steps
    BY DEF Steps
  <1>3. CASE DropTable(w)
    <2>1. pc[w] \in Statements /\ Goto(w, "create") /\ UNCHANGED <<k, row_id, base, published>>
      BY <1>3 DEF DropTable, Statements
    <2>2. ExpectedTable(w)' = Dropped
      BY <1>1, <2>1 DEF Goto, ExpectedTable, Dropped
    <2>3. ~Current(w).exists => Current(w) \in Steps /\ Current(w) = Dropped
      <3>1. base[w] \in InitialFiles /\ k[w] \in Tables
        BY <2>1, SingleFacts DEF Single, SingleRun, ViewOK, Working
      <3>2. Current(w) = base[w].tab[k[w]]
        BY <1>1, <1>3, <2>1 DEF DropTable, ExpectedTable
      <3>. QED
        BY <1>2, <3>1, <3>2, InitialFilesAssumption
    <2>. QED
      BY <1>2, <1>3, <2>1, <2>2, <2>3, DDLSingle, NothingSingle DEF DropTable
  <1>4. CASE CreateTable(w)
    <2>1. pc[w] \in Statements /\ Goto(w, "dropIndex") /\ UNCHANGED <<k, row_id, base, published>>
      BY <1>4 DEF CreateTable, Statements
    <2>2. ExpectedTable(w)' = Created
      BY <1>1, <2>1 DEF Goto, ExpectedTable, Created
    <2>. QED
      BY <1>2, <1>4, <2>1, <2>2, DDLSingle DEF CreateTable
  <1>5. CASE DropIndex(w)
    <2>1. pc[w] \in Statements /\ Goto(w, "createIndex") /\ UNCHANGED <<k, row_id, base, published>>
      BY <1>5 DEF DropIndex, Statements
    <2>2. ExpectedTable(w)' = Created
      BY <1>1, <2>1 DEF Goto, ExpectedTable, Created
    <2>3. Current(w) = Created /\ ~Current(w).indexed
      BY <1>1, <1>5, <2>1 DEF DropIndex, ExpectedTable, Created
    <2>. QED
      BY <1>2, <1>5, <2>1, <2>2, <2>3, NothingSingle DEF DropIndex
  <1>6. CASE CreateIndex(w)
    <2>1. pc[w] \in Statements /\ Goto(w, "begin") /\ UNCHANGED <<k, row_id, base, published>>
      BY <1>6 DEF CreateIndex, Statements
    <2>2. ExpectedTable(w)' = Indexed
      BY <1>1, <2>1 DEF Goto, ExpectedTable, Indexed
    <2>3. Current(w) = Created
      BY <1>1, <1>6, <2>1 DEF CreateIndex, ExpectedTable
    <2>4. [Current(w) EXCEPT !.indexed = TRUE] = Indexed
      <3>1. [Current(w) EXCEPT !.indexed = TRUE]
               = [exists |-> Current(w).exists, indexed |-> TRUE, rows |-> Current(w).rows]
        BY <2>3, StepsAreTables, IndexedExcept
      <3>2. Current(w).exists = TRUE /\ Current(w).rows = <<>>
        BY <2>3 DEF Created
      <3>. QED
        BY <3>1, <3>2, Zenon DEF Indexed
    <2>. QED
      BY <1>2, <1>6, <2>1, <2>2, <2>4, DDLSingle DEF CreateIndex
  <1>. QED
    BY <1>3, <1>4, <1>5, <1>6

LEMMA ReaderSingle ==
  ASSUME NEW w \in Writers, Writers = {w}, Single(w), Typed',
         NEW r \in Readers, Query(r) \/ Finalize(r)
  PROVE  Single(w)'
  <1>1. /\ r \in Conns /\ r # w /\ w \in Conns /\ DBTypeOK
        /\ UNCHANGED <<file, priv, txn, pc, k, row_id, base, published>>
        /\ lock'[r] \in {"none", "shared"}
        /\ \A c \in Conns \ {r} : lock'[c] = lock[c]
    BY SingleFacts, ReadersAreOthers DEF Query, Finalize, StepSelect, EndSelect, DBTypeOK
  <1>2. lock'[w] = lock[w] /\ View(w)' = View(w) /\ Current(w)' = Current(w)
    BY <1>1 DEF View, Current
  <1>3. /\ FileAtomic(w)' /\ (~IOErrors => FileInOrder(w)')
        /\ \A t : Outcomes(w, t)' = Outcomes(w, t) /\ Full(w, t)' = Full(w, t)
    BY <1>1 DEF Single, FileAtomic, FileInOrder, Outcomes, Full, AllRows,
                FirstRows, Steps, Dropped, Created, Indexed
  <1>4. ReadersOnlyRead'
    BY <1>1 DEF Single, SingleRun, ReadersOnlyRead, Readers
  <1>5. TransactionOK(w)' /\ PublishedOK(w)' /\ CompleteOK(w)'
    BY <1>1, <1>2, <1>3 DEF Single, SingleRun, TransactionOK, PublishedOK, CompleteOK
  <1>6. ViewOK(w)'
    <2>1. ExpectedTable(w)' = ExpectedTable(w)
      BY <1>1 DEF ExpectedTable, FirstRows, Dropped, Created, Indexed
    <2>. QED
      BY <1>1, <1>2, <1>3, <2>1 DEF Single, SingleRun, ViewOK
  <1>. QED
    BY <1>3, <1>4, <1>5, <1>6 DEF Single, SingleRun

LEMMA InitSingle ==
  ASSUME NEW w \in Writers, Writers = {w}, Init
  PROVE  Single(w)
  <1>1. PICK image \in InitialFiles : DBInit(image) /\ base = [v \in Writers |-> image]
    BY DEF Init
  <1>2. /\ w \in Conns /\ file = image /\ base[w] = image
        /\ \A c \in Conns : lock[c] = "none" /\ ~txn[c]
        /\ pc[w] = "open" /\ k[w] = 1 /\ row_id[w] = 0 /\ published[w] = 0
        /\ Tables \subseteq Nat
    BY <1>1, WritersAssumption DEF Init, DBInit, Tables
  <1>3. FileAtomic(w) /\ FileInOrder(w)
    <2>1. \A t \in Tables : ~(t <= published[w])
      BY <1>2 DEF Tables
    <2>. QED
      BY <1>2, <2>1 DEF FileAtomic, FileInOrder, Outcomes
  <1>4. SingleRun(w)
    BY <1>2 DEF SingleRun, ReadersOnlyRead, Readers, TransactionOK, ViewOK, PublishedOK,
                CompleteOK, Writing, Ended, Working, Statements
  <1>. QED
    BY <1>3, <1>4, InitTyped DEF Single

LEMMA StepSingle ==
  ASSUME NEW w \in Writers, Writers = {w}, Single(w), [Next]_vars
  PROVE  Single(w)'
  <1>1. Typed'
    BY StepTyped DEF Single
  <1>2. CASE UNCHANGED vars
    <2>1. /\ UNCHANGED <<file, priv, lock, txn, pc, k, row_id, base, published>>
          /\ View(w)' = View(w) /\ Current(w)' = Current(w)
      BY <1>2 DEF vars, dbVars, View, Current
    <2>2. /\ FileAtomic(w)' /\ (~IOErrors => FileInOrder(w)')
          /\ \A t : Outcomes(w, t)' = Outcomes(w, t) /\ Full(w, t)' = Full(w, t)
      BY <2>1 DEF Single, FileAtomic, FileInOrder, Outcomes, Full, AllRows,
                  FirstRows, Steps, Dropped, Created, Indexed
    <2>3. ReadersOnlyRead' /\ TransactionOK(w)' /\ PublishedOK(w)' /\ CompleteOK(w)'
      BY <2>1, <2>2
      DEF Single, SingleRun, ReadersOnlyRead, TransactionOK, PublishedOK, CompleteOK
    <2>4. ExpectedTable(w)' = ExpectedTable(w)
      BY <2>1 DEF ExpectedTable, FirstRows, Dropped, Created, Indexed
    <2>5. ViewOK(w)'
      BY <2>1, <2>2, <2>4 DEF Single, SingleRun, ViewOK
    <2>. QED
      BY <1>1, <2>2, <2>3, <2>5 DEF Single, SingleRun
  <1>3. CASE Run(w)
    <2>1. CASE CloseDatabase(w) \/ Exit1(w)
      BY <1>1, <2>1, RollbackSingle DEF CloseDatabase, Exit1, Ended
    <2>. QED
      BY <1>1, <1>3, <2>1, OpenSingle, StatementSingle, BeginSingle, InsertSingle, EndSingle
      DEF Run
  <1>4. CASE Crash(w)
    BY <1>1, <1>4, RollbackSingle DEF Crash, Ended
  <1>5. ASSUME NEW r \in Readers, Query(r) \/ Finalize(r) PROVE Single(w)'
    BY <1>1, <1>5, ReaderSingle
  <1>. QED
    BY <1>2, <1>3, <1>4, <1>5 DEF Next, AllEnded

-----------------------------------------------------------------------------
(* The theorems.                                                           *)

LEMMA IInvIsSingle == IInv <=> Typed /\ \A w \in Writers : Writers = {w} => Single(w)
  BY DEF IInv, Typed, Single, TableAtomic, OneTableInFlight

LEMMA IInvInductive == (Init => IInv) /\ (IInv /\ [Next]_vars => IInv')
  <1>1. Init => IInv
    BY InitTyped, InitSingle, IInvIsSingle
  <1>2. ASSUME IInv, [Next]_vars PROVE IInv'
    <2>1. Typed' /\ \A w \in Writers : Writers = {w} => Single(w)'
      BY <1>2, StepTyped, StepSingle, IInvIsSingle
    <2>. QED
      BY <2>1 DEF IInv, Typed, Single, TableAtomic, OneTableInFlight
  <1>. QED
    BY <1>1, <1>2

\* The inductive invariant of a single run holds in every reachable state.
THEOREM IInvHolds == Spec => []IInv
  BY IInvInductive, PTL DEF Spec

\* No table of the file is ever filled in part, whatever access to the file
\* fails, wherever the run ends, and for any number of tables, rows and readers.
THEOREM TableAtomicHolds == Spec => []TableAtomic
  <1>1. IInv => TableAtomic
    BY DEF IInv
  <1>. QED
    BY <1>1, IInvHolds, PTL

\* The tables are replaced in order with at most one in between, for any number
\* of tables, rows and readers, whichever commits are refused.
THEOREM OneTableInFlightHolds == Spec => []OneTableInFlight
  <1>1. IInv => OneTableInFlight
    BY DEF IInv
  <1>. QED
    BY <1>1, IInvHolds, PTL

\* What is committed does not depend on the part of the private image that a
\* later statement or a rollback changes.
LEMMA StepKeepsPublished ==
  ASSUME NEW w \in Writers, Writers = {w}, Single(w), [Next]_vars,
         NEW t \in Tables, t <= published[w]
  PROVE  file'.tab[t] = file.tab[t]
  <1>1. /\ w \in Conns /\ DBTypeOK /\ t < k[w] /\ t # k[w]
        /\ pc[w] \in Working => View(w).tab[t] = file.tab[t]
    BY SingleFacts DEF Single, SingleRun, PublishedOK, ViewOK, Tables
  <1>2. ASSUME NEW contents, ExecDDL(w, With(w, contents)), pc[w] \in Statements
        PROVE  file'.tab[t] = file.tab[t]
    <2>1. With(w, contents)[t] = file.tab[t]
      BY <1>1, <1>2, ViewType DEF With, Working
    <2>. QED
      BY <2>1, <1>2 DEF ExecDDL
  <1>3. ASSUME CommitOK(w), pc[w] = "insert" PROVE file'.tab[t] = file.tab[t]
    BY <1>1, <1>3 DEF CommitOK, View, Working
  <1>4. CASE Run(w)
    <2>1. CASE DropTable(w) \/ CreateTable(w) \/ DropIndex(w) \/ CreateIndex(w)
      BY <1>2, <2>1 DEF DropTable, CreateTable, DropIndex, CreateIndex, ExecNothing, Statements
    <2>2. CASE EndTransaction(w)
      BY <1>3, <2>2 DEF EndTransaction, CommitBusy, CommitError, Rollback
    <2>3. CASE Open(w) \/ BeginTransaction(w) \/ InsertRow(w) \/ CloseDatabase(w) \/ Exit1(w)
      BY <2>3 DEF Open, dbVars, BeginTransaction, ExecBegin, InsertRow, StepInsert,
                  CloseDatabase, Exit1, Rollback
    <2>. QED
      BY <1>4, <2>1, <2>2, <2>3 DEF Run
  <1>. QED
    BY <1>4 DEF Next, Crash, Rollback, Query, Finalize, StepSelect, EndSelect, AllEnded,
                vars, dbVars

\* A table that the run has committed is never changed again, neither by the
\* statements of later tables nor by a commit that fails.
THEOREM NothingUndoneHolds == Spec => NothingUndone
  <1>1. ASSUME IInv, [Next]_vars
        PROVE  [\A w \in Writers : Writers = {w} =>
                   \A t \in Tables : t <= published[w] => file'.tab[t] = file.tab[t]]_vars
    BY <1>1, StepKeepsPublished, IInvIsSingle
  <1>. QED
    BY <1>1, IInvHolds, PTL DEF Spec, NothingUndone

-----------------------------------------------------------------------------
(* A run that is alone with the file.                                      *)

\* Its transactions end with the table they belong to.
AloneInv(w) ==
  /\ txn[w] => pc[w] = "insert"
  /\ pc[w] = "exit0" => published[w] = NumTables

LEMMA StepAlone ==
  ASSUME NEW w \in Writers, Conns = {w}, Writers = {w}, ~IOErrors,
         IInv, [Next]_vars, AloneInv(w)
  PROVE  AloneInv(w)'
  <1>1. /\ DBTypeOK /\ Single(w) /\ w \in Conns /\ Readers = {}
        /\ pc \in [Writers -> States] /\ published[w] \in Nat /\ k[w] \in Nat
        /\ NumTables \in Nat
    BY IInvIsSingle, SingleFacts DEF Readers
  <1>2. ExclusiveAvailable(w)
    BY DEF ExclusiveAvailable
  <1>3. CASE EndTransaction(w)
    BY <1>1, <1>2, <1>3
    DEF EndTransaction, CommitOK, CommitBusy, NextTable, Goto, DBTypeOK, AloneInv
  <1>4. CASE CloseDatabase(w)
    <2>1. k[w] = NumTables + 1 /\ lock[w] = "none" => published[w] = k[w] - 1
      BY <1>1, <1>4
      DEF CloseDatabase, Single, SingleRun, ViewOK, CompleteOK, Ended
    <2>2. k[w] = NumTables + 1 /\ lock[w] = "none"
      BY <1>1, <1>4
      DEF CloseDatabase, Single, SingleRun, ViewOK, TransactionOK, AloneInv, DBTypeOK, Locks, Writing
    <2>3. published[w] = NumTables
      BY <1>1, <2>1, <2>2
    <2>. QED
      BY <1>1, <1>4, <2>3 DEF CloseDatabase, Rollback, Goto, DBTypeOK, AloneInv
  <1>5. CASE Exit1(w) \/ Crash(w)
    BY <1>1, <1>5 DEF Exit1, Crash, Rollback, Goto, DBTypeOK, AloneInv
  <1>6. CASE Open(w) \/ DropTable(w) \/ CreateTable(w) \/ DropIndex(w) \/ CreateIndex(w)
    BY <1>1, <1>6 DEF Open, DropTable, CreateTable, DropIndex, CreateIndex, ExecDDL, ExecNothing,
                      Goto, dbVars, AloneInv
  <1>7. CASE BeginTransaction(w) \/ InsertRow(w)
    BY <1>1, <1>7 DEF BeginTransaction, InsertRow, ExecBegin, StepInsert, Goto, AloneInv
  <1>8. CASE UNCHANGED vars
    BY <1>8 DEF vars, dbVars, AloneInv
  <1>. QED
    BY <1>1, <1>3, <1>4, <1>5, <1>6, <1>7, <1>8 DEF Next, Run, AllEnded

\* A run that is alone with the file and has no I/O error leaves its own tables
\* when it exits with 0: it takes another process, or an error of the file
\* system, to make an exit with 0 that has not overwritten the contents.
THEOREM OverwrittenAlone ==
  ASSUME NEW w \in Writers, Conns = {w}, Writers = {w}, ~IOErrors
  PROVE  Spec => []Overwritten
  <1>1. Init => AloneInv(w)
    BY DEF Init, DBInit, AloneInv
  <1>2. IInv /\ [Next]_vars /\ AloneInv(w) => AloneInv(w)'
    BY StepAlone
  <1>3. IInv /\ AloneInv(w) => Overwritten
    <2>. SUFFICES ASSUME IInv, AloneInv(w) PROVE Overwritten
      OBVIOUS
    <2>1. Single(w) /\ \A t \in Tables : t <= NumTables
      BY IInvIsSingle DEF Tables
    <2>. QED
      BY <2>1 DEF AloneInv, Overwritten, Single, FileInOrder
  <1>. QED
    BY <1>1, <1>2, <1>3, IInvHolds, PTL DEF Spec
==============================================================================
