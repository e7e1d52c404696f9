-------------------------- MODULE CachePromiseProofs --------------------------
(***************************************************************************)
(* A single run of populate_db implements CachePromise, for any number of  *)
(* tables, rows and readers, with and without I/O errors.                  *)
(***************************************************************************)
EXTENDS PopulateDBRunsProofs

\* The transaction of w holds the tables from n to the current one: they are
\* complete there, and the first is empty in the file.
Holds(w, n) ==
    /\ n \in Tables /\ n <= k[w] /\ (pc[w] # "insert" => n < k[w])
    /\ file.tab[n] = Indexed /\ priv[w].tab[n] # Indexed
    /\ \A t \in Tables :
          /\ t < n => priv[w].tab[t] = file.tab[t]
          /\ n <= t /\ t < k[w] => priv[w].tab[t] = Full(w, t)

HoldsSome(w) == lock[w] \in Writing => \E n : Holds(w, n)

\* The run is alone to write, and the invariants of PopulateDB hold.
LEMMA PromiseFacts ==
  ASSUME NEW w \in Writers, Writers = {w}, IInv, RunsInv
  PROVE  /\ Single(w)
         /\ TheRun = w
         /\ file.tab \in [Tables -> Table] /\ priv[w].tab \in [Tables -> Table]
         /\ lock[w] \in Locks /\ lock[w] # "shared"
         /\ lock[w] \in Writing => pc[w] \notin Ended
         /\ pc[w] \in Working /\ lock[w] = "none" => row_id[w] = 0 /\ file.tab[k[w]] = ExpectedTable(w)
  <1>1. Single(w)
    BY IInvIsSingle
  <1>2. DBTypeOK /\ w \in Conns
    BY <1>1, SingleFacts
  <1>3. SingleRun(w)
    BY <1>1 DEF Single
  <1>4. file.tab \in [Tables -> Table] /\ priv[w].tab \in [Tables -> Table] /\ lock[w] \in Locks
    BY <1>2 DEF DBTypeOK, Image
  <1>5. ASSUME pc[w] \in Working, lock[w] = "none"
        PROVE  row_id[w] = 0 /\ file.tab[k[w]] = ExpectedTable(w)
    <2>1. row_id[w] = 0
      BY <1>5 DEF RunsInv, CountOK, Working, Statements, Ended, Writing
    <2>2. file.tab[k[w]] = ExpectedTable(w)
      BY <1>3, <1>5 DEF SingleRun, ViewOK, Current, View, Writing
    <2>. QED
      BY <2>1, <2>2
  <1>6. TheRun = w
    BY DEF TheRun
  <1>7. lock[w] # "shared" /\ (lock[w] \in Writing => pc[w] \notin Ended)
    BY <1>3 DEF SingleRun, TransactionOK
  <1>. QED
    BY <1>1, <1>4, <1>5, <1>6, <1>7

LEMMA LeastIs ==
  ASSUME NEW S, S \subseteq Nat, NEW n \in S, \A t \in S : n <= t
  PROVE  (CHOOSE t \in S : \A s \in S : t <= s) = n
  <1> DEFINE m == CHOOSE t \in S : \A s \in S : t <= s
  <1>1. m \in S /\ \A s \in S : m <= s
    OBVIOUS
  <1> HIDE DEF m
  <1>2. m <= n /\ n <= m /\ m \in Nat /\ n \in Nat
    BY <1>1
  <1>3. m = n
    BY <1>2
  <1>. QED
    BY <1>3 DEF m

\* While a run holds tables, the first of them is the one to be replaced next.
LEMMA HeldIsNext ==
  ASSUME NEW w \in Writers, lock[w] \in Writing, pc[w] \notin Ended, NEW n, Holds(w, n)
  PROVE  NextReplaced(w) = n
  <1>1. Uncommitted(w) \subseteq Nat /\ n \in Uncommitted(w)
    BY DEF Uncommitted, Holds, Tables
  <1>2. \A t \in Uncommitted(w) : n <= t
    BY <1>1, NumTablesAssumption DEF Uncommitted, Holds, Tables
  <1>. QED
    BY <1>1, <1>2, LeastIs DEF NextReplaced

\* The same after a step.
LEMMA HeldIsNextAfter ==
  ASSUME NEW w \in Writers, lock'[w] \in Writing, pc'[w] \notin Ended, NEW n, Holds(w, n)'
  PROVE  NextReplaced(w)' = n
  <1>1. Uncommitted(w)' \subseteq Nat /\ n \in Uncommitted(w)'
    BY DEF Uncommitted, Holds, Tables
  <1>2. \A t \in Uncommitted(w)' : n <= t
    BY <1>1, NumTablesAssumption DEF Uncommitted, Holds, Tables
  <1>. QED
    BY <1>1, <1>2, LeastIs DEF NextReplaced

\* A step that neither changes the file nor finishes with a table.
LEMMA HiddenStep ==
  ASSUME NEW w \in Writers, TheRun = w, UNCHANGED <<file, NextReplaced(w)>>
  PROVE  [Promise!Next]_(Promise!vars)
  BY DEF Promise!vars

\* Such a step of a run that holds tables before and after it.
LEMMA HoldingStep ==
  ASSUME NEW w \in Writers, TheRun = w, UNCHANGED file,
         lock[w] \in Writing, pc[w] \notin Ended, lock'[w] \in Writing, pc'[w] \notin Ended,
         NEW n, Holds(w, n), Holds(w, n)'
  PROVE  [Promise!Next]_(Promise!vars) /\ HoldsSome(w)'
  <1>1. NextReplaced(w) = n /\ NextReplaced(w)' = n
    BY HeldIsNext, HeldIsNextAfter
  <1>. QED
    BY <1>1, HiddenStep DEF HoldsSome

\* Such a step of a run that holds none.
LEMMA FreeStep ==
  ASSUME NEW w \in Writers, TheRun = w, UNCHANGED file,
         lock[w] \notin Writing, lock'[w] \notin Writing, pc[w] \notin Ended, pc'[w] \notin Ended, k'[w] = k[w]
  PROVE  [Promise!Next]_(Promise!vars) /\ HoldsSome(w)'
  BY HiddenStep DEF HoldsSome, NextReplaced

\* The end of the process.
LEMMA StopKeepsPromise ==
  ASSUME NEW w \in Writers, TheRun = w, UNCHANGED file, lock'[w] = "none", pc'[w] \in Ended
  PROVE  [Promise!Next]_(Promise!vars) /\ HoldsSome(w)'
  BY DEF Promise!Next, Promise!Stop, NextReplaced, HoldsSome, Writing

\* DROP, CREATE and CREATE INDEX.
LEMMA StatementKeepsPromise ==
  ASSUME NEW w \in Writers, Writers = {w}, IInv, RunsInv, HoldsSome(w),
         DropTable(w) \/ CreateTable(w) \/ DropIndex(w) \/ CreateIndex(w)
  PROVE  [Promise!Next]_(Promise!vars) /\ HoldsSome(w)'
  <1>1. /\ Single(w) /\ TheRun = w /\ pc[w] \in Statements /\ pc'[w] \notin Ended
        /\ lock[w] \in Locks /\ lock[w] # "shared"
        /\ UNCHANGED <<k, lock>>
        /\ w \in Conns /\ DBTypeOK /\ pc \in [Writers -> States]
        /\ k[w] \in Tables /\ Tables \subseteq Nat
    BY PromiseFacts, SingleFacts
    DEF DropTable, CreateTable, DropIndex, CreateIndex, ExecDDL, ExecNothing, Statements, Goto, Ended,
        Working, Tables
  <1>2. PICK contents :
          /\ ExecDDL(w, With(w, contents)) \/ ExecNothing(w)
          /\ \/ contents = Dropped
             \/ contents = Created /\ pc[w] = "create"
             \/ contents = [Current(w) EXCEPT !.indexed = FALSE] /\ pc[w] = "dropIndex" /\ Current(w).indexed
             \/ contents = [Current(w) EXCEPT !.indexed = TRUE] /\ pc[w] = "createIndex"
             \/ ExecNothing(w)
    BY DEF DropTable, CreateTable, DropIndex, CreateIndex
  <1>3. CASE lock[w] \in Writing
    <2>1. PICK n : Holds(w, n)
      BY <1>3 DEF HoldsSome
    <2>2. n < k[w]
      BY <1>1, <2>1 DEF Holds, Statements
    <2>3. UNCHANGED file
      BY <1>1, <1>2, <1>3, PromiseFacts
      DEF ExecDDL, ExecNothing, Single, SingleRun, TransactionOK
    <2>4. \A t \in Tables \ {k[w]} : priv'[w].tab[t] = priv[w].tab[t]
      <3>1. CASE ExecNothing(w)
        BY <3>1 DEF ExecNothing
      <3>2. CASE ExecDDL(w, With(w, contents))
        <4>1. priv'[w].tab = With(w, contents)
          BY <1>1, <1>3, <3>2 DEF ExecDDL, DBTypeOK, Single, SingleRun, TransactionOK
        <4>. QED
          BY <1>1, <1>3, <4>1, PromiseFacts DEF With, View
      <3>. QED
        BY <1>2, <3>1, <3>2
    <2>5. Holds(w, n)'
      <3>1. n \in Tables
        BY <2>1 DEF Holds
      <3>2. n # k[w] /\ \A t \in Tables : t < n \/ t < k[w] => t # k[w]
        BY <1>1, <2>2, <3>1, NumTablesAssumption DEF Tables
      <3>. QED
        BY <1>1, <2>1, <2>2, <2>3, <2>4, <3>1, <3>2 DEF Holds, Full, AllRows, FirstRows
    <2>. QED
      BY <1>1, <1>3, <2>1, <2>3, <2>5, HoldingStep DEF Statements, Ended
  <1>4. CASE lock[w] \notin Writing /\ UNCHANGED file
    BY <1>1, <1>4, FreeStep DEF Statements, Ended
  <1>5. CASE lock[w] \notin Writing /\ file' # file
    <2>1. lock[w] = "none" /\ ExecDDL(w, With(w, contents)) /\ ~ExecNothing(w) /\ file'.tab = With(w, contents)
      BY <1>1, <1>2, <1>5 DEF ExecDDL, ExecNothing, Locks, Writing
    <2>2. /\ NextReplaced(w) = k[w] /\ NextReplaced(w)' = k[w] /\ k[w] <= NumTables
          /\ file.tab[k[w]] = ExpectedTable(w)
          /\ View(w) = file /\ Current(w) = ExpectedTable(w)
      BY <1>1, <2>1, PromiseFacts, NumTablesAssumption
      DEF NextReplaced, View, Current, Writing, Working, Statements, Ended, Tables
    <2>3. Promise!NextIs(contents)
      BY <1>1, <2>1, <2>2 DEF Promise!NextIs, With
    <2>4. HoldsSome(w)'
      BY <1>1, <2>1 DEF HoldsSome, Writing
    <2>5. CASE contents = Dropped
      BY <1>1, <2>2, <2>3, <2>4, <2>5 DEF Promise!Next, Promise!Drop
    <2>6. CASE contents = Created /\ pc[w] = "create"
      <3>1. file.tab[k[w]] = Dropped
        BY <2>2, <2>6 DEF ExpectedTable
      <3>. QED
        BY <1>1, <2>2, <2>3, <2>4, <2>6, <3>1 DEF Promise!Next, Promise!Create
    <2>7. CASE pc[w] = "dropIndex" /\ Current(w).indexed
      BY <2>2, <2>7 DEF ExpectedTable, Created
    <2>8. CASE contents = [Current(w) EXCEPT !.indexed = TRUE] /\ pc[w] = "createIndex"
      <3>1. file.tab[k[w]] = Created /\ Current(w) = Created
        BY <2>2, <2>8 DEF ExpectedTable
      <3>2. contents = Indexed
        <4>1. contents = [exists |-> Current(w).exists, indexed |-> TRUE, rows |-> Current(w).rows]
          BY <2>8, <3>1, StepsAreTables, IndexedExcept
        <4>2. Current(w).exists = TRUE /\ Current(w).rows = <<>>
          BY <3>1 DEF Created
        <4>. QED
          BY <4>1, <4>2, Zenon DEF Indexed
      <3>. QED
        BY <1>1, <2>2, <2>3, <2>4, <3>1, <3>2 DEF Promise!Next, Promise!Index
    <2>. QED
      BY <1>2, <2>1, <2>5, <2>6, <2>7, <2>8
  <1>. QED
    BY <1>3, <1>4, <1>5

\* The first row takes the lock; its table is in the file as CREATE INDEX left it.
LEMMA InsertKeepsPromise ==
  ASSUME NEW w \in Writers, Writers = {w}, IInv, RunsInv, HoldsSome(w), InsertRow(w)
  PROVE  [Promise!Next]_(Promise!vars) /\ HoldsSome(w)'
  <1>1. /\ Single(w) /\ TheRun = w /\ pc[w] = "insert" /\ pc[w] \notin Ended
        /\ lock[w] \in Locks /\ lock[w] # "shared"
        /\ w \in Conns /\ DBTypeOK /\ k[w] \in Tables /\ Tables \subseteq Nat
        /\ UNCHANGED <<file, k, pc>>
    BY PromiseFacts, SingleFacts DEF InsertRow, StepInsert, Working, Ended, Tables
  <1>2. lock'[w] \in Writing
    BY <1>1 DEF InsertRow, StepInsert, DBTypeOK, Writing
  <1>3. priv'[w].tab = With(w, [Current(w) EXCEPT !.rows = Append(@, <<w, row_id[w] + 1>>)])
    BY <1>1 DEF InsertRow, StepInsert, DBTypeOK, Image
  <1>4. /\ priv'[w].tab[k[w]].rows # <<>>
        /\ \A t \in Tables \ {k[w]} : priv'[w].tab[t] = View(w).tab[t]
    <2>1. View(w).tab \in [Tables -> Table] /\ Current(w) \in Table
      BY <1>1, ViewType DEF Current
    <2>2. priv'[w].tab[k[w]].rows = Append(Current(w).rows, <<w, row_id[w] + 1>>)
      BY <1>1, <1>3, <2>1 DEF With, Table
    <2>3. Append(Current(w).rows, <<w, row_id[w] + 1>>) # <<>>
      BY <2>1 DEF Table
    <2>. QED
      BY <1>1, <1>3, <2>1, <2>2, <2>3 DEF With
  <1>5. priv'[w].tab[k[w]] # Indexed
    BY <1>4 DEF Indexed
  <1>6. CASE lock[w] \in Writing
    <2>1. PICK n : Holds(w, n)
      BY <1>6 DEF HoldsSome
    <2>2. n \in Tables /\ n <= k[w]
      BY <2>1 DEF Holds
    <2>3. priv'[w].tab[n] # Indexed
      BY <1>4, <1>5, <1>6, <2>1, <2>2 DEF Holds, View
    <2>4. \A t \in Tables : t < n \/ t < k[w] => priv'[w].tab[t] = priv[w].tab[t]
      <3>1. \A t \in Tables : t < n \/ t < k[w] => t # k[w]
        BY <1>1, <2>2, NumTablesAssumption DEF Tables
      <3>. QED
        BY <1>4, <1>6, <3>1 DEF View
    <2>5. Holds(w, n)'
      BY <1>1, <2>1, <2>2, <2>3, <2>4 DEF Holds, Full, AllRows, FirstRows
    <2>. QED
      BY <1>1, <1>2, <1>6, <2>1, <2>5, HoldingStep
  <1>7. CASE lock[w] \notin Writing
    <2>1. lock[w] = "none"
      BY <1>1, <1>7 DEF Locks, Writing
    <2>2. file.tab[k[w]] = Indexed
      <3>1. file.tab[k[w]] = [Indexed EXCEPT !.rows = FirstRows(w, 0)]
        BY <1>1, <2>1, PromiseFacts DEF Working, ExpectedTable
      <3>2. [Indexed EXCEPT !.rows = FirstRows(w, 0)] = Indexed
        BY FirstRowsEmpty DEF Indexed
      <3>. QED
        BY <3>1, <3>2
    <2>3. Holds(w, k[w])'
      <3>1. \A t \in Tables : t < k[w] => t # k[w]
        BY <1>1, NumTablesAssumption DEF Tables
      <3>2. \A t \in Tables : ~(k[w] <= t /\ t < k[w])
        BY <1>1, NumTablesAssumption DEF Tables
      <3>3. k[w] <= k[w]
        BY <1>1, NumTablesAssumption DEF Tables
      <3>4. \A t \in Tables : t < k[w] => priv'[w].tab[t] = file.tab[t]
        BY <1>4, <1>7, <3>1 DEF View
      <3>. QED
        BY <1>1, <1>5, <2>2, <3>2, <3>3, <3>4 DEF Holds
    <2>4. NextReplaced(w) = k[w]
      BY <1>1, <1>7 DEF NextReplaced
    <2>5. NextReplaced(w)' = k[w]
      BY <1>1, <1>2, <2>3, HeldIsNextAfter
    <2>. QED
      BY <1>1, <2>3, <2>4, <2>5, HiddenStep DEF HoldsSome
  <1>. QED
    BY <1>6, <1>7

\* END: what is committed, or lost, are the tables that the transaction holds.
LEMMA EndKeepsPromise ==
  ASSUME NEW w \in Writers, Writers = {w}, IInv, RunsInv, HoldsSome(w), EndTransaction(w)
  PROVE  [Promise!Next]_(Promise!vars) /\ HoldsSome(w)'
  <1>1. /\ Single(w) /\ TheRun = w /\ DBTypeOK /\ w \in Conns
        /\ file.tab \in [Tables -> Table]
        /\ lock[w] \in Locks /\ lock[w] # "shared"
        /\ k[w] \in Tables /\ NumTables \in Nat /\ k[w] \in Nat
        /\ pc[w] = "insert" /\ pc[w] \notin Ended
    BY PromiseFacts, SingleFacts DEF EndTransaction, Working, Ended
  <1>2. k'[w] = k[w] + 1 /\ pc'[w] \in {"drop", "close"} /\ pc'[w] \notin Ended
    BY <1>1, SingleFacts DEF EndTransaction, NextTable, Goto, Ended
  <1>3. View(w).tab[k[w]] = Full(w, k[w])
    <2>1. View(w).tab[k[w]] = [Indexed EXCEPT !.rows = FirstRows(w, row_id[w])]
      BY <1>1 DEF Single, SingleRun, ViewOK, Current, ExpectedTable, Working
    <2>. QED
      BY <1>1, <2>1 DEF EndTransaction, Indexed, Full, AllRows
  \* The tables that END is about.
  <1>4. PICK n \in Tables :
          /\ n <= k[w] /\ NextReplaced(w) = n
          /\ file.tab[n] = Indexed
          /\ \A t \in Tables : /\ t < n => View(w).tab[t] = file.tab[t]
                               /\ n <= t /\ t <= k[w] => View(w).tab[t] = Full(w, t)
          /\ lock[w] \in Writing => Holds(w, n)
    <2>1. CASE lock[w] \in Writing
      <3>1. PICK n : Holds(w, n)
        BY <2>1 DEF HoldsSome
      <3>2. NextReplaced(w) = n
        BY <1>1, <2>1, <3>1, HeldIsNext
      <3>3. \A t \in Tables : t <= k[w] => t < k[w] \/ t = k[w]
        BY <1>1 DEF Tables
      <3>. QED
        BY <1>3, <2>1, <3>1, <3>2, <3>3 DEF Holds, View
    <2>2. CASE lock[w] \notin Writing
      <3>1. NextReplaced(w) = k[w] /\ View(w) = file
        BY <1>1, <2>2 DEF NextReplaced, View
      <3>2. file.tab[k[w]] = Indexed
        <4>1. file.tab[k[w]] = [Indexed EXCEPT !.rows = FirstRows(w, 0)]
          BY <1>1, <2>2, PromiseFacts DEF Working, Locks, Writing, ExpectedTable
        <4>. QED
          BY <4>1, FirstRowsEmpty DEF Indexed
      <3>3. \A t \in Tables : k[w] <= t /\ t <= k[w] => t = k[w]
        BY <1>1 DEF Tables
      <3>. QED
        BY <1>1, <1>3, <2>2, <3>1, <3>2, <3>3
    <2>. QED
      BY <2>1, <2>2
  <1>5. n \in Nat /\ n <= k[w] /\ n <= NumTables /\ k[w] <= NumTables
    BY <1>1, <1>4 DEF Tables
  <1>6. CASE CommitBusy(w)
    <2>1. UNCHANGED <<file, priv>> /\ lock[w] \in Writing /\ lock'[w] \in Writing
      BY <1>1, <1>6 DEF CommitBusy, DBTypeOK, Writing
    <2>2. View(w) = priv[w]
      BY <2>1 DEF View
    <2>3. n < k'[w] /\ n <= k'[w] /\ \A t \in Tables : t < k'[w] => t <= k[w]
      BY <1>1, <1>2, <1>5 DEF Tables
    <2>4. priv[w].tab[n] # Indexed
      BY <1>4, <2>1 DEF Holds
    <2>5. Holds(w, n)'
      BY <1>4, <2>1, <2>2, <2>3, <2>4 DEF Holds, Full, AllRows, FirstRows
    <2>. QED
      BY <1>1, <1>2, <1>4, <2>1, <2>5, HoldingStep
  <1>7. CASE CommitOK(w) \/ (IOErrors /\ CommitError(w))
    <2>1. lock'[w] = "none"
      BY <1>1, <1>7 DEF CommitOK, CommitError, Rollback, DBTypeOK
    <2>2. NextReplaced(w)' = k[w] + 1 /\ HoldsSome(w)'
      BY <1>2, <2>1 DEF NextReplaced, HoldsSome, Writing
    <2>3. Promise!PassTo(k[w])
      BY <1>1, <1>4, <2>2 DEF Promise!PassTo
    <2>4. CASE IOErrors /\ CommitError(w)
      BY <1>1, <2>2, <2>3, <2>4 DEF CommitError, Rollback, Promise!Next, Promise!Lose, Tables
    <2>5. CASE CommitOK(w)
      <3>1. file' = View(w)
        BY <2>5 DEF CommitOK, View
      <3>2. file'.tab \in [Tables -> Table]
        BY <1>1, <3>1, ViewType
      <3>3. \A t \in Tables : file'.tab[t] = IF t \in n..k[w] THEN Full(w, t) ELSE file.tab[t]
        <4>. SUFFICES ASSUME NEW t \in Tables
                      PROVE  View(w).tab[t] = IF t \in n..k[w] THEN Full(w, t) ELSE file.tab[t]
          BY <3>1
        <4>1. t > k[w] => View(w).tab[t] = file.tab[t]
          BY <1>1 DEF Single, SingleRun, ViewOK, Working
        <4>. QED
          BY <1>1, <1>4, <1>5, <4>1 DEF Tables
      <3>4. file'.tab = [t \in 1..NumTables |-> IF t \in n..k[w]
                                                THEN [u \in Tables |-> Full(w, u)][t] ELSE file.tab[t]]
        BY <3>2, <3>3 DEF Tables
      <3>5. Promise!Publish(k[w])
        BY <1>1, <1>4, <2>3, <3>4 DEF Promise!Publish
      <3>. QED
        BY <1>1, <2>2, <3>5 DEF Promise!Next, Tables
    <2>. QED
      BY <1>7, <2>4, <2>5
  <1>. QED
    BY <1>6, <1>7 DEF EndTransaction

LEMMA StepKeepsPromise ==
  ASSUME NEW w \in Writers, Writers = {w}, IInv, RunsInv, HoldsSome(w), [Next]_vars
  PROVE  [Promise!Next]_(Promise!vars) /\ HoldsSome(w)'
  <1>1. /\ TheRun = w /\ w \in Conns /\ DBTypeOK /\ pc \in [Writers -> States]
        /\ k \in [Writers -> Nat] /\ NumTables \in Nat
        /\ lock[w] \in Writing => pc[w] \notin Ended
    BY PromiseFacts, SingleFacts
  <1>2. ASSUME UNCHANGED <<file, k, pc>>, lock'[w] = lock[w], priv'[w] = priv[w]
        PROVE  [Promise!Next]_(Promise!vars) /\ HoldsSome(w)'
    <2>1. UNCHANGED NextReplaced(w)
      BY <1>2 DEF NextReplaced, Uncommitted
    <2>2. HoldsSome(w)'
      BY <1>2 DEF HoldsSome, Holds, Full, AllRows, FirstRows
    <2>. QED
      BY <1>1, <1>2, <2>1, <2>2, HiddenStep
  <1>3. CASE Run(w)
    <2>1. CASE Open(w)
      <3>1. lock[w] \notin Writing /\ pc[w] \notin Ended
        BY <1>1, <2>1, PromiseFacts DEF Open, Single, SingleRun, TransactionOK, Ended
      <3>2. pc'[w] \notin Ended
        BY <1>1, <2>1 DEF Open, Goto, Ended
      <3>. QED
        BY <1>1, <2>1, <3>1, <3>2, FreeStep DEF Open, dbVars
    <2>2. CASE BeginTransaction(w)
      <3>1. /\ UNCHANGED <<file, lock, priv, k>> /\ pc[w] = "begin" /\ pc'[w] = "insert"
            /\ pc[w] \notin Ended /\ pc'[w] \notin Ended
        BY <1>1, <2>2 DEF BeginTransaction, ExecBegin, Goto, Ended
      <3>2. CASE lock[w] \notin Writing
        BY <1>1, <3>1, <3>2, FreeStep
      <3>3. CASE lock[w] \in Writing
        <4>1. PICK n : Holds(w, n)
          BY <3>3 DEF HoldsSome
        <4>2. Holds(w, n)'
          BY <3>1, <4>1 DEF Holds, Full, AllRows, FirstRows
        <4>. QED
          BY <1>1, <3>1, <3>3, <4>1, <4>2, HoldingStep
      <3>. QED
        BY <3>2, <3>3
    <2>3. CASE CloseDatabase(w) \/ Exit1(w)
      BY <1>1, <2>3, StopKeepsPromise DEF CloseDatabase, Exit1, Rollback, Goto, DBTypeOK, Ended
    <2>. QED
      BY <1>3, <2>1, <2>2, <2>3, StatementKeepsPromise, InsertKeepsPromise, EndKeepsPromise DEF Run
  <1>4. CASE Crash(w)
    BY <1>1, <1>4, StopKeepsPromise DEF Crash, Rollback, Goto, DBTypeOK, Ended
  <1>5. ASSUME NEW r \in Readers, Query(r) \/ Finalize(r)
        PROVE  [Promise!Next]_(Promise!vars) /\ HoldsSome(w)'
    <2>1. UNCHANGED <<file, k, pc>> /\ lock'[w] = lock[w] /\ priv'[w] = priv[w]
      BY <1>1, <1>5, ReadersAreOthers DEF Query, Finalize, StepSelect, EndSelect, DBTypeOK
    <2>. QED
      BY <1>2, <2>1
  <1>6. CASE UNCHANGED vars
    BY <1>2, <1>6 DEF vars, dbVars
  <1>. QED
    BY <1>3, <1>4, <1>5, <1>6 DEF Next, AllEnded

\* Whatever the readers and the disk do to the transactions of a single run, and
\* wherever it ends: every change of the file drops, creates or indexes the next
\* table, or completes it and perhaps some after it; and only if the disk fails
\* does the run go on without them (populate_db.cpp:625-642).
THEOREM KeepsPromiseHolds ==
  ASSUME NEW w \in Writers, Writers = {w}
  PROVE  Spec => KeepsPromise
  <1>1. Init => Promise!Init /\ HoldsSome(w)
    <2>1. TheRun = w
      BY DEF TheRun
    <2>. QED
      BY <2>1, WritersAssumption DEF Init, DBInit, Promise!Init, NextReplaced, HoldsSome, Writing, Ended
  <1>2. IInv /\ RunsInv /\ HoldsSome(w) /\ [Next]_vars
          => [Promise!Next]_(Promise!vars) /\ HoldsSome(w)'
    BY StepKeepsPromise
  <1>. QED
    BY <1>1, <1>2, IInvHolds, RunsInvHolds, PTL DEF Spec, KeepsPromise, Promise!Spec

-----------------------------------------------------------------------------
(* What an exit with 0 tells.                                              *)

LEMMA CloseKeepsFirst ==
  ASSUME NEW w \in Writers, Writers = {w}, ~IOErrors, IInv, RunsInv, HoldsSome(w), pc[w] = "close"
  PROVE  \E n \in 1..(NumTables + 1) : \A t \in Tables :
            file.tab[t] = IF t < n THEN Full(w, t) ELSE IF t = n THEN Indexed ELSE base[w].tab[t]
  <1>1. /\ lock[w] \in Locks /\ lock[w] # "shared" /\ FileInOrder(w)
        /\ SingleRun(w) /\ k[w] = NumTables + 1 /\ published[w] \in Nat /\ NumTables \in Nat
    BY PromiseFacts, SingleFacts, NumTablesAssumption
    DEF Single, SingleRun, ViewOK, Typed, TypeOK, IInv, RunsInv
  <1>2. \A t \in Tables : t \in Nat /\ t < k[w] /\ View(w).tab[t] = Full(w, t)
    BY <1>1 DEF SingleRun, CompleteOK, Tables
  <1>3. CASE lock[w] = "none"
    <2>1. View(w) = file
      BY <1>3 DEF View, Writing
    <2>. QED
      BY <1>1, <1>2, <2>1
  <1>4. CASE lock[w] \in Writing
    <2>1. View(w) = priv[w]
      BY <1>4 DEF View
    <2>2. PICK n : Holds(w, n)
      BY <1>4 DEF HoldsSome
    <2>3. n \in Tables /\ n \in 1..(NumTables + 1)
      BY <1>1, <2>2 DEF Holds, Tables
    <2>4. published[w] < n
      <3>1. n <= published[w] => file.tab[n] = priv[w].tab[n]
        BY <1>1, <1>2, <2>1, <2>3 DEF SingleRun, ViewOK
      <3>. QED
        BY <1>1, <2>2, <2>3, <3>1 DEF Holds, Tables
    <2>5. ASSUME NEW t \in Tables
          PROVE  file.tab[t] = IF t < n THEN Full(w, t) ELSE IF t = n THEN Indexed ELSE base[w].tab[t]
      <3>1. CASE t < n
        BY <1>2, <2>1, <2>2, <3>1 DEF Holds
      <3>2. CASE t = n
        BY <2>2, <3>2 DEF Holds, Tables
      <3>3. CASE t > n
        <4>1. t > published[w] + 1
          BY <1>1, <1>2, <2>3, <2>4, <3>3 DEF Tables
        <4>. QED
          BY <1>1, <1>2, <2>3, <3>3, <4>1 DEF FileInOrder, Tables
      <3>. QED
        BY <1>2, <2>3, <3>1, <3>2, <3>3 DEF Tables
    <2>. QED
      BY <2>3, <2>5
  <1>. QED
    BY <1>1, <1>3, <1>4 DEF Locks, Writing

LEMMA StepKeepsFirst ==
  ASSUME NEW w \in Writers, Writers = {w}, IInv, RunsInv, HoldsSome(w), ExitKeepsFirst, [Next]_vars
  PROVE  ExitKeepsFirst'
  <1>. SUFFICES ASSUME ~IOErrors, pc'[w] = "exit0"
                PROVE  \E n \in 1..(NumTables + 1) : \A t \in Tables :
                          file'.tab[t] = IF t < n THEN Full(w, t)
                                         ELSE IF t = n THEN Indexed ELSE base'[w].tab[t]
    BY DEF ExitKeepsFirst, Full, AllRows, FirstRows, Indexed, Tables
  <1>1. pc \in [Writers -> States]
    BY DEF IInv, TypeOK
  <1>2. CASE pc[w] = "exit0"
    <2>1. UNCHANGED <<file, base>>
      BY <1>2, IOErrorsAssumption
      DEF Next, Run, Open, DropTable, CreateTable, DropIndex, CreateIndex, BeginTransaction,
          InsertRow, EndTransaction, CloseDatabase, Exit1, StatementFails, Statements, Crash, Ended,
          Query, Finalize, StepSelect, EndSelect, AllEnded, vars, dbVars
    <2>. QED
      BY <1>2, <2>1 DEF ExitKeepsFirst
  <1>3. CASE pc[w] # "exit0"
    <2>1. CloseDatabase(w)
      BY <1>1, <1>3
      DEF Next, Run, Open, DropTable, CreateTable, DropIndex, CreateIndex, BeginTransaction,
          InsertRow, EndTransaction, NextTable, Exit1, Crash, Goto,
          Query, Finalize, AllEnded, vars
    <2>2. pc[w] = "close" /\ UNCHANGED <<file, base>>
      BY <2>1 DEF CloseDatabase, Rollback
    <2>. QED
      BY <2>2, CloseKeepsFirst
  <1>. QED
    BY <1>2, <1>3

\* An exit with 0 of a single run, without I/O errors but beside any number of
\* readers: the new tables are the first ones, the next one is empty and the
\* others are as they were; none is missing (populate_db.cpp:93, 638-642).
THEOREM ExitKeepsFirstHolds == Spec => []ExitKeepsFirst
  <1>1. CASE \A w \in Writers : Writers # {w}
    <2>1. ExitKeepsFirst
      BY <1>1 DEF ExitKeepsFirst
    <2>. QED
      BY <2>1, PTL
  <1>2. ASSUME NEW w \in Writers, Writers = {w}
        PROVE  Spec => []ExitKeepsFirst
    <2>1. Init => HoldsSome(w) /\ ExitKeepsFirst
      BY WritersAssumption DEF Init, DBInit, HoldsSome, Writing, ExitKeepsFirst
    <2>2. IInv /\ RunsInv /\ HoldsSome(w) /\ ExitKeepsFirst /\ [Next]_vars
            => HoldsSome(w)' /\ ExitKeepsFirst'
      BY <1>2, StepKeepsPromise, StepKeepsFirst
    <2>. QED
      BY <2>1, <2>2, IInvHolds, RunsInvHolds, PTL DEF Spec
  <1>. QED
    BY <1>1, <1>2
==============================================================================
