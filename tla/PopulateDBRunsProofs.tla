------------------------- MODULE PopulateDBRunsProofs -------------------------
(***************************************************************************)
(* Proofs about several runs of populate_db on one file, for any number of *)
(* runs, readers, tables and rows: the rows of a run are in a table all    *)
(* together or not at all.                                                 *)
(***************************************************************************)
EXTENDS PopulateDBProofs

-----------------------------------------------------------------------------
(* Rows. *)

LEMMA MineEmpty == \A w, t : Mine(<<>>, w, t) = {}
  BY DEF Mine

\* Tables that are emptied or left alone stay in order, the more so if fewer
\* of them are looked at.
LEMMA RowsOKMono ==
  ASSUME NEW tab, NEW tab2, NEW w, NEW T, NEW T2, NEW A, NEW A2,
         RowsOK(tab, w, T, A), T2 \subseteq T, A2 \subseteq A,
         \A t \in T2 : tab2[t].rows = tab[t].rows \/ tab2[t].rows = <<>>
  PROVE  RowsOK(tab2, w, T2, A2)
  BY MineEmpty DEF RowsOK, AllOrNone

\* A row of another run is not counted.
LEMMA AppendOther ==
  ASSUME NEW rows \in Seq(Rows), NEW w, NEW v, v # w, NEW n, NEW t \in Tables, NEW row \in Rows,
         row = <<w, n>>
  PROVE  /\ Mine(Append(rows, row), v, t) = Mine(rows, v, t)
         /\ AllOrNone(rows, v, t) => AllOrNone(Append(rows, row), v, t)
  <1>. DEFINE more == Append(rows, row)
  <1>1. /\ Len(rows) \in Nat /\ DOMAIN rows = 1..Len(rows) /\ DOMAIN more = 1..(Len(rows) + 1)
        /\ Len(more) = Len(rows) + 1
        /\ \A i \in 1..Len(rows) : more[i] = rows[i]
        /\ more[Len(rows) + 1] = row
        /\ NumRows[t] \in Nat
    BY NumRowsAssumption
  <1>2. Mine(more, v, t) = Mine(rows, v, t)
    BY <1>1 DEF Mine
  <1>3. ASSUME NEW i \in 0..Len(rows), FirstAt(rows, v, t, i, NumRows[t])
        PROVE  FirstAt(more, v, t, i, NumRows[t])
    <2>1. (i + 1)..(i + NumRows[t]) \subseteq 1..Len(rows)
      BY <1>3, <1>1 DEF FirstAt, Mine
    <2>2. \A j \in 1..NumRows[t] : i + j \in (i + 1)..(i + NumRows[t])
      BY <1>1
    <2>. QED
      BY <1>1, <1>2, <1>3, <2>1, <2>2 DEF FirstAt
  <1>4. 0..Len(rows) \subseteq 0..Len(more)
    BY <1>1
  <1>. QED
    BY <1>2, <1>3, <1>4 DEF AllOrNone

\* The next row of the run itself goes after its others.
LEMMA AppendOwn ==
  ASSUME NEW rows \in Seq(Rows), NEW w, NEW t \in Tables, NEW n \in Nat, n < NumRows[t],
         n <= Len(rows), FirstAt(rows, w, t, Len(rows) - n, n),
         NEW row \in Rows, row = <<w, n + 1>>
  PROVE  FirstAt(Append(rows, row), w, t, Len(rows) - n, n + 1)
  <1>. DEFINE more == Append(rows, row)
  <1>1. /\ Len(rows) \in Nat /\ DOMAIN rows = 1..Len(rows) /\ DOMAIN more = 1..(Len(rows) + 1)
        /\ \A i \in 1..Len(rows) : more[i] = rows[i]
        /\ more[Len(rows) + 1] = row
    OBVIOUS
  <1>2. NumRows[t] \in Nat /\ n + 1 \in 1..NumRows[t]
    BY NumRowsAssumption
  <1>3. Mine(more, w, t) = Mine(rows, w, t) \cup {Len(rows) + 1}
    BY <1>1, <1>2 DEF Mine
  <1>4. Mine(more, w, t) = (Len(rows) - n + 1)..(Len(rows) - n + (n + 1))
    <2>1. Mine(rows, w, t) = (Len(rows) - n + 1)..(Len(rows) - n + n)
      BY DEF FirstAt
    <2>2. \A x : x \in (Len(rows) - n + 1)..(Len(rows) - n + (n + 1))
                <=> x \in (Len(rows) - n + 1)..(Len(rows) - n + n) \/ x = Len(rows) + 1
      BY <1>1
    <2>. QED
      BY <1>3, <2>1, <2>2
  <1>5. ASSUME NEW j \in 1..(n + 1) PROVE more[Len(rows) - n + j] = <<w, j>>
    <2>1. CASE j = n + 1
      BY <1>1, <2>1
    <2>2. CASE j \in 1..n
      BY <1>1, <2>2 DEF FirstAt
    <2>. QED
      BY <2>1, <2>2
  <1>. QED
    BY <1>4, <1>5 DEF FirstAt

\* Before its first row a run has none.
LEMMA NoneInserted ==
  ASSUME NEW rows \in Seq(Rows), NEW w, NEW t, Mine(rows, w, t) = {}
  PROVE  0 <= Len(rows) /\ FirstAt(rows, w, t, Len(rows) - 0, 0)
  <1>. DEFINE n == Len(rows)
  <1>1. n \in Nat
    OBVIOUS
  <1>. HIDE DEF n
  <1>2. (n - 0 + 1)..(n - 0 + 0) = {} /\ 1..0 = {} /\ 0 <= n
    BY <1>1
  <1>. QED
    BY <1>2 DEF n, FirstAt

-----------------------------------------------------------------------------
(* One step of a run, and what the others see of it.                       *)

\* What the invariant says of each run by itself.
Own(w) == TransactionOK(w) /\ NewerOK(w) /\ PreparedOK(w) /\ CountOK(w) /\ InsertedOK(w)

\* The step changes nothing of the other connections.
Frame(w) ==
  /\ \A v \in Writers \ {w} :
        /\ pc'[v] = pc[v] /\ k'[v] = k[v] /\ row_id'[v] = row_id[v]
        /\ priv'[v] = priv[v] /\ lock'[v] = lock[v] /\ txn'[v] = txn[v] /\ cookie'[v] = cookie[v]
  /\ \A r \in Readers : lock'[r] = lock[r] /\ txn'[r] = txn[r]

\* It changes the file only if nobody else has a lock, and then the cookie
\* tells whether the schema is another one.
FileStep(w) ==
  \/ file' = file
  \/ /\ ExclusiveAvailable(w)
     /\ file'.cookie > file.cookie
  \/ /\ ExclusiveAvailable(w)
     /\ file'.cookie = file.cookie
     /\ \A t \in Tables : file'.tab[t].exists = file.tab[t].exists

\* It begins to write only if nobody else does.
LockStep(w) == lock'[w] \in Writing => lock[w] \in Writing \/ ReservedAvailable(w)

\* It has no more tables ahead than before, and leaves the rows in order.
RowsStep(w) ==
  /\ Ahead(w)' \subseteq Ahead(w)
  /\ \A v \in Writers : RowsOK(file'.tab, v, Tables, Ahead(v)')
  /\ lock'[w] \in Writing =>
        \A v \in Writers : RowsOK(priv'[w].tab, v, Settled(w, v)', Ahead(v)')

LEMMA RunsFacts ==
  ASSUME RunsInv
  PROVE  /\ Typed /\ DBTypeOK /\ Whole(file) /\ Writers \subseteq Conns /\ Tables = 1..NumTables
         /\ file.cookie \in Nat /\ \A w \in Writers : cookie[w] \in Nat /\ priv[w] \in Image
         /\ \A w \in Writers : Own(w) /\ k[w] \in Nat /\ row_id[w] \in Nat /\ pc[w] \in States
         /\ \A w \in Writers : pc[w] \in Working => k[w] \in Tables
  BY WritersAssumption, NumTablesAssumption
  DEF RunsInv, Typed, TypeOK, DBTypeOK, Own, WorkingOnTable, Tables, Image

LEMMA OthersKeep ==
  ASSUME RunsInv, NEW w \in Writers, Frame(w), FileStep(w), Typed',
         NEW v \in Writers \ {w}
  PROVE  Own(v)'
  <1>1. /\ v \in Writers /\ v \in Conns \ {w} /\ Own(v)
        /\ pc'[v] = pc[v] /\ k'[v] = k[v] /\ row_id'[v] = row_id[v]
        /\ priv'[v] = priv[v] /\ lock'[v] = lock[v] /\ txn'[v] = txn[v] /\ cookie'[v] = cookie[v]
    BY RunsFacts DEF Frame
  <1>2. TransactionOK(v)' /\ CountOK(v)' /\ InsertedOK(v)'
    BY <1>1 DEF Own, TransactionOK, CountOK, InsertedOK, FirstAt, Mine
  <1>3. CASE file' = file
    BY <1>1, <1>2, <1>3 DEF Own, NewerOK, PreparedOK, Whole, Dropped
  <1>4. CASE ExclusiveAvailable(w) /\ file' # file
    <2>1. lock[v] = "none"
      BY <1>1, <1>4 DEF ExclusiveAvailable
    <2>2. NewerOK(v)'
      BY <1>1, <2>1 DEF NewerOK, Writing
    <2>3. /\ file.cookie \in Nat /\ cookie[v] \in Nat
          /\ pc[v] \in {"begin", "insert"} => k[v] \in Tables
      BY <1>1, RunsFacts DEF Working
    <2>4. file'.cookie \in Nat
      BY DEF Typed, TypeOK, DBTypeOK, Image
    <2>5. PreparedOK(v)'
      BY <1>1, <1>4, <2>1, <2>3, <2>4 DEF Own, PreparedOK, FileStep, Writing
    <2>. QED
      BY <1>2, <2>2, <2>5 DEF Own
  <1>. QED
    BY <1>3, <1>4 DEF FileStep

\* A step that keeps what concerns its own run keeps the invariant.
LEMMA StepKeeps ==
  ASSUME RunsInv, NEW w \in Writers, Frame(w), FileStep(w), LockStep(w), RowsStep(w),
         Typed', Own(w)', Whole(file)'
  PROVE  RunsInv'
  <1>1. \A v \in Writers : Own(v)'
    BY OthersKeep
  <1>2. ReadersOnlyRead'
    BY DEF RunsInv, ReadersOnlyRead, Frame
  <1>3. OneWriting'
    <2>1. \A v \in Writers \ {w} : v \in Conns \ {w} /\ lock'[v] = lock[v]
      BY WritersAssumption DEF Frame
    <2>. QED
      BY <2>1 DEF RunsInv, OneWriting, LockStep, ReservedAvailable
  <1>4. \A v \in Writers : Ahead(v)' \subseteq Ahead(v)
    BY DEF RowsStep, Frame, Ahead
  <1>5. ASSUME NEW v \in Writers, NEW u \in Writers, lock'[v] \in Writing
        PROVE  RowsOK(priv'[v].tab, u, Settled(v, u)', Ahead(u)')
    <2>1. CASE v = w
      BY <1>5, <2>1 DEF RowsStep
    <2>2. CASE v # w
      <3>1. /\ priv'[v] = priv[v] /\ lock'[v] = lock[v]
            /\ pc'[v] = pc[v] /\ k'[v] = k[v]
        BY <2>2 DEF Frame
      <3>2. Settled(v, u)' = Settled(v, u)
        BY <3>1 DEF Settled
      <3>3. RowsOK(priv[v].tab, u, Settled(v, u), Ahead(u))
        BY <1>5, <3>1 DEF RunsInv, PrivateRowsOK
      <3>. QED
        BY <1>4, <3>1, <3>2, <3>3, RowsOKMono
    <2>. QED
      BY <2>1, <2>2
  <1>6. FileRowsOK'
    BY DEF RowsStep, FileRowsOK, RowsOK, Tables
  <1>7. PrivateRowsOK'
    BY <1>5 DEF PrivateRowsOK, RowsOK
  <1>. QED
    BY <1>1, <1>2, <1>3, <1>6, <1>7 DEF RunsInv, Own, Typed

-----------------------------------------------------------------------------
(* The actions of a run.                                                   *)

\* Outside its inserts a run has a lock if and only if it has a transaction.
LEMMA LockFacts ==
  ASSUME RunsInv, NEW w \in Writers
  PROVE  /\ w \in Conns /\ lock[w] \in Locks \ {"shared"}
         /\ lock[w] \notin Writing => lock[w] = "none" /\ View(w) = file
         /\ lock[w] \in Writing => txn[w] /\ View(w) = priv[w]
         /\ txn[w] /\ pc[w] # "insert" => lock[w] \in Writing
         /\ View(w) \in Image /\ Whole(View(w))
         /\ pc[w] # "insert" => \A v \in Writers : RowsOK(View(w).tab, v, Tables, Ahead(v))
  <1>1. w \in Conns /\ DBTypeOK /\ TransactionOK(w) /\ NewerOK(w) /\ Whole(file)
    BY RunsFacts DEF Own
  <1>2. ASSUME pc[w] # "insert", NEW v \in Writers
        PROVE  RowsOK(View(w).tab, v, Tables, Ahead(v))
    BY <1>2 DEF RunsInv, FileRowsOK, PrivateRowsOK, Settled, View
  <1>. QED
    BY <1>1, <1>2, ViewType DEF DBTypeOK, TransactionOK, NewerOK, View, Locks, Writing

\* A step without effect on the file, between two statements.
LEMMA NothingRuns ==
  ASSUME RunsInv, NEW w \in Writers, Typed', UNCHANGED <<file, priv, lock, txn, k, row_id>>,
         pc[w] \notin {"insert"} \cup Ended,
         NEW state \in {"drop", "create", "createIndex", "close"}, Goto(w, state),
         \A v \in Writers \ {w} : cookie'[v] = cookie[v]
  PROVE  RunsInv'
  <1>1. /\ pc \in [Writers -> States] /\ pc'[w] = state /\ Own(w)
        /\ \A v \in Writers \ {w} : pc'[v] = pc[v]
    BY RunsFacts DEF Goto, Typed, TypeOK
  <1>2. Frame(w) /\ FileStep(w) /\ LockStep(w)
    BY <1>1 DEF Frame, FileStep, LockStep
  <1>3. Own(w)'
    BY <1>1 DEF Own, TransactionOK, NewerOK, Whole, Dropped, PreparedOK, CountOK, InsertedOK, Ended
  <1>4. \A v \in Writers : Ahead(v)' = Ahead(v)
    BY <1>1 DEF Ahead, Ended, Tables
  <1>5. \A v \in Writers : Settled(w, v)' = Settled(w, v)
    BY <1>1 DEF Settled, Tables
  <1>6. RowsStep(w)
    BY <1>4, <1>5 DEF RowsStep, RunsInv, FileRowsOK, PrivateRowsOK
  <1>7. Whole(file)'
    BY DEF RunsInv, Whole, Dropped, Tables
  <1>. QED
    BY <1>2, <1>3, <1>6, <1>7, StepKeeps

\* A statement that changes the current table, which may lose its rows.
LEMMA DDLRuns ==
  ASSUME RunsInv, NEW w \in Writers, Typed', pc[w] \in Statements,
         NEW contents, ExecDDL(w, With(w, contents)),
         contents.exists \/ contents = Dropped,
         contents.rows = Current(w).rows \/ contents.rows = <<>>,
         NEW state \in {"create", "dropIndex", "createIndex", "begin"}, Goto(w, state),
         state = "begin" => contents.exists,
         UNCHANGED <<k, row_id>>
  PROVE  RunsInv'
  <1>. DEFINE tab == With(w, contents)
             image == [tab |-> tab, cookie |-> View(w).cookie + 1]
  <1>1. /\ pc \in [Writers -> States] /\ pc'[w] = state /\ Own(w) /\ w \in Conns
        /\ \A v \in Writers \ {w} : v \in Conns /\ v # w /\ pc'[v] = pc[v]
        /\ k[w] \in Tables /\ DBTypeOK
        /\ pc[w] \notin {"insert"} \cup Ended
    BY RunsFacts DEF Goto, Typed, TypeOK, Statements, Working, Ended
  <1>2. /\ lock' = lock /\ txn' = txn /\ cookie'[w] = image.cookie
        /\ \A v \in Writers \ {w} : cookie'[v] = cookie[v] /\ priv'[v] = priv[v]
        /\ \/ lock[w] \in Writing /\ priv'[w] = image /\ file' = file
           \/ lock[w] = "none" /\ ExclusiveAvailable(w) /\ file' = image /\ priv' = priv
    BY <1>1, LockFacts DEF ExecDDL, DBTypeOK
  <1>3. /\ tab[k[w]] = contents
        /\ \A t \in Tables \ {k[w]} : tab[t] = View(w).tab[t]
        /\ View(w).cookie \in Nat
    BY <1>1, ViewType DEF With
  <1>4. Whole(image)
    BY <1>3, LockFacts DEF Whole
  <1>. HIDE DEF tab
  <1>5. /\ file.cookie \in Nat /\ priv[w].cookie \in Nat
        /\ lock[w] \in Writing => priv[w].cookie >= file.cookie /\ View(w) = priv[w]
        /\ lock[w] = "none" => View(w) = file
    BY <1>1, LockFacts, RunsFacts DEF Own, NewerOK, Image, Writing
  <1>6. Frame(w) /\ FileStep(w) /\ LockStep(w)
    BY <1>1, <1>2, <1>3, <1>5 DEF Frame, FileStep, LockStep
  <1>7. Own(w)'
    <2>1. TransactionOK(w)' /\ CountOK(w)' /\ InsertedOK(w)'
      BY <1>1, <1>2 DEF Own, TransactionOK, CountOK, InsertedOK, Ended
    <2>2. NewerOK(w)'
      BY <1>1, <1>2, <1>3, <1>4, <1>5 DEF NewerOK, Whole, Writing, Dropped, Tables
    <2>3. PreparedOK(w)'
      BY <1>1, <1>2, <1>3, <1>5 DEF PreparedOK, Writing
    <2>. QED
      BY <2>1, <2>2, <2>3 DEF Own
  <1>8. \A v \in Writers : /\ Ahead(v)' = Ahead(v)
                            /\ Settled(w, v)' = Tables /\ Settled(w, v) = Tables
    BY <1>1 DEF Ahead, Ended, Settled, Tables
  <1>9. \A t \in Tables : tab[t].rows = View(w).tab[t].rows \/ tab[t].rows = <<>>
    BY <1>3 DEF Current
  <1>10. \A v \in Writers : RowsOK(tab, v, Tables, Ahead(v))
    BY <1>1, <1>9, LockFacts, RowsOKMono
  <1>11. RowsStep(w)
    BY <1>2, <1>8, <1>10 DEF RowsStep, RunsInv, FileRowsOK, Writing
  <1>12. Whole(file)'
    BY <1>2, <1>4 DEF RunsInv, Whole, Dropped, Tables
  <1>. QED
    BY <1>6, <1>7, <1>11, <1>12, StepKeeps

LEMMA BeginRuns ==
  ASSUME RunsInv, NEW w \in Writers, Typed', BeginTransaction(w)
  PROVE  RunsInv'
  <1>1. /\ pc \in [Writers -> States] /\ pc[w] = "begin" /\ pc'[w] = "insert" /\ Own(w)
        /\ \A v \in Writers \ {w} : pc'[v] = pc[v]
        /\ k[w] \in Tables /\ w \in Conns /\ DBTypeOK
        /\ UNCHANGED <<file, priv, lock, cookie, k, row_id>>
        /\ txn' = [txn EXCEPT ![w] = TRUE]
    BY RunsFacts DEF BeginTransaction, ExecBegin, Goto, Typed, TypeOK, Working
  <1>2. \A v \in Writers \ {w} : v \in Conns
    BY WritersAssumption
  <1>3. \A r \in Readers : r \in Conns \ {w}
    BY DEF Readers
  <1>4. Frame(w) /\ FileStep(w) /\ LockStep(w)
    BY <1>1, <1>2, <1>3 DEF Frame, FileStep, LockStep, DBTypeOK
  <1>5. lock[w] \in Writing =>
           /\ row_id[w] = 0 /\ Mine(priv[w].tab[k[w]].rows, w, k[w]) = {}
           /\ priv[w].tab[k[w]].rows \in Seq(Rows)
    <2>1. k[w] \in Ahead(w)
      BY <1>1 DEF Ahead, Ended, Tables
    <2>2. lock[w] \in Writing => RowsOK(priv[w].tab, w, Tables, Ahead(w))
      BY <1>1, LockFacts
    <2>3. priv[w].tab[k[w]] \in Table
      BY <1>1 DEF DBTypeOK, Image
    <2>. QED
      BY <1>1, <2>1, <2>2, <2>3 DEF Own, CountOK, RowsOK, Ended, Table
  <1>6. Own(w)'
    <2>1. TransactionOK(w)' /\ NewerOK(w)' /\ PreparedOK(w)'
      BY <1>1 DEF Own, TransactionOK, NewerOK, PreparedOK, Whole, Dropped, DBTypeOK, Ended
    <2>2. CountOK(w)'
      BY <1>1 DEF Own, CountOK, Ended
    <2>3. InsertedOK(w)'
      <3>. DEFINE rows == priv[w].tab[k[w]].rows
      <3>1. lock[w] \in Writing => 0 <= Len(rows) /\ FirstAt(rows, w, k[w], Len(rows) - 0, 0)
        BY <1>5, NoneInserted
      <3>. QED
        BY <1>1, <1>5, <3>1 DEF InsertedOK, FirstAt, Mine
    <2>. QED
      BY <2>1, <2>2, <2>3 DEF Own
  <1>7. \A v \in Writers : /\ Ahead(v)' = Ahead(v)
                            /\ Settled(w, v)' \subseteq Tables /\ Settled(w, v) = Tables
    BY <1>1 DEF Ahead, Ended, Settled, Tables
  <1>8. RowsStep(w)
    <2>1. ASSUME NEW v \in Writers, lock'[w] \in Writing
          PROVE  RowsOK(priv'[w].tab, v, Settled(w, v)', Ahead(v)')
      BY <1>1, <1>7, <2>1 DEF RunsInv, PrivateRowsOK, RowsOK
    <2>. QED
      BY <1>1, <1>7, <2>1 DEF RowsStep, RunsInv, FileRowsOK
  <1>9. Whole(file)'
    BY <1>1 DEF RunsInv, Whole, Dropped, Tables
  <1>. QED
    BY <1>4, <1>6, <1>8, <1>9, StepKeeps

LEMMA InsertRuns ==
  ASSUME RunsInv, NEW w \in Writers, Typed', InsertRow(w)
  PROVE  RunsInv'
  <1>. DEFINE n == row_id[w]
             t0 == k[w]
             row == <<w, n + 1>>
             rows == Current(w).rows
             contents == [Current(w) EXCEPT !.rows = Append(rows, row)]
             tab == With(w, contents)
  <1>1. /\ pc[w] = "insert" /\ pc' = pc /\ Own(w) /\ w \in Conns /\ DBTypeOK
        /\ t0 \in Tables /\ n \in Nat /\ n < NumRows[t0] /\ NumRows[t0] \in Nat
        /\ UNCHANGED <<file, txn, cookie, k>> /\ row_id' = [row_id EXCEPT ![w] = n + 1]
        /\ row_id \in [Writers -> Nat]
    BY RunsFacts, NumRowsAssumption DEF InsertRow, StepInsert, Typed, TypeOK, Working
  <1>2. row \in Rows /\ n + 1 \in 1..NumRows[t0]
    BY <1>1, RowsAssumption
  <1>3. Current(w) \in Table /\ rows \in Seq(Rows) /\ Current(w) = View(w).tab[t0]
    BY <1>1, CurrentType DEF Table, Current
  <1>4. /\ contents.rows = Append(rows, row) /\ contents.exists = Current(w).exists
        /\ tab[t0] = contents
        /\ \A t \in Tables \ {t0} : tab[t] = View(w).tab[t]
    BY <1>1, <1>3, ViewType DEF With, Table
  <1>5. /\ priv' = [priv EXCEPT ![w] = [View(w) EXCEPT !.tab = tab]]
        /\ lock'[w] \in Writing
        /\ \A c \in Conns \ {w} : lock'[c] = lock[c] /\ priv'[c] = priv[c]
        /\ CanWrite(w)
    <2>1. StepInsert(w, tab)
      BY DEF InsertRow
    <2>. HIDE DEF tab
    <2>. QED
      BY <1>1, <2>1 DEF StepInsert, DBTypeOK
  <1>6. priv'[w].tab = tab /\ priv'[w].cookie = View(w).cookie
    BY <1>1, <1>5, ViewType DEF DBTypeOK, Image
  <1>. HIDE DEF contents, tab, row
  <1>7. Frame(w) /\ FileStep(w) /\ LockStep(w)
    <2>1. (\A v \in Writers \ {w} : v \in Conns \ {w}) /\ (\A r \in Readers : r \in Conns \ {w})
      BY WritersAssumption DEF Readers
    <2>. QED
      BY <1>1, <1>5, <2>1 DEF Frame, FileStep, LockStep, CanWrite
  <1>8. /\ Current(w).exists
        /\ \A t \in Tables : tab[t].exists = View(w).tab[t].exists
        /\ View(w).cookie >= file.cookie
        /\ View(w).cookie = file.cookie =>
              \A t \in Tables : View(w).tab[t].exists = file.tab[t].exists
    <2>1. Current(w).exists
      BY <1>1, <1>3, <1>5, LockFacts DEF Own, PreparedOK, CanWrite
    <2>2. file.cookie \in Nat
      BY RunsFacts
    <2>3. \A t \in Tables : tab[t].exists = View(w).tab[t].exists
      BY <1>3, <1>4
    <2>4. CASE lock[w] \in Writing
      BY <1>1, <2>1, <2>3, <2>4, LockFacts DEF Own, NewerOK
    <2>5. CASE lock[w] \notin Writing
      BY <2>1, <2>2, <2>3, <2>5, LockFacts
    <2>. QED
      BY <2>4, <2>5
  <1>9. /\ n <= Len(rows) /\ FirstAt(rows, w, t0, Len(rows) - n, n)
    <2>1. CASE lock[w] \in Writing
      BY <1>1, <1>3, <2>1, LockFacts DEF Own, InsertedOK
    <2>2. CASE lock[w] \notin Writing
      <3>1. n = 0
        BY <1>1, <2>2 DEF Own, CountOK, Ended
      <3>2. t0 \in Ahead(w)
        BY <1>1 DEF Ahead, Ended, Tables
      <3>3. Mine(rows, w, t0) = {}
        BY <1>1, <1>3, <2>2, <3>2, LockFacts DEF RunsInv, FileRowsOK, RowsOK
      <3>. QED
        BY <1>3, <3>1, <3>3, NoneInserted
    <2>. QED
      BY <2>1, <2>2
  <1>10. Own(w)'
    <2>1. TransactionOK(w)' /\ CountOK(w)'
      BY <1>1, <1>5 DEF Own, TransactionOK, CountOK, Writing, Ended
    <2>2. NewerOK(w)'
      <3>1. Whole(priv[w])'
        BY <1>4, <1>6, <1>8, LockFacts DEF Whole, Dropped, Tables
      <3>. QED
        BY <1>1, <1>6, <1>8, <3>1 DEF NewerOK, Tables
    <2>3. PreparedOK(w)'
      BY <1>1, <1>4, <1>5, <1>6, <1>8 DEF PreparedOK
    <2>4. InsertedOK(w)'
      <3>. DEFINE more == Append(rows, row)
      <3>1. FirstAt(more, w, t0, Len(rows) - n, n + 1)
        BY <1>1, <1>2, <1>3, <1>9, AppendOwn DEF row
      <3>2. Len(more) = Len(rows) + 1 /\ Len(rows) \in Nat
        BY <1>2, <1>3
      <3>3. /\ priv'[w].tab[k'[w]].rows = more /\ row_id'[w] = n + 1 /\ k'[w] = t0
        BY <1>1, <1>4, <1>6
      <3>4. n + 1 <= Len(more) /\ Len(more) - (n + 1) = Len(rows) - n
        BY <1>1, <1>9, <3>2
      <3>. HIDE DEF more, rows, n, t0
      <3>. QED
        BY <3>1, <3>3, <3>4 DEF InsertedOK, FirstAt, Mine
    <2>. QED
      BY <2>1, <2>2, <2>3, <2>4 DEF Own
  <1>11. RowsStep(w)
    <2>1. \A v \in Writers : Ahead(v)' = Ahead(v) /\ Settled(w, v)' = Settled(w, v)
      BY <1>1 DEF Ahead, Ended, Settled, Tables
    <2>2. ASSUME NEW v \in Writers PROVE RowsOK(View(w).tab, v, Settled(w, v), Ahead(v))
      BY <1>1, LockFacts DEF RunsInv, FileRowsOK, PrivateRowsOK, RowsOK, Settled
    <2>3. ASSUME NEW v \in Writers PROVE RowsOK(tab, v, Settled(w, v), Ahead(v))
      <3>1. CASE v = w
        BY <1>1, <1>4, <2>2, <3>1 DEF RowsOK, Settled
      <3>2. CASE v # w
        <4>1. /\ Mine(contents.rows, v, t0) = Mine(rows, v, t0)
              /\ AllOrNone(rows, v, t0) => AllOrNone(contents.rows, v, t0)
          <5>. HIDE DEF rows, t0, n
          <5>. QED
            BY <1>1, <1>2, <1>3, <1>4, <3>2, AppendOther DEF row
        <4>. QED
          BY <1>1, <1>3, <1>4, <2>2, <3>2, <4>1 DEF RowsOK, Settled
      <3>. QED
        BY <3>1, <3>2
    <2>. QED
      BY <1>1, <1>6, <2>1, <2>3 DEF RowsStep, RunsInv, FileRowsOK
  <1>12. Whole(file)'
    BY <1>1 DEF RunsInv, Whole, Dropped, Tables
  <1>. QED
    BY <1>7, <1>10, <1>11, <1>12, StepKeeps

\* Whatever becomes of END, the rows of the table are all there or rolled back.
LEMMA EndRuns ==
  ASSUME RunsInv, NEW w \in Writers, Typed', EndTransaction(w)
  PROVE  RunsInv'
  <1>1. /\ pc[w] = "insert" /\ Own(w) /\ w \in Conns /\ DBTypeOK
        /\ pc \in [Writers -> States] /\ k \in [Writers -> 1..(NumTables + 1)]
        /\ row_id \in [Writers -> Nat]
        /\ k[w] \in Tables /\ row_id[w] = NumRows[k[w]] /\ NumRows[k[w]] \in Nat
        /\ NumTables \in Nat
    BY RunsFacts, NumRowsAssumption, NumTablesAssumption
    DEF EndTransaction, Typed, TypeOK, Working
  <1>2. /\ pc'[w] \in {"drop", "close"} /\ k'[w] = k[w] + 1 /\ row_id'[w] = 0
        /\ \A v \in Writers \ {w} : pc'[v] = pc[v] /\ k'[v] = k[v] /\ row_id'[v] = row_id[v]
    BY <1>1 DEF EndTransaction, NextTable, Goto
  <1>3. /\ \A c \in Conns \ {w} : lock'[c] = lock[c] /\ txn'[c] = txn[c]
        /\ UNCHANGED <<priv, cookie>>
        /\ \/ lock'[w] = "none" /\ ~txn'[w] /\ file' = file
           \/ /\ lock'[w] = "none" /\ ~txn'[w] /\ file' = priv[w]
              /\ lock[w] \in Writing /\ ExclusiveAvailable(w)
           \/ /\ lock'[w] = "pending" /\ txn'[w] /\ file' = file
              /\ lock[w] \in Writing
    BY <1>1 DEF EndTransaction, CommitOK, CommitBusy, CommitError, Rollback, DBTypeOK
  <1>4. (\A v \in Writers \ {w} : v \in Conns \ {w}) /\ (\A r \in Readers : r \in Conns \ {w})
    BY WritersAssumption DEF Readers
  <1>5. /\ file.cookie \in Nat /\ priv[w].cookie \in Nat /\ Whole(file)
        /\ lock[w] \in Writing =>
              /\ Whole(priv[w])
              /\ priv[w].cookie >= file.cookie
              /\ priv[w].cookie = file.cookie =>
                    \A t \in Tables : priv[w].tab[t].exists = file.tab[t].exists
    BY <1>1, RunsFacts DEF Own, NewerOK, Image
  <1>6. Frame(w) /\ FileStep(w) /\ LockStep(w)
    BY <1>2, <1>3, <1>4, <1>5 DEF Frame, FileStep, LockStep, Writing
  <1>7. Own(w)'
    <2>1. TransactionOK(w)' /\ PreparedOK(w)' /\ CountOK(w)' /\ InsertedOK(w)'
      BY <1>2, <1>3 DEF TransactionOK, PreparedOK, CountOK, InsertedOK, Writing, Ended
    <2>2. NewerOK(w)'
      BY <1>3, <1>5 DEF NewerOK, Whole, Writing, Dropped, Tables
    <2>. QED
      BY <2>1, <2>2 DEF Own
  <1>8. \A v \in Writers : Ahead(v)' \subseteq Ahead(v)
    BY <1>1, <1>2 DEF Ahead, Ended, Tables
  <1>9. k[w] \notin Ahead(w)'
    BY <1>1, <1>2 DEF Ahead, Tables
  <1>10. ASSUME lock[w] \in Writing, NEW v \in Writers
         PROVE  RowsOK(priv[w].tab, v, Tables, Ahead(v)')
    <2>1. RowsOK(priv[w].tab, v, Settled(w, v), Ahead(v))
      BY <1>10 DEF RunsInv, PrivateRowsOK
    <2>2. CASE v # w
      BY <1>8, <2>1, <2>2 DEF Settled, RowsOK
    <2>3. CASE v = w
      <3>. DEFINE t0 == k[w]
                 rows == priv[w].tab[t0].rows
                 n == NumRows[t0]
      <3>1. n <= Len(rows) /\ FirstAt(rows, w, t0, Len(rows) - n, n)
        BY <1>1, <1>10 DEF Own, InsertedOK
      <3>2. rows \in Seq(Rows)
        BY <1>1 DEF DBTypeOK, Image, Table
      <3>3. Len(rows) \in Nat
        BY <3>2
      <3>4. AllOrNone(rows, w, t0)
        <4>. HIDE DEF rows
        <4>1. Len(rows) - n \in 0..Len(rows)
          BY <1>1, <3>1, <3>3
        <4>. QED
          BY <3>1, <4>1 DEF AllOrNone
      <3>5. \A t \in Tables \ {t0} : t \in Settled(w, w)
        BY <1>1 DEF Settled
      <3>. QED
        BY <1>8, <1>9, <2>1, <2>3, <3>4, <3>5 DEF RowsOK
    <2>. QED
      BY <2>2, <2>3
  <1>11. \A v \in Writers : RowsOK(file.tab, v, Tables, Ahead(v)')
    BY <1>8 DEF RunsInv, FileRowsOK, RowsOK
  <1>12. Settled(w, w)' = Tables /\ \A v \in Writers : Settled(w, v)' \subseteq Tables
    BY <1>2 DEF Settled, Tables
  <1>13. RowsStep(w)
    <2>1. \A v \in Writers : RowsOK(file'.tab, v, Tables, Ahead(v)')
      BY <1>3, <1>10, <1>11
    <2>2. ASSUME lock'[w] \in Writing, NEW v \in Writers
          PROVE  RowsOK(priv'[w].tab, v, Settled(w, v)', Ahead(v)')
      BY <1>3, <1>10, <1>12, <2>2 DEF RowsOK, Writing
    <2>. QED
      BY <1>8, <2>1, <2>2 DEF RowsStep
  <1>14. Whole(file)'
    BY <1>3, <1>5 DEF Whole, Dropped, Tables
  <1>. QED
    BY <1>6, <1>7, <1>13, <1>14, StepKeeps

\* A run that ends leaves nothing behind but the file.
LEMMA RollbackRuns ==
  ASSUME RunsInv, NEW w \in Writers, Typed', Rollback(w), UNCHANGED <<k, row_id>>,
         NEW state \in Ended, Goto(w, state)
  PROVE  RunsInv'
  <1>1. /\ w \in Conns /\ DBTypeOK /\ pc \in [Writers -> States]
        /\ pc'[w] = state /\ lock'[w] = "none" /\ ~txn'[w]
        /\ \A v \in Writers \ {w} : pc'[v] = pc[v]
        /\ \A c \in Conns \ {w} : lock'[c] = lock[c] /\ txn'[c] = txn[c]
        /\ UNCHANGED <<file, priv, cookie>>
    BY RunsFacts DEF Rollback, Goto, Typed, TypeOK, DBTypeOK
  <1>2. (\A v \in Writers \ {w} : v \in Conns \ {w}) /\ (\A r \in Readers : r \in Conns \ {w})
    BY WritersAssumption DEF Readers
  <1>3. Frame(w) /\ FileStep(w) /\ LockStep(w)
    BY <1>1, <1>2 DEF Frame, FileStep, LockStep, Writing
  <1>4. Own(w)'
    BY <1>1 DEF Own, TransactionOK, NewerOK, PreparedOK, CountOK, InsertedOK, Writing, Ended
  <1>5. \A v \in Writers : Ahead(v)' \subseteq Ahead(v)
    BY <1>1 DEF Ahead, Tables
  <1>6. RowsStep(w)
    BY <1>1, <1>5 DEF RowsStep, RunsInv, FileRowsOK, RowsOK, Writing
  <1>7. Whole(file)'
    BY <1>1 DEF RunsInv, Whole, Dropped, Tables
  <1>. QED
    BY <1>3, <1>4, <1>6, <1>7, StepKeeps

LEMMA RunRuns ==
  ASSUME RunsInv, NEW w \in Writers, Typed', Run(w)
  PROVE  RunsInv'
  <1>1. DBTypeOK /\ w \in Conns /\ cookie \in [Conns -> Nat]
        /\ \A v \in Writers \ {w} : v \in Conns \ {w}
    BY RunsFacts DEF DBTypeOK
  <1>2. ASSUME ExecNothing(w)
        PROVE  /\ \A v \in Writers \ {w} : cookie'[v] = cookie[v]
               /\ UNCHANGED <<file, priv, lock, txn>>
    BY <1>1, <1>2 DEF ExecNothing
  <1>3. CASE Open(w)
    <2>. DEFINE state == IF NumTables = 0 THEN "close" ELSE "drop"
    <2>1. /\ state \in {"drop", "create", "createIndex", "close"} /\ Goto(w, state)
          /\ pc[w] \notin {"insert"} \cup Ended
          /\ UNCHANGED <<file, priv, lock, txn, cookie, k, row_id>>
      BY <1>3 DEF Open, dbVars, Ended
    <2>. HIDE DEF state
    <2>. QED
      BY <2>1, NothingRuns
  <1>4. CASE DropTable(w)
    <2>1. CASE ExecDDL(w, With(w, Dropped))
      BY <1>4, <2>1, DDLRuns DEF DropTable, Statements, Dropped
    <2>2. CASE ExecNothing(w)
      BY <1>2, <1>4, <2>2, NothingRuns DEF DropTable, Ended
    <2>. QED
      BY <1>4, <2>1, <2>2 DEF DropTable
  <1>5. CASE CreateTable(w)
    BY <1>5, DDLRuns DEF CreateTable, Statements, Created
  <1>6. ASSUME NEW b \in BOOLEAN, pc[w] \in Statements,
               ExecDDL(w, With(w, [Current(w) EXCEPT !.indexed = b])),
               Current(w).exists,
               NEW state \in {"create", "dropIndex", "createIndex", "begin"}, Goto(w, state),
               UNCHANGED <<k, row_id>>
        PROVE  RunsInv'
    <2>. DEFINE contents == [Current(w) EXCEPT !.indexed = b]
    <2>1. Current(w) \in Table
      BY <1>1, <1>6, RunsFacts, CurrentType DEF Working
    <2>2. contents.exists /\ contents.rows = Current(w).rows
      BY <1>6, <2>1 DEF Table
    <2>3. ExecDDL(w, With(w, contents))
      BY <1>6
    <2>. HIDE DEF contents
    <2>. QED
      BY <1>6, <2>2, <2>3, DDLRuns
  <1>7. CASE DropIndex(w)
    <2>1. CASE Current(w).indexed /\ ExecDDL(w, With(w, [Current(w) EXCEPT !.indexed = FALSE]))
      <3>1. Whole(View(w)) /\ k[w] \in Tables
        BY <1>7, LockFacts, RunsFacts DEF DropIndex, Working, Statements
      <3>2. Current(w).exists
        BY <2>1, <3>1 DEF Whole, Current, Dropped
      <3>. QED
        BY <1>6, <1>7, <2>1, <3>2 DEF DropIndex, Statements
    <2>2. CASE ExecNothing(w)
      BY <1>2, <1>7, <2>2, NothingRuns DEF DropIndex, Ended
    <2>. QED
      BY <1>7, <2>1, <2>2 DEF DropIndex
  <1>8. CASE CreateIndex(w)
    BY <1>6, <1>8 DEF CreateIndex, Statements
  <1>9. CASE BeginTransaction(w) \/ InsertRow(w) \/ EndTransaction(w)
    BY <1>9, BeginRuns, InsertRuns, EndRuns
  <1>10. CASE CloseDatabase(w)
    BY <1>10, RollbackRuns DEF CloseDatabase, Ended
  <1>11. CASE Exit1(w)
    BY <1>11, RollbackRuns DEF Exit1, Ended
  <1>. QED
    BY <1>3, <1>4, <1>5, <1>7, <1>8, <1>9, <1>10, <1>11 DEF Run

\* A reader only has its own shared lock.
LEMMA ReaderRuns ==
  ASSUME RunsInv, NEW r \in Readers, Query(r) \/ Finalize(r), Typed'
  PROVE  RunsInv'
  <1>1. /\ r \in Conns /\ DBTypeOK /\ \A w \in Writers : w \in Conns \ {r}
    BY RunsFacts DEF Readers
  <1>2. /\ \A c \in Conns \ {r} : lock'[c] = lock[c] /\ cookie'[c] = cookie[c]
        /\ lock'[r] \in {"none", "shared"}
        /\ UNCHANGED <<file, priv, txn, pc, k, row_id>>
    BY <1>1 DEF Query, Finalize, StepSelect, EndSelect, DBTypeOK
  <1>3. ReadersOnlyRead' /\ OneWriting'
    BY <1>1, <1>2 DEF RunsInv, ReadersOnlyRead, OneWriting, Readers
  <1>4. ASSUME NEW w \in Writers PROVE Own(w)'
    <2>1. Own(w) /\ lock'[w] = lock[w] /\ cookie'[w] = cookie[w]
      BY <1>1, <1>2, RunsFacts
    <2>2. TransactionOK(w)' /\ CountOK(w)' /\ InsertedOK(w)'
      BY <1>2, <2>1 DEF Own, TransactionOK, CountOK, InsertedOK, FirstAt, Mine
    <2>3. NewerOK(w)' /\ PreparedOK(w)'
      BY <1>2, <2>1 DEF Own, NewerOK, PreparedOK, Whole, Dropped, Tables
    <2>. QED
      BY <2>2, <2>3 DEF Own
  <1>5. \A v \in Writers : Ahead(v)' = Ahead(v)
    BY <1>2 DEF Ahead, Ended, Tables
  <1>6. \A v, w \in Writers : Settled(v, w)' = Settled(v, w)
    BY <1>2 DEF Settled, Tables
  <1>7. FileRowsOK'
    BY <1>2, <1>5 DEF RunsInv, FileRowsOK, RowsOK, Tables
  <1>8. PrivateRowsOK'
    <2>1. \A v \in Writers : lock'[v] = lock[v]
      BY <1>1, <1>2
    <2>. QED
      BY <1>2, <1>5, <1>6, <2>1 DEF RunsInv, PrivateRowsOK, RowsOK
  <1>9. Whole(file)'
    BY <1>2 DEF RunsInv, Whole, Dropped, Tables
  <1>. QED
    BY <1>3, <1>4, <1>7, <1>8, <1>9 DEF RunsInv, Own, Typed

LEMMA InitRuns == Init => RunsInv
  <1>. SUFFICES ASSUME Init PROVE RunsInv
    OBVIOUS
  <1>1. /\ file \in InitialFiles
        /\ \A c \in Conns : lock[c] = "none" /\ ~txn[c]
        /\ \A w \in Writers : w \in Conns /\ pc[w] = "open" /\ k[w] = 1 /\ row_id[w] = 0
    BY WritersAssumption DEF Init, DBInit
  <1>2. TypeOK /\ WorkingOnTable
    BY InitTyped DEF Typed
  <1>3. Whole(file)
    BY <1>1, InitialFilesAssumption DEF Whole
  <1>4. ReadersOnlyRead /\ OneWriting /\ PrivateRowsOK
    BY <1>1 DEF ReadersOnlyRead, OneWriting, PrivateRowsOK, Readers, Writing
  <1>5. \A w \in Writers :
           TransactionOK(w) /\ NewerOK(w) /\ PreparedOK(w) /\ CountOK(w) /\ InsertedOK(w)
    BY <1>1 DEF TransactionOK, NewerOK, PreparedOK, CountOK, InsertedOK, Writing, Ended
  <1>6. \A w \in Writers, t \in Tables : Mine(file.tab[t].rows, w, t) = {}
    BY <1>1, OwnRowsAssumption DEF Mine
  <1>7. FileRowsOK
    BY <1>6 DEF FileRowsOK, RowsOK, AllOrNone
  <1>. QED
    BY <1>2, <1>3, <1>4, <1>5, <1>7 DEF RunsInv

LEMMA StepRuns == RunsInv /\ [Next]_vars => RunsInv'
  <1>. SUFFICES ASSUME RunsInv, [Next]_vars PROVE RunsInv'
    OBVIOUS
  <1>1. Typed'
    BY RunsFacts, StepTyped
  <1>2. ASSUME NEW w \in Writers, Crash(w) PROVE RunsInv'
    BY <1>1, <1>2, RollbackRuns DEF Crash, Ended
  <1>3. CASE UNCHANGED vars
    <2>1. /\ UNCHANGED <<file, priv, lock, txn, cookie, pc, k, row_id>>
          /\ \A w \in Writers : Ahead(w)' = Ahead(w)
          /\ \A v, w \in Writers : Settled(v, w)' = Settled(v, w)
      BY <1>3 DEF vars, dbVars, Ahead, Ended, Settled, Tables
    <2>2. ReadersOnlyRead' /\ OneWriting' /\ Whole(file)'
      BY <2>1 DEF RunsInv, ReadersOnlyRead, OneWriting, Whole, Dropped, Tables, Readers
    <2>3. \A w \in Writers : TransactionOK(w)' /\ CountOK(w)' /\ InsertedOK(w)'
      BY <2>1 DEF RunsInv, TransactionOK, CountOK, InsertedOK, FirstAt, Mine
    <2>4. \A w \in Writers : NewerOK(w)' /\ PreparedOK(w)'
      BY <2>1 DEF RunsInv, NewerOK, PreparedOK, Whole, Dropped, Tables
    <2>5. FileRowsOK' /\ PrivateRowsOK'
      BY <2>1 DEF RunsInv, FileRowsOK, PrivateRowsOK, RowsOK, Tables
    <2>. QED
      BY <1>1, <2>2, <2>3, <2>4, <2>5 DEF RunsInv, Typed
  <1>. QED
    BY <1>1, <1>2, <1>3, RunRuns, ReaderRuns DEF Next, AllEnded

-----------------------------------------------------------------------------

\* The invariant of several runs: at most one of them writes, what it has
\* written is not older than the file, and the rows of every run are together,
\* in the file and in the private image of any of them.
THEOREM RunsInvHolds == Spec => []RunsInv
  BY InitRuns, StepRuns, PTL DEF Spec

\* However many runs of populate_db write to the file, and wherever they fail,
\* crash, or go on after an END that did nothing, the rows of each are in a
\* table of the file all together and in order, or not at all.
THEOREM RunAtomicHolds == Spec => []RunAtomic
  <1>1. RunsInv => RunAtomic
    BY DEF RunsInv, FileRowsOK, RowsOK, RunAtomic
  <1>. QED
    BY <1>1, RunsInvHolds, PTL
=============================================================================
