------------------------------ MODULE PopulateDB ------------------------------
(***************************************************************************)
(* populate_db writing its cache (scripts/populate_db.cpp:36-471 and       *)
(* 617-642): six tables, one after the other, each dropped, created,       *)
(* indexed and filled in the same way, while other processes have the same *)
(* file open.  The tables are numbered in the order of main's calls: 1 is  *)
(* READINGS, 2 READING_RELATIONS, 3 READING_SUPPORT, 4 VARIATION_UNITS,    *)
(* 5 GENEALOGICAL_COMPARISONS, 6 WITNESSES.                                *)
(*                                                                         *)
(* The return codes of DROP, CREATE and INSERT are tested and end the      *)
(* process with exit(1); those of BEGIN and END are not looked at.         *)
(*                                                                         *)
(* A row is named by the run that inserts it and its number in its table.  *)
(* The other connections are readers: they run one SELECT after another.   *)
(***************************************************************************)
EXTENDS SQLiteFile

CONSTANTS Writers,      \* the runs of populate_db
          NumRows,      \* the number of rows of each table
          InitialFiles, \* what the file may hold at first
          IOErrors      \* the file system may refuse to open, read or write

ASSUME WritersAssumption == Writers \subseteq Conns
ASSUME NumRowsAssumption == NumRows \in [Tables -> Nat]
ASSUME RowsAssumption == \A w \in Writers, t \in Tables : \A i \in 1..NumRows[t] : <<w, i>> \in Rows
ASSUME InitialFilesAssumption ==
    /\ InitialFiles \subseteq Image
    /\ \A image \in InitialFiles, t \in Tables : image.tab[t].exists \/ image.tab[t] = Dropped
ASSUME OwnRowsAssumption ==
    \A image \in InitialFiles, t \in Tables : \A i \in DOMAIN image.tab[t].rows :
        \A w \in Writers : \A n \in 1..NumRows[t] : image.tab[t].rows[i] # <<w, n>>
ASSUME IOErrorsAssumption == IOErrors \in BOOLEAN

VARIABLES pc,       \* control state of each run
          k,        \* the table it is working on
          row_id,   \* the number of rows it has inserted in that table
          base,     \* history: the file when the run opened it
          published \* history: the number of tables the run has committed

vars == <<dbVars, pc, k, row_id, base, published>>

Readers == Conns \ Writers

Ended == {"exit0", "exit1", "crashed"}
Statements == {"drop", "create", "dropIndex", "createIndex"}
Working == {"begin", "insert"} \cup Statements
States == {"open", "close"} \cup Working \cup Ended

\* The first n rows that run w inserts in a table, and all of them.
FirstRows(w, n) == [i \in 1..n |-> <<w, i>>]
AllRows(w, t) == FirstRows(w, NumRows[t])

Full(w, t) == [exists |-> TRUE, indexed |-> TRUE, rows |-> AllRows(w, t)]

Init ==
    /\ \E image \in InitialFiles : DBInit(image) /\ base = [w \in Writers |-> image]
    /\ pc = [w \in Writers |-> "open"]
    /\ k = [w \in Writers |-> 1]
    /\ row_id = [w \in Writers |-> 0]
    /\ published = [w \in Writers |-> 0]

Goto(w, state) == pc' = [pc EXCEPT ![w] = state]

\* Mutant: in the second of the six functions a statement still names the table of the first.
WithCopied(w, contents) == [View(w).tab EXCEPT ![IF k[w] = 2 THEN 1 ELSE k[w]] = contents]

\* The image of the connection's tables with the current table changed.
With(w, contents) == [View(w).tab EXCEPT ![k[w]] = contents]

Current(w) == View(w).tab[k[w]]

-----------------------------------------------------------------------------
(* One action per statement; each one runs to its success. *)

\* sqlite3_open only opens the file; nothing is read yet.
Open(w) ==
    /\ pc[w] = "open"
    /\ base' = [base EXCEPT ![w] = file]
    /\ Goto(w, IF NumTables = 0 THEN "close" ELSE "drop")
    /\ UNCHANGED <<dbVars, k, row_id, published>>

\* Mutant: the existing table is kept.
KeepTable(w) ==
    /\ pc[w] = "drop"
    /\ ExecNothing(w)
    /\ Goto(w, IF Current(w).exists THEN "dropIndex" ELSE "create")
    /\ UNCHANGED <<k, row_id, base, published>>

\* Mutant: DROP TABLE without IF EXISTS.
DropWithoutIfExists(w) ==
    /\ pc[w] = "drop"
    /\ Current(w).exists
    /\ ExecDDL(w, With(w, Dropped))
    /\ Goto(w, "create")
    /\ UNCHANGED <<k, row_id, base, published>>

\* DROP TABLE IF EXISTS, which drops the index as well.
DropTable(w) ==
    /\ pc[w] = "drop"
    /\ \/ Current(w).exists /\ ExecDDL(w, With(w, Dropped))
       \/ ~Current(w).exists /\ ExecNothing(w)
    /\ Goto(w, "create")
    /\ UNCHANGED <<k, row_id, base, published>>

CreateTable(w) ==
    /\ pc[w] = "create"
    /\ ~Current(w).exists
    /\ ExecDDL(w, With(w, Created))
    /\ Goto(w, "dropIndex")
    /\ UNCHANGED <<k, row_id, base, published>>

DropIndex(w) ==
    /\ pc[w] = "dropIndex"
    /\ \/ Current(w).indexed /\ ExecDDL(w, With(w, [Current(w) EXCEPT !.indexed = FALSE]))
       \/ ~Current(w).indexed /\ ExecNothing(w)
    /\ Goto(w, "createIndex")
    /\ UNCHANGED <<k, row_id, base, published>>

CreateIndex(w) ==
    /\ pc[w] = "createIndex"
    /\ Current(w).exists /\ ~Current(w).indexed
    /\ ExecDDL(w, With(w, [Current(w) EXCEPT !.indexed = TRUE]))
    /\ Goto(w, "begin")
    /\ UNCHANGED <<k, row_id, base, published>>

\* The outcome of BEGIN TRANSACTION is not looked at.
BeginTransaction(w) ==
    /\ pc[w] = "begin"
    /\ ExecBegin(w)
    /\ Goto(w, "insert")
    /\ UNCHANGED <<k, row_id, base, published>>

InsertRow(w) ==
    /\ pc[w] = "insert"
    /\ row_id[w] < NumRows[k[w]]
    /\ StepInsert(w, With(w, [Current(w) EXCEPT !.rows = Append(@, <<w, row_id[w] + 1>>)]))
    /\ row_id' = [row_id EXCEPT ![w] = @ + 1]
    /\ UNCHANGED <<pc, k, base, published>>

\* Mutant: the row counter is not reset for the next table.
NextTableNoReset(w) ==
    /\ k' = [k EXCEPT ![w] = @ + 1]
    /\ Goto(w, IF k[w] < NumTables THEN "drop" ELSE "close")
    /\ UNCHANGED <<base, row_id>>

\* The last statement of a table's function and the return to main, which goes
\* on to the next table.
NextTable(w) ==
    /\ k' = [k EXCEPT ![w] = @ + 1]
    /\ row_id' = [row_id EXCEPT ![w] = 0]
    /\ Goto(w, IF k[w] < NumTables THEN "drop" ELSE "close")
    /\ UNCHANGED base

\* Mutant: the transaction is ended before the last row.
EndEarly(w) ==
    /\ pc[w] = "insert"
    /\ CommitOK(w) \/ CommitBusy(w)
    /\ published' = [published EXCEPT ![w] = k[w]]
    /\ NextTable(w)

\* Mutant: an END that is refused may be rolled back, and the run goes on.
EndMayRollBack(w) ==
    /\ pc[w] = "insert"
    /\ row_id[w] = NumRows[k[w]]
    /\ \/ CommitOK(w) /\ published' = [published EXCEPT ![w] = k[w]]
       \/ CommitBusy(w) /\ UNCHANGED published
       \/ CommitError(w) /\ UNCHANGED published
    /\ NextTable(w)

\* The outcome of END TRANSACTION is not looked at either.
EndTransaction(w) ==
    /\ pc[w] = "insert"
    /\ row_id[w] = NumRows[k[w]]
    /\ \/ CommitOK(w) /\ published' = [published EXCEPT ![w] = k[w]]
       \/ CommitBusy(w) /\ UNCHANGED published
       \/ IOErrors /\ CommitError(w) /\ UNCHANGED published
    /\ NextTable(w)

\* sqlite3_close rolls back a transaction that is still open; then exit(0).
CloseDatabase(w) ==
    /\ pc[w] = "close"
    /\ Rollback(w)
    /\ Goto(w, "exit0")
    /\ UNCHANGED <<k, row_id, base, published>>

-----------------------------------------------------------------------------
(* Ends of the process before its time. *)

\* A statement that is tested for success does not have it.
StatementFails(w) ==
    \/ pc[w] = "drop" /\ IF Current(w).exists THEN DDLBusy(w) ELSE ~SharedAvailable(w)
    \/ pc[w] = "create" /\ (Current(w).exists \/ DDLBusy(w))
    \/ pc[w] = "dropIndex" /\ IF Current(w).indexed THEN DDLBusy(w) ELSE ~SharedAvailable(w)
    \/ pc[w] = "createIndex" /\ (~Current(w).exists \/ Current(w).indexed \/ DDLBusy(w))
    \/ pc[w] = "insert" /\ row_id[w] < NumRows[k[w]] /\ ~CanWrite(w)
    \/ IOErrors /\ pc[w] \in Statements \cup {"open", "insert"}

\* Mutant: a table that cannot be dropped is left as it is, and the run goes on.
Exit1ButDrop(w) ==
    /\ StatementFails(w)
    /\ IF pc[w] = "drop" THEN NextTable(w) /\ UNCHANGED <<dbVars, published>>
       ELSE Rollback(w) /\ Goto(w, "exit1") /\ UNCHANGED <<k, row_id, base, published>>

Exit1(w) ==
    /\ StatementFails(w)
    /\ Rollback(w)
    /\ Goto(w, "exit1")
    /\ UNCHANGED <<k, row_id, base, published>>

\* The process is killed, or the machine stops.
Crash(w) ==
    /\ pc[w] \notin Ended
    /\ Rollback(w)
    /\ Goto(w, "crashed")
    /\ UNCHANGED <<k, row_id, base, published>>

-----------------------------------------------------------------------------

Run(w) ==
    \/ Open(w) \/ DropTable(w) \/ CreateTable(w) \/ DropIndex(w) \/ CreateIndex(w)
    \/ BeginTransaction(w) \/ InsertRow(w) \/ EndTransaction(w) \/ CloseDatabase(w)
    \/ Exit1(w)

\* A reader runs a SELECT and is done with it.
Query(r) == StepSelect(r) /\ UNCHANGED <<pc, k, row_id, base, published>>
Finalize(r) == EndSelect(r) /\ UNCHANGED <<pc, k, row_id, base, published>>

AllEnded == (\A w \in Writers : pc[w] \in Ended) /\ UNCHANGED vars

Next ==
    \/ \E w \in Writers : Run(w) \/ Crash(w)
    \/ \E r \in Readers : Query(r) \/ Finalize(r)
    \/ AllEnded

Spec == Init /\ [][Next]_vars

\* A process that can take a step of its program is eventually scheduled;
\* nothing in it waits, so it needs no more.  Crashes need not happen.
FairSpec == Spec /\ \A w \in Writers : WF_vars(Run(w))

-----------------------------------------------------------------------------
(* Properties. *)

TypeOK ==
    /\ DBTypeOK
    /\ pc \in [Writers -> States]
    /\ k \in [Writers -> 1..(NumTables + 1)]
    /\ row_id \in [Writers -> Nat]
    /\ \A w \in Writers : k[w] \in Tables => row_id[w] <= NumRows[k[w]]
    /\ base \in [Writers -> Image]
    /\ published \in [Writers -> 0..NumTables]

\* What a single run may leave in a table: the table as the run found it, the
\* complete new one, or one of the steps in between, which have no rows.
Steps == {Dropped, Created, Indexed}
Outcomes(w, t) == {base[w].tab[t], Full(w, t)} \cup Steps

FileAtomic(w) == \A t \in Tables : file.tab[t] \in Outcomes(w, t)

FileInOrder(w) ==
    \A t \in Tables :
        /\ t <= published[w] => file.tab[t] = Full(w, t)
        /\ t = published[w] + 1 => file.tab[t] \in {base[w].tab[t]} \cup Steps
        /\ t > published[w] + 1 => file.tab[t] = base[w].tab[t]

\* A table of the file is never filled in part: with one run, it is as the run
\* found it, or dropped, or empty, or complete, whatever fails or crashes and
\* whoever reads (populate_db.cpp:64-93 and its five copies).
TableAtomic == \A w \in Writers : Writers = {w} => FileAtomic(w)

\* The tables are replaced in order and at most one is in between: whatever the
\* readers do to its transactions, and wherever the run ends, those before it
\* are all new and those after it as they were (populate_db.cpp:625-637).  So
\* the new comparisons (5) never meet the old variation units (4).
OneTableInFlight == \A w \in Writers : Writers = {w} /\ ~IOErrors => FileInOrder(w)

\* A table once complete stays so: no later failure takes it back.
NothingUndone ==
    [][\A w \in Writers : Writers = {w} =>
          \A t \in Tables : t <= published[w] => file'.tab[t] = file.tab[t]]_vars

\* "if an existing database is provided, its contents will be overwritten"
\* (populate_db.cpp:500): a run that exits with 0 has left its own tables.
Overwritten ==
    \A w \in Writers : pc[w] = "exit0" => \A t \in Tables : file.tab[t] = Full(w, t)

\* Where run w's rows are among the rows of table t.
Mine(rows, w, t) == {i \in DOMAIN rows : \E n \in 1..NumRows[t] : rows[i] = <<w, n>>}

\* They are the first n of them, in order, from position i + 1 on.
FirstAt(rows, w, t, i, n) ==
    /\ Mine(rows, w, t) = (i + 1)..(i + n)
    /\ \A j \in 1..n : rows[i + j] = <<w, j>>

AllOrNone(rows, w, t) ==
    \/ Mine(rows, w, t) = {}
    \/ \E i \in 0..Len(rows) : FirstAt(rows, w, t, i, NumRows[t])

\* The rows of a run are in a table all together and in order, or not at all,
\* even when other runs of populate_db write to the same file
\* (populate_db.cpp:64-93 and its five copies).
RunAtomic == \A w \in Writers, t \in Tables : AllOrNone(file.tab[t].rows, w, t)

\* What an exit with 0 tells, although no END is looked at (populate_db.cpp:93 and
\* 638-642): no table is missing or without its index.  The tables are new up to
\* one, which is empty, and those after it are as they were.
ExitKeepsFirst ==
    \A w \in Writers : Writers = {w} /\ ~IOErrors /\ pc[w] = "exit0" =>
        \E n \in 1..(NumTables + 1) : \A t \in Tables :
            file.tab[t] = IF t < n THEN Full(w, t) ELSE IF t = n THEN Indexed ELSE base[w].tab[t]

\* A run that has the file for itself replaces every table, whatever an earlier
\* run that crashed or failed left in it: its own open transactions, locks and
\* schema changes never make it fail.
AloneSucceeds ==
    \A w \in Writers : <>(pc[w] \in {"exit0", "crashed"})

\* The table that the file shows to be replaced next: while w has something to
\* commit, the first one in which its image is not the file.
Uncommitted(w) == {t \in Tables : priv[w].tab[t] # file.tab[t]}

NextReplaced(w) ==
    IF pc[w] \in Ended THEN NumTables + 1
    ELSE IF lock[w] \in Writing
         THEN CHOOSE t \in Uncommitted(w) : \A s \in Uncommitted(w) : t <= s
         ELSE k[w]

\* What the file shows of a single run.
TheRun == CHOOSE w \in Writers : TRUE
Promise == INSTANCE CachePromise WITH tab <- file.tab, next <- NextReplaced(TheRun),
                                      New <- [t \in Tables |-> Full(TheRun, t)], MayLose <- IOErrors

\* Transactions that the readers keep open across several tables, spills and
\* rollbacks make no difference to them but that some tables may come, or be
\* lost, together: every change of the file drops, creates or indexes the next
\* table, or completes it, and no table is passed over unless the disk fails
\* (populate_db.cpp:625-642).
KeepsPromise == Promise!Spec

-----------------------------------------------------------------------------
(* The inductive invariant behind TableAtomic, OneTableInFlight and         *)
(* NothingUndone, for a single run w.                                      *)

ReadersOnlyRead == \A r \in Readers : lock[r] \in {"none", "shared"} /\ ~txn[r]

\* What w finds in its current table when it is about to run a statement.
ExpectedTable(w) ==
    CASE pc[w] = "drop" -> base[w].tab[k[w]]
      [] pc[w] = "create" -> Dropped
      [] pc[w] \in {"dropIndex", "createIndex"} -> Created
      [] pc[w] = "begin" -> Indexed
      [] pc[w] = "insert" -> [Indexed EXCEPT !.rows = FirstRows(w, row_id[w])]

\* Outside its inserts a run has a transaction only if an END was refused, and
\* then nobody else can start to read.
TransactionOK(w) ==
    /\ lock[w] # "shared"
    /\ lock[w] \in Writing => txn[w]
    /\ pc[w] = "insert" => txn[w]
    /\ txn[w] => pc[w] \notin Ended \cup {"open"}
    /\ (txn[w] /\ pc[w] # "insert") => lock[w] = "pending"

\* The current table is as the next statement needs it, and those after it are
\* untouched.  What is committed is not changed in the private image.
ViewOK(w) ==
    /\ base[w] \in InitialFiles
    /\ pc[w] = "open" => published[w] = 0 /\ base[w] = file
    /\ pc[w] = "close" => k[w] = NumTables + 1
    /\ pc[w] \in Working => Current(w) = ExpectedTable(w)
    /\ pc[w] \in Working \cup {"close"} =>
          \A t \in Tables :
             /\ t < k[w] => View(w).tab[t] \in Outcomes(w, t)
             /\ t > k[w] => View(w).tab[t] = base[w].tab[t] /\ file.tab[t] = base[w].tab[t]
             /\ t <= published[w] => file.tab[t] = View(w).tab[t]

PublishedOK(w) ==
    /\ pc[w] \notin {"insert"} \cup Ended => row_id[w] = 0
    /\ published[w] < k[w]

\* Without I/O errors the tables look to the run as if every END had succeeded,
\* and they are all committed when it has no lock.
CompleteOK(w) ==
    ~IOErrors =>
        /\ pc[w] \in Working \cup {"close"} =>
              \A t \in Tables : t < k[w] => View(w).tab[t] = Full(w, t)
        /\ (pc[w] \notin Ended /\ lock[w] = "none") => published[w] = k[w] - 1

WorkingOnTable ==
    \A w \in Writers :
        /\ pc[w] = "open" => k[w] = 1
        /\ pc[w] \in Working => k[w] \in Tables

SingleRun(w) ==
    /\ ReadersOnlyRead
    /\ TransactionOK(w)
    /\ ViewOK(w)
    /\ PublishedOK(w)
    /\ CompleteOK(w)

IInv ==
    /\ TypeOK
    /\ WorkingOnTable
    /\ TableAtomic
    /\ OneTableInFlight
    /\ \A w \in Writers : Writers = {w} => SingleRun(w)

-----------------------------------------------------------------------------
(* The inductive invariant behind RunAtomic, for any number of runs.        *)

\* The tables whose rows a run has yet to insert.
Ahead(w) == IF pc[w] \in Ended THEN {} ELSE {t \in Tables : t >= k[w]}

RowsOK(tab, w, tables, ahead) ==
    \A t \in tables :
        /\ AllOrNone(tab[t].rows, w, t)
        /\ t \in ahead => Mine(tab[t].rows, w, t) = {}

\* The tables in which v is not just inserting rows of w.
Settled(v, w) == IF v = w /\ pc[w] = "insert" THEN Tables \ {k[w]} ELSE Tables

FileRowsOK == \A w \in Writers : RowsOK(file.tab, w, Tables, Ahead(w))

PrivateRowsOK ==
    \A v, w \in Writers :
        lock[v] \in Writing => RowsOK(priv[v].tab, w, Settled(v, w), Ahead(w))

\* The rows inserted so far are the last ones of the private table.
InsertedOK(w) ==
    lock[w] \in Writing /\ pc[w] = "insert" =>
        LET rows == priv[w].tab[k[w]].rows
        IN  /\ row_id[w] <= Len(rows)
            /\ FirstAt(rows, w, k[w], Len(rows) - row_id[w], row_id[w])

CountOK(w) == (pc[w] \notin Ended /\ ~(lock[w] \in Writing /\ pc[w] = "insert")) => row_id[w] = 0

OneWriting == \A v, w \in Writers : v # w => ~(lock[v] \in Writing /\ lock[w] \in Writing)

\* A table that does not exist has neither rows nor index.
Whole(image) == \A t \in Tables : image.tab[t].exists \/ image.tab[t] = Dropped

\* A private image with the cookie of the file has the schema of the file.
NewerOK(w) ==
    lock[w] \in Writing =>
        /\ Whole(priv[w])
        /\ priv[w].cookie >= file.cookie
        /\ priv[w].cookie = file.cookie =>
               \A t \in Tables : priv[w].tab[t].exists = file.tab[t].exists

\* As long as an INSERT can be stepped its table exists.
PreparedOK(w) ==
    pc[w] \in {"begin", "insert"} =>
        IF lock[w] \in Writing
        THEN priv[w].tab[k[w]].exists
        ELSE cookie[w] <= file.cookie /\ (cookie[w] = file.cookie => file.tab[k[w]].exists)

RunsInv ==
    /\ TypeOK
    /\ WorkingOnTable
    /\ ReadersOnlyRead
    /\ OneWriting
    /\ Whole(file)
    /\ \A w \in Writers : TransactionOK(w) /\ NewerOK(w) /\ PreparedOK(w) /\ CountOK(w) /\ InsertedOK(w)
    /\ FileRowsOK
    /\ PrivateRowsOK
==============================================================================
