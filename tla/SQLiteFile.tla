------------------------------ MODULE SQLiteFile ------------------------------
(***************************************************************************)
(* The database file as the processes that open it see it: the vendored    *)
(* SQLite (lib/sqlite3, rollback-journal mode, no busy handler), reduced   *)
(* to what the scripts rely on.  A connection belongs to one process.      *)
(*                                                                         *)
(* An image of the file maps each table to its contents and carries the    *)
(* schema cookie.  A connection that writes works on a private image,      *)
(* which becomes the file when its transaction commits.  Locks: any number *)
(* of connections may hold "shared"; "reserved" is the one writer; with    *)
(* "pending" (or exclusive) nobody can start to read.  Rows are opaque.    *)
(*                                                                         *)
(* The operators are the effects of the calls, one per outcome.            *)
(***************************************************************************)
EXTENDS Naturals, Sequences, FiniteSets

CONSTANTS Conns,        \* the connections
          NumTables,    \* the tables are 1..NumTables, in the order of creation
          Rows          \* what a row may be

ASSUME NumTablesAssumption == NumTables \in Nat

VARIABLES file,     \* the committed image
          priv,     \* the private image of a connection that writes
          lock,     \* the lock a connection holds
          txn,      \* an explicit transaction is open (autocommit is off)
          cookie    \* the schema cookie of the connection's cached schema

dbVars == <<file, priv, lock, txn, cookie>>

Tables == 1..NumTables

Locks == {"none", "shared", "reserved", "pending"}
Writing == {"reserved", "pending"}

Table == [exists : BOOLEAN, indexed : BOOLEAN, rows : Seq(Rows)]
Image == [tab : [Tables -> Table], cookie : Nat]

Dropped == [exists |-> FALSE, indexed |-> FALSE, rows |-> <<>>]
Created == [exists |-> TRUE, indexed |-> FALSE, rows |-> <<>>]
Indexed == [exists |-> TRUE, indexed |-> TRUE, rows |-> <<>>]

DBTypeOK ==
    /\ file \in Image
    /\ priv \in [Conns -> Image]
    /\ lock \in [Conns -> Locks]
    /\ txn \in [Conns -> BOOLEAN]
    /\ cookie \in [Conns -> Nat]

DBInit(image) ==
    /\ file = image
    /\ priv = [c \in Conns |-> image]
    /\ lock = [c \in Conns |-> "none"]
    /\ txn = [c \in Conns |-> FALSE]
    /\ cookie = [c \in Conns |-> 0]

-----------------------------------------------------------------------------
(* Locks: what the other connections allow (unixLock). *)

SharedAvailable(c) == \A d \in Conns \ {c} : lock[d] # "pending"

ReservedAvailable(c) == \A d \in Conns \ {c} : lock[d] \notin Writing

ExclusiveAvailable(c) == \A d \in Conns \ {c} : lock[d] = "none"

\* What a connection reads: its own uncommitted changes, else the file.
View(c) == IF lock[c] \in Writing THEN priv[c] ELSE file

-----------------------------------------------------------------------------
(* Statements run by sqlite3_exec. *)

\* A statement that changes the schema: inside an open transaction it changes
\* the private image, otherwise it commits on its own.
ExecDDL(c, tab) ==
    LET image == [tab |-> tab, cookie |-> View(c).cookie + 1] IN
    /\ \/ /\ txn[c]
          /\ lock[c] \in Writing
          /\ priv' = [priv EXCEPT ![c] = image]
          /\ UNCHANGED file
       \/ /\ ~txn[c]
          /\ ExclusiveAvailable(c)
          /\ file' = image
          /\ UNCHANGED priv
    /\ cookie' = [cookie EXCEPT ![c] = image.cookie]
    /\ UNCHANGED <<lock, txn>>

DDLBusy(c) == ~txn[c] /\ ~ExclusiveAvailable(c)

\* A statement IF EXISTS that finds nothing: it only reads the schema.
ExecNothing(c) ==
    /\ SharedAvailable(c)
    /\ cookie' = [cookie EXCEPT ![c] = View(c).cookie]
    /\ UNCHANGED <<file, priv, lock, txn>>

\* BEGIN takes no lock.  Inside an open transaction it is an error that changes
\* nothing ("cannot start a transaction within a transaction").
ExecBegin(c) ==
    /\ txn' = [txn EXCEPT ![c] = TRUE]
    /\ UNCHANGED <<file, priv, lock, cookie>>

\* Back to autocommit without a lock: a rollback, and what remains of a process
\* that has ended (its journal is rolled back by the next to open the file).
Rollback(c) ==
    /\ lock' = [lock EXCEPT ![c] = "none"]
    /\ txn' = [txn EXCEPT ![c] = FALSE]
    /\ UNCHANGED <<file, priv, cookie>>

\* END of a transaction, which commits what was written, if anything was.
CommitOK(c) ==
    /\ txn[c]
    /\ \/ lock[c] \in Writing /\ ExclusiveAvailable(c) /\ file' = priv[c]
       \/ lock[c] \notin Writing /\ UNCHANGED file
    /\ lock' = [lock EXCEPT ![c] = "none"]
    /\ txn' = [txn EXCEPT ![c] = FALSE]
    /\ UNCHANGED <<priv, cookie>>

\* END while others read: SQLITE_BUSY, and the transaction stays open with the
\* pending lock, so that nobody else starts to read.
CommitBusy(c) ==
    /\ txn[c]
    /\ lock[c] \in Writing
    /\ ~ExclusiveAvailable(c)
    /\ lock' = [lock EXCEPT ![c] = "pending"]
    /\ UNCHANGED <<file, priv, txn, cookie>>

\* END that fails for a reason other than a lock (a full disk) rolls back.
CommitError(c) ==
    /\ txn[c]
    /\ lock[c] \in Writing
    /\ Rollback(c)

-----------------------------------------------------------------------------
(* Prepared statements.  They are prepared with the legacy sqlite3_prepare, *)
(* which does not recover from a schema changed by another connection.      *)

CanWrite(c) == lock[c] \in Writing \/ (cookie[c] = file.cookie /\ ReservedAvailable(c))

\* A step of an INSERT in a transaction.  Spilling the page cache takes the
\* exclusive lock or, while others read, leaves the pending lock.
StepInsert(c, tab) ==
    /\ CanWrite(c)
    /\ priv' = [priv EXCEPT ![c] = [View(c) EXCEPT !.tab = tab]]
    /\ \E l \in Writing :
          /\ lock[c] = "pending" => l = "pending"
          /\ lock' = [lock EXCEPT ![c] = l]
    /\ UNCHANGED <<file, txn, cookie>>

\* The first step of a SELECT that returns a row, and the end of the query.
StepSelect(c) ==
    /\ lock[c] = "none"
    /\ SharedAvailable(c)
    /\ lock' = [lock EXCEPT ![c] = "shared"]
    /\ cookie' = [cookie EXCEPT ![c] = file.cookie]
    /\ UNCHANGED <<file, priv, txn>>

EndSelect(c) ==
    /\ lock[c] = "shared"
    /\ lock' = [lock EXCEPT ![c] = "none"]
    /\ UNCHANGED <<file, priv, txn, cookie>>
==============================================================================
