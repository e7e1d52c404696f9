----------------------------- MODULE CachePromise -----------------------------
(***************************************************************************)
(* What a run of populate_db looks like to those who read the file         *)
(* (scripts/populate_db.cpp:625-642): the tables are replaced one after    *)
(* the other.  The next one is dropped, created anew and indexed while the *)
(* others stay as they are; then it is there with all its rows, alone or   *)
(* with some of those after it, or, if the disk fails, passed over with    *)
(* them.  The run may end at any time.  Nothing is said about              *)
(* transactions, locks, or the image that the run works on.                *)
(***************************************************************************)
EXTENDS Naturals

CONSTANTS NumTables,
          Dropped, Created, Indexed,    \* a table without rows
          New,                          \* the new contents of each table
          MayLose                       \* the disk may fail

VARIABLES tab,      \* the tables that readers see
          next      \* the table to be replaced next

vars == <<tab, next>>

Init == next = 1

NextIs(contents) == tab' = [tab EXCEPT ![next] = contents] /\ UNCHANGED next

Drop == next <= NumTables /\ NextIs(Dropped)

Create == next <= NumTables /\ tab[next] = Dropped /\ NextIs(Created)

Index == next <= NumTables /\ tab[next] = Created /\ NextIs(Indexed)

\* The tables up to n are finished with.
PassTo(n) == next <= n /\ tab[next] = Indexed /\ next' = n + 1

\* A commit: they are there.
Publish(n) ==
    /\ PassTo(n)
    /\ tab' = [t \in 1..NumTables |-> IF t \in next..n THEN New[t] ELSE tab[t]]

\* A commit that is rolled back: they are as they were.
Lose(n) == MayLose /\ PassTo(n) /\ UNCHANGED tab

Stop == next' = NumTables + 1 /\ UNCHANGED tab

Next == Drop \/ Create \/ Index \/ (\E n \in 1..NumTables : Publish(n) \/ Lose(n)) \/ Stop

Spec == Init /\ [][Next]_vars
==============================================================================
