---------------------------- MODULE MCPopulateDB ----------------------------
(* Instances of PopulateDB for TLC.                                        *)
EXTENDS PopulateDB

\* The row counts of the six tables, small: no reading relations, so that one
\* transaction ends without having written anything.
MCNumRows == [t \in Tables |-> CASE t = 2 -> 0 [] t \in {1, 5} -> 2 [] OTHER -> 1]

MCRows == (Writers \cup {"old"}) \X (1..2)

Old == [exists |-> TRUE, indexed |-> TRUE, rows |-> << <<"old", 1>> >>]

\* A database file that an earlier run has filled.
FilledFile == {[tab |-> [t \in Tables |-> Old], cookie |-> 0]}

\* A new file, a filled one, and all that an interrupted run may have left.
AnyFile == {[tab |-> tab, cookie |-> 0] : tab \in [Tables -> {Dropped, Created, Old}]}
=============================================================================
