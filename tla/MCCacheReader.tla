---------------------------- MODULE MCCacheReader ----------------------------
(* Instances of CacheReader for TLC.                                       *)
EXTENDS CacheReader

\* Small tables: two comparisons and two witnesses, no reading relations, one row
\* elsewhere.
MCNumRows == [t \in Tables |-> CASE t = 2 -> 0 [] t \in {5, 6} -> 2 [] OTHER -> 1]

MCRows == (Writers \cup {"old"}) \X (1..2)

\* A database file that an earlier run has filled.
Old(n) == [exists |-> TRUE, indexed |-> TRUE, rows |-> [i \in 1..n |-> <<"old", i>>]]
FilledFile == {[tab |-> [t \in Tables |-> Old(IF t = 5 THEN 2 ELSE 1)], cookie |-> 0]}

Filters == {<<>>, Passages}
Exclusions == {<<>>, MinExtant}

ShortTools == {EnumerateRelationships} \cup {OptimizeSubstemmata(e) : e \in {<<>>, Fragmentary}}
                  \cup {CompareWitnesses(e, s) : e \in Exclusions, s \in {<<>>, <<witness_exists>>}}
                  \cup {PrintLocalStemma(f) : f \in Filters}
                  \cup {PrintGlobalStemma(e) : e \in Exclusions}
AllTools == ShortTools \cup {FindRelatives(<<>>), PrintTextualFlow(Passages, <<>>)}
==============================================================================
