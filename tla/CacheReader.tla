----------------------------- MODULE CacheReader -----------------------------
(***************************************************************************)
(* The seven tools that read the cache, beside runs of populate_db that    *)
(* replace it (PopulateDB).  A tool is the sequence of its SELECTs: each   *)
(* is prepared, stepped to its end and finalized before the next, and the  *)
(* return codes are only compared with SQLITE_ROW, so that a query that    *)
(* fails looks like one without rows.  Tables are numbered as in           *)
(* PopulateDB; conditions on a row (WHERE) are left out, so a query        *)
(* returns the rows of its table.  The tools have no I/O errors: to a tool *)
(* they look like a file that is busy.                                     *)
(***************************************************************************)
EXTENDS PopulateDB, Integers

CONSTANT Tools          \* the sequences of queries that a tool may run

\* A query for each row or after another one has none of its own.
Plain == [table : Tables, exists : BOOLEAN, then : {<<>>}, each : {<<>>}]
Queries == [table : Tables, exists : BOOLEAN, then : Seq(Plain), each : Seq(Plain)]

ASSUME ToolsAssumption == Tools \subseteq Seq(Queries)

VARIABLES at,       \* control state of each tool
          todo,     \* its queries that are left, the current one first
          schema,   \* its cached schema: the cookie, and the tables that exist
          got,      \* what it has of the current query
          seen,     \* the results of its queries: the table and the rows
          quiet     \* history: no run of populate_db was active when it started

toolVars == <<at, todo, schema, got, seen, quiet>>
cacheVars == <<vars, toolVars>>

NotLoaded == [cookie |-> -1, tables |-> {}]

-----------------------------------------------------------------------------
(* The tools.  A list query goes on whatever it returns: with "then", and   *)
(* after that with "each" for every row.  An existence query ends the tool   *)
(* with exit(1) if there is no row.                                         *)

ForEach(t, then, each) == [table |-> t, exists |-> FALSE, then |-> then, each |-> each]
List(t) == ForEach(t, <<>>, <<>>)
Exists(t) == [List(t) EXCEPT !.exists = TRUE]

\* The queries, named for the functions that run them.
get_variation_unit_ids == List(4)
get_variation_unit_labels == List(4)
variation_unit_exists == Exists(4)
reading_exists == Exists(1)
get_variation_unit == <<List(4), List(1), List(2), List(3)>>
get_list_wit == List(6)
witness_exists == Exists(5)
get_witness == List(5)
get_genealogical_comparison == List(5)
add_fragmentary_witnesses == List(5)

\* The options: with -p, the labels are counted and the fragmentary witnesses
\* excluded; with a list of passages, each must exist.
Fragmentary == <<add_fragmentary_witnesses>>
MinExtant == <<get_variation_unit_labels, add_fragmentary_witnesses>>
Passages == <<variation_unit_exists>>

EnumerateRelationships ==
    <<get_variation_unit_ids, witness_exists, witness_exists, get_genealogical_comparison>>
\* With secondary witnesses, which must exist, -p is ignored.
CompareWitnesses(excluded, secondaries) ==
    (IF secondaries = <<>> THEN excluded ELSE <<>>)
        \o <<get_list_wit, witness_exists, get_witness>> \o secondaries
FindRelatives(excluded) ==
    excluded \o <<get_list_wit, witness_exists, get_witness, variation_unit_exists>>
             \o get_variation_unit \o <<reading_exists>>
OptimizeSubstemmata(excluded) ==
    <<get_variation_unit_labels>> \o excluded \o <<witness_exists, get_witness>>

\* The passages that a tool prints, and the witnesses.
EachUnit(filter) == ForEach(4, filter, get_variation_unit)
EachWitness == ForEach(6, <<>>, <<get_witness>>)

PrintLocalStemma(filter) == <<EachUnit(filter)>>
PrintTextualFlow(filter, excluded) == <<EachUnit(filter)>> \o excluded \o <<EachWitness>>
PrintGlobalStemma(excluded) == excluded \o <<EachWitness>>

-----------------------------------------------------------------------------

CacheInit ==
    /\ Init
    /\ at = [r \in Readers |-> "start"]
    /\ todo \in [Readers -> Tools]
    /\ schema = [r \in Readers |-> NotLoaded]
    /\ got = [r \in Readers |-> <<>>]
    /\ seen = [r \in Readers |-> <<>>]
    /\ quiet = [r \in Readers |-> FALSE]

query(r) == Head(todo[r])
rowsOf(r) == file.tab[query(r).table].rows

\* n copies of a sequence, one after the other.
Times(s, n) == [i \in 1..(n * Len(s)) |-> s[((i - 1) % Len(s)) + 1]]

OpenCache(r) ==
    /\ at[r] = "start"
    /\ at' = [at EXCEPT ![r] = "prepare"]
    /\ quiet' = [quiet EXCEPT ![r] = \A w \in Writers : pc[w] \in Ended]
    /\ UNCHANGED <<vars, todo, schema, got, seen>>

\* The current query has returned these rows.
Result(r, rows) ==
    /\ seen' = [seen EXCEPT ![r] = Append(@, [table |-> query(r).table, rows |-> rows])]
    /\ IF query(r).exists /\ rows = <<>>
       THEN /\ at' = [at EXCEPT ![r] = "exit1"]
            /\ UNCHANGED todo
       ELSE /\ at' = [at EXCEPT ![r] = "prepare"]
            /\ todo' = [todo EXCEPT ![r] =
                   query(r).then \o Times(query(r).each, Len(rows)) \o Tail(@)]
    /\ UNCHANGED quiet

\* The schema of the file.
current == [cookie |-> file.cookie, tables |-> {t \in Tables : file.tab[t].exists}]

\* sqlite3_prepare believes the cached schema when that has the table; if it has
\* not, or there is none, it looks again in the schema of the file.
Prepare(r) ==
    /\ at[r] = "prepare" /\ todo[r] # <<>>
    /\ \/ query(r).table \in schema[r].tables /\ UNCHANGED schema
       \/ /\ query(r).table \in current.tables \ schema[r].tables
          /\ SharedAvailable(r)
          /\ schema' = [schema EXCEPT ![r] = current]
    /\ at' = [at EXCEPT ![r] = "step"]
    /\ UNCHANGED <<vars, todo, got, seen, quiet>>

\* There is no such table, or the file is busy: there is no statement to step.
PrepareFails(r) ==
    /\ at[r] = "prepare" /\ todo[r] # <<>>
    /\ query(r).table \notin schema[r].tables
    /\ \/ ~SharedAvailable(r) /\ UNCHANGED schema
       \/ /\ SharedAvailable(r)
          /\ query(r).table \notin current.tables
          /\ schema' = [schema EXCEPT ![r] = current]
    /\ Result(r, <<>>)
    /\ UNCHANGED <<vars, got>>

\* The first sqlite3_step, if there is a row.  It reads all rows, to sort them,
\* while other processes go on: it begins with the lock, ...
StepRow(r) ==
    /\ at[r] = "step"
    /\ schema[r].cookie = file.cookie
    /\ rowsOf(r) # <<>>
    /\ Query(r)
    /\ at' = [at EXCEPT ![r] = "scan"]
    /\ UNCHANGED <<todo, schema, got, seen, quiet>>

\* ... takes the rows one by one from the file, ...
ScanRow(r) ==
    /\ at[r] = "scan"
    /\ Len(got[r]) < Len(rowsOf(r))
    /\ got' = [got EXCEPT ![r] = Append(@, rowsOf(r)[Len(@) + 1])]
    /\ UNCHANGED <<vars, at, todo, schema, seen, quiet>>

\* ... and returns the first one when it has reached the end of the table.
SortRows(r) ==
    /\ at[r] = "scan"
    /\ Len(got[r]) >= Len(rowsOf(r))
    /\ at' = [at EXCEPT ![r] = "rows"]
    /\ UNCHANGED <<vars, todo, schema, got, seen, quiet>>

\* It fails when the file is busy or the schema has changed, which makes the
\* connection forget its schema; otherwise the table is empty.
StepNoRow(r) ==
    /\ at[r] = "step"
    /\ \/ ~SharedAvailable(r) /\ UNCHANGED schema
       \/ /\ SharedAvailable(r)
          /\ schema[r].cookie # file.cookie
          /\ schema' = [schema EXCEPT ![r] = NotLoaded]
       \/ /\ SharedAvailable(r)
          /\ schema[r].cookie = file.cookie /\ rowsOf(r) = <<>>
          /\ UNCHANGED schema
    /\ Result(r, <<>>)
    /\ UNCHANGED <<vars, got>>

\* Mutant: the loop over the rows breaks after the first one.
FinalizeFirstRow(r) ==
    /\ at[r] = "rows"
    /\ Finalize(r)
    /\ Result(r, <<Head(got[r])>>)
    /\ got' = [got EXCEPT ![r] = <<>>]
    /\ UNCHANGED schema

\* Mutant: an existence query, which stops at its first row, is not finalized.
NotFinalized(r) ==
    /\ at[r] = "rows"
    /\ IF query(r).exists THEN UNCHANGED vars ELSE Finalize(r)
    /\ Result(r, got[r])
    /\ got' = [got EXCEPT ![r] = <<>>]
    /\ UNCHANGED schema

\* The other steps, and sqlite3_finalize.
FinalizeQuery(r) ==
    /\ at[r] = "rows"
    /\ Finalize(r)
    /\ Result(r, got[r])
    /\ got' = [got EXCEPT ![r] = <<>>]
    /\ UNCHANGED schema

\* sqlite3_close, then the output.
Close(r) ==
    /\ at[r] = "prepare" /\ todo[r] = <<>>
    /\ at' = [at EXCEPT ![r] = "exit0"]
    /\ UNCHANGED <<vars, todo, schema, got, seen, quiet>>

\* In these states a tool has a lock.
Reading == {"scan", "rows"}

Kill(r) ==
    /\ at[r] \in {"start", "prepare", "step", "scan", "rows"}
    /\ at' = [at EXCEPT ![r] = "killed"]
    /\ IF at[r] \in Reading THEN Finalize(r) ELSE UNCHANGED vars
    /\ UNCHANGED <<todo, schema, got, seen, quiet>>

Tool(r) ==
    \/ OpenCache(r) \/ Prepare(r) \/ PrepareFails(r) \/ StepRow(r) \/ StepNoRow(r)
    \/ ScanRow(r) \/ SortRows(r) \/ FinalizeQuery(r) \/ Close(r)

ToolEnded == {"exit0", "exit1", "killed"}

AllDone ==
    /\ \A r \in Readers : at[r] \in ToolEnded
    /\ \A w \in Writers : pc[w] \in Ended
    /\ UNCHANGED cacheVars

CacheNext ==
    \/ \E r \in Readers : Tool(r) \/ Kill(r)
    \/ \E w \in Writers : (Run(w) \/ Crash(w)) /\ UNCHANGED toolVars
    \/ AllDone

CacheSpec == CacheInit /\ [][CacheNext]_cacheVars

-----------------------------------------------------------------------------
(* Properties. *)

\* What a tool has of a query.
Results == [table : Tables, rows : Seq(Rows)]

ToolsTypeOK ==
    /\ TypeOK
    /\ at \in [Readers -> {"start", "prepare", "step", "scan", "rows"} \cup ToolEnded]
    /\ schema \in [Readers -> [cookie : Nat, tables : SUBSET Tables] \cup {NotLoaded}]
    /\ todo \in [Readers -> Seq(Queries)]
    /\ got \in [Readers -> Seq(Rows)]
    /\ seen \in [Readers -> Seq(Results)]
    /\ quiet \in [Readers -> BOOLEAN]
    /\ \A r \in Readers : lock[r] = IF at[r] \in Reading THEN "shared" ELSE "none"

\* Beside a single run, a query returns a table as it was before the run, or the
\* complete new table, or nothing, although it takes its rows one by one while
\* the run goes on (find_relatives.cpp:41-52 and the like).
ReadsWhole ==
    \A w \in Writers : Writers = {w} =>
        \A r \in Readers : \A i \in DOMAIN seen[r] :
            LET s == seen[r][i]
            IN s.rows \in {<<>>, base[w].tab[s.table].rows, AllRows(w, s.table)}

\* Once a tool has seen a table of the run, it sees the old contents of no table
\* that the run replaces earlier, in whatever order it reads them.
MonotoneReads ==
    \A w \in Writers : Writers = {w} /\ ~IOErrors =>
        \A r \in Readers : \A i, j \in DOMAIN seen[r] :
            LET s == seen[r][i]
                t == seen[r][j]
            IN (i < j /\ t.table <= s.table /\ s.rows # <<>> /\ s.rows = AllRows(w, s.table))
                  => t.rows \in {<<>>, AllRows(w, t.table)}

\* A tool that starts when no run is active gets every row of every table it
\* asks for, whatever the runs before it and the other tools do: nothing they
\* left behind makes one of its queries fail.
QuietReads ==
    \A r \in Readers : quiet[r] =>
        \A i \in DOMAIN seen[r] : seen[r][i].rows = file.tab[seen[r][i].table].rows

\* "Retrieves all rows from the WITNESSES table of the given SQLite database and
\* returns a list of witness IDs populated with its contents"
\* (find_relatives.cpp:32-33), and the like for the other queries.
RetrievesAllRows ==
    [][\A r \in Readers : seen'[r] # seen[r] =>
          LET s == seen'[r][Len(seen'[r])] IN s.rows = file.tab[s.table].rows]_cacheVars

-----------------------------------------------------------------------------
(* The inductive invariant behind ReadsWhole, MonotoneReads and QuietReads. *)

AllQuiet == \A w \in Writers : pc[w] \in Ended

\* In the middle of a query the file still holds the rows that were read, which
\* are its first ones, and in the end all of them.
QueryOK(r) ==
    /\ at[r] \in {"step"} \cup Reading => todo[r] # <<>>
    /\ at[r] \notin Reading \cup ToolEnded => got[r] = <<>>
    /\ at[r] = "scan" => /\ Len(got[r]) <= Len(rowsOf(r))
                         /\ \A i \in DOMAIN got[r] : got[r][i] = rowsOf(r)[i]
    /\ at[r] = "rows" => got[r] = rowsOf(r)

\* A tool that started when no run was active has the schema of the file.
QuietOK(r) ==
    /\ at[r] = "start" => ~quiet[r] /\ schema[r] = NotLoaded /\ seen[r] = <<>>
    /\ quiet[r] => AllQuiet /\ schema[r] \in {NotLoaded, current}
    /\ quiet[r] /\ at[r] = "step" => schema[r] = current

\* The rows of the run that a tool has seen were committed.
SeenPublished(r) ==
    \A w \in Writers : Writers = {w} /\ ~IOErrors =>
        \A i \in DOMAIN seen[r] :
            LET s == seen[r][i]
            IN  s.rows # <<>> /\ s.rows = AllRows(w, s.table) => s.table <= published[w]

CacheInv ==
    /\ ToolsTypeOK
    /\ \A r \in Readers : QueryOK(r) /\ QuietOK(r) /\ SeenPublished(r)
    /\ ReadsWhole
    /\ MonotoneReads
    /\ QuietReads
==============================================================================
