-------------------------- MODULE CacheReaderProofs --------------------------
(***************************************************************************)
(* Proofs about the tools that read the cache, for any number of tools,    *)
(* runs, tables and rows, and any queries: what their queries return       *)
(* beside the runs.                                                        *)
(***************************************************************************)
EXTENDS CacheReader, PopulateDBRunsProofs

-----------------------------------------------------------------------------
(* The tools are readers.                                                  *)

LEMMA StepReads ==
  ASSUME [CacheNext]_cacheVars
  PROVE  [Next]_vars
  <1>1. ASSUME NEW r \in Readers, Tool(r) \/ Kill(r)
        PROVE  UNCHANGED vars \/ Query(r) \/ Finalize(r)
    BY <1>1 DEF Tool, Kill, OpenCache, Prepare, PrepareFails, StepRow, StepNoRow, ScanRow,
                SortRows, FinalizeQuery, Close
  <1>2. CASE UNCHANGED cacheVars \/ AllDone
    BY <1>2 DEF cacheVars, AllDone
  <1>. QED
    BY <1>1, <1>2 DEF CacheNext, Next

\* The tools only read: all that is proved of a file with readers holds of the
\* file that the tools read.
LEMMA ToolsAreReaders == CacheSpec => Spec
  <1>1. CacheInit => Init
    BY DEF CacheInit
  <1>. QED
    BY <1>1, StepReads, PTL DEF CacheSpec, Spec

-----------------------------------------------------------------------------
(* Types. *)

LEMMA TimesType ==
  ASSUME NEW S, NEW s \in Seq(S), NEW n \in Nat
  PROVE  Times(s, n) \in Seq(S)
  <1>. DEFINE m == Len(s)
  <1>1. m \in Nat /\ DOMAIN s = 1..m /\ \A i \in 1..m : s[i] \in S
    OBVIOUS
  <1>2. n * m \in Nat
    BY <1>1
  <1>3. ASSUME NEW i \in 1..(n * m) PROVE s[((i - 1) % m) + 1] \in S
    <2>1. m # 0
      BY <1>1
    <2>2. (i - 1) % m \in 0..(m - 1)
      BY <1>1, <2>1, SMT
    <2>. QED
      BY <1>1, <2>1, <2>2
  <1>. HIDE DEF m
  <1>4. [i \in 1..(n * m) |-> s[((i - 1) % m) + 1]] \in Seq(S)
    BY <1>2, <1>3
  <1>. QED
    BY <1>4 DEF m, Times

LEMMA QueryType ==
  ASSUME ToolsTypeOK, NEW r \in Readers, todo[r] # <<>>, NEW n \in Nat
  PROVE  /\ query(r).table \in Tables
         /\ query(r).then \o Times(query(r).each, n) \o Tail(todo[r]) \in Seq(Queries)
  <1>1. ASSUME NEW p \in Plain PROVE p \in Queries
    <2>1. /\ p = [table |-> p.table, exists |-> p.exists, then |-> p.then, each |-> p.each]
          /\ p.table \in Tables /\ p.exists \in BOOLEAN /\ p.then = <<>> /\ p.each = <<>>
      BY DEF Plain
    <2>. DEFINE S == Seq(Plain)
    <2>2. <<>> \in S
      OBVIOUS
    <2>3. Queries = [table : Tables, exists : BOOLEAN, then : S, each : S]
      BY DEF Queries
    <2>. HIDE DEF S
    <2>. QED
      BY <2>1, <2>2, <2>3
  <1>2. query(r) \in Queries /\ Tail(todo[r]) \in Seq(Queries)
    BY DEF ToolsTypeOK, query
  <1>3. query(r).then \in Seq(Queries) /\ query(r).each \in Seq(Queries)
    BY <1>1, <1>2 DEF Queries
  <1>. QED
    BY <1>2, <1>3, TimesType DEF Queries

\* What a connection that is not w sees of a step of w.
LEMMA RunFrame ==
  ASSUME Typed, NEW w \in Writers, Run(w) \/ Crash(w), NEW r \in Readers
  PROVE  /\ r # w /\ lock'[r] = lock[r]
         /\ lock[r] = "shared" => file' = file
  <1>1. w \in Conns /\ r \in Conns \ {w} /\ DBTypeOK
    BY WritersAssumption DEF Readers, Typed, TypeOK
  <1>2. lock[r] = "shared" => ~ExclusiveAvailable(w)
    BY <1>1 DEF ExclusiveAvailable
  <1>3. CASE DropTable(w) \/ CreateTable(w) \/ DropIndex(w) \/ CreateIndex(w)
    BY <1>1, <1>2, <1>3 DEF DropTable, CreateTable, DropIndex, CreateIndex, ExecNothing, ExecDDL
  <1>4. CASE EndTransaction(w)
    BY <1>1, <1>2, <1>4
    DEF EndTransaction, CommitOK, CommitBusy, CommitError, Rollback, DBTypeOK
  <1>5. CASE InsertRow(w)
    <2>1. PICK tab : StepInsert(w, tab)
      BY <1>5 DEF InsertRow
    <2>. QED
      BY <1>1, <2>1 DEF StepInsert, DBTypeOK
  <1>6. CASE Open(w) \/ BeginTransaction(w) \/ CloseDatabase(w) \/ Exit1(w) \/ Crash(w)
    BY <1>1, <1>6 DEF Open, dbVars, BeginTransaction, ExecBegin, CloseDatabase, Exit1, Crash,
                      Rollback, DBTypeOK
  <1>. QED
    BY <1>1, <1>3, <1>4, <1>5, <1>6 DEF Run

\* What becomes of a query that has returned some rows.
LEMMA ResultType ==
  ASSUME ToolsTypeOK, NEW r \in Readers, at[r] \in {"prepare", "step", "rows"}, todo[r] # <<>>,
         NEW rows \in Seq(Rows), Result(r, rows)
  PROVE  /\ seen' \in [Readers -> Seq(Results)]
         /\ todo' \in [Readers -> Seq(Queries)]
         /\ \E state \in {"exit1", "prepare"} : at' = [at EXCEPT ![r] = state]
         /\ quiet' = quiet
  <1>1. Len(rows) \in Nat
    OBVIOUS
  <1>2. [table |-> query(r).table, rows |-> rows] \in Results
    BY <1>1, QueryType DEF Results
  <1>3. query(r).then \o Times(query(r).each, Len(rows)) \o Tail(todo[r]) \in Seq(Queries)
    BY <1>1, QueryType
  <1>4. /\ seen \in [Readers -> Seq(Results)]
        /\ todo \in [Readers -> Seq(Queries)]
    BY DEF ToolsTypeOK
  <1>. DEFINE result == [table |-> query(r).table, rows |-> rows]
             left == query(r).then \o Times(query(r).each, Len(rows)) \o Tail(todo[r])
  <1>5. /\ seen' = [seen EXCEPT ![r] = Append(@, result)]
        /\ todo' = todo \/ todo' = [todo EXCEPT ![r] = left]
        /\ \E state \in {"exit1", "prepare"} : at' = [at EXCEPT ![r] = state]
        /\ quiet' = quiet
    BY DEF Result
  <1>6. result \in Results /\ left \in Seq(Queries)
    BY <1>2, <1>3
  <1>. HIDE DEF result, left
  <1>7. todo' \in [Readers -> Seq(Queries)]
    BY <1>4, <1>5, <1>6
  <1>8. Append(seen[r], result) \in Seq(Results)
    BY <1>4, <1>6
  <1>. QED
    BY <1>4, <1>5, <1>7, <1>8

-----------------------------------------------------------------------------
(* What the tools have seen.                                               *)

\* What is known of the runs.
RunsKnown == IInv /\ RunsInv

\* The rows of a table of the file, beside a single run.
LEMMA RowsOfRun ==
  ASSUME RunsKnown, NEW w \in Writers, Writers = {w}, NEW t \in Tables,
         NEW rows \in {<<>>, file.tab[t].rows}
  PROVE  /\ rows \in {<<>>, base[w].tab[t].rows, AllRows(w, t)}
         /\ ~IOErrors /\ rows # <<>> /\ rows = AllRows(w, t) => t <= published[w]
         /\ ~IOErrors /\ t <= published[w] => rows \in {<<>>, AllRows(w, t)}
  <1>1. /\ Single(w) /\ published[w] \in Nat /\ t \in Nat
        /\ base[w] \in InitialFiles
    BY IInvIsSingle, SingleFacts DEF RunsKnown, Single, SingleRun, ViewOK, Tables
  <1>2. Full(w, t).rows = AllRows(w, t) /\ \A step \in Steps : step.rows = <<>>
    BY DEF Full, Steps, Dropped, Created, Indexed
  <1>3. file.tab[t] \in {base[w].tab[t], Full(w, t)} \cup Steps
    BY <1>1 DEF Single, FileAtomic, Outcomes
  <1>4. ASSUME ~IOErrors
        PROVE  /\ t <= published[w] => file.tab[t] = Full(w, t)
               /\ t > published[w] => file.tab[t] \in {base[w].tab[t]} \cup Steps
    BY <1>1, <1>4 DEF Single, FileInOrder
  <1>5. base[w].tab[t].rows = AllRows(w, t) => AllRows(w, t) = <<>>
    <2>1. NumRows[t] \in Nat /\ AllRows(w, t) = [i \in 1..NumRows[t] |-> <<w, i>>]
      BY NumRowsAssumption DEF AllRows, FirstRows
    <2>2. CASE NumRows[t] = 0
      BY <2>2, FirstRowsEmpty DEF AllRows
    <2>3. CASE NumRows[t] # 0
      <3>1. 1 \in 1..NumRows[t] /\ 1 \in DOMAIN AllRows(w, t) /\ AllRows(w, t)[1] = <<w, 1>>
        BY <2>1, <2>3
      <3>. QED
        BY <1>1, <3>1, OwnRowsAssumption
    <2>. QED
      BY <2>2, <2>3
  <1>. QED
    BY <1>1, <1>2, <1>3, <1>4, <1>5

\* The parts of the invariant that are about the results of one tool.
SeenOK(r) ==
  /\ \A w \in Writers : Writers = {w} =>
        /\ \A i \in DOMAIN seen[r] :
              /\ seen[r][i].rows \in
                    {<<>>, base[w].tab[seen[r][i].table].rows, AllRows(w, seen[r][i].table)}
              /\ ~IOErrors /\ seen[r][i].rows # <<>>
                    /\ seen[r][i].rows = AllRows(w, seen[r][i].table)
                    => seen[r][i].table <= published[w]
        /\ ~IOErrors => \A i, j \in DOMAIN seen[r] :
              (/\ i < j /\ seen[r][j].table <= seen[r][i].table
               /\ seen[r][i].rows # <<>>
               /\ seen[r][i].rows = AllRows(w, seen[r][i].table))
              => seen[r][j].rows \in {<<>>, AllRows(w, seen[r][j].table)}
  /\ quiet[r] => \A i \in DOMAIN seen[r] : seen[r][i].rows = file.tab[seen[r][i].table].rows

LEMMA SeenParts ==
  (\A r \in Readers : SeenOK(r))
     <=> ReadsWhole /\ MonotoneReads /\ QuietReads /\ \A r \in Readers : SeenPublished(r)
  <1>1. ASSUME \A r \in Readers : SeenOK(r)
        PROVE  ReadsWhole /\ MonotoneReads /\ QuietReads /\ \A r \in Readers : SeenPublished(r)
    BY <1>1 DEF SeenOK, ReadsWhole, MonotoneReads, QuietReads, SeenPublished
  <1>2. ASSUME ReadsWhole, MonotoneReads, QuietReads, \A r \in Readers : SeenPublished(r),
               NEW r \in Readers
        PROVE  SeenOK(r)
    BY <1>2 DEF SeenOK, ReadsWhole, MonotoneReads, QuietReads, SeenPublished
  <1>. QED
    BY <1>1, <1>2

LEMMA AppendFacts ==
  ASSUME NEW S, NEW s \in Seq(S), NEW x \in S
  PROVE  /\ Append(s, x) \in Seq(S)
         /\ DOMAIN Append(s, x) = 1..(Len(s) + 1) /\ DOMAIN s = 1..Len(s) /\ Len(s) \in Nat
         /\ \A i \in 1..Len(s) : Append(s, x)[i] = s[i]
         /\ Append(s, x)[Len(s) + 1] = x
  OBVIOUS

\* Another result joins the results of a tool, whose rows are those of the file
\* or, unless nothing was wrong, none.
LEMMA ResultSeen ==
  ASSUME RunsKnown, CacheInv, NEW r \in Readers, todo[r] # <<>>,
         NEW rows \in {<<>>, rowsOf(r)}, quiet[r] => rows = rowsOf(r),
         Result(r, rows), UNCHANGED <<file, base, published>>
  PROVE  \A q \in Readers : SeenOK(q)'
  <1>. DEFINE t0 == query(r).table
             result == [table |-> t0, rows |-> rows]
             n == Len(seen[r])
  <1>1. /\ seen \in [Readers -> Seq(Results)] /\ t0 \in Tables /\ Tables \subseteq Nat
        /\ \A q \in Readers : SeenOK(q)
    <2>1. ToolsTypeOK /\ 0 \in Nat
      BY DEF CacheInv
    <2>2. t0 \in Tables
      BY <2>1, QueryType
    <2>3. \A q \in Readers : SeenOK(q)
      BY SeenParts DEF CacheInv
    <2>. QED
      BY <2>1, <2>2, <2>3 DEF ToolsTypeOK, Tables
  <1>2. seen' = [seen EXCEPT ![r] = Append(@, result)] /\ quiet' = quiet
    BY DEF Result
  <1>3. seen[r] \in Seq(Results) /\ n \in Nat
    BY <1>1
  <1>4. file.tab[t0].rows \in Seq(Rows)
    <2>1. file \in Image
      BY DEF CacheInv, ToolsTypeOK, TypeOK, DBTypeOK
    <2>. QED
      BY <1>1, <2>1 DEF Image, Table
  <1>5. rows \in Seq(Rows) /\ rows \in {<<>>, file.tab[t0].rows}
    <2>1. rowsOf(r) = file.tab[t0].rows
      BY DEF rowsOf
    <2>2. <<>> \in Seq(Rows)
      OBVIOUS
    <2>. QED
      BY <1>4, <2>1, <2>2
  <1>. HIDE DEF t0
  <1>6. result \in Results
    BY <1>1, <1>5 DEF Results
  <1>. HIDE DEF result
  <1>7. /\ seen'[r] = Append(seen[r], result)
        /\ \A q \in Readers \ {r} : seen'[q] = seen[q]
    BY <1>1, <1>2
  <1>8. /\ DOMAIN seen'[r] = 1..(n + 1) /\ DOMAIN seen[r] = 1..n
        /\ \A i \in 1..n : seen'[r][i] = seen[r][i]
        /\ seen'[r][n + 1] = result
        /\ result.table = t0 /\ result.rows = rows
    <2>1. result.table = t0 /\ result.rows = rows
      BY DEF result
    <2>. QED
      BY <1>3, <1>6, <1>7, <2>1, AppendFacts
  <1>. HIDE DEF n
  <1>9. ASSUME NEW q \in Readers, q # r PROVE SeenOK(q)'
    <2>1. SeenOK(q) /\ UNCHANGED <<seen[q], quiet[q], file, base, published>>
      BY <1>1, <1>2, <1>7, <1>9
    <2>. QED
      BY <2>1 DEF SeenOK, AllRows, FirstRows
  <1>10. SeenOK(r)'
    <2>1. ASSUME NEW w \in Writers, Writers = {w}
          PROVE  /\ rows \in {<<>>, base[w].tab[t0].rows, AllRows(w, t0)}
                 /\ ~IOErrors /\ rows # <<>> /\ rows = AllRows(w, t0) => t0 <= published[w]
                 /\ ~IOErrors /\ t0 <= published[w] => rows \in {<<>>, AllRows(w, t0)}
      BY <1>1, <1>5, <2>1, RowsOfRun
    <2>2. \A i \in DOMAIN seen'[r] : \/ i \in 1..n /\ seen'[r][i] = seen[r][i]
                                     \/ i = n + 1 /\ seen'[r][i] = result
      BY <1>3, <1>8
    <2>3. ASSUME NEW w \in Writers, Writers = {w}, NEW i \in DOMAIN seen'[r]
          PROVE  /\ seen'[r][i].rows \in
                       {<<>>, base[w].tab[seen'[r][i].table].rows, AllRows(w, seen'[r][i].table)}
                 /\ ~IOErrors /\ seen'[r][i].rows # <<>>
                       /\ seen'[r][i].rows = AllRows(w, seen'[r][i].table)
                       => seen'[r][i].table <= published[w]
      BY <1>1, <1>8, <2>1, <2>2, <2>3 DEF SeenOK
    <2>4. ASSUME NEW w \in Writers, Writers = {w}, ~IOErrors,
                 NEW i \in DOMAIN seen'[r], NEW j \in DOMAIN seen'[r],
                 i < j, seen'[r][j].table <= seen'[r][i].table, seen'[r][i].rows # <<>>,
                 seen'[r][i].rows = AllRows(w, seen'[r][i].table)
          PROVE  seen'[r][j].rows \in {<<>>, AllRows(w, seen'[r][j].table)}
      <3>1. i \in 1..n
        BY <1>3, <1>8, <2>4
      <3>2. CASE j \in 1..n
        BY <1>1, <1>8, <2>4, <3>1, <3>2 DEF SeenOK
      <3>3. CASE j = n + 1
        <4>1. /\ seen[r][i].table <= published[w] /\ t0 <= seen[r][i].table
              /\ seen[r][i] \in Results
          BY <1>1, <1>3, <1>8, <2>4, <3>1, <3>3 DEF SeenOK
        <4>2. t0 <= published[w]
          <5>1. published[w] \in Nat /\ t0 \in Nat /\ seen[r][i].table \in Nat
            BY <1>1, <4>1 DEF RunsKnown, IInv, TypeOK, Results, Tables
          <5>. QED
            BY <4>1, <5>1
        <4>. QED
          BY <1>8, <2>1, <2>4, <3>3, <4>2
      <3>. QED
        BY <1>3, <1>8, <3>2, <3>3
    <2>5. ASSUME quiet[r], NEW i \in DOMAIN seen'[r]
          PROVE  seen'[r][i].rows = file.tab[seen'[r][i].table].rows
      <3>1. CASE i \in 1..n
        <4>1. SeenOK(r)
          BY <1>1
        <4>2. \A j \in DOMAIN seen[r] : seen[r][j].rows = file.tab[seen[r][j].table].rows
          BY <2>5, <4>1 DEF SeenOK
        <4>. QED
          BY <1>8, <3>1, <4>2
      <3>2. CASE i = n + 1
        <4>1. rowsOf(r) = file.tab[t0].rows
          BY DEF rowsOf, t0
        <4>2. seen'[r][i].rows = rowsOf(r) /\ seen'[r][i].table = t0
          BY <1>8, <2>5, <3>2
        <4>. QED
          BY <4>1, <4>2
      <3>. QED
        BY <2>2, <3>1, <3>2
    <2>. QED
      BY <1>2, <2>3, <2>4, <2>5 DEF SeenOK, AllRows, FirstRows
  <1>. QED
    BY <1>9, <1>10

-----------------------------------------------------------------------------
(* The steps of a tool.                                                    *)

\* When no run is active nobody has more than a shared lock.
LEMMA QuietFacts ==
  ASSUME RunsKnown, AllQuiet, NEW r \in Readers
  PROVE  SharedAvailable(r)
  <1>1. \A w \in Writers : lock[w] \notin Writing
    BY DEF RunsKnown, RunsInv, TransactionOK, AllQuiet, Ended
  <1>2. \A q \in Readers : lock[q] # "pending"
    BY DEF RunsKnown, RunsInv, ReadersOnlyRead
  <1>. QED
    BY <1>1, <1>2 DEF SharedAvailable, Readers, Writing

\* A table that does not exist has no rows.
LEMMA WholeFacts ==
  ASSUME RunsKnown, NEW t \in Tables, t \notin current.tables
  PROVE  file.tab[t].rows = <<>>
  BY DEF RunsKnown, RunsInv, Whole, current, Dropped

\* What the steps of a tool have in common.
ToolStep(r) ==
  /\ UNCHANGED <<file, pc, base, published>>
  /\ \A q \in Readers \ {r} :
        /\ at'[q] = at[q] /\ todo'[q] = todo[q] /\ schema'[q] = schema[q]
        /\ got'[q] = got[q] /\ quiet'[q] = quiet[q] /\ lock'[q] = lock[q]

LEMMA ToolFacts ==
  ASSUME CacheInv, NEW r \in Readers
  PROVE  /\ ToolsTypeOK /\ r \in Conns /\ lock \in [Conns -> Locks]
         /\ at \in [Readers -> {"start", "prepare", "step", "scan", "rows"} \cup ToolEnded]
         /\ schema \in [Readers -> [cookie : Nat, tables : SUBSET Tables] \cup {NotLoaded}]
         /\ todo \in [Readers -> Seq(Queries)]
         /\ got \in [Readers -> Seq(Rows)]
         /\ seen \in [Readers -> Seq(Results)]
         /\ quiet \in [Readers -> BOOLEAN]
         /\ \A q \in Readers : q \in Conns /\ lock[q] = IF at[q] \in Reading THEN "shared" ELSE "none"
         /\ current \in [cookie : Nat, tables : SUBSET Tables]
         /\ todo[r] # <<>> => rowsOf(r) \in Seq(Rows) /\ query(r).table \in Tables
         /\ QueryOK(r) /\ QuietOK(r)
  <1>1. ToolsTypeOK /\ file \in Image /\ 0 \in Nat /\ QueryOK(r) /\ QuietOK(r)
    BY DEF CacheInv, ToolsTypeOK, TypeOK, DBTypeOK
  <1>2. todo[r] # <<>> => query(r).table \in Tables
    BY <1>1, QueryType
  <1>3. todo[r] # <<>> => rowsOf(r) \in Seq(Rows)
    BY <1>1, <1>2 DEF rowsOf, Image, Table
  <1>4. current \in [cookie : Nat, tables : SUBSET Tables]
    BY <1>1 DEF current, Image
  <1>. QED
    BY <1>1, <1>2, <1>3, <1>4 DEF ToolsTypeOK, TypeOK, DBTypeOK, Readers

\* A step of a tool keeps the invariant if it keeps what concerns this tool.
LEMMA ToolKeeps ==
  ASSUME CacheInv, TypeOK', NEW r \in Readers, ToolStep(r),
         at' \in [Readers -> {"start", "prepare", "step", "scan", "rows"} \cup ToolEnded],
         schema' \in [Readers -> [cookie : Nat, tables : SUBSET Tables] \cup {NotLoaded}],
         todo' \in [Readers -> Seq(Queries)],
         got' \in [Readers -> Seq(Rows)],
         seen' \in [Readers -> Seq(Results)],
         quiet' \in [Readers -> BOOLEAN],
         lock'[r] = IF at'[r] \in Reading THEN "shared" ELSE "none",
         QueryOK(r)', QuietOK(r)',
         \A q \in Readers \ {r} : seen'[q] = seen[q],
         \A q \in Readers : SeenOK(q)'
  PROVE  CacheInv'
  <1>1. ToolsTypeOK'
    BY DEF CacheInv, ToolsTypeOK, ToolStep
  <1>2. ASSUME NEW q \in Readers, q # r PROVE QueryOK(q)' /\ QuietOK(q)'
    <2>1. /\ at'[q] = at[q] /\ todo'[q] = todo[q] /\ schema'[q] = schema[q] /\ seen'[q] = seen[q]
          /\ got'[q] = got[q] /\ quiet'[q] = quiet[q]
          /\ QueryOK(q) /\ QuietOK(q)
      BY <1>2 DEF CacheInv, ToolStep
    <2>2. current' = current /\ AllQuiet' = AllQuiet
      BY DEF ToolStep, current, AllQuiet, Tables, Ended
    <2>3. rowsOf(q)' = rowsOf(q)
      BY <2>1 DEF ToolStep, rowsOf, query
    <2>4. QueryOK(q)'
      BY <2>1, <2>3 DEF QueryOK
    <2>. QED
      BY <2>1, <2>2, <2>4 DEF QuietOK, NotLoaded
  <1>3. ReadsWhole' /\ MonotoneReads' /\ QuietReads' /\ \A q \in Readers : SeenPublished(q)'
    <2>1. \A q \in Readers : SeenPublished(q)'
      BY DEF SeenOK, SeenPublished
    <2>2. ReadsWhole' /\ MonotoneReads' /\ QuietReads'
      BY DEF SeenOK, ReadsWhole, MonotoneReads, QuietReads
    <2>. QED
      BY <2>1, <2>2
  <1>. QED
    BY <1>1, <1>2, <1>3 DEF CacheInv

\* When nothing is added to the results they stay right.
LEMMA SeenKeeps ==
  ASSUME CacheInv, UNCHANGED <<file, base, published, seen, quiet>>
  PROVE  \A q \in Readers : SeenOK(q)'
  <1>1. \A q \in Readers : SeenOK(q)
    BY SeenParts DEF CacheInv
  <1>. QED
    BY <1>1 DEF SeenOK, AllRows, FirstRows

\* A query that is over: its result is none, or right, or both.
LEMMA ResultKeeps ==
  ASSUME RunsKnown, CacheInv, TypeOK', NEW r \in Readers, ToolStep(r),
         at[r] \in {"prepare", "step", "rows"}, todo[r] # <<>>,
         NEW rows \in {<<>>, rowsOf(r)}, quiet[r] => rows = rowsOf(r), Result(r, rows),
         schema' \in [Readers -> [cookie : Nat, tables : SUBSET Tables] \cup {NotLoaded}],
         got' \in [Readers -> Seq(Rows)], got'[r] = <<>>,
         lock'[r] = "none",
         quiet[r] => schema'[r] \in {NotLoaded, current}
  PROVE  CacheInv'
  <1>1. rows \in Seq(Rows)
    <2>1. <<>> \in Seq(Rows) /\ rowsOf(r) \in Seq(Rows)
      BY ToolFacts
    <2>. QED
      BY <2>1
  <1>2. /\ seen' \in [Readers -> Seq(Results)]
        /\ todo' \in [Readers -> Seq(Queries)]
        /\ \E state \in {"exit1", "prepare"} : at' = [at EXCEPT ![r] = state]
        /\ quiet' = quiet
    BY <1>1, ResultType, ToolFacts
  <1>3. /\ at' \in [Readers -> {"start", "prepare", "step", "scan", "rows"} \cup ToolEnded]
        /\ at'[r] \in {"exit1", "prepare"}
        /\ quiet' \in [Readers -> BOOLEAN]
    BY <1>2, ToolFacts DEF ToolEnded
  <1>4. \A q \in Readers : SeenOK(q)'
    BY ResultSeen DEF ToolStep
  <1>5. QueryOK(r)'
    BY <1>3 DEF QueryOK, Reading
  <1>6. QuietOK(r)'
    <2>1. current' = current /\ AllQuiet' = AllQuiet
      BY DEF ToolStep, current, AllQuiet, Tables, Ended
    <2>. QED
      BY <1>2, <1>3, <2>1, ToolFacts DEF QuietOK, NotLoaded
  <1>7. \A q \in Readers \ {r} : seen'[q] = seen[q]
    BY ToolFacts DEF Result
  <1>8. at'[r] \notin Reading
    BY <1>3 DEF Reading
  <1>. QED
    BY <1>2, <1>3, <1>4, <1>5, <1>6, <1>7, <1>8, ToolKeeps

LEMMA ToolRuns ==
  ASSUME RunsKnown, CacheInv, TypeOK', NEW r \in Readers, Tool(r) \/ Kill(r)
  PROVE  CacheInv'
  <1>1. /\ ToolsTypeOK /\ r \in Conns /\ lock \in [Conns -> Locks]
        /\ at \in [Readers -> {"start", "prepare", "step", "scan", "rows"} \cup ToolEnded]
        /\ schema \in [Readers -> [cookie : Nat, tables : SUBSET Tables] \cup {NotLoaded}]
        /\ todo \in [Readers -> Seq(Queries)]
        /\ got \in [Readers -> Seq(Rows)]
        /\ seen \in [Readers -> Seq(Results)]
        /\ quiet \in [Readers -> BOOLEAN]
        /\ \A q \in Readers : q \in Conns /\ lock[q] = IF at[q] \in Reading THEN "shared" ELSE "none"
        /\ current \in [cookie : Nat, tables : SUBSET Tables]
        /\ todo[r] # <<>> => rowsOf(r) \in Seq(Rows) /\ query(r).table \in Tables
        /\ QueryOK(r) /\ QuietOK(r)
    BY ToolFacts
  <1>2. quiet[r] => /\ AllQuiet /\ SharedAvailable(r) /\ schema[r] \in {NotLoaded, current}
                    /\ at[r] = "step" => schema[r] = current
    BY <1>1, QuietFacts DEF QuietOK
  <1>3. <<>> \in Seq(Rows)
    OBVIOUS
  <1>4. CASE OpenCache(r)
    <2>1. /\ ToolStep(r) /\ at'[r] = "prepare" /\ lock' = lock
          /\ UNCHANGED <<todo, schema, got, seen>>
          /\ at' \in [Readers -> {"start", "prepare", "step", "scan", "rows"} \cup ToolEnded]
          /\ quiet' \in [Readers -> BOOLEAN]
          /\ quiet'[r] = AllQuiet /\ seen[r] = <<>> /\ schema[r] = NotLoaded /\ at[r] = "start"
          /\ \A q \in Readers \ {r} : quiet'[q] = quiet[q]
      BY <1>1, <1>4 DEF OpenCache, ToolStep, vars, dbVars, QuietOK, AllQuiet
    <2>2. current' = current /\ AllQuiet' = AllQuiet
      BY <2>1 DEF ToolStep, current, AllQuiet, Tables, Ended
    <2>3. QueryOK(r)' /\ QuietOK(r)' /\ at'[r] \notin Reading /\ at[r] \notin Reading
      BY <1>1, <2>1, <2>2 DEF QueryOK, QuietOK, NotLoaded, Reading, ToolEnded
    <2>4. \A q \in Readers : SeenOK(q)'
      <3>1. \A q \in Readers : SeenOK(q)
        BY SeenParts DEF CacheInv
      <3>2. SeenOK(r)'
        BY <2>1 DEF SeenOK
      <3>3. ASSUME NEW q \in Readers, q # r PROVE SeenOK(q)'
        BY <2>1, <3>1, <3>3 DEF SeenOK, ToolStep, AllRows, FirstRows
      <3>. QED
        BY <3>2, <3>3
    <2>. QED
      BY <1>1, <2>1, <2>3, <2>4, ToolKeeps
  <1>5. CASE Prepare(r)
    <2>1. /\ ToolStep(r) /\ at'[r] = "step" /\ lock' = lock /\ at[r] = "prepare"
          /\ UNCHANGED <<todo, got, seen, quiet>> /\ todo[r] # <<>>
          /\ at' \in [Readers -> {"start", "prepare", "step", "scan", "rows"} \cup ToolEnded]
          /\ schema' \in [Readers -> [cookie : Nat, tables : SUBSET Tables] \cup {NotLoaded}]
          /\ \/ schema'[r] = current
             \/ schema'[r] = schema[r] /\ query(r).table \in schema[r].tables
      <3>1. /\ at[r] = "prepare" /\ todo[r] # <<>> /\ at' = [at EXCEPT ![r] = "step"]
            /\ UNCHANGED <<vars, todo, got, seen, quiet>>
            /\ \/ query(r).table \in schema[r].tables /\ schema' = schema
               \/ schema' = [schema EXCEPT ![r] = current]
        BY <1>5 DEF Prepare
      <3>2. CASE query(r).table \in schema[r].tables /\ schema' = schema
        BY <1>1, <3>1, <3>2 DEF ToolStep, vars, dbVars
      <3>3. CASE schema' = [schema EXCEPT ![r] = current]
        BY <1>1, <3>1, <3>3 DEF ToolStep, vars, dbVars
      <3>. QED
        BY <3>1, <3>2, <3>3
    <2>2. current' = current /\ AllQuiet' = AllQuiet
      BY <2>1 DEF ToolStep, current, AllQuiet, Tables, Ended
    <2>3. QueryOK(r)' /\ at'[r] \notin Reading /\ at[r] \notin Reading
      BY <1>1, <2>1 DEF QueryOK, Reading, ToolEnded
    <2>4. quiet[r] => schema'[r] = current
      BY <1>2, <2>1 DEF NotLoaded
    <2>5. QuietOK(r)'
      BY <1>2, <2>1, <2>2, <2>4 DEF QuietOK, NotLoaded
    <2>6. \A q \in Readers : SeenOK(q)'
      BY <2>1, SeenKeeps DEF ToolStep
    <2>. QED
      BY <1>1, <2>1, <2>3, <2>5, <2>6, ToolKeeps
  <1>6. CASE PrepareFails(r)
    <2>1. /\ at[r] = "prepare" /\ todo[r] # <<>> /\ Result(r, <<>>) /\ UNCHANGED <<vars, got>>
          /\ \/ ~SharedAvailable(r) /\ UNCHANGED schema
             \/ query(r).table \notin current.tables /\ schema' = [schema EXCEPT ![r] = current]
      BY <1>6 DEF PrepareFails
    <2>2. /\ ToolStep(r)
          /\ schema' \in [Readers -> [cookie : Nat, tables : SUBSET Tables] \cup {NotLoaded}]
          /\ schema'[r] \in {schema[r], current}
      BY <1>1, <2>1 DEF ToolStep, vars, dbVars, Result
    <2>3. quiet[r] => <<>> = rowsOf(r)
      BY <1>1, <1>2, <2>1, WholeFacts DEF rowsOf
    <2>4. quiet[r] => schema'[r] \in {NotLoaded, current}
      BY <1>2, <2>2
    <2>5. got' \in [Readers -> Seq(Rows)] /\ got'[r] = <<>> /\ lock'[r] = "none"
      BY <1>1, <2>1 DEF vars, dbVars, QueryOK, Reading, ToolEnded
    <2>. QED
      BY <2>1, <2>2, <2>3, <2>4, <2>5, ResultKeeps
  <1>7. CASE StepRow(r) \/ ScanRow(r) \/ SortRows(r)
    <2>1. /\ ToolStep(r) /\ at'[r] \in Reading /\ lock'[r] = "shared"
          /\ UNCHANGED <<todo, schema, seen, quiet>> /\ todo[r] # <<>>
          /\ at' \in [Readers -> {"start", "prepare", "step", "scan", "rows"} \cup ToolEnded]
          /\ got' \in [Readers -> Seq(Rows)]
      <3>1. CASE StepRow(r)
        BY <1>1, <3>1 DEF StepRow, Query, StepSelect, ToolStep, QueryOK, Reading
      <3>2. CASE ScanRow(r)
        <4>1. /\ at[r] = "scan" /\ todo[r] # <<>>
              /\ rowsOf(r)[Len(got[r]) + 1] \in Rows
          BY <1>1, <3>2 DEF ScanRow, QueryOK, Reading
        <4>. QED
          BY <1>1, <3>2, <4>1 DEF ScanRow, ToolStep, vars, dbVars, Reading
      <3>3. CASE SortRows(r)
        BY <1>1, <3>3 DEF SortRows, ToolStep, QueryOK, vars, dbVars, Reading
      <3>. QED
        BY <1>7, <3>1, <3>2, <3>3
    <2>2. current' = current /\ AllQuiet' = AllQuiet /\ rowsOf(r)' = rowsOf(r)
      BY <2>1 DEF ToolStep, current, AllQuiet, Tables, Ended, rowsOf, query
    <2>3. QueryOK(r)'
      <3>1. rowsOf(r) \in Seq(Rows) /\ got[r] \in Seq(Rows)
        BY <1>1, <2>1
      <3>2. CASE StepRow(r)
        <4>1. at'[r] = "scan" /\ got'[r] = <<>>
          BY <1>1, <3>2 DEF StepRow, QueryOK, Reading, ToolEnded
        <4>. QED
          BY <2>1, <2>2, <3>1, <4>1 DEF QueryOK, Reading
      <3>3. CASE ScanRow(r)
        <4>1. /\ at[r] = "scan" /\ at'[r] = "scan" /\ Len(got[r]) < Len(rowsOf(r))
              /\ got'[r] = Append(got[r], rowsOf(r)[Len(got[r]) + 1])
              /\ \A i \in DOMAIN got[r] : got[r][i] = rowsOf(r)[i]
          BY <1>1, <3>3 DEF ScanRow, QueryOK
        <4>2. /\ Len(got'[r]) <= Len(rowsOf(r))
              /\ \A i \in DOMAIN got'[r] : got'[r][i] = rowsOf(r)[i]
          BY <3>1, <4>1
        <4>. QED
          BY <2>1, <2>2, <4>1, <4>2 DEF QueryOK, Reading
      <3>4. CASE SortRows(r)
        <4>1. /\ at'[r] = "rows" /\ got'[r] = got[r] /\ Len(got[r]) = Len(rowsOf(r))
              /\ \A i \in DOMAIN got[r] : got[r][i] = rowsOf(r)[i]
          BY <1>1, <3>1, <3>4 DEF SortRows, QueryOK
        <4>2. got'[r] = rowsOf(r)
          BY <3>1, <4>1
        <4>. QED
          BY <2>1, <2>2, <4>1, <4>2 DEF QueryOK, Reading
      <3>. QED
        BY <1>7, <3>2, <3>3, <3>4
    <2>4. QuietOK(r)'
      BY <1>2, <2>1, <2>2 DEF QuietOK, NotLoaded, Reading
    <2>5. \A q \in Readers : SeenOK(q)'
      BY <2>1, SeenKeeps DEF ToolStep
    <2>. QED
      BY <1>1, <2>1, <2>3, <2>4, <2>5, ToolKeeps
  <1>8. CASE StepNoRow(r)
    <2>1. /\ at[r] = "step" /\ todo[r] # <<>> /\ Result(r, <<>>) /\ UNCHANGED <<vars, got>>
          /\ \/ ~SharedAvailable(r) /\ UNCHANGED schema
             \/ /\ schema[r].cookie # file.cookie
                /\ schema' = [schema EXCEPT ![r] = NotLoaded]
             \/ rowsOf(r) = <<>> /\ UNCHANGED schema
      BY <1>1, <1>8 DEF StepNoRow, QueryOK, Reading
    <2>2. /\ ToolStep(r)
          /\ schema' \in [Readers -> [cookie : Nat, tables : SUBSET Tables] \cup {NotLoaded}]
          /\ schema'[r] \in {schema[r], NotLoaded}
      BY <1>1, <2>1 DEF ToolStep, vars, dbVars, Result
    <2>3. quiet[r] => <<>> = rowsOf(r)
      BY <1>2, <2>1 DEF current
    <2>4. quiet[r] => schema'[r] \in {NotLoaded, current}
      BY <1>2, <2>2
    <2>5. got' \in [Readers -> Seq(Rows)] /\ got'[r] = <<>> /\ lock'[r] = "none"
      BY <1>1, <2>1 DEF vars, dbVars, QueryOK, Reading, ToolEnded
    <2>. QED
      BY <2>1, <2>2, <2>3, <2>4, <2>5, ResultKeeps
  <1>9. CASE FinalizeQuery(r)
    <2>1. /\ at[r] = "rows" /\ todo[r] # <<>> /\ got[r] = rowsOf(r)
          /\ Result(r, got[r]) /\ Finalize(r) /\ UNCHANGED schema
          /\ got' = [got EXCEPT ![r] = <<>>]
      BY <1>1, <1>9 DEF FinalizeQuery, QueryOK, Reading
    <2>2. ToolStep(r) /\ lock'[r] = "none" /\ got' \in [Readers -> Seq(Rows)] /\ got'[r] = <<>>
      BY <1>1, <1>3, <2>1 DEF ToolStep, Finalize, EndSelect, Result
    <2>. QED
      BY <1>1, <1>2, <2>1, <2>2, ResultKeeps
  <1>10. CASE Close(r) \/ Kill(r)
    <2>1. /\ ToolStep(r) /\ at'[r] \in ToolEnded /\ lock'[r] = "none" /\ at[r] \notin ToolEnded
          /\ UNCHANGED <<todo, schema, got, seen, quiet>>
          /\ at' \in [Readers -> {"start", "prepare", "step", "scan", "rows"} \cup ToolEnded]
      <3>1. CASE Close(r)
        BY <1>1, <3>1 DEF Close, ToolStep, ToolEnded, vars, dbVars, Reading
      <3>2. CASE Kill(r) /\ at[r] \in Reading
        BY <1>1, <3>2 DEF Kill, Finalize, EndSelect, ToolStep, ToolEnded
      <3>3. CASE Kill(r) /\ at[r] \notin Reading
        BY <1>1, <3>3 DEF Kill, ToolStep, ToolEnded, vars, dbVars
      <3>. QED
        BY <1>10, <3>1, <3>2, <3>3
    <2>2. current' = current /\ AllQuiet' = AllQuiet
      BY <2>1 DEF ToolStep, current, AllQuiet, Tables, Ended
    <2>3. QueryOK(r)' /\ QuietOK(r)' /\ at'[r] \notin Reading
      BY <1>2, <2>1, <2>2 DEF QueryOK, QuietOK, NotLoaded, ToolEnded, Reading
    <2>4. \A q \in Readers : SeenOK(q)'
      BY <2>1, SeenKeeps DEF ToolStep
    <2>. QED
      BY <1>1, <2>1, <2>3, <2>4, ToolKeeps
  <1>. QED
    BY <1>4, <1>5, <1>6, <1>7, <1>8, <1>9, <1>10 DEF Tool

-----------------------------------------------------------------------------
(* The steps of the runs.                                                  *)

\* A run that has ended takes no step, and a run publishes ever more.
LEMMA RunFacts ==
  ASSUME RunsKnown, NEW w \in Writers, Run(w) \/ Crash(w)
  PROVE  /\ pc[w] \notin Ended
         /\ Writers = {w} => base'[w] = base[w] /\ published'[w] >= published[w]
  <1>1. pc[w] \notin Ended
    BY DEF Run, Open, DropTable, CreateTable, DropIndex, CreateIndex, BeginTransaction, InsertRow,
           EndTransaction, CloseDatabase, Exit1, StatementFails, Statements, Crash, Ended
  <1>2. ASSUME Writers = {w}
        PROVE  base'[w] = base[w] /\ published'[w] >= published[w]
    <2>1. /\ Single(w) /\ published[w] \in Nat /\ k[w] \in Nat /\ published[w] < k[w]
          /\ pc[w] = "open" => base[w] = file
          /\ base \in [Writers -> Image] /\ published \in [Writers -> Nat]
      BY <1>2, IInvIsSingle, SingleFacts
      DEF RunsKnown, Single, SingleRun, PublishedOK, ViewOK
    <2>2. CASE Open(w)
      BY <2>1, <2>2 DEF Open
    <2>3. CASE EndTransaction(w)
      BY <2>1, <2>3 DEF EndTransaction, NextTable
    <2>4. CASE ~Open(w) /\ ~EndTransaction(w)
      BY <2>1, <2>4 DEF Run, DropTable, CreateTable, DropIndex, CreateIndex, BeginTransaction,
                        InsertRow, CloseDatabase, Exit1, Crash
    <2>. QED
      BY <2>2, <2>3, <2>4
  <1>. QED
    BY <1>1, <1>2

LEMMA RunTools ==
  ASSUME RunsKnown, CacheInv, TypeOK', NEW w \in Writers, Run(w) \/ Crash(w), UNCHANGED toolVars
  PROVE  CacheInv'
  <1>1. /\ \A r \in Readers : /\ ~quiet[r] /\ lock'[r] = lock[r]
                              /\ lock[r] = "shared" => file' = file
                              /\ QueryOK(r) /\ QuietOK(r) /\ SeenOK(r)
        /\ UNCHANGED <<at, todo, schema, got, seen, quiet>>
    BY RunFrame, RunFacts, SeenParts
    DEF RunsKnown, RunsInv, Typed, CacheInv, QuietOK, AllQuiet, toolVars
  <1>2. ToolsTypeOK'
    BY <1>1 DEF CacheInv, ToolsTypeOK
  <1>3. ASSUME NEW r \in Readers PROVE QueryOK(r)' /\ QuietOK(r)'
    <2>1. at[r] \in Reading => file' = file
      BY <1>1 DEF CacheInv, ToolsTypeOK
    <2>2. QueryOK(r)'
      BY <1>1, <2>1 DEF QueryOK, rowsOf, query, Reading
    <2>3. QuietOK(r)'
      BY <1>1 DEF QuietOK, NotLoaded
    <2>. QED
      BY <2>2, <2>3
  <1>4. ASSUME NEW r \in Readers PROVE SeenOK(r)'
    <2>1. ASSUME NEW v \in Writers, Writers = {v}
          PROVE  base'[v] = base[v] /\ published'[v] >= published[v]
      <3>1. v = w
        BY <2>1
      <3>. QED
        BY <2>1, <3>1, RunFacts
    <2>2. /\ SeenOK(r) /\ seen'[r] = seen[r] /\ ~quiet'[r]
          /\ published \in [Writers -> 0..NumTables] /\ published' \in [Writers -> 0..NumTables]
          /\ seen[r] \in Seq(Results)
      BY <1>1 DEF CacheInv, ToolsTypeOK, TypeOK
    <2>3. \A i \in DOMAIN seen[r] : seen[r][i].table \in Nat
      <3>1. \A i \in DOMAIN seen[r] : seen[r][i] \in Results
        BY <2>2
      <3>. QED
        BY <3>1 DEF Results, Tables
    <2>4. ASSUME NEW v \in Writers, Writers = {v}, NEW i \in DOMAIN seen[r],
                 seen[r][i].table <= published[v]
          PROVE  seen[r][i].table <= published'[v]
      <3>1. published[v] \in Nat /\ published'[v] \in Nat
        BY <2>2
      <3>. QED
        BY <2>1, <2>3, <2>4, <3>1
    <2>. QED
      BY <2>1, <2>2, <2>4 DEF SeenOK, AllRows, FirstRows
  <1>5. ReadsWhole' /\ MonotoneReads' /\ QuietReads' /\ \A q \in Readers : SeenPublished(q)'
    <2>1. \A q \in Readers : SeenPublished(q)'
      BY <1>4 DEF SeenOK, SeenPublished
    <2>2. ReadsWhole' /\ MonotoneReads' /\ QuietReads'
      BY <1>4 DEF SeenOK, ReadsWhole, MonotoneReads, QuietReads
    <2>. QED
      BY <2>1, <2>2
  <1>. QED
    BY <1>2, <1>3, <1>5 DEF CacheInv

-----------------------------------------------------------------------------
(* The invariant. *)

LEMMA InitTools ==
  ASSUME CacheInit, TypeOK
  PROVE  CacheInv
  <1>1. /\ at = [r \in Readers |-> "start"] /\ todo \in [Readers -> Tools]
        /\ schema = [r \in Readers |-> NotLoaded]
        /\ got = [r \in Readers |-> <<>>] /\ seen = [r \in Readers |-> <<>>]
        /\ quiet = [r \in Readers |-> FALSE]
        /\ \A r \in Readers : lock[r] = "none"
    BY DEF CacheInit, Init, DBInit, Readers
  <1>2. ToolsTypeOK
    <2>1. got \in [Readers -> Seq(Rows)] /\ seen \in [Readers -> Seq(Results)]
      BY <1>1
    <2>2. todo \in [Readers -> Seq(Queries)]
      BY <1>1, ToolsAssumption
    <2>. QED
      BY <1>1, <2>1, <2>2 DEF ToolsTypeOK, Reading
  <1>3. \A r \in Readers : DOMAIN seen[r] = {}
    BY <1>1
  <1>4. \A r \in Readers : QueryOK(r) /\ QuietOK(r) /\ SeenPublished(r)
    BY <1>1, <1>3 DEF QueryOK, QuietOK, SeenPublished, Reading
  <1>. QED
    BY <1>2, <1>3, <1>4 DEF CacheInv, ReadsWhole, MonotoneReads, QuietReads

LEMMA StepTools == RunsKnown /\ RunsKnown' /\ CacheInv /\ [CacheNext]_cacheVars => CacheInv'
  <1>. SUFFICES ASSUME RunsKnown, RunsKnown', CacheInv, [CacheNext]_cacheVars
                PROVE  CacheInv'
    OBVIOUS
  <1>1. TypeOK'
    BY DEF RunsKnown, IInv
  <1>2. CASE UNCHANGED cacheVars
    <2>1. /\ UNCHANGED <<file, pc, base, published, lock, at, todo, schema, got, seen, quiet>>
      BY <1>2 DEF cacheVars, vars, dbVars, toolVars
    <2>2. current' = current /\ AllQuiet' = AllQuiet
      BY <2>1 DEF current, AllQuiet, Tables, Ended
    <2>3. ToolsTypeOK'
      BY <1>1, <2>1 DEF CacheInv, ToolsTypeOK
    <2>4. ASSUME NEW r \in Readers PROVE QueryOK(r)' /\ QuietOK(r)'
      BY <2>1, <2>2 DEF CacheInv, QueryOK, QuietOK, rowsOf, query, NotLoaded, Reading
    <2>5. \A r \in Readers : SeenOK(r)'
      BY <2>1, SeenKeeps
    <2>6. ReadsWhole' /\ MonotoneReads' /\ QuietReads'
      BY <2>5 DEF SeenOK, ReadsWhole, MonotoneReads, QuietReads
    <2>7. \A q \in Readers : SeenPublished(q)'
      BY <2>5 DEF SeenOK, SeenPublished
    <2>. QED
      BY <2>3, <2>4, <2>6, <2>7 DEF CacheInv
  <1>. QED
    BY <1>1, <1>2, ToolRuns, RunTools DEF CacheNext, AllDone

\* The invariant of the tools beside the runs, for any number of both: in the
\* middle of a query the file still holds the rows that were sorted, a tool that
\* started when no run was active has the schema of the file, and the rows of
\* the run that a tool has seen were committed.
THEOREM CacheInvHolds == CacheSpec => []CacheInv
  <1>1. IInv => TypeOK
    BY DEF IInv
  <1>2. CacheSpec => [](IInv /\ RunsInv)
    BY ToolsAreReaders, IInvHolds, RunsInvHolds, PTL
  <1>3. CacheInit /\ IInv => CacheInv
    BY <1>1, InitTools
  <1>4. (IInv /\ RunsInv) /\ (IInv /\ RunsInv)' /\ CacheInv /\ [CacheNext]_cacheVars => CacheInv'
    BY StepTools DEF RunsKnown
  <1>. QED
    BY <1>2, <1>3, <1>4, PTL DEF CacheSpec

\* The tools keep their types, and each has a lock only while it has a query
\* that has returned a row and is not finalized.
THEOREM ToolsTypeOKHolds == CacheSpec => []ToolsTypeOK
  <1>1. CacheInv => ToolsTypeOK
    BY DEF CacheInv
  <1>. QED
    BY <1>1, CacheInvHolds, PTL

\* Beside a single run, whatever becomes of it and whatever fails, a query of
\* any tool returns a table as it was before the run, or complete and new, or
\* nothing.
THEOREM ReadsWholeHolds == CacheSpec => []ReadsWhole
  <1>1. CacheInv => ReadsWhole
    BY DEF CacheInv
  <1>. QED
    BY <1>1, CacheInvHolds, PTL

\* A tool that has seen a table of a run sees the old contents of no table that
\* the run replaces earlier.
THEOREM MonotoneReadsHolds == CacheSpec => []MonotoneReads
  <1>1. CacheInv => MonotoneReads
    BY DEF CacheInv
  <1>. QED
    BY <1>1, CacheInvHolds, PTL

\* A tool that starts when no run is active gets every row of every table it
\* asks for, whatever any number of runs left in the file.
THEOREM QuietReadsHolds == CacheSpec => []QuietReads
  <1>1. CacheInv => QuietReads
    BY DEF CacheInv
  <1>. QED
    BY <1>1, CacheInvHolds, PTL
==============================================================================
