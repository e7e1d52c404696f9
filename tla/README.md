# TLA+ models of open-cbgm-standalone

This directory models the command-line tools of `scripts/` in TLA+, checks them
with TLC and proves the main results with TLAPS.

## 1. Inventory

The program is eight command-line tools around one SQLite file, the cache.
`populate_db` reads a TEI XML collation, compares every pair of witnesses and
writes six tables; the other seven read them. Nothing else is persistent, and
the tools interact only through that file.

| component | state | operations | what makes it correct |
|---|---|---|---|
| `populate_db`, thread pool (`populate_db.cpp:572-609`) | `list_wit`, the shared iterator `it`, `mtx`, the list `witnesses`, the vector of threads | spawn, take a witness, build it, append it, join | every witness is built once, and all are there when the joins end; the threads end |
| `populate_db`, cache writer (`36-471`, `617-642`) | the six tables of the file, the connection's transaction and locks | per table DROP, CREATE, DROP INDEX, CREATE INDEX, BEGIN, INSERTs, END; close, exit | a table is replaced whole or not at all, the tables are replaced in order, success means that all are replaced |
| `populate_db`, options, XML, filter (`477-569`) | options, apparatus | parse, load, drop fragmentary witnesses | the filter keeps the order of the witnesses and drops exactly those below the threshold |
| `enumerate_relationships` | rows read for one pair of witnesses | queries, table of passages | the passages listed are those of the chosen relationships |
| `compare_witnesses`, `find_relatives` | list of witnesses, comparisons of one witness, labels | queries with exclusion (`-e`, `-p`), sorting | the rows are those of the witnesses that are not excluded |
| `optimize_substemmata` | comparisons of one witness | queries, optimisation (submodule), diagnosis of an empty result | the diagnosis names exactly the passages that no ancestor explains |
| `print_local_stemma`, `print_textual_flow` | variation units, witnesses | queries, `.dot` files | one graph per selected unit |
| `print_global_stemma` | all witnesses, one thread per witness | queries, optimisation in parallel, join, `.dot` files | the stemma is built from the ancestors of all witnesses, after the joins |
| the database file (vendored `lib/sqlite3`) | committed image, locks, transactions, schema cookie | exec, prepare, step, close | locks and commits as documented; used as a library |
| `lib/open-cbgm` | | apparatus, witness, stemma classes | a submodule whose code is not here: external |

What is hard here: the threads of `populate_db` and of `print_global_stemma`;
a read of a shared iterator outside its mutex; six tables that are committed
one by one while other processes read; return codes that are not looked at
(BEGIN, END, every SELECT); crashes and exits between two tables; separate
queries of one tool that see different states of the file. `PROJECT.json`
lists these hazards with their lines and the properties that cover them.

## 2. Modules

| module | models |
|---|---|
| `WitnessInit` | the promise of the thread pool: every witness is built once, then the program goes on |
| `WitnessPool` | the thread pool of `populate_db`, one action per access to shared state |
| `SQLiteFile` | the file as seen through connections: the effect of each call, one operator per outcome |
| `CachePromise` | the promise of `populate_db` to those who read the file: the tables are replaced one after the other |
| `PopulateDB` | runs of `populate_db` that write the cache, and readers that hold the file |
| `CacheReader` | the seven tools that read the cache, beside the runs of `PopulateDB` |
| `CacheTables` | what `populate_db` writes in the six tables for a collation: the filter `-t`, the order of the threads, the rows |
| `ProportionThreshold` | `(int) ceil(proportion_extant * size)` in single precision |
| `CacheQueries` | what the seven tools read of those tables and report, with all their options |
| `ExtantThreshold` | the exclusion of fragmentary witnesses by `-p`, row by row |
| `StemmaPromise` | the promise of `print_global_stemma`: optimise every witness, then combine |
| `GlobalStemma` | its threads, its main thread and its output file |
| `WitnessPoolProofs`, `PopulateDBProofs`, `PopulateDBRunsProofs`, `CachePromiseProofs`, `CacheReaderProofs`, `CacheQueriesProofs`, `ExtantThresholdProofs`, `GlobalStemmaProofs` | proofs: one run of `populate_db` is in `PopulateDBProofs`, several are in `PopulateDBRunsProofs` |
| `MCWitnessPool`, `MCPopulateDB`, `MCCacheReader`, `MCCacheQueries`, `MCExtantThreshold`, `MCGlobalStemma` | instances for TLC |

The composition is `CacheReader`, which extends `PopulateDB`, which is built on
`SQLiteFile`; `CacheQueries` extends `CacheTables`. The first group says *when*
rows reach the file and what a reader can catch of it, whatever the rows are;
the second says *what* the rows are and what a tool makes of them when it is
alone with a finished cache.

### WitnessPool

A witness is the position of its ID in `list_wit`; `NumWits + 1` is `end()`.
Each worker has a control state and its local `wit_id`; `it`, `mtx` and
`witnesses` are shared. A block under `lock_guard` is one action that takes the
mutex and one or two that work and release it, so that the unlocked read can
fall between them. `CheckLoop` is that read (line 586). It is a data race; what
it can return on the machines the program is built for is a value that `it` has
had since the thread last synchronised, at least its own last write. `view`
holds the oldest such value: it starts at `begin()`, since a new thread has
synchronised only with `main`, and is renewed whenever the thread has held the
mutex. The consequence of a stale value is a useless turn to the mutex, where the
second test ends the loop. `SpawnFails` is the exception of `std::thread`'s
constructor, which nothing catches. Construction of a witness is a step
without effect on shared state; exceptions in it are not modelled.

### SQLiteFile and PopulateDB

`file` is the committed image (a table is dropped, empty or holds a sequence of
rows, with or without its index) and the schema cookie. A connection has a
lock, a flag for an explicit transaction, a private image while it writes, and
the cookie of its cached schema. The rules are those of the vendored SQLite in
rollback-journal mode without busy handler, which is how the scripts open it:

* a statement outside a transaction commits on its own and needs that nobody
  else holds a lock, otherwise it fails with `SQLITE_BUSY`;
* inside one it changes the private image only;
* END commits if nobody else holds a lock. If somebody reads, it fails with
  `SQLITE_BUSY`, the transaction stays open and keeps the pending lock, so that
  no new reader starts; if the disk fails, the transaction is rolled back;
* BEGIN inside an open transaction is an error without effect;
* an INSERT prepared with `sqlite3_prepare` fails at its first step if another
  connection has changed the schema;
* spilling the page cache during INSERTs may take the pending lock early;
* closing the connection, or the death of the process, rolls back.

`PopulateDB` has one action per SQL statement of a table's function. The six
functions have the same statements, so a run has a table number `k` and a
control state; rows are named by the run and their number. DROP and CREATE are two statements of one
`sqlite3_exec`, each of which commits on its own, hence two actions. `Exit1` is
the `exit(1)` after a return code that is tested, `Crash` the death of the
process anywhere, and `EndTransaction` goes on to the next table whatever the
outcome of END, as the code does. `Query` and `Finalize` are the first row and
the end of some reader's SELECT. `base` and `published` are history variables.
The ASSUMEs name what the constants must be.

`CachePromise` is what remains of a single run for those who read the file: the
next table is dropped, created and indexed, and then it is there with all its
rows, alone or with some of those after it (`Publish`). If the disk fails
(`MayLose`), a commit may be rolled back instead, and the run goes on past its
tables, which stay empty (`Lose`). `KeepsPromise` maps its tables to those of
the file and its `next` to `NextReplaced`: while the run has something to commit,
the first table in which its image differs from the file, otherwise the table it
is at.

### CacheReader

A tool is the sequence of its SELECTs (`EnumerateRelationships`, ...,
`PrintGlobalStemma`), one after the other between `sqlite3_open` and
`sqlite3_close`. A list query goes on with whatever rows it gets, and may repeat
a sequence for every row (`get_variation_unit` for each passage, `get_witness`
for each witness); an existence query ends the tool with exit(1) if it gets no
row. Options that add queries (`-p`, a list of passages, the secondary witnesses
of `compare_witnesses`, with which it ignores `-p`) are parameters; the readings
of `find_relatives` are always given. `OpenCache`, `Prepare` or `PrepareFails`,
`StepRow` or `StepNoRow`, `FinalizeQuery` and `Close` are the calls; `ScanRow`
and `SortRows` belong to the first `sqlite3_step`; `Kill` is the death of
the process, also by an exception of a class that the missing rows upset.
Nothing looks at an error: a query ends without rows if the table is missing, if
the file is busy, or if the schema is another one than when it was prepared.
`schema` is the cached schema of the connection, which `sqlite3_prepare`
believes as long as it has the table. All queries that return several rows sort
them, so the first step takes the shared lock (`StepRow`), reads the rows of the
file one after the other while other processes go on (`ScanRow`), and returns
when it has them all (`SortRows`). Conditions on rows are left out. The
tools have no I/O errors of their own, since to a tool a failed read looks the
same as a busy file.

### CacheTables and CacheQueries

`CacheTables` takes a collation (`app`), drops the witnesses below the
threshold, lets the threads end in any order (`witnesses`), and fills each table
from the source that the code uses: the first four from the collation and the
filtered `list_wit`, GENEALOGICAL_COMPARISONS from `witnesses`, in the order of
the threads, WITNESSES from `list_wit`. A table is a set of rows; `row_id` is
the counter of the code, the number of insertions before the row, given by its
position in the loops (`RowId`). A bitmap is the set of its bits. The comparison
of two witnesses belongs to the submodule and is modelled by its documented
meaning.

`CacheQueries` runs one tool on the result. A query is one action, with the
conditions and the ORDER BY (`InOrder`) of its SELECT; `Queries` gives their
order in each tool, `query` is the position of the next one. An exit(1) is an `End`. The options are those of the command line, with
arguments that name nothing among them. `Diagnose` is the end of
`optimize_substemmata`: if there are no substemmata it names the passages that
are in the symmetric difference of what is extant and what is explained, by way
of the positions of their labels.

### ProportionThreshold and ExtantThreshold

The proportion is a `float`, the nearest one to the decimal number given; it is
multiplied by the number of labels, converted to `float`, and the product is
rounded to a `float` again before `ceil`. A float is modelled by its integer
significand at a power of two, so that both roundings are exact in integers
(TLC's 32 bits limit the sizes that runs can use, not the proofs).
`ExtantThreshold` has the code around it: the range test of the option, the case
without `-p`, and the loop over the rows of witnesses with themselves.

### GlobalStemma

`substemmata` is what the optimisation finds for each witness. Every witness has
a thread, which looks (`Search`) and stores (`SetAncestors`); main spawns them,
joins them in order, builds the stemma, makes the directory and writes the file.
`SpawnFails` and `ThreadFails` are the exceptions that nothing catches, `Kill`
is the death of the process, `OpenFile` and `ToDot` have the failures of a
stream that nobody looks at. `stemma` holds the ancestors that the stemma was
built from; it implements `StemmaPromise`, where it does not matter how many
threads there are.

## 3. Runs

| run | instance | shows |
|---|---|---|
| `witness_pool` | 4 witnesses, 3 cores, fair | `BuiltOnce`, `NoneLost`, `AllInitialised`, the refinement `Implements`, `PoolTerminates`, and the invariant of the proof |
| `populate_alone` | one run, six tables, every mixture of missing, empty and filled tables at first, fair | `Overwritten`, `AloneSucceeds`: a run that is alone replaces everything, also after a crash of an earlier one |
| `populate_readers` | one run, two readers, six tables | `OneTableInFlight`, `ExitKeepsFirst`, the refinement `KeepsPromise`, and the invariant of the proof |
| `populate_io_errors` | one run, one reader, five tables, any access may fail | `TableAtomic`, `NothingUndone`, the refinement `KeepsPromise` |
| `populate_two_runs` | two runs and a reader, two tables, any access may fail | `RunAtomic`, and the invariant of its proof |
| `populate_overwritten` | one run, one reader | violates `Overwritten` |
| `cache_readers` | one run and one tool, any of the seven, six tables | `ReadsWhole`, `MonotoneReads`, `QuietReads`, and `CacheInv`, the invariant of the proofs, which includes the types `ToolsTypeOK` |
| `cache_readers_retrieve` | the same, the shorter tools | violates `RetrievesAllRows` |
| `cache_queries` | 3 witnesses, 2 passages, 7 tools with every choice of options | the invariant of the proofs, `TablesAgree`, `UnitsRoundTrip`, `ListMatchesComparisons`, `SecondariesCompared`, `DiagnosisExact`, `Enumerated`, `FilteredOnce` |
| `extant_threshold` | 2 witnesses, sizes 0, 1, 7 and 25, every `-p` of two decimals | `FragmentaryExcluded`, `OnlyBoundaryLost`, and the invariant of the proof |
| `extant_threshold_minimum` | the same | violates `MinimumIncluded` |
| `global_stemma` | 3 witnesses, four results of the optimisation, fair | `BuiltFromAll`, `NoLateWrite`, `OldGraphKept`, the refinement `KeepsPromise`, `StemmaEnds`, and the invariant of the proof |

Bounds. Three workers and four witnesses let a worker take several witnesses
while two others are at the mutex or at a stale read. Six tables are the real
number; rows are zero (a transaction that ends without having written), one or
two (a table that could be half filled). Two readers are enough for one to be
reading while another one tries to start; one suffices where only the failure
of a commit matters. Two tables in the run with two writers let each be ahead
of the other. With the tools, `READING_RELATIONS` is empty, the comparisons and
the witnesses have two rows and the rest one: the queries are asked for every
row, so longer tables repeat the same interleavings; the two longest tools run
with one choice of their options.

In `cache_queries` three witnesses are the fewest for which one may be excluded,
one be the primary witness and one be left; two passages let a witness be extant
at none, one or both, and let a bit point to the wrong label. One passage has
readings that descend from each other, x, y, z, so that prior, posterior and
explained differ; the other has two that come from a third one (`norel`) or from
none (`unclear`). The thresholds are none
and both passages, the proportions none, a half and all. In `extant_threshold`
25 is the smallest size at which the roundings change a result (for `-p 0.6`
only), and the sizes 0 and 1 are the ends. In `global_stemma` the four results are
none, one, several, and one that is empty. Nothing else is bounded.

Deadlock is looked for in every run: the states in which the processes have
ended stutter explicitly.

Fairness. `WitnessPool` has weak fairness for the main thread and for each
worker: the operating system schedules every runnable thread. It needs no
stronger fairness for the mutex, because the others stop competing for it when
the list is exhausted. `PopulateDB` has weak fairness for each run, which never
waits for anything. `GlobalStemma` has it for the main thread and each thread of
a witness; the optimisation of a witness is taken to end, since it is a finite
search. Crashes and failures are never forced.

### What the violated properties say

* `Overwritten`: a reader during END makes the commit fail unnoticed. The run
  exits with 0 although the usage (`populate_db.cpp:500`) says that the contents
  will be overwritten. If the reader is gone by the next END, that one commits both
  tables; if the last END fails, `sqlite3_close` rolls back, at least
  WITNESSES stays empty or old, and at most everything stays as it was.
* `RetrievesAllRows`: the comments before the queries (`find_relatives.cpp:32`)
  promise all rows of the table. While `populate_db` works on the file, a query
  may fail, and the tool takes that for an empty table.
* `MinimumIncluded`: the help of `-p` (`find_relatives.cpp:309`) speaks of the
  minimum "at which a witness must be extant to be included". The float nearest
  to 0.6 is above it, and so is its product with 25 after rounding; the minimum
  becomes 16, and a witness extant at 15 of 25 passages is excluded. Only
  witnesses at exactly the proportion are affected (`OnlyBoundaryLost`).

More is to be known, although no run shows it as violated.
`AllInitialised` and `Implements` are about `HardwareConcurrency > 0`:
`hardware_concurrency()` may return 0, and then no thread is started and
`populate_db` writes an empty GENEALOGICAL_COMPARISONS beside a full WITNESSES.
`print_global_stemma` exits with 0 when its file is missing or cut off, since it
never looks at the stream; nothing is guaranteed of the file after an exit with
0, and `OldGraphKept` only says that no earlier file is touched before the new
stemma is complete. `optimize_substemmata` reads the labels and then the
comparisons in transactions of their own: beside a run of `populate_db` the
comparisons may be new and the labels old, and `vu_labels[col_ind]` is then out
of bounds if the new collation has more units.

### What can be relied on

An exit of `populate_db` with 0 does not mean that every table was replaced, but
it does mean that no table is missing: the tables are new up to one, which is
empty, and those after it are as they were (`ExitKeepsFirst`, for a single run
without I/O errors). Beside a single run, the result of a query is the old table, the complete new
one or nothing (`ReadsWhole`); a tool that has seen a new table sees no old
contents of those that are replaced before it (`MonotoneReads`, without I/O
errors), so that old and new are mixed in one direction only; and a tool that
starts when no run is active gets all rows (`QuietReads`). Two runs on one file
may leave rows of both in a table, but those of each all together and in order,
or none (`RunAtomic`). With a finished cache the tools give back the collation:
the passages (`UnitsRoundTrip`), the comparisons in their direction
(`Enumerated`), for the same witnesses in the list and in the comparisons
(`ListMatchesComparisons`), potential ancestors whenever the options leave any,
and exactly the passages that none of them explains (`DiagnosisExact`). If `-e`
or `-p` exclude the primary witness itself, the list, the comparisons and the
potential ancestors are still right, but what line 274 of
`optimize_substemmata.cpp` gets for the witness's own comparison, and with it
the passages that are named, is up to the library.

## 4. Proofs

`WitnessPoolProofs`, for any `NumWits` and `HardwareConcurrency`: the inductive
invariant `IInv` joins the type invariant with these facts: exactly the thread
in a locked block holds the mutex; a thread about to advance the iterator holds
the witness it points to, all others lie behind it; a view is never ahead of the
iterator, so that a thread is done only at the end; joined threads are done.
`BuiltOnce` alone is not inductive: without the first two facts two threads
might be about to take the same witness. From `IInv` follow `BuiltOnce`,
`NoneLost`, `AllInitialised` and, if `HardwareConcurrency > 0`, the refinement
`Implements`.

`PopulateDBProofs`, for any number of tables, rows and readers and any initial
file: `TypeOK` (a part of the invariants that the runs check) for any number of
runs and, for a single run, `TableAtomic`, `OneTableInFlight` and `NothingUndone`, with and without I/O errors except where
the property excludes them. None of the three is inductive:
they speak of the file, while a run whose END was refused goes on in a private
image that becomes the file later. `IInv` says what that image holds: the
current table is exactly what the next statement expects (`ExpectedTable`),
those after it are untouched, those before it are complete or, after an I/O
error, as the last rollback left them, and what was committed before is the same
in both (`ViewOK`); outside its inserts a run has an open transaction only with
the pending lock (`TransactionOK`), and when it has no lock, and no I/O error
occurred, all tables before the current one are committed (`CompleteOK`). The
steps fall into three kinds, one lemma each: a statement about the current table
(`TableStepSingle`), the three outcomes of END (`EndSingle`), and the rollback
that ends the process (`RollbackSingle`). `OverwrittenAlone` proves what the
usage promises for a run that is alone with the file and has no I/O error, by
`AloneInv`: nobody can refuse its commits, so each of its transactions ends with
its table.

`PopulateDBRunsProofs`, for any number of runs: `RunAtomic`, by `RunsInv`
(checked in `populate_two_runs`). At most one connection writes; its private
image is not older than the file, and has the same schema if it has the same
cookie (`NewerOK`); a run steps an INSERT only while its table exists, because
otherwise the cookie has changed and the statement fails (`PreparedOK`); the
rows it has inserted so far are the last rows of the private table
(`InsertedOK`); and in all other tables, private or committed, the rows of each
run are together and in order. `OwnRowsAssumption` says that the initial
file holds no rows of these runs.

`CachePromiseProofs`: a single run implements `CachePromise`, for any number of
tables, rows and readers, with and without I/O errors. Beyond `IInv` and
`RunsInv` it needs that, while the run writes, its transaction holds a block of
tables up to the current one (`Holds`): they are complete in its image, the
current one as far as its INSERTs have come, and the first of them is in the file
with its index and without rows. A commit then publishes exactly these
tables, and a commit that is rolled back loses exactly these. `ExitKeepsFirst`
follows from the same: when the run closes the file without a lock everything is
committed, otherwise the rollback leaves the first table of the block empty,
those before it new and those after it untouched.

`CacheReaderProofs`, for any number of tools with any queries beside any number
of runs: `ToolsTypeOK`, `ReadsWhole`, `MonotoneReads` and `QuietReads`. Every
step of a tool is one of a reader of `PopulateDB` or changes nothing there
(`ToolsAreReaders`), which carries the results about the file over. `CacheInv`
says that a query holds a shared lock and that the rows it has taken so far are
the first ones of the file (`QueryOK`), that a tool that started in
quiet meets no active run and has the schema of the file (`QuietOK`), and that
the rows of the run which a tool has seen were committed (`SeenPublished`). The
rows stay the first ones of the file because nothing can commit under the shared
lock of the query.

`CacheQueriesProofs`, for any set of collations, any thresholds and arguments of
the options, and any order of the threads: the seven safety properties of
`cache_queries`. Three things carry the proof.

* Order. The n-th of a finite set of integers exists and is unique (`NthOf`), so
  a table whose `row_id`s are distinct is read back row by row (`InOrderOf`);
  the counter of two nested loops is increasing along them (the lemmas about
  `Precedes` and `RowId`), so the rows of one unit come back in the order of its
  readings or edges. None of it needs induction: the counts below the members
  of a set of n integers are n different numbers below n (`RankOf`).
* Contents. `TablesOK` says that a table has its contents as soon as its
  function was called. From this and `ListsOK` (the list and the witnesses
  of the threads are without repetition and hold the same witnesses) follow the
  rows of each table, and with them `TablesAgree` and `UnitsRoundTrip`.
* What a query found. None of the properties of the tools is inductive, since
  the results are used several queries later. `QueriesOK` says that
  what each query has found is what it would find again now; this holds because
  nothing writes the tables any more, and because the exclusion set changes only
  before the queries that read it. `DiagnosisExact` and `Enumerated` speak of
  the last query of their tool, whose result is not kept, and are parts of the
  invariant themselves, as is `FilteredOnce`.

The assumptions: the names of the witnesses and the IDs of the units are distinct
in a collation (`ApparatusesAssumption`), there are at most 50000
units (`UnitsAssumption`, the range in which `ProportionThreshold` is exact), and
`-p` has two decimals. Of the comparison of two witnesses the proofs use that its
bits point to units, what is extant in a witness's own comparison, and that what
one explains is extant there (`ComparisonBits`). Which of two readings is prior
is never looked at, so the results do not depend on the local stemmata.

`ExtantThresholdProofs`, for any number of witnesses, every proportion of two
decimals and up to 50000 variation units: `FragmentaryExcluded` and
`OnlyBoundaryLost`. The two roundings move the product by less than a hundredth
(`SignificandError`, `ProductError`), and an exact product is a whole number of
hundredths; so only one that is an integer can be rounded across it
(`OnlyEqualityMissed`, `ThresholdExact`).

`GlobalStemmaProofs`, for any number of witnesses and any results of the
optimisation: `BuiltFromAll`, `NoLateWrite`, `OldGraphKept` and the refinement
`KeepsPromise`, by `IInv`: joined threads are done, and once the joins have
ended all are; the ancestors of a witness are its first option exactly when its
thread is done.

The assumptions are the named ones of the modules; `InitialFilesAssumption` says
that a table that does not exist has neither rows nor index.

Only model-checked: the liveness properties `PoolTerminates`, `AloneSucceeds`
and `StemmaEnds`, because fairness is out of the prover's reach.

## 5. Not modelled

Option parsing and XML loading, apart from the choices that options make; the
classes of `lib/open-cbgm`, a submodule whose code is not here, beyond the
results of the calls that the scripts make (the optimisation, the layout of the
graphs); the text of the tables and `.dot` files, and the files of
`print_local_stemma` and `print_textual_flow`, which are opened and written as
that of `print_global_stemma`.

Of SQLite, whose two vendored files are nearly all of the repository's lines, only
what the scripts rely on: locks, transactions, the schema cookie, spilling, and
what `sqlite3_exec`, `prepare`, `step`, `finalize` and `close` do with them. Its
parser, code generator, B-trees and pager are taken to be right. The recovery of
a hot journal is taken to be atomic. The share of that code which a model could
translate faithfully without modelling a database engine is small, and the
properties here are about the program around it.

## 6. Plan

1. `CachePromise` for several runs at once.
2. TLC runs of `CacheReader` with two runs and with I/O errors, which only the
   proofs cover now.
3. The output files of `print_local_stemma` and `print_textual_flow`: several files, some
   written when the tool fails.
