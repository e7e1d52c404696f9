----------------------------- MODULE GlobalStemma -----------------------------
(***************************************************************************)
(* print_global_stemma after the database is closed                        *)
(* (scripts/print_global_stemma.cpp:274-320): one thread per witness       *)
(* optimises the substemmata of that witness and stores the ancestors in   *)
(* it; main joins all the threads, builds the global stemma from the       *)
(* witnesses and writes it to global/global-stemma.dot.                    *)
(*                                                                         *)
(* The optimisation itself and the stemma class belong to lib/open-cbgm:   *)
(* the options found for a witness are chosen once and for all in Init.    *)
(***************************************************************************)
EXTENDS Naturals, Sequences

CONSTANTS NumWits,      \* length of the list "witnesses"
          Options       \* the results get_substemmata(0, true) may have

ASSUME NumWitsAssumption == NumWits \in Nat
ASSUME OptionsAssumption == Options \subseteq Seq(Seq(1..NumWits))

VARIABLES
    substemmata,    \* result of get_substemmata for each witness
    main,           \* control state of the main thread
    started,        \* number of threads in the vector "threads"
    joined,         \* number of threads joined
    pc,             \* control state of the thread of each witness
    ids,            \* the thread's local list stemmatic_ancestor_ids
    ancestors,      \* the ancestors stored in each witness
    stemma,         \* none, or the ancestors that the object gs was built from
    global_dir,     \* does the directory "global" exist
    stream,         \* state of the stream dot_file
    dot             \* contents of the output file

threadVars == <<pc, ids, ancestors>>
fileVars == <<global_dir, stream, dot>>
vars == <<substemmata, main, started, joined, threadVars, stemma, fileVars>>

Wits == 1..NumWits
NoStemma == {}

MainStates == {"spawn", "join", "build", "create_dir", "open", "to_dot", "close",
               "exit0", "terminated"}
ThreadStates == {"new", "search", "set", "done"}

\* "old" is a file of an earlier run.
Contents == {"absent", "old", "empty", "partial", "complete"}

Init ==
    /\ substemmata \in [Wits -> Options]
    /\ main = "spawn"
    /\ started = 0
    /\ joined = 0
    /\ pc = [w \in Wits |-> "new"]
    /\ ids = [w \in Wits |-> <<>>]
    /\ ancestors = [w \in Wits |-> <<>>]
    /\ stemma = NoStemma
    /\ global_dir \in BOOLEAN
    /\ stream = "closed"
    /\ dot \in IF global_dir THEN {"absent", "old"} ELSE {"absent"}

-----------------------------------------------------------------------------
(* The thread of witness w: the lambda optimize_substemmata. *)

\* Mutant: a thread goes on to front() without looking whether there is one.
SearchUnchecked(w) ==
    /\ pc[w] = "search"
    /\ pc' = [pc EXCEPT ![w] = "set"]
    /\ ids' = [ids EXCEPT ![w] = IF substemmata[w] = <<>> THEN <<w>> ELSE Head(substemmata[w])]
    /\ UNCHANGED <<substemmata, main, started, joined, ancestors, stemma, fileVars>>

\* Mutant: the last option is taken instead of the first.
SearchLast(w) ==
    /\ pc[w] = "search"
    /\ IF substemmata[w] = <<>>
       THEN pc' = [pc EXCEPT ![w] = "done"] /\ UNCHANGED ids
       ELSE /\ pc' = [pc EXCEPT ![w] = "set"]
            /\ ids' = [ids EXCEPT ![w] = substemmata[w][Len(substemmata[w])]]
    /\ UNCHANGED <<substemmata, main, started, joined, ancestors, stemma, fileVars>>

\* Mutant: a thread waits for those of the ancestors it has found.
SearchInOrder(w) ==
    /\ pc[w] = "search"
    /\ IF substemmata[w] = <<>>
       THEN pc' = [pc EXCEPT ![w] = "done"] /\ UNCHANGED ids
       ELSE /\ \A i \in DOMAIN Head(substemmata[w]) : pc[Head(substemmata[w])[i]] = "done"
            /\ pc' = [pc EXCEPT ![w] = "set"]
            /\ ids' = [ids EXCEPT ![w] = Head(substemmata[w])]
    /\ UNCHANGED <<substemmata, main, started, joined, ancestors, stemma, fileVars>>

\* get_substemmata returns; with no substemma the thread returns, otherwise it
\* copies the IDs of the first one's rows.
Search(w) ==
    /\ pc[w] = "search"
    /\ \/ /\ substemmata[w] = <<>>
          /\ pc' = [pc EXCEPT ![w] = "done"]
          /\ UNCHANGED ids
       \/ /\ substemmata[w] # <<>>
          /\ pc' = [pc EXCEPT ![w] = "set"]
          /\ ids' = [ids EXCEPT ![w] = Head(substemmata[w])]
    /\ UNCHANGED <<substemmata, main, started, joined, ancestors, stemma, fileVars>>

\* wit.set_stemmatic_ancestor_ids(stemmatic_ancestor_ids)
SetAncestors(w) ==
    /\ pc[w] = "set"
    /\ pc' = [pc EXCEPT ![w] = "done"]
    /\ ancestors' = [ancestors EXCEPT ![w] = ids[w]]
    /\ UNCHANGED <<substemmata, main, started, joined, ids, stemma, fileVars>>

\* The threads are gone when the process is.
Thread(w) == main \notin {"terminated", "exit0"} /\ (Search(w) \/ SetAncestors(w))

\* An exception leaves the lambda: std::terminate.
ThreadFails(w) ==
    /\ main \notin {"terminated", "exit0"}
    /\ pc[w] \in {"search", "set"}
    /\ main' = "terminated"
    /\ UNCHANGED <<substemmata, started, joined, threadVars, stemma, fileVars>>

-----------------------------------------------------------------------------
(* The main thread. *)

\* threads.emplace_back(optimize_substemmata, ref(wit)) for the next witness.
Spawn ==
    /\ main = "spawn"
    /\ IF started < NumWits
       THEN /\ started' = started + 1
            /\ pc' = [pc EXCEPT ![started + 1] = "search"]
            /\ UNCHANGED main
       ELSE main' = "join" /\ UNCHANGED <<started, pc>>
    /\ UNCHANGED <<substemmata, joined, ids, ancestors, stemma, fileVars>>

\* The constructor of std::thread throws; nothing catches it.  There are as
\* many threads as witnesses, whatever the number of cores.
SpawnFails ==
    /\ main = "spawn"
    /\ started < NumWits
    /\ main' = "terminated"
    /\ UNCHANGED <<substemmata, started, joined, threadVars, stemma, fileVars>>

\* Mutant: join() is not called on the last thread of the vector.
JoinSkipsLast ==
    /\ main = "join"
    /\ IF joined + 1 < NumWits
       THEN pc[joined + 1] = "done" /\ joined' = joined + 1 /\ UNCHANGED main
       ELSE main' = "build" /\ UNCHANGED joined
    /\ UNCHANGED <<substemmata, started, threadVars, stemma, fileVars>>

Join ==
    /\ main = "join"
    /\ IF joined < NumWits
       THEN pc[joined + 1] = "done" /\ joined' = joined + 1 /\ UNCHANGED main
       ELSE main' = "build" /\ UNCHANGED joined
    /\ UNCHANGED <<substemmata, started, threadVars, stemma, fileVars>>

\* global_stemma gs = global_stemma(witnesses)
Build ==
    /\ main = "build"
    /\ stemma' = {ancestors}
    /\ main' = "create_dir"
    /\ UNCHANGED <<substemmata, started, joined, threadVars, fileVars>>

\* create_dir("global"); that it exists already or cannot be made is ignored.
CreateDir ==
    /\ main = "create_dir"
    /\ global_dir' \in {global_dir, TRUE}
    /\ main' = "open"
    /\ UNCHANGED <<substemmata, started, joined, threadVars, stemma, stream, dot>>

\* dot_file.open(filepath, ios::out) truncates the file, or fails.
OpenFile ==
    /\ main = "open"
    /\ \/ /\ global_dir
          /\ stream' = "good"
          /\ dot' = "empty"
       \/ /\ stream' = "bad"
          /\ UNCHANGED dot
    /\ main' = "to_dot"
    /\ UNCHANGED <<substemmata, started, joined, threadVars, stemma, global_dir>>

\* gs.to_dot(dot_file, ...): on a bad stream nothing is written; a write that
\* fails makes the stream bad.
ToDot ==
    /\ main = "to_dot"
    /\ \/ stream = "good" /\ dot' = "complete" /\ UNCHANGED stream
       \/ stream = "good" /\ dot' \in {"empty", "partial"} /\ stream' = "bad"
       \/ stream = "bad" /\ UNCHANGED <<stream, dot>>
    /\ main' = "close"
    /\ UNCHANGED <<substemmata, started, joined, threadVars, stemma, global_dir>>

\* dot_file.close() and exit(0); nobody has looked at the stream's state.
CloseAndExit ==
    /\ main = "close"
    /\ stream' = "closed"
    /\ main' = "exit0"
    /\ UNCHANGED <<substemmata, started, joined, threadVars, stemma, global_dir, dot>>

\* The process is killed; a file it is writing keeps what has reached it.
Kill ==
    /\ main \notin {"terminated", "exit0"}
    /\ main' = "terminated"
    /\ dot' \in IF main \in {"to_dot", "close"} /\ stream = "good" THEN {dot, "empty", "partial"} ELSE {dot}
    /\ UNCHANGED <<substemmata, started, joined, threadVars, stemma, global_dir, stream>>

MainThread == Spawn \/ Join \/ Build \/ CreateDir \/ OpenFile \/ ToDot \/ CloseAndExit

Terminating == main \in {"terminated", "exit0"} /\ UNCHANGED vars

Next ==
    \/ MainThread \/ SpawnFails \/ Kill \/ Terminating
    \/ \E w \in Wits : Thread(w) \/ ThreadFails(w)

\* The operating system schedules every runnable thread, and the optimisation
\* of a witness ends (it is a finite search).  Failures are never forced.
Fairness == WF_vars(MainThread) /\ \A w \in Wits : WF_vars(Thread(w))

Spec == Init /\ [][Next]_vars

FairSpec == Spec /\ Fairness

-----------------------------------------------------------------------------
(* Properties. *)

TypeOK ==
    /\ substemmata \in [Wits -> Options]
    /\ main \in MainStates
    /\ started \in 0..NumWits
    /\ joined \in 0..NumWits
    /\ pc \in [Wits -> ThreadStates]
    /\ ids \in [Wits -> Seq(Wits)]
    /\ ancestors \in [Wits -> Seq(Wits)]
    /\ stemma = NoStemma \/ \E built \in stemma : stemma = {built} /\ built \in [Wits -> Seq(Wits)]
    /\ global_dir \in BOOLEAN
    /\ stream \in {"closed", "good", "bad"}
    /\ dot \in Contents

\* The first option for w, if there is one.
First(w) == IF substemmata[w] = <<>> THEN <<>> ELSE Head(substemmata[w])

\* The stemma is built from the first substemma of every witness that has one,
\* in whatever order the threads end (print_global_stemma.cpp:277-309).
BuiltFromAll == stemma # NoStemma => stemma = {[w \in Wits |-> First(w)]}

\* Once the stemma is built no thread writes to a witness any more: main reads
\* the witnesses unguarded (print_global_stemma.cpp:287, 309).
NoLateWrite == [][stemma # NoStemma => UNCHANGED <<pc, ancestors>>]_vars

\* The graph of an earlier run is touched only when the new stemma is
\* complete: an optimisation that is killed or fails after hours costs nothing
\* but its time (print_global_stemma.cpp:292-317).
OldGraphKept == [][dot' # dot => stemma = {[w \in Wits |-> First(w)]}]_vars

\* The process ends (print_global_stemma.cpp:292-320).
StemmaEnds == <>(main \in {"exit0", "terminated"})

\* The threads implement the promise.
Promise == INSTANCE StemmaPromise WITH optimized <- {w \in Wits : pc[w] = "done"}

\* Every step optimises one witness, combines all of them, or changes nothing
\* the promise speaks of.
KeepsPromise == Promise!Spec

-----------------------------------------------------------------------------
(* The inductive invariant behind BuiltFromAll, NoLateWrite and KeepsPromise. *)

\* The threads run from the moment they are in the vector; main has joined only
\* threads that were done, and all of them before it builds the stemma.
JoinedDone ==
    /\ \A w \in Wits : pc[w] = "new" <=> w > started
    /\ \A w \in Wits : w <= joined => pc[w] = "done"
    /\ main \in MainStates \ {"spawn", "join", "terminated"} => joined = NumWits
    /\ stemma # NoStemma => joined = NumWits
    /\ main \in {"spawn", "join", "build"} => stemma = NoStemma
    /\ main \in MainStates \ {"spawn", "join", "build", "terminated"} => stemma # NoStemma

\* What a thread holds and has stored.
AncestorsOK ==
    \A w \in Wits :
        /\ pc[w] = "set" => substemmata[w] # <<>> /\ ids[w] = Head(substemmata[w])
        /\ ancestors[w] = IF pc[w] = "done" THEN First(w) ELSE <<>>

IInv == TypeOK /\ JoinedDone /\ AncestorsOK /\ BuiltFromAll
==============================================================================
