----------------------------- MODULE WitnessPool -----------------------------
(***************************************************************************)
(* The thread pool with which populate_db initialises the witnesses        *)
(* (scripts/populate_db.cpp:572-609).  The worker threads share the        *)
(* iterator "it" over list_wit, the mutex "mtx" and the list "witnesses".  *)
(*                                                                         *)
(* A witness is named by the position of its ID in list_wit; NumWits + 1   *)
(* stands for list_wit.end().  The construction of a witness object (the   *)
(* lib/open-cbgm submodule) is a step of its own that changes no shared    *)
(* state.                                                                  *)
(*                                                                         *)
(* The loop condition (line 586) reads "it" without the mutex while        *)
(* another thread may advance it: a data race.  The read may return the    *)
(* current value or any older one that is not older than the thread's last *)
(* synchronisation with the others, which "view" records.                  *)
(***************************************************************************)
EXTENDS Naturals, Sequences, FiniteSets

CONSTANTS NumWits,              \* list_wit.size()
          HardwareConcurrency   \* std::thread::hardware_concurrency(); 0 if unknown

ASSUME NumWitsAssumption == NumWits \in Nat
ASSUME HardwareConcurrencyAssumption == HardwareConcurrency \in Nat

VARIABLES
    main,       \* control state of the main thread
    started,    \* number of threads in the vector "threads"
    joined,     \* number of threads joined
    pc,         \* control state of each worker
    wit_id,     \* the worker's local variable wit_id, as a position
    it,         \* the shared iterator
    view,       \* the oldest value of "it" the worker may still read
    mtx,        \* the thread that holds the mutex, or NoThread
    witnesses   \* the shared list of witnesses, in order of insertion

vars == <<main, started, joined, pc, wit_id, it, view, mtx, witnesses>>

Wits == 1..NumWits
End == NumWits + 1

num_threads == IF HardwareConcurrency < NumWits THEN HardwareConcurrency ELSE NumWits

Threads == 1..num_threads
NoThread == 0

\* The calls of std::thread's constructor and of join, in the order of "threads".
MainStates == {"spawn", "join", "joined", "terminated"}

\* "check" is the loop condition; "recheck", "advance" and "push" hold the mutex.
WorkerStates == {"new", "check", "lockTake", "recheck", "advance",
                 "construct", "lockPush", "push", "done"}

Holding == {"recheck", "advance", "push"}

Init ==
    /\ main = "spawn"
    /\ started = 0
    /\ joined = 0
    /\ pc = [t \in Threads |-> "new"]
    /\ wit_id = [t \in Threads |-> 0]
    /\ it = 1
    /\ view = [t \in Threads |-> 1]
    /\ mtx = NoThread
    /\ witnesses = <<>>

-----------------------------------------------------------------------------
(* The main thread. *)

Spawn ==
    /\ main = "spawn"
    /\ started < num_threads
    /\ started' = started + 1
    /\ pc' = [pc EXCEPT ![started + 1] = "check"]
    /\ UNCHANGED <<main, joined, wit_id, it, view, mtx, witnesses>>

\* The constructor of std::thread throws, nothing catches it, and the process
\* is terminated with its workers.
SpawnFails ==
    /\ main = "spawn"
    /\ started < num_threads
    /\ main' = "terminated"
    /\ UNCHANGED <<started, joined, pc, wit_id, it, view, mtx, witnesses>>

AllSpawned ==
    /\ main = "spawn"
    /\ started = num_threads
    /\ main' = "join"
    /\ UNCHANGED <<started, joined, pc, wit_id, it, view, mtx, witnesses>>

\* Mutant: join() is not called on the last thread of the vector.
JoinSkipsLast ==
    /\ main = "join"
    /\ IF joined + 1 < num_threads
       THEN pc[joined + 1] = "done" /\ joined' = joined + 1 /\ UNCHANGED main
       ELSE main' = "joined" /\ UNCHANGED joined
    /\ UNCHANGED <<started, pc, wit_id, it, view, mtx, witnesses>>

Join ==
    /\ main = "join"
    /\ IF joined < num_threads
       THEN pc[joined + 1] = "done" /\ joined' = joined + 1 /\ UNCHANGED main
       ELSE main' = "joined" /\ UNCHANGED joined
    /\ UNCHANGED <<started, pc, wit_id, it, view, mtx, witnesses>>

-----------------------------------------------------------------------------
(* The body of a worker. *)

\* for (; it != list_wit.end(); ): the read that races with Advance.
CheckLoop(t) ==
    /\ pc[t] = "check"
    /\ \E seen \in view[t]..it :
          pc' = [pc EXCEPT ![t] = IF seen = End THEN "done" ELSE "lockTake"]
    /\ UNCHANGED <<main, started, joined, wit_id, it, view, mtx, witnesses>>

\* Mutant: the mutex of the taking section is not acquired.
LockTakeUnguarded(t) ==
    /\ pc[t] = "lockTake"
    /\ mtx' = t
    /\ pc' = [pc EXCEPT ![t] = "recheck"]
    /\ UNCHANGED <<main, started, joined, wit_id, it, view, witnesses>>

LockTake(t) ==
    /\ pc[t] = "lockTake"
    /\ mtx = NoThread
    /\ mtx' = t
    /\ pc' = [pc EXCEPT ![t] = "recheck"]
    /\ UNCHANGED <<main, started, joined, wit_id, it, view, witnesses>>

\* Mutant: the second test of the iterator, under the lock, is dropped.
RecheckDropped(t) ==
    /\ pc[t] = "recheck"
    /\ pc' = [pc EXCEPT ![t] = "advance"]
    /\ wit_id' = [wit_id EXCEPT ![t] = it]
    /\ UNCHANGED <<main, started, joined, it, view, mtx, witnesses>>

\* Mutant: the worker leaves the loop with the mutex still locked.
RecheckKeepsLock(t) ==
    /\ pc[t] = "recheck"
    /\ IF it = End
       THEN pc' = [pc EXCEPT ![t] = "done"] /\ UNCHANGED wit_id
       ELSE pc' = [pc EXCEPT ![t] = "advance"] /\ wit_id' = [wit_id EXCEPT ![t] = it]
    /\ UNCHANGED <<main, started, joined, it, view, mtx, witnesses>>

\* Under the lock: break at the end of the list, else wit_id = *it.
Recheck(t) ==
    /\ pc[t] = "recheck"
    /\ \/ /\ it = End
          /\ pc' = [pc EXCEPT ![t] = "done"]
          /\ mtx' = NoThread
          /\ UNCHANGED wit_id
       \/ /\ it # End
          /\ pc' = [pc EXCEPT ![t] = "advance"]
          /\ wit_id' = [wit_id EXCEPT ![t] = it]
          /\ UNCHANGED mtx
    /\ UNCHANGED <<main, started, joined, it, view, witnesses>>

\* ++it and the end of the block that holds the lock.
Advance(t) ==
    /\ pc[t] = "advance"
    /\ it' = it + 1
    /\ view' = [view EXCEPT ![t] = it + 1]
    /\ mtx' = NoThread
    /\ pc' = [pc EXCEPT ![t] = "construct"]
    /\ UNCHANGED <<main, started, joined, wit_id, witnesses>>

\* witness wit(wit_id, app, classic), outside the lock.
Construct(t) ==
    /\ pc[t] = "construct"
    /\ pc' = [pc EXCEPT ![t] = "lockPush"]
    /\ UNCHANGED <<main, started, joined, wit_id, it, view, mtx, witnesses>>

LockPush(t) ==
    /\ pc[t] = "lockPush"
    /\ mtx = NoThread
    /\ mtx' = t
    /\ pc' = [pc EXCEPT ![t] = "push"]
    /\ UNCHANGED <<main, started, joined, wit_id, it, view, witnesses>>

\* witnesses.push_back(wit) and the unlock.  Having held the mutex, the worker
\* has seen every earlier ++it.
Push(t) ==
    /\ pc[t] = "push"
    /\ witnesses' = Append(witnesses, wit_id[t])
    /\ view' = [view EXCEPT ![t] = it]
    /\ mtx' = NoThread
    /\ pc' = [pc EXCEPT ![t] = "check"]
    /\ UNCHANGED <<main, started, joined, wit_id, it>>

Worker(t) ==
    /\ main # "terminated"
    /\ \/ CheckLoop(t) \/ LockTake(t) \/ Recheck(t) \/ Advance(t)
       \/ Construct(t) \/ LockPush(t) \/ Push(t)

MainThread == Spawn \/ AllSpawned \/ Join

\* The program goes on (or is gone): nothing in the pool moves any more.
Terminating == main \in {"joined", "terminated"} /\ UNCHANGED vars

Next == MainThread \/ SpawnFails \/ Terminating \/ \E t \in Threads : Worker(t)

\* Every runnable thread is eventually scheduled.  A worker that competes for
\* the mutex gets it eventually, since the others release it for good once
\* list_wit is exhausted: weak fairness is enough.
Fairness == WF_vars(MainThread) /\ \A t \in Threads : WF_vars(Worker(t))

Spec == Init /\ [][Next]_vars

FairSpec == Spec /\ Fairness

-----------------------------------------------------------------------------
(* Properties. *)

TypeOK ==
    /\ main \in MainStates
    /\ started \in 0..num_threads
    /\ joined \in 0..num_threads
    /\ pc \in [Threads -> WorkerStates]
    /\ wit_id \in [Threads -> 0..NumWits]
    /\ it \in 1..End
    /\ view \in [Threads -> 1..End]
    /\ mtx \in Threads \cup {NoThread}
    /\ witnesses \in Seq(Wits)

Pushed == {witnesses[i] : i \in DOMAIN witnesses}

\* The threads that have taken a witness and not yet added it to the list.
InFlight == {t \in Threads : pc[t] \in {"advance", "construct", "lockPush", "push"}}

\* No witness is built twice: two threads never work on the same witness, none
\* works on one that is already in the list, and the list has no duplicates
\* (populate_db.cpp:586-603, in spite of the unlocked read at line 586).
BuiltOnce ==
    /\ \A t, u \in InFlight : wit_id[t] = wit_id[u] => t = u
    /\ \A t \in InFlight : wit_id[t] \notin Pushed
    /\ \A i, j \in DOMAIN witnesses : witnesses[i] = witnesses[j] => i = j

\* No witness is lost: once a thread has advanced the iterator past a witness,
\* that witness is in the list or in the hands of a thread.
NoneLost == \A w \in Wits : w < it => w \in Pushed \/ \E t \in InFlight : wit_id[t] = w

\* When all the threads are joined the list is complete, whatever the order in
\* which the threads finished, provided that there was a thread at all: where
\* hardware_concurrency() returns 0 none is started and the list stays empty.
AllInitialised == main = "joined" /\ HardwareConcurrency > 0 => Pushed = Wits

\* Every thread leaves its loop and is joined, unless the process is terminated
\* because a thread could not be created (populate_db.cpp:585, 607-609).
PoolTerminates == <>(main \in {"joined", "terminated"})

\* The pool implements the promise of WitnessInit.
Abstract == INSTANCE WitnessInit WITH built <- witnesses, finished <- (main = "joined")

\* Every step of the pool builds one witness that was not built yet, finishes
\* with all of them built, or changes nothing the promise speaks of.
Implements == Abstract!Spec
-----------------------------------------------------------------------------
(* The inductive invariant behind BuiltOnce, NoneLost, AllInitialised and   *)
(* Implements.                                                              *)

\* The mutex is held by exactly the thread that is in one of the two locked blocks.
MutexOK == \A t \in Threads : pc[t] \in Holding <=> mtx = t

\* A worker about to advance the iterator has read the witness it points to;
\* every witness taken earlier lies behind it.
TakenBehind ==
    /\ \A t \in Threads : pc[t] = "advance" => wit_id[t] = it
    /\ \A t \in InFlight : wit_id[t] \in Wits
    /\ \A t \in InFlight : pc[t] # "advance" => wit_id[t] < it
    /\ \A w \in Pushed : w < it

\* A worker's view is never ahead of the iterator, so a worker is done only
\* when the iterator has reached the end.
DoneAtEnd ==
    /\ \A t \in Threads : view[t] <= it
    /\ \A t \in Threads : pc[t] = "done" => it = End

\* The threads run from the moment they are in the vector, in its order, and
\* the main thread has joined only threads that were done.
JoinedDone ==
    /\ \A t \in Threads : pc[t] = "new" <=> t > started
    /\ \A t \in Threads : t <= joined => pc[t] = "done"
    /\ main = "joined" => joined = num_threads

IInv ==
    /\ TypeOK
    /\ MutexOK
    /\ TakenBehind
    /\ BuiltOnce
    /\ NoneLost
    /\ DoneAtEnd
    /\ JoinedDone
==============================================================================
