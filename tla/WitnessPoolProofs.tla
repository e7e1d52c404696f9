-------------------------- MODULE WitnessPoolProofs --------------------------
(***************************************************************************)
(* Proofs about the thread pool, for any number of witnesses and of cores: *)
(* no witness is built twice or lost, and the pool implements WitnessInit. *)
(***************************************************************************)
EXTENDS WitnessPool, TLAPS

LEMMA NumThreads == num_threads \in Nat /\ num_threads <= NumWits
  BY NumWitsAssumption, HardwareConcurrencyAssumption DEF num_threads

LEMMA PushedAppend ==
  ASSUME witnesses \in Seq(Wits), NEW w \in Wits, witnesses' = Append(witnesses, w)
  PROVE  /\ Pushed' = Pushed \cup {w}
         /\ witnesses' \in Seq(Wits)
         /\ DOMAIN witnesses' = DOMAIN witnesses \cup {Len(witnesses) + 1}
         /\ witnesses'[Len(witnesses) + 1] = w
         /\ \A i \in DOMAIN witnesses : witnesses'[i] = witnesses[i]
  <1>1. /\ witnesses' \in Seq(Wits)
        /\ DOMAIN witnesses = 1..Len(witnesses)
        /\ Len(witnesses) \in Nat
        /\ DOMAIN witnesses' = 1..(Len(witnesses) + 1)
        /\ witnesses'[Len(witnesses) + 1] = w
        /\ \A i \in 1..Len(witnesses) : witnesses'[i] = witnesses[i]
    OBVIOUS
  <1>2. DOMAIN witnesses' = DOMAIN witnesses \cup {Len(witnesses) + 1}
    BY <1>1
  <1>3. Pushed' = {witnesses'[i] : i \in DOMAIN witnesses'}
    BY DEF Pushed
  <1>4. Pushed' = Pushed \cup {w}
    BY <1>1, <1>2, <1>3 DEF Pushed
  <1>. QED
    BY <1>1, <1>2, <1>4

LEMMA PushedIsWits == witnesses \in Seq(Wits) => Pushed \subseteq Wits
  BY DEF Pushed

LEMMA InitIInv == Init => IInv
  <1>. SUFFICES ASSUME Init PROVE IInv
    OBVIOUS
  <1>. USE NumThreads, NumWitsAssumption
  <1>1. InFlight = {} /\ Pushed = {}
    BY DEF Init, InFlight, Pushed
  <1>2. TypeOK
    BY DEF Init, TypeOK, MainStates, WorkerStates, Threads, NoThread, End, Wits
  <1>3. MutexOK
    BY DEF Init, MutexOK, Holding, Threads, NoThread
  <1>4. TakenBehind
    BY <1>1 DEF Init, TakenBehind
  <1>5. BuiltOnce /\ NoneLost
    BY <1>1 DEF Init, BuiltOnce, NoneLost, Wits
  <1>6. DoneAtEnd /\ JoinedDone
    BY DEF Init, DoneAtEnd, JoinedDone, Threads
  <1>. QED
    BY <1>2, <1>3, <1>4, <1>5, <1>6 DEF IInv

(***************************************************************************)
(* The type invariant on its own is not inductive: Recheck stores "it" in  *)
(* wit_id, and Push appends it, so it leans on TakenBehind and MutexOK.    *)
(***************************************************************************)
LEMMA StepIInv == IInv /\ [Next]_vars => IInv'
  <1>. SUFFICES ASSUME IInv, [Next]_vars PROVE IInv'
    OBVIOUS
  <1>. USE NumThreads, NumWitsAssumption
  <1>. USE DEF IInv
  <1>0. /\ started \in Nat /\ joined \in Nat /\ it \in Nat
        /\ pc \in [Threads -> WorkerStates]
        /\ wit_id \in [Threads -> 0..NumWits]
        /\ view \in [Threads -> 1..End]
        /\ Threads = 1..num_threads
        /\ End = NumWits + 1
        /\ NoThread \notin Threads
        /\ InFlight \subseteq Threads
    BY DEF TypeOK, Threads, End, NoThread, InFlight
  <1>1. CASE Spawn
    <2>. USE <1>0, <1>1
    <2>1. /\ started + 1 \in Threads
          /\ pc[started + 1] = "new"
          /\ pc' = [pc EXCEPT ![started + 1] = "check"]
          /\ UNCHANGED <<main, joined, wit_id, it, view, mtx, witnesses>>
      BY DEF Spawn, JoinedDone
    <2>2. InFlight' = InFlight /\ Pushed' = Pushed
      BY <2>1 DEF InFlight, Pushed
    <2>3. TypeOK'
      BY <2>1 DEF Spawn, TypeOK, WorkerStates
    <2>4. MutexOK'
      BY <2>1 DEF MutexOK, Holding
    <2>5. TakenBehind' /\ BuiltOnce' /\ NoneLost'
      BY <2>1, <2>2 DEF TakenBehind, BuiltOnce, NoneLost, InFlight
    <2>6. DoneAtEnd' /\ JoinedDone'
      BY <2>1 DEF Spawn, DoneAtEnd, JoinedDone
    <2>. QED
      BY <2>3, <2>4, <2>5, <2>6
  <1>2. CASE SpawnFails \/ AllSpawned \/ Join
    <2>. USE <1>0, <1>2
    <2>1. UNCHANGED <<started, pc, wit_id, it, view, mtx, witnesses>>
      BY DEF SpawnFails, AllSpawned, Join
    <2>2. InFlight' = InFlight /\ Pushed' = Pushed
      BY <2>1 DEF InFlight, Pushed
    <2>3. TypeOK'
      BY <2>1 DEF SpawnFails, AllSpawned, Join, TypeOK, MainStates
    <2>4. MutexOK' /\ TakenBehind' /\ BuiltOnce' /\ NoneLost' /\ DoneAtEnd'
      BY <2>1, <2>2 DEF MutexOK, TakenBehind, BuiltOnce, NoneLost, DoneAtEnd
    <2>5. JoinedDone'
      BY <2>1 DEF SpawnFails, AllSpawned, Join, JoinedDone, TypeOK
    <2>. QED
      BY <2>3, <2>4, <2>5
  <1>3. ASSUME NEW t \in Threads, CheckLoop(t) PROVE IInv'
    <2>. USE <1>0, <1>3
    <2>1. PICK seen \in view[t]..it :
            pc' = [pc EXCEPT ![t] = IF seen = End THEN "done" ELSE "lockTake"]
      BY DEF CheckLoop
    <2>2. /\ pc[t] = "check"
          /\ pc'[t] \in {"done", "lockTake"}
          /\ pc'[t] = "done" => it = End
          /\ \A u \in Threads : u # t => pc'[u] = pc[u]
          /\ pc' \in [Threads -> WorkerStates]
          /\ UNCHANGED <<main, started, joined, wit_id, it, view, mtx, witnesses>>
      BY <2>1 DEF CheckLoop, WorkerStates, TypeOK, DoneAtEnd
    <2>3. InFlight' = InFlight /\ Pushed' = Pushed
      BY <2>2 DEF InFlight, Pushed
    <2>4. TypeOK' /\ MutexOK'
      BY <2>2 DEF TypeOK, MutexOK, Holding
    <2>5. TakenBehind' /\ BuiltOnce' /\ NoneLost'
      BY <2>2, <2>3 DEF TakenBehind, BuiltOnce, NoneLost
    <2>6. DoneAtEnd' /\ JoinedDone'
      BY <2>2 DEF DoneAtEnd, JoinedDone
    <2>. QED
      BY <2>4, <2>5, <2>6
  <1>4. ASSUME NEW t \in Threads, LockTake(t) \/ LockPush(t) PROVE IInv'
    <2>. USE <1>0, <1>4
    <2>1. /\ \/ pc[t] = "lockTake" /\ pc' = [pc EXCEPT ![t] = "recheck"]
             \/ pc[t] = "lockPush" /\ pc' = [pc EXCEPT ![t] = "push"]
          /\ mtx = NoThread /\ mtx' = t
          /\ UNCHANGED <<main, started, joined, wit_id, it, view, witnesses>>
      BY DEF LockTake, LockPush
    <2>2. InFlight' = InFlight /\ Pushed' = Pushed
      BY <2>1 DEF InFlight, Pushed
    <2>3. TypeOK' /\ MutexOK'
      BY <2>1 DEF TypeOK, WorkerStates, MutexOK, Holding
    <2>4. TakenBehind' /\ BuiltOnce' /\ NoneLost'
      BY <2>1, <2>2 DEF TakenBehind, BuiltOnce, NoneLost
    <2>5. DoneAtEnd' /\ JoinedDone'
      BY <2>1 DEF DoneAtEnd, JoinedDone
    <2>. QED
      BY <2>3, <2>4, <2>5
  <1>5. ASSUME NEW t \in Threads, Recheck(t) PROVE IInv'
    <2>. USE <1>0, <1>5
    <2>1. CASE it = End
      <3>1. /\ pc[t] = "recheck" /\ pc' = [pc EXCEPT ![t] = "done"]
            /\ mtx = t /\ mtx' = NoThread
            /\ UNCHANGED <<main, started, joined, wit_id, it, view, witnesses>>
        BY <2>1 DEF Recheck, MutexOK, Holding
      <3>2. InFlight' = InFlight /\ Pushed' = Pushed
        BY <3>1 DEF InFlight, Pushed
      <3>3. TypeOK' /\ MutexOK'
        BY <3>1 DEF TypeOK, WorkerStates, MutexOK, Holding
      <3>4. TakenBehind' /\ BuiltOnce' /\ NoneLost'
        BY <3>1, <3>2 DEF TakenBehind, BuiltOnce, NoneLost
      <3>5. DoneAtEnd' /\ JoinedDone'
        BY <2>1, <3>1 DEF DoneAtEnd, JoinedDone
      <3>. QED
        BY <3>3, <3>4, <3>5
    <2>2. CASE it # End
      <3>1. /\ pc[t] = "recheck" /\ pc' = [pc EXCEPT ![t] = "advance"]
            /\ wit_id' = [wit_id EXCEPT ![t] = it]
            /\ UNCHANGED <<main, started, joined, it, view, mtx, witnesses>>
        BY <2>2 DEF Recheck
      <3>2. it \in Wits /\ t \notin InFlight
        BY <2>2, <3>1 DEF TypeOK, Wits, InFlight
      <3>3. InFlight' = InFlight \cup {t} /\ Pushed' = Pushed
        BY <3>1 DEF InFlight, Pushed
      <3>4. TypeOK' /\ MutexOK'
        BY <3>1, <3>2 DEF TypeOK, WorkerStates, MutexOK, Holding, Wits
      <3>5. \A u \in InFlight : wit_id'[u] = wit_id[u] /\ wit_id[u] < it
        <4>1. \A u \in InFlight : u # t /\ u \in Threads
          BY <3>2 DEF InFlight
        <4>2. \A u \in InFlight : pc[u] # "advance"
          BY <3>1, <4>1 DEF MutexOK, Holding
        <4>. QED
          BY <3>1, <4>1, <4>2 DEF TakenBehind
      <3>6. TakenBehind'
        BY <3>1, <3>2, <3>3, <3>5 DEF TakenBehind, MutexOK, Holding
      <3>7. BuiltOnce'
        BY <3>1, <3>2, <3>3, <3>5 DEF TakenBehind, BuiltOnce, Wits
      <3>8. NoneLost'
        BY <3>1, <3>3, <3>5 DEF NoneLost
      <3>9. DoneAtEnd' /\ JoinedDone'
        BY <3>1 DEF DoneAtEnd, JoinedDone
      <3>. QED
        BY <3>4, <3>6, <3>7, <3>8, <3>9
    <2>. QED
      BY <2>1, <2>2
  <1>6. ASSUME NEW t \in Threads, Advance(t) PROVE IInv'
    <2>. USE <1>0, <1>6
    <2>1. /\ pc[t] = "advance" /\ pc' = [pc EXCEPT ![t] = "construct"]
          /\ it' = it + 1
          /\ view' = [view EXCEPT ![t] = it + 1]
          /\ mtx = t /\ mtx' = NoThread
          /\ UNCHANGED <<main, started, joined, wit_id, witnesses>>
      BY DEF Advance, MutexOK, Holding
    <2>2. wit_id[t] = it /\ it \in Wits /\ t \in InFlight
      BY <2>1 DEF TakenBehind, InFlight
    <2>3. InFlight' = InFlight /\ Pushed' = Pushed
      BY <2>1 DEF InFlight, Pushed
    <2>4. TypeOK' /\ MutexOK'
      BY <2>1, <2>2 DEF TypeOK, WorkerStates, MutexOK, Holding, Wits
    <2>5. Pushed \subseteq Wits
      BY PushedIsWits DEF TypeOK
    <2>6. TakenBehind'
      <3>1. \A u \in Threads : u # t => pc[u] # "advance"
        BY <2>1 DEF MutexOK, Holding
      <3>2. \A u \in InFlight : wit_id'[u] = wit_id[u] /\ wit_id[u] \in Wits
        BY <2>1 DEF TakenBehind
      <3>3. \A u \in InFlight : wit_id[u] <= it
        BY <2>2, <3>1 DEF TakenBehind, InFlight, Wits
      <3>4. \A w \in Pushed : w < it'
        BY <2>1, <2>5 DEF TakenBehind, Wits
      <3>5. \A u \in Threads : pc'[u] # "advance"
        BY <2>1, <3>1
      <3>6. \A u \in InFlight : wit_id[u] < it + 1
        BY <3>2, <3>3 DEF Wits
      <3>. QED
        BY <2>1, <2>3, <3>2, <3>4, <3>5, <3>6 DEF TakenBehind
    <2>7. BuiltOnce'
      BY <2>1, <2>3 DEF BuiltOnce
    <2>8. NoneLost'
      <3>1. \A w \in Wits : w < it + 1 => w < it \/ w = wit_id[t]
        BY <2>2 DEF Wits
      <3>. QED
        BY <2>1, <2>2, <2>3, <3>1 DEF NoneLost
    <2>9. DoneAtEnd' /\ JoinedDone'
      <3>1. \A u \in Threads : pc[u] # "done"
        BY <2>2 DEF DoneAtEnd, Wits
      <3>2. \A u \in Threads : view'[u] <= it'
        BY <2>1 DEF DoneAtEnd
      <3>. QED
        BY <2>1, <3>1, <3>2 DEF DoneAtEnd, JoinedDone
    <2>. QED
      BY <2>4, <2>6, <2>7, <2>8, <2>9
  <1>7. ASSUME NEW t \in Threads, Construct(t) PROVE IInv'
    <2>. USE <1>0, <1>7
    <2>1. /\ pc[t] = "construct" /\ pc' = [pc EXCEPT ![t] = "lockPush"]
          /\ UNCHANGED <<main, started, joined, wit_id, it, view, mtx, witnesses>>
      BY DEF Construct
    <2>2. InFlight' = InFlight /\ Pushed' = Pushed
      BY <2>1 DEF InFlight, Pushed
    <2>3. TypeOK' /\ MutexOK'
      BY <2>1 DEF TypeOK, WorkerStates, MutexOK, Holding
    <2>4. TakenBehind' /\ BuiltOnce' /\ NoneLost'
      BY <2>1, <2>2 DEF TakenBehind, BuiltOnce, NoneLost
    <2>5. DoneAtEnd' /\ JoinedDone'
      BY <2>1 DEF DoneAtEnd, JoinedDone
    <2>. QED
      BY <2>3, <2>4, <2>5
  <1>8. ASSUME NEW t \in Threads, Push(t) PROVE IInv'
    <2>. USE <1>0, <1>8
    <2>1. /\ pc[t] = "push" /\ pc' = [pc EXCEPT ![t] = "check"]
          /\ witnesses' = Append(witnesses, wit_id[t])
          /\ view' = [view EXCEPT ![t] = it]
          /\ mtx = t /\ mtx' = NoThread
          /\ UNCHANGED <<main, started, joined, wit_id, it>>
      BY DEF Push, MutexOK, Holding
    <2>2. t \in InFlight /\ wit_id[t] \in Wits /\ wit_id[t] < it
      BY <2>1 DEF TakenBehind, InFlight
    <2>3. InFlight' = InFlight \ {t}
      BY <2>1 DEF InFlight
    <2>4. /\ Pushed' = Pushed \cup {wit_id[t]}
          /\ witnesses' \in Seq(Wits)
          /\ DOMAIN witnesses' = DOMAIN witnesses \cup {Len(witnesses) + 1}
          /\ witnesses'[Len(witnesses) + 1] = wit_id[t]
          /\ \A i \in DOMAIN witnesses : witnesses'[i] = witnesses[i]
      BY <2>1, <2>2, PushedAppend DEF TypeOK
    <2>5. TypeOK' /\ MutexOK'
      BY <2>1, <2>4 DEF TypeOK, WorkerStates, MutexOK, Holding
    <2>6. TakenBehind'
      BY <2>1, <2>2, <2>3, <2>4 DEF TakenBehind
    <2>7. BuiltOnce'
      <3>1. wit_id[t] \notin Pushed
        BY <2>2 DEF BuiltOnce
      <3>2. \A i \in DOMAIN witnesses : witnesses[i] \in Pushed
        BY DEF Pushed
      <3>3. \A u \in InFlight' : wit_id'[u] \notin Pushed'
        BY <2>1, <2>2, <2>3, <2>4 DEF BuiltOnce
      <3>4. \A i, j \in DOMAIN witnesses' : witnesses'[i] = witnesses'[j] => i = j
        BY <2>4, <3>1, <3>2 DEF BuiltOnce
      <3>. QED
        BY <2>1, <2>3, <3>3, <3>4 DEF BuiltOnce
    <2>8. NoneLost'
      BY <2>1, <2>3, <2>4 DEF NoneLost
    <2>9. DoneAtEnd' /\ JoinedDone'
      BY <2>1 DEF DoneAtEnd, JoinedDone
    <2>. QED
      BY <2>5, <2>6, <2>7, <2>8, <2>9
  <1>9. CASE UNCHANGED vars
    <2>1. InFlight' = InFlight /\ Pushed' = Pushed
      BY <1>9 DEF vars, InFlight, Pushed
    <2>. QED
      BY <1>9, <2>1 DEF vars, TypeOK, MutexOK, TakenBehind, BuiltOnce, NoneLost,
                        DoneAtEnd, JoinedDone
  <1>. QED
    BY <1>1, <1>2, <1>3, <1>4, <1>5, <1>6, <1>7, <1>8, <1>9
    DEF Next, MainThread, Worker, Terminating

\* The inductive invariant holds in every state of the pool.
THEOREM IInvHolds == Spec => []IInv
  BY InitIInv, StepIInv, PTL DEF Spec

\* The variables of the pool keep their types.
THEOREM TypeOKHolds == Spec => []TypeOK
  <1>1. IInv => TypeOK
    BY DEF IInv
  <1>. QED
    BY <1>1, IInvHolds, PTL

\* Whatever the scheduling and whatever the racy read of line 586 returns, no
\* witness is built by two threads or twice.
THEOREM BuiltOnceHolds == Spec => []BuiltOnce
  <1>1. IInv => BuiltOnce
    BY DEF IInv
  <1>. QED
    BY <1>1, IInvHolds, PTL

\* No witness is skipped by the iterator.
THEOREM NoneLostHolds == Spec => []NoneLost
  <1>1. IInv => NoneLost
    BY DEF IInv
  <1>. QED
    BY <1>1, IInvHolds, PTL

LEMMA AllDoneComplete ==
  ASSUME IInv, joined = num_threads, HardwareConcurrency > 0
  PROVE  Pushed = Wits
  <1>. USE DEF IInv
  <1>1. Pushed \subseteq Wits
    BY PushedIsWits DEF TypeOK
  <1>2. \A t \in Threads : pc[t] = "done"
    BY NumThreads DEF JoinedDone, Threads
  <1>3. InFlight = {}
    BY <1>2 DEF InFlight
  <1>4. CASE NumWits = 0
    BY <1>1, <1>4 DEF Wits
  <1>5. CASE NumWits # 0
    <2>1. 1 \in Threads
      BY <1>5, NumWitsAssumption, HardwareConcurrencyAssumption DEF Threads, num_threads
    <2>2. it = NumWits + 1
      BY <1>2, <2>1 DEF DoneAtEnd, End
    <2>3. \A w \in Wits : w < it
      BY <2>2, NumWitsAssumption DEF Wits
    <2>. QED
      BY <1>1, <1>3, <2>3 DEF NoneLost
  <1>. QED
    BY <1>4, <1>5

\* After the joins the list of witnesses is complete, if there was any thread.
THEOREM AllInitialisedHolds == Spec => []AllInitialised
  <1>1. IInv => AllInitialised
    BY AllDoneComplete DEF AllInitialised, IInv, JoinedDone
  <1>. QED
    BY <1>1, IInvHolds, PTL

\* The list of witnesses changes only by a new witness at its end.
LEMMA StepBuilds ==
  ASSUME IInv, [Next]_vars
  PROVE  \/ witnesses' = witnesses
         \/ \E t \in Threads :
               /\ Push(t)
               /\ wit_id[t] \in Wits \ Pushed
               /\ witnesses' = Append(witnesses, wit_id[t])
  <1>1. ASSUME NEW t \in Threads, Push(t)
        PROVE  wit_id[t] \in Wits \ Pushed /\ witnesses' = Append(witnesses, wit_id[t])
    <2>1. t \in InFlight
      BY <1>1 DEF Push, InFlight
    <2>. QED
      BY <1>1, <2>1 DEF Push, IInv, TakenBehind, BuiltOnce
  <1>. QED
    BY <1>1 DEF Next, MainThread, Spawn, SpawnFails, AllSpawned, Join, Terminating,
                Worker, CheckLoop, LockTake, Recheck, Advance, Construct, LockPush, vars

(***************************************************************************)
(* The pool implements WitnessInit when hardware_concurrency() knows the   *)
(* number of cores.  With 0 it does not: no witness is built.              *)
(***************************************************************************)

LEMMA StepImplements ==
  ASSUME HardwareConcurrency > 0, IInv, IInv', [Next]_vars
  PROVE  [Abstract!Next]_(Abstract!vars)
  <1>1. Abstract!Built = Pushed /\ Abstract!Wits = Wits
    BY DEF Abstract!Built, Abstract!Wits, Pushed, Wits
  <1>2. CASE main = "joined"
    <2>1. \A t \in Threads : pc[t] = "done"
      BY <1>2, NumThreads DEF IInv, JoinedDone, Threads
    <2>. QED
      BY <1>2, <2>1 DEF Next, MainThread, Spawn, SpawnFails, AllSpawned, Join, Terminating,
           Worker, CheckLoop, LockTake, Recheck, Advance, Construct, LockPush, Push, vars,
           Abstract!vars
  <1>3. CASE main # "joined" /\ main' = "joined"
    <2>1. Join /\ witnesses' = witnesses
      BY <1>3 DEF Next, MainThread, Spawn, SpawnFails, AllSpawned, Join, Terminating,
           Worker, CheckLoop, LockTake, Recheck, Advance, Construct, LockPush, Push, vars
    <2>2. joined = num_threads
      BY <1>3, <2>1, NumThreads DEF Join, IInv, TypeOK
    <2>3. Pushed = Wits
      BY <2>2, AllDoneComplete
    <2>. QED
      BY <1>1, <1>3, <2>1, <2>3 DEF Abstract!Next, Abstract!Finish
  <1>4. CASE main # "joined" /\ main' # "joined"
    <2>1. CASE witnesses' = witnesses
      BY <1>4, <2>1 DEF Abstract!vars
    <2>2. CASE witnesses' # witnesses
      <3>1. PICK t \in Threads : /\ wit_id[t] \in Wits \ Pushed
                                 /\ witnesses' = Append(witnesses, wit_id[t])
        BY <2>2, StepBuilds
      <3>2. Abstract!Build(wit_id[t])
        BY <1>1, <1>4, <3>1 DEF Abstract!Build
      <3>. QED
        BY <1>1, <3>1, <3>2 DEF Abstract!Next
    <2>. QED
      BY <2>1, <2>2
  <1>. QED
    BY <1>2, <1>3, <1>4

\* The thread pool keeps the promise of WitnessInit.
THEOREM ImplementsHolds == HardwareConcurrency > 0 => (Spec => Implements)
  <1>. SUFFICES ASSUME HardwareConcurrency > 0 PROVE Spec => Implements
    OBVIOUS
  <1>1. Init => Abstract!Init
    BY DEF Init, Abstract!Init
  <1>2. IInv /\ IInv' /\ [Next]_vars => [Abstract!Next]_(Abstract!vars)
    BY StepImplements
  <1>. QED
    BY <1>1, <1>2, IInvHolds, PTL DEF Spec, Implements, Abstract!Spec
==============================================================================
