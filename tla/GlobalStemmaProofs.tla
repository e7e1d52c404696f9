--------------------------- MODULE GlobalStemmaProofs ---------------------------
(***************************************************************************)
(* Proofs about print_global_stemma, for any number of witnesses and any   *)
(* options the optimisation may find: the stemma is built from the first   *)
(* substemma of every witness, nobody writes to a witness afterwards, and  *)
(* the threads keep the promise of the README.                             *)
(***************************************************************************)
EXTENDS GlobalStemma, TLAPS

\* What the optimisation returns is made of lists of witnesses.
LEMMA OptionTypes ==
  ASSUME substemmata \in [Wits -> Options], NEW w \in Wits
  PROVE  /\ substemmata[w] \in Seq(Seq(Wits))
         /\ substemmata[w] # <<>> => Head(substemmata[w]) \in Seq(Wits)
         /\ First(w) \in Seq(Wits)
  <1>1. substemmata[w] \in Seq(Seq(Wits))
    BY OptionsAssumption DEF Wits
  <1>2. substemmata[w] # <<>> => Head(substemmata[w]) \in Seq(Wits)
    BY <1>1
  <1>. QED
    BY <1>1, <1>2 DEF First

LEMMA InitIInv == Init => IInv
  <1>. SUFFICES ASSUME Init PROVE IInv
    OBVIOUS
  <1>. USE NumWitsAssumption
  <1>1. TypeOK
    BY DEF Init, TypeOK, MainStates, ThreadStates, Contents, NoStemma
  <1>2. JoinedDone
    BY DEF Init, JoinedDone, MainStates, NoStemma, Wits
  <1>3. AncestorsOK /\ BuiltFromAll
    BY DEF Init, AncestorsOK, BuiltFromAll
  <1>. QED
    BY <1>1, <1>2, <1>3 DEF IInv

(***************************************************************************)
(* The type invariant is not inductive on its own: SetAncestors stores the *)
(* IDs that Search has found, and Build copies the ancestors, so that what *)
(* the stemma is made of rests on AncestorsOK and JoinedDone.              *)
(***************************************************************************)
LEMMA StepIInv == IInv /\ [Next]_vars => IInv'
  <1>. SUFFICES ASSUME IInv, [Next]_vars PROVE IInv'
    OBVIOUS
  <1>. USE NumWitsAssumption DEF IInv
  <1>0. /\ started \in Nat /\ joined \in Nat
        /\ pc \in [Wits -> ThreadStates]
        /\ ids \in [Wits -> Seq(Wits)]
        /\ ancestors \in [Wits -> Seq(Wits)]
        /\ substemmata \in [Wits -> Options]
        /\ Wits = 1..NumWits
    BY DEF TypeOK, Wits
  <1>1. ASSUME NEW w \in Wits, Search(w), main \notin {"terminated", "exit0"} PROVE IInv'
    <2>. USE <1>0, <1>1
    <2>1. /\ pc[w] = "search"
          /\ pc' \in [Wits -> ThreadStates] /\ ids' \in [Wits -> Seq(Wits)]
          /\ \/ substemmata[w] = <<>> /\ pc'[w] = "done"
             \/ substemmata[w] # <<>> /\ pc'[w] = "set" /\ ids'[w] = Head(substemmata[w])
          /\ \A v \in Wits : v # w => pc'[v] = pc[v] /\ ids'[v] = ids[v]
          /\ UNCHANGED <<substemmata, main, started, joined, ancestors, stemma, fileVars>>
      BY OptionTypes DEF Search, ThreadStates
    <2>2. TypeOK'
      BY <2>1 DEF TypeOK, fileVars
    <2>3. JoinedDone'
      BY <2>1 DEF JoinedDone
    <2>4. AncestorsOK' /\ BuiltFromAll'
      BY <2>1 DEF AncestorsOK, BuiltFromAll, First
    <2>. QED
      BY <2>2, <2>3, <2>4
  <1>2. ASSUME NEW w \in Wits, SetAncestors(w) PROVE IInv'
    <2>. USE <1>0, <1>2
    <2>1. /\ pc[w] = "set" /\ pc' = [pc EXCEPT ![w] = "done"]
          /\ ancestors' = [ancestors EXCEPT ![w] = ids[w]]
          /\ UNCHANGED <<substemmata, main, started, joined, ids, stemma, fileVars>>
      BY DEF SetAncestors
    <2>2. TypeOK'
      BY <2>1 DEF TypeOK, fileVars, ThreadStates
    <2>3. JoinedDone'
      BY <2>1 DEF JoinedDone
    <2>4. AncestorsOK' /\ BuiltFromAll'
      BY <2>1 DEF AncestorsOK, BuiltFromAll, First
    <2>. QED
      BY <2>2, <2>3, <2>4
  <1>3. CASE \/ SpawnFails \/ Kill \/ \E w \in Wits : ThreadFails(w)
    <2>. USE <1>0, <1>3
    <2>1. /\ main' = "terminated"
          /\ UNCHANGED <<substemmata, started, joined, threadVars, stemma, global_dir, stream>>
          /\ dot' \in {dot, "empty", "partial"}
      BY DEF SpawnFails, Kill, ThreadFails, fileVars
    <2>2. TypeOK'
      BY <2>1 DEF TypeOK, MainStates, Contents, threadVars
    <2>3. JoinedDone'
      BY <2>1 DEF JoinedDone, MainStates, threadVars
    <2>4. AncestorsOK' /\ BuiltFromAll'
      BY <2>1 DEF AncestorsOK, BuiltFromAll, First, threadVars
    <2>. QED
      BY <2>2, <2>3, <2>4
  <1>4. CASE Spawn
    <2>. USE <1>0, <1>4
    <2>1. /\ main = "spawn" /\ started <= NumWits
          /\ UNCHANGED <<substemmata, joined, ids, ancestors, stemma, fileVars>>
      BY DEF Spawn, TypeOK
    <2>2. CASE started < NumWits
      <3>1. /\ started' = started + 1 /\ started + 1 \in Wits /\ main' = main
            /\ pc[started + 1] = "new"
            /\ pc' = [pc EXCEPT ![started + 1] = "search"]
        BY <2>2 DEF Spawn, JoinedDone
      <3>5. started' \in 0..NumWits /\ pc' \in [Wits -> ThreadStates]
        BY <3>1, <2>2 DEF ThreadStates
      <3>2. TypeOK'
        BY <2>1, <3>1, <3>5 DEF TypeOK, fileVars
      <3>3. JoinedDone'
        BY <2>1, <3>1 DEF JoinedDone
      <3>4. AncestorsOK' /\ BuiltFromAll'
        BY <2>1, <3>1 DEF AncestorsOK, BuiltFromAll, First
      <3>. QED
        BY <3>2, <3>3, <3>4
    <2>3. CASE ~(started < NumWits)
      <3>1. main' = "join" /\ UNCHANGED <<started, pc>>
        BY <2>3 DEF Spawn
      <3>. QED
        BY <2>1, <3>1 DEF TypeOK, fileVars, MainStates, JoinedDone, AncestorsOK, BuiltFromAll, First
    <2>. QED
      BY <2>2, <2>3
  <1>5. CASE Join
    <2>. USE <1>0, <1>5
    <2>1. /\ main = "join" /\ joined <= NumWits
          /\ UNCHANGED <<substemmata, started, threadVars, stemma, fileVars>>
          /\ \/ /\ joined < NumWits /\ pc[joined + 1] = "done"
                /\ joined' = joined + 1 /\ main' = main
             \/ joined = NumWits /\ joined' = joined /\ main' = "build"
      BY DEF Join, TypeOK
    <2>5. joined' \in 0..NumWits /\ main' \in {"join", "build"}
      BY <2>1
    <2>2. TypeOK'
      BY <2>1, <2>5 DEF TypeOK, fileVars, threadVars, MainStates
    <2>6. stemma' = NoStemma /\ pc' = pc
      BY <2>1 DEF JoinedDone, threadVars
    <2>7. \A w \in Wits : w <= joined' => pc'[w] = "done"
      <3>1. \A w \in Wits : w <= joined + 1 => w <= joined \/ w = joined + 1
        OBVIOUS
      <3>2. \A w \in Wits : w <= joined => pc[w] = "done"
        BY DEF JoinedDone
      <3>. QED
        BY <2>1, <2>6, <3>1, <3>2
    <2>3. JoinedDone'
      BY <2>1, <2>6, <2>7 DEF JoinedDone, MainStates
    <2>4. AncestorsOK' /\ BuiltFromAll'
      BY <2>1 DEF AncestorsOK, BuiltFromAll, First, threadVars
    <2>. QED
      BY <2>2, <2>3, <2>4
  <1>6. CASE Build
    <2>. USE <1>0, <1>6
    <2>1. /\ main = "build" /\ main' = "create_dir" /\ stemma' = {ancestors}
          /\ UNCHANGED <<substemmata, started, joined, threadVars, fileVars>>
      BY DEF Build
    <2>2. \A w \in Wits : pc[w] = "done"
      BY <2>1 DEF JoinedDone, MainStates
    <2>3. ancestors = [w \in Wits |-> First(w)]
      BY <2>2 DEF AncestorsOK
    <2>4. TypeOK'
      BY <2>1 DEF TypeOK, fileVars, threadVars, MainStates
    <2>5. JoinedDone'
      BY <2>1 DEF JoinedDone, threadVars, NoStemma, MainStates
    <2>6. AncestorsOK'
      BY <2>1 DEF AncestorsOK, First, threadVars
    <2>7. BuiltFromAll'
      BY <2>1, <2>3 DEF BuiltFromAll, First
    <2>. QED
      BY <2>4, <2>5, <2>6, <2>7
  <1>7. CASE CreateDir \/ OpenFile \/ ToDot \/ CloseAndExit
    <2>. USE <1>0, <1>7
    <2>1. /\ UNCHANGED <<substemmata, started, joined, threadVars, stemma>>
          /\ main \in {"create_dir", "open", "to_dot", "close"}
          /\ main' \in {"open", "to_dot", "close", "exit0"}
          /\ global_dir' \in BOOLEAN
          /\ stream' \in {"closed", "good", "bad"}
          /\ dot' \in Contents
      BY DEF CreateDir, OpenFile, ToDot, CloseAndExit, TypeOK, Contents
    <2>2. TypeOK'
      BY <2>1 DEF TypeOK, threadVars, MainStates
    <2>3. JoinedDone'
      BY <2>1 DEF JoinedDone, threadVars, MainStates
    <2>4. AncestorsOK' /\ BuiltFromAll'
      BY <2>1 DEF AncestorsOK, BuiltFromAll, First, threadVars
    <2>. QED
      BY <2>2, <2>3, <2>4
  <1>8. CASE UNCHANGED vars
    BY <1>8 DEF vars, threadVars, fileVars, TypeOK, JoinedDone, AncestorsOK, BuiltFromAll, First
  <1>. QED
    BY <1>1, <1>2, <1>3, <1>4, <1>5, <1>6, <1>7, <1>8
    DEF Next, MainThread, Thread, Terminating

\* In every state of print_global_stemma, whatever the scheduling and whatever
\* fails: main has joined only threads that were done, and a witness has its
\* ancestors if and only if its thread has ended (lines 277-309).
THEOREM IInvHolds == Spec => []IInv
  BY InitIInv, StepIInv, PTL DEF Spec

\* The stemma is built from the first substemma of every witness
\* (print_global_stemma.cpp:277-309).
THEOREM BuiltFromAllHolds == Spec => []BuiltFromAll
  <1>1. IInv => BuiltFromAll
    BY DEF IInv
  <1>. QED
    BY <1>1, IInvHolds, PTL

LEMMA StemmaMeansDone ==
  ASSUME IInv, stemma # NoStemma
  PROVE  \A w \in Wits : pc[w] = "done"
  BY NumWitsAssumption DEF IInv, JoinedDone, Wits

LEMMA StepNoLateWrite ==
  ASSUME IInv, [Next]_vars, stemma # NoStemma
  PROVE  UNCHANGED <<pc, ancestors>>
  <1>1. \A w \in Wits : pc[w] = "done"
    BY StemmaMeansDone
  <1>2. main \notin {"spawn", "join", "build"}
    BY DEF IInv, JoinedDone
  <1>. QED
    BY <1>1, <1>2 DEF Next, MainThread, Spawn, SpawnFails, Join, Build, CreateDir, OpenFile,
      ToDot, CloseAndExit, Kill, Terminating, Thread, ThreadFails, Search, SetAncestors,
      vars, threadVars

\* Main reads the witnesses without a lock (line 309): by then every thread has
\* ended, and none writes to a witness any more (line 287).
THEOREM NoLateWriteHolds == Spec => NoLateWrite
  <1>1. IInv /\ [Next]_vars => [stemma # NoStemma => UNCHANGED <<pc, ancestors>>]_vars
    BY StepNoLateWrite
  <1>. QED
    BY <1>1, IInvHolds, PTL DEF Spec, NoLateWrite

LEMMA StepOldGraphKept ==
  ASSUME IInv, [Next]_vars, dot' # dot
  PROVE  stemma = {[w \in Wits |-> First(w)]}
  <1>1. main \in {"open", "to_dot", "close"}
    BY DEF Next, MainThread, Spawn, SpawnFails, Join, Build, CreateDir, OpenFile,
      ToDot, CloseAndExit, Kill, Terminating, Thread, ThreadFails, Search, SetAncestors,
      vars, threadVars, fileVars
  <1>2. stemma # NoStemma
    BY <1>1 DEF IInv, JoinedDone, MainStates
  <1>. QED
    BY <1>2 DEF IInv, BuiltFromAll

\* The file of an earlier run is not touched before the new stemma is complete,
\* even when the process fails or is killed (lines 292-317).
THEOREM OldGraphKeptHolds == Spec => OldGraphKept
  <1>1. IInv /\ [Next]_vars => [dot' # dot => stemma = {[w \in Wits |-> First(w)]}]_vars
    BY StepOldGraphKept
  <1>. QED
    BY <1>1, IInvHolds, PTL DEF Spec, OldGraphKept

(***************************************************************************)
(* The threads implement StemmaPromise: a witness counts as optimised when *)
(* its thread has ended, which is when its ancestors are stored.           *)
(***************************************************************************)
Optimized == {w \in Wits : pc[w] = "done"}

LEMMA InitPromise == Init => Promise!Init
  BY DEF Init, Promise!Init, Promise!Wits, Promise!NoStemma, Wits, NoStemma

\* The thread of w ends: the promise's Optimize(w).
LEMMA ThreadEnds ==
  ASSUME IInv, NEW w \in Wits, Search(w) \/ SetAncestors(w), pc'[w] = "done"
  PROVE  Promise!Optimize(w)
  <1>1. pc[w] \in {"search", "set"} /\ pc' = [pc EXCEPT ![w] = "done"]
    BY DEF Search, SetAncestors, IInv, TypeOK
  <1>2. stemma = NoStemma /\ UNCHANGED <<substemmata, stemma>>
    BY <1>1, StemmaMeansDone DEF Search, SetAncestors
  <1>3. Optimized' = Optimized \cup {w} /\ w \notin Optimized
    BY <1>1 DEF Optimized, IInv, TypeOK
  <1>4. ancestors' = [ancestors EXCEPT ![w] = First(w)]
    <2>1. CASE Search(w)
      <3>1. substemmata[w] = <<>> /\ ancestors' = ancestors
        BY <1>1, <2>1 DEF Search, IInv, TypeOK
      <3>2. ancestors[w] = First(w)
        BY <1>1, <3>1 DEF IInv, AncestorsOK, First
      <3>. QED
        BY <3>1, <3>2 DEF IInv, TypeOK
    <2>2. CASE SetAncestors(w)
      BY <2>2 DEF SetAncestors, IInv, AncestorsOK, First
    <2>. QED
      BY <2>1, <2>2
  <1>. QED
    BY <1>2, <1>3, <1>4
    DEF Promise!Optimize, Promise!Wits, Promise!NoStemma, Promise!First, First, Wits, NoStemma,
        Optimized

LEMMA StepPromise ==
  ASSUME IInv, [Next]_vars
  PROVE  [Promise!Next]_(Promise!vars)
  <1>1. ASSUME NEW w \in Wits, Search(w) \/ SetAncestors(w) PROVE [Promise!Next]_(Promise!vars)
    <2>1. CASE pc'[w] = "done"
      BY <1>1, <2>1, ThreadEnds DEF Promise!Next, Promise!Wits, Wits
    <2>2. CASE pc'[w] # "done"
      <3>1. Search(w) /\ pc[w] = "search" /\ pc' = [pc EXCEPT ![w] = "set"]
        BY <1>1, <2>2 DEF Search, SetAncestors, IInv, TypeOK
      <3>2. Optimized' = Optimized
        BY <3>1 DEF Optimized, IInv, TypeOK
      <3>. QED
        BY <3>1, <3>2 DEF Search, Promise!vars, Optimized
    <2>. QED
      BY <2>1, <2>2
  <1>2. CASE Spawn
    <2>1. Optimized' = Optimized
      <3>1. CASE started < NumWits
        <4>1. started + 1 \in Wits /\ pc[started + 1] = "new"
              /\ pc' = [pc EXCEPT ![started + 1] = "search"]
          BY <1>2, <3>1, NumWitsAssumption DEF Spawn, IInv, TypeOK, JoinedDone, Wits
        <4>. QED
          BY <4>1 DEF Optimized, IInv, TypeOK
      <3>2. CASE ~(started < NumWits)
        BY <1>2, <3>2 DEF Spawn, Optimized
      <3>. QED
        BY <3>1, <3>2
    <2>. QED
      BY <1>2, <2>1 DEF Spawn, Promise!vars, Optimized
  <1>3. CASE Build
    <2>1. stemma = NoStemma
      BY <1>3 DEF Build, IInv, JoinedDone
    <2>2. Optimized = Wits
      BY <1>3, NumWitsAssumption DEF Build, IInv, JoinedDone, MainStates, Optimized, Wits
    <2>3. Promise!Combine
      BY <1>3, <2>1, <2>2 DEF Build, Promise!Combine, Promise!NoStemma, Promise!Wits, NoStemma,
        Wits, Optimized, threadVars
    <2>. QED
      BY <2>3 DEF Promise!Next
  <1>4. CASE \/ SpawnFails \/ Kill \/ Join \/ CreateDir \/ OpenFile \/ ToDot \/ CloseAndExit
             \/ UNCHANGED vars \/ \E w \in Wits : ThreadFails(w)
    <2>1. UNCHANGED <<substemmata, pc, ancestors, stemma>>
      BY <1>4 DEF SpawnFails, Kill, Join, CreateDir, OpenFile, ToDot, CloseAndExit, ThreadFails,
        vars, threadVars
    <2>. QED
      BY <2>1 DEF Promise!vars, Optimized
  <1>. QED
    BY <1>1, <1>2, <1>3, <1>4 DEF Next, MainThread, Thread, Terminating

\* Whatever order the threads run and end in, print_global_stemma does what its
\* sequential description says (README.md:369): it optimises each witness once,
\* then combines all of them.
THEOREM KeepsPromiseHolds == Spec => KeepsPromise
  <1>1. Init => Promise!Init
    BY InitPromise
  <1>2. IInv /\ [Next]_vars => [Promise!Next]_(Promise!vars)
    BY StepPromise
  <1>. QED
    BY <1>1, <1>2, IInvHolds, PTL DEF Spec, KeepsPromise, Promise!Spec
==============================================================================
