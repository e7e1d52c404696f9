---------------------------- MODULE StemmaPromise ----------------------------
(***************************************************************************)
(* What print_global_stemma promises, without saying how many threads do   *)
(* the work: "This script optimizes the substemmata of all witnesses       *)
(* (choosing the first option in case of ties), then combines the          *)
(* substemmata into a global stemma" (README.md:369).                      *)
(***************************************************************************)
EXTENDS Naturals, Sequences

CONSTANT NumWits            \* the witnesses that are not excluded

VARIABLES substemmata,      \* what the optimisation finds for each witness, best first
          optimized,        \* the witnesses whose substemmata are optimised
          ancestors,        \* the stemmatic ancestors of each witness
          stemma            \* none, or the ancestors the global stemma is built from

vars == <<substemmata, optimized, ancestors, stemma>>

Wits == 1..NumWits
NoStemma == {}

\* The first option; a witness without options keeps no ancestors.
First(options) == IF options = <<>> THEN <<>> ELSE Head(options)

Init ==
    /\ optimized = {}
    /\ ancestors = [w \in Wits |-> <<>>]
    /\ stemma = NoStemma

Optimize(w) ==
    /\ w \in Wits \ optimized
    /\ stemma = NoStemma
    /\ optimized' = optimized \cup {w}
    /\ ancestors' = [ancestors EXCEPT ![w] = First(substemmata[w])]
    /\ UNCHANGED <<substemmata, stemma>>

Combine ==
    /\ optimized = Wits
    /\ stemma = NoStemma
    /\ stemma' = {ancestors}
    /\ UNCHANGED <<substemmata, optimized, ancestors>>

Next == Combine \/ \E w \in Wits : Optimize(w)

Spec == Init /\ [][Next]_vars
==============================================================================
