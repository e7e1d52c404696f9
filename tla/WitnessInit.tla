----------------------------- MODULE WitnessInit -----------------------------
(***************************************************************************)
(* What populate_db promises about the witnesses of the apparatus, without *)
(* saying how many threads do the work: "Then initialize all of these      *)
(* witnesses" (scripts/populate_db.cpp:572).  Every witness of list_wit    *)
(* is built once, in some order, and the program goes on to the database   *)
(* only when all of them are there.                                        *)
(***************************************************************************)
EXTENDS Naturals, Sequences

CONSTANT NumWits        \* the number of witness IDs in list_wit

VARIABLES built,        \* the positions in list_wit of the witnesses built, in order
          finished      \* the program has moved on to the database

vars == <<built, finished>>

Wits == 1..NumWits

Built == {built[i] : i \in DOMAIN built}

Init == built = <<>> /\ finished = FALSE

Build(w) ==
    /\ ~finished
    /\ w \in Wits \ Built
    /\ built' = Append(built, w)
    /\ UNCHANGED finished

Finish ==
    /\ ~finished
    /\ Wits \subseteq Built
    /\ finished' = TRUE
    /\ UNCHANGED built

Next == Finish \/ \E w \in Wits : Build(w)

Spec == Init /\ [][Next]_vars
==============================================================================
