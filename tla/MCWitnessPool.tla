---------------------------- MODULE MCWitnessPool ----------------------------
(* Instances of WitnessPool for TLC: more witnesses than threads, so that a *)
(* thread takes several, and more cores than witnesses.                     *)
EXTENDS WitnessPool
==============================================================================
