---------------------------- MODULE MCGlobalStemma ----------------------------
(* A witness without substemmata, with one, and with two; one is empty. *)
EXTENDS GlobalStemma

MCOptions == {<<>>, << <<1>> >>, << <<1, 2>>, <<2>> >>, << <<>>, <<1>> >>}
==============================================================================
