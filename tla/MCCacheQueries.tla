---------------------------- MODULE MCCacheQueries ----------------------------
(* Three witnesses and two variation units.  In u the readings descend from   *)
(* each other, x, y, z; in v, x and y may have a source, s, or none; "q"     *)
(* names nothing.                                                            *)
EXTENDS CacheQueries

Support(a, b, c) == [w \in {w \in {"a", "b", "c"} :
                              (CASE w = "a" -> a [] w = "b" -> b [] w = "c" -> c) # "lac"} |->
                        CASE w = "a" -> a [] w = "b" -> b [] w = "c" -> c]

MCApparatuses ==
    {[list_wit |-> <<"a", "b", "c">>,
      units |-> <<
        [id |-> "u", label |-> "U", connectivity |-> 1, readings |-> <<"x", "y", "z">>,
         edges |-> <<[prior |-> "x", posterior |-> "y"], [prior |-> "y", posterior |-> "z"]>>, support |-> Support("x", b1, c1)],
        [id |-> "v", label |-> "V", connectivity |-> 2, readings |-> <<"s", "x", "y">>,
         edges |-> edges,
         support |-> Support(a2, b2, c2)]>>] :
        b1 \in {"x", "y"}, c1 \in {"lac", "z"},
        a2 \in {"lac", "x"}, b2 \in {"lac", "y"}, c2 \in {"lac", "x"},
        edges \in {<<>>, <<[prior |-> "s", posterior |-> "x"], [prior |-> "s", posterior |-> "y"]>>}}

MCExclusions == {{}, {"a"}, {"b", "q"}}
MCSecondaries == {{}, {"b"}, {"a", "c"}}
MCPassages == {{}, {"v"}, {"u", "q"}}
MCReadingSets == {{}, {"x", "y"}, {"q"}}
==============================================================================
