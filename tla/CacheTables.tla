----------------------------- MODULE CacheTables -----------------------------
(***************************************************************************)
(* What populate_db writes into the six tables (scripts/populate_db.cpp:   *)
(* 73-92, 136-158, 203-228, 270-290, 340-413, 453-468, 560-609): the       *)
(* witness list is filtered by -t, the witnesses are built by the threads  *)
(* in some order, and the tables are filled from the apparatus, from the   *)
(* witnesses in that order, or from the list.  PopulateDB says when their  *)
(* rows reach the file; here each table is written in one step.  A table   *)
(* is a set of rows; row_id numbers them in the order of their insertion.  *)
(*                                                                         *)
(* The apparatus and the comparison of two witnesses belong to             *)
(* lib/open-cbgm: the apparatus is a parameter, and the comparison is its  *)
(* documented meaning.                                                     *)
(***************************************************************************)
EXTENDS Integers, Sequences, FiniteSets, SequencesExt, Relation

CONSTANTS Apparatuses,  \* what the XML file may hold
          Thresholds    \* arguments of -t; 0 stands for none

\* A unit's support gives the reading of each witness that is extant.
IsUnit(unit, wits) ==
    /\ unit \in [id : STRING, label : STRING, connectivity : Int, readings : Seq(STRING),
                 edges : Seq([prior : STRING, posterior : STRING]),
                 support : [DOMAIN unit.support -> ToSet(unit.readings)]]
    /\ DOMAIN unit.support \subseteq wits

\* An apparatus has the list of its witnesses and the sequence of its variation
\* units, whose IDs are distinct.
ASSUME ApparatusesAssumption ==
    \A app \in Apparatuses :
        /\ app.list_wit \in Seq(STRING) /\ IsInjective(app.list_wit)
        /\ app.units \in Seq(ToSet(app.units))
        /\ \A i \in DOMAIN app.units : IsUnit(app.units[i], ToSet(app.list_wit))
        /\ \A i, j \in DOMAIN app.units : app.units[i].id = app.units[j].id => i = j
ASSUME ThresholdsAssumption == Thresholds \subseteq Nat

VARIABLES app,          \* the apparatus
          threshold,
          list_wit,     \* app.get_list_wit(), after the filter
          witnesses,    \* the list "witnesses", in the order in which the threads ended
          step,         \* control state of populate_db
          db            \* the tables

popVars == <<app, threshold, list_wit, witnesses, step, db>>

Tables == <<"READINGS", "READING_RELATIONS", "READING_SUPPORT", "VARIATION_UNITS",
            "GENEALOGICAL_COMPARISONS", "WITNESSES">>

EmptyDB == [t \in ToSet(Tables) |-> {}]

PopInit ==
    /\ app \in Apparatuses
    /\ threshold \in Thresholds
    /\ list_wit = app.list_wit
    /\ witnesses = <<>>
    /\ step = "filter"
    /\ db = EmptyDB

-----------------------------------------------------------------------------
(* lib/open-cbgm. *)

\* get_extant_passages_for_witness
ExtantPassages(w) == Cardinality({i \in DOMAIN app.units : w \in DOMAIN app.units[i].support})

Paths ==
    [unit \in UNION {ToSet(a.units) : a \in Apparatuses} |->
        LET Rdgs == ToSet(unit.readings)
            Edge == [p \in Rdgs \X Rdgs |-> [prior |-> p[1], posterior |-> p[2]] \in ToSet(unit.edges)]
        IN  TransitiveClosure(Edge, Rdgs)]

\* There is a path from r to s in the local stemma (without --classic).
Ancestor(unit, r, s) == Paths[unit][r, s]

\* Readings with a common source are independent of each other; without one their
\* relationship is unclear.
CommonSource(unit, r, s) == \E t \in ToSet(unit.readings) : Ancestor(unit, t, r) /\ Ancestor(unit, t, s)

\* get_genealogical_comparison_for_witness: bitmaps of the indices of units, from 0.
Comparison(w, v) ==
    LET Both == {j \in DOMAIN app.units : {w, v} \subseteq DOMAIN app.units[j].support}
        Rdg(j, x) == app.units[j].support[x]
        Same == {j \in Both : Rdg(j, w) = Rdg(j, v)}
        Before(x, y) == {j \in Both \ Same : Ancestor(app.units[j], Rdg(j, x), Rdg(j, y))}
        Prior == Before(w, v)
        Posterior == Before(v, w)
        Rest == Both \ (Same \cup Prior \cup Posterior)
        Norel == {j \in Rest : CommonSource(app.units[j], Rdg(j, w), Rdg(j, v))}
        BitsOf(js) == {j - 1 : j \in js}
    IN  [extant     |-> BitsOf(Both),
         agreements |-> BitsOf(Same),
         prior      |-> BitsOf(Prior),
         posterior  |-> BitsOf(Posterior),
         norel      |-> BitsOf(Norel),
         unclear    |-> BitsOf(Rest \ Norel),
         explained  |-> BitsOf(Same \cup Posterior)]

-----------------------------------------------------------------------------
(* Lists. *)

\* The n-th of a set of integers.
Nth(ids, n) == CHOOSE i \in ids : Cardinality({j \in ids : j < i}) = n - 1

\* The elements of a list that are in a set, in their order.
Keep(list, S) ==
    LET kept == {i \in DOMAIN list : list[i] \in S}
    IN  [n \in 1..Cardinality(kept) |-> list[Nth(kept, n)]]

\* Mutant: a witness just below the threshold is kept.
FilterOneLess ==
    /\ step = "filter"
    /\ list_wit' = IF threshold > 0 THEN Keep(list_wit, {w \in ToSet(list_wit) : ExtantPassages(w) >= threshold - 1})
                                    ELSE list_wit
    /\ step' = "witnesses"
    /\ UNCHANGED <<app, threshold, witnesses, db>>

\* list_wit.remove_if(...) and app.set_list_wit(list_wit), if -t is positive.
Filter ==
    /\ step = "filter"
    /\ list_wit' = IF threshold > 0 THEN Keep(list_wit, {w \in ToSet(list_wit) : ExtantPassages(w) >= threshold})
                                    ELSE list_wit
    /\ step' = "witnesses"
    /\ UNCHANGED <<app, threshold, witnesses, db>>

\* The threads build every witness once, in any order (see WitnessPool).
InitWitnesses ==
    /\ step = "witnesses"
    /\ witnesses' \in SetToSeqs(ToSet(list_wit))
    /\ step' = "READINGS"
    /\ UNCHANGED <<app, threshold, list_wit, db>>

-----------------------------------------------------------------------------
(* The six functions. *)

\* A position of two nested loops is reached before another one.
Precedes(p, q) == p[1] < q[1] \/ (p[1] = q[1] /\ p[2] < q[2])

\* The counter row_id, at a position of two nested loops: the insertions before.
RowId(p, positions) == Cardinality({q \in positions : Precedes(q, p)})

Readings ==
    LET positions == UNION {{<<i, j>> : j \in DOMAIN app.units[i].readings} : i \in DOMAIN app.units}
    IN  {[row_id |-> RowId(p, positions), variation_unit |-> app.units[p[1]].id,
          reading |-> app.units[p[1]].readings[p[2]]] : p \in positions}

ReadingRelations ==
    LET positions == UNION {{<<i, j>> : j \in DOMAIN app.units[i].edges} : i \in DOMAIN app.units}
    IN  {[row_id |-> RowId(p, positions), variation_unit |-> app.units[p[1]].id,
          prior |-> app.units[p[1]].edges[p[2]].prior,
          posterior |-> app.units[p[1]].edges[p[2]].posterior] : p \in positions}

\* Mutant: the support is written for the witnesses that the filter has dropped, too.
SupportOfAll ==
    LET positions == {p \in (DOMAIN app.units) \X (DOMAIN app.list_wit) :
                        app.list_wit[p[2]] \in DOMAIN app.units[p[1]].support}
    IN  {[row_id |-> RowId(p, positions), variation_unit |-> app.units[p[1]].id,
          witness |-> app.list_wit[p[2]],
          reading |-> app.units[p[1]].support[app.list_wit[p[2]]]] : p \in positions}

\* In the order of the list; a witness that is lacunose is skipped.
ReadingSupport ==
    LET positions == {p \in (DOMAIN app.units) \X (DOMAIN list_wit) :
                        list_wit[p[2]] \in DOMAIN app.units[p[1]].support}
    IN  {[row_id |-> RowId(p, positions), variation_unit |-> app.units[p[1]].id,
          witness |-> list_wit[p[2]],
          reading |-> app.units[p[1]].support[list_wit[p[2]]]] : p \in positions}

\* Mutant: rows are counted from 1.
VariationUnitsFromOne ==
    {[row_id |-> i, variation_unit |-> app.units[i].id, label |-> app.units[i].label,
      connectivity |-> app.units[i].connectivity] : i \in DOMAIN app.units}

VariationUnits ==
    {[row_id |-> i - 1, variation_unit |-> app.units[i].id, label |-> app.units[i].label,
      connectivity |-> app.units[i].connectivity] : i \in DOMAIN app.units}

\* Mutant: the comparison is taken from the secondary witness.
ComparisonsSwapped ==
    LET positions == (DOMAIN witnesses) \X (DOMAIN witnesses)
    IN  {[row_id |-> RowId(p, positions), primary_wit |-> witnesses[p[1]], secondary_wit |-> witnesses[p[2]],
          comp |-> Comparison(witnesses[p[2]], witnesses[p[1]])] : p \in positions}

\* All pairs, in the order in which the threads have ended, itself included.
GenealogicalComparisons ==
    LET positions == (DOMAIN witnesses) \X (DOMAIN witnesses)
    IN  {[row_id |-> RowId(p, positions), primary_wit |-> witnesses[p[1]], secondary_wit |-> witnesses[p[2]],
          comp |-> Comparison(witnesses[p[1]], witnesses[p[2]])] : p \in positions}

\* Mutant: the witnesses that the filter has dropped are listed, too.
WitnessesOfAll == {[row_id |-> i - 1, witness |-> app.list_wit[i]] : i \in DOMAIN app.list_wit}

\* In the order of the list.
Witnesses == {[row_id |-> i - 1, witness |-> list_wit[i]] : i \in DOMAIN list_wit}

Contents(table) ==
    CASE table = "READINGS" -> Readings
      [] table = "READING_RELATIONS" -> ReadingRelations
      [] table = "READING_SUPPORT" -> ReadingSupport
      [] table = "VARIATION_UNITS" -> VariationUnits
      [] table = "GENEALOGICAL_COMPARISONS" -> GenealogicalComparisons
      [] table = "WITNESSES" -> Witnesses

\* The calls of main, one table after the other.
PopulateTable(t) ==
    /\ step = Tables[t]
    /\ db' = [db EXCEPT ![Tables[t]] = Contents(Tables[t])]
    /\ step' = IF t < Len(Tables) THEN Tables[t + 1] ELSE "written"
    /\ UNCHANGED <<app, threshold, list_wit, witnesses>>

PopNext == Filter \/ InitWitnesses \/ \E t \in DOMAIN Tables : PopulateTable(t)
==============================================================================
