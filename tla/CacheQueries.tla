----------------------------- MODULE CacheQueries -----------------------------
(***************************************************************************)
(* The tools that read the cache, on the tables that CacheTables has       *)
(* written: what their queries return, how the options -e, -p and the      *)
(* lists of witnesses, passages and readings select from it, where they    *)
(* end with exit(1), and what they report.  The same functions are copied  *)
(* into several tools; "map" names one of the copies.                      *)
(*                                                                         *)
(* Nobody else uses the file here (CacheReader models that); the tables    *)
(* printed and the optimisation belong to lib/open-cbgm.                   *)
(***************************************************************************)
EXTENDS CacheTables, ProportionThreshold

CONSTANTS WitIds,       \* arguments that name a witness
          UnitIds,      \* arguments that name a variation unit
          Exclusions,   \* sets of arguments of -e
          Proportions,  \* arguments of -p, in hundredths; 0 stands for none
          Secondaries,  \* sets of secondary witnesses; {} stands for none
          Passages,     \* sets of passages; {} stands for all
          ReadingSets   \* sets of readings to filter by

\* The argument of -p is tested in main; none is a possible choice.
ASSUME ProportionsAssumption == Proportions \subseteq 0..100 /\ 0 \in Proportions

\* For more variation units ProportionThreshold does not say how the product
\* is rounded.
MaxUnits == 50000
ASSUME UnitsAssumption == \A a \in Apparatuses : Len(a.units) <= MaxUnits

VARIABLES tool, opts,   \* the tool that is run, and its options
          query,        \* the query that comes next, a position in Queries(tool)
          excluded_wit_ids,
          selected,     \* the tool's list_wit
          wits,         \* the witnesses it has constructed: ID and list of comparisons
          vu_ids,       \* IDs of variation units
          vus,          \* the variation units it has constructed
          outcome,      \* how it ends
          reported      \* the passages it names

toolVars == <<tool, opts, query, excluded_wit_ids, selected, wits, vu_ids, vus, outcome, reported>>
vars == <<popVars, toolVars>>

Tools == {"compare_witnesses", "find_relatives", "optimize_substemmata", "enumerate_relationships",
          "print_local_stemma", "print_textual_flow", "print_global_stemma"}

Excluding == Tools \ {"enumerate_relationships", "print_local_stemma"}
OfOneWitness == {"compare_witnesses", "find_relatives", "optimize_substemmata", "enumerate_relationships"}

\* The order of the queries of each tool.
Queries(t) ==
    CASE t = "compare_witnesses" -> <<"proportion", "list", "exists", "witness", "secondaries">>
      [] t = "find_relatives" -> <<"proportion", "list", "exists", "witness", "unit", "readings">>
      [] t = "optimize_substemmata" -> <<"proportion", "exists", "witness", "diagnose">>
      [] t = "enumerate_relationships" -> <<"ids", "exists", "secondary", "comparison">>
      [] t = "print_local_stemma" -> <<"ids", "passages", "units">>
      [] t = "print_textual_flow" -> <<"ids", "passages", "units", "proportion", "list", "witnesses">>
      [] t = "print_global_stemma" -> <<"proportion", "list", "witnesses">>

Options(t) ==
    [e : IF t \in Excluding THEN Exclusions ELSE {{}},
     p : IF t \in Excluding THEN Proportions ELSE {0},
     primary : IF t \in OfOneWitness THEN WitIds ELSE {""},
     secondaries : CASE t = "compare_witnesses" -> Secondaries
                     [] t = "enumerate_relationships" -> {{w} : w \in WitIds}
                     [] OTHER -> {{}},
     passages : CASE t \in {"print_local_stemma", "print_textual_flow"} -> Passages
                  [] t = "find_relatives" -> {{u} : u \in UnitIds}
                  [] OTHER -> {{}},
     readings : IF t = "find_relatives" THEN ReadingSets ELSE {{}},
     bounded : IF t = "optimize_substemmata" THEN BOOLEAN ELSE {FALSE}]

NoOptions == [e |-> {}, p |-> 0, primary |-> "", secondaries |-> {}, passages |-> {}, readings |-> {},
              bounded |-> FALSE]

Init ==
    /\ PopInit
    /\ tool = "none" /\ opts = NoOptions /\ query = 1
    /\ excluded_wit_ids = {} /\ selected = <<>> /\ wits = <<>>
    /\ vu_ids = <<>> /\ vus = <<>>
    /\ outcome = "none" /\ reported = {}

-----------------------------------------------------------------------------
(* The queries. *)

\* ORDER BY ROW_ID
InOrder(rows) ==
    LET ids == {r.row_id : r \in rows}
    IN  [n \in 1..Cardinality(ids) |-> CHOOSE r \in rows : r.row_id = Nth(ids, n)]

Column(rows, name) == [i \in DOMAIN rows |-> rows[i][name]]

get_list_wit ==
    Column(InOrder({r \in db["WITNESSES"] : r.witness \notin excluded_wit_ids}), "witness")

variation_unit_labels == Column(InOrder(db["VARIATION_UNITS"]), "label")

variation_unit_ids == Column(InOrder(db["VARIATION_UNITS"]), "variation_unit")

witness_exists(w) == \E r \in db["GENEALOGICAL_COMPARISONS"] : r.primary_wit = w

variation_unit_exists(u) == \E r \in db["VARIATION_UNITS"] : r.variation_unit = u

reading_exists(u, rdg) == \E r \in db["READINGS"] : r.variation_unit = u /\ r.reading = rdg

\* Mutant: the primary witness is tested against the exclusion set as well.
get_witness_both(w) ==
    [id |-> w,
     comps |-> InOrder({r \in db["GENEALOGICAL_COMPARISONS"] :
                 r.primary_wit = w /\ {r.primary_wit, r.secondary_wit} \cap excluded_wit_ids = {}})]

\* The comparisons with witnesses that are not excluded.
get_witness(w) ==
    [id |-> w,
     comps |-> InOrder({r \in db["GENEALOGICAL_COMPARISONS"] :
                 r.primary_wit = w /\ r.secondary_wit \notin excluded_wit_ids})]

OfUnit(table, u) == {r \in db[table] : r.variation_unit = u}

\* reading_support is a map: the last row of a witness counts.
UnitOfRows(u, unit, readings, edges, support) ==
    LET LastRow(w) == CHOOSE r \in support : r.witness = w /\
                          \A s \in support : s.witness = w => s.row_id <= r.row_id
    IN  [id |-> u,
         label |-> IF unit = <<>> THEN "" ELSE unit[1].label,
         connectivity |-> IF unit = <<>> THEN 0 ELSE unit[1].connectivity,
         readings |-> Column(readings, "reading"),
         edges |-> [i \in DOMAIN edges |-> [prior |-> edges[i].prior, posterior |-> edges[i].posterior]],
         support |-> [w \in {r.witness : r \in support} |-> LastRow(w).reading]]

get_variation_unit(u) ==
    UnitOfRows(u, InOrder(OfUnit("VARIATION_UNITS", u)), InOrder(OfUnit("READINGS", u)),
               InOrder(OfUnit("READING_RELATIONS", u)), OfUnit("READING_SUPPORT", u))

\* The witnesses extant at fewer than min_extant passages.
Fragmentary(min_extant) ==
    {r.primary_wit : r \in {x \in db["GENEALOGICAL_COMPARISONS"] :
        x.primary_wit = x.secondary_wit /\ Cardinality(x.comp.extant) < min_extant}}

-----------------------------------------------------------------------------
(* One action per query of a tool. *)

At(name) == tool # "none" /\ outcome = "none" /\ Queries(tool)[query] = name

\* The process ends there.
End(how) == outcome' = how /\ UNCHANGED query

\* On to the next query; after the last one the output is written.
Continue ==
    /\ query' = query + 1
    /\ outcome' = IF query = Len(Queries(tool)) THEN "output" ELSE outcome

\* Mutant: -e and -p count even if secondary witnesses are named.
StartToolAll ==
    /\ step = "written" /\ tool = "none"
    /\ \E t \in Tools : \E o \in Options(t) :
          /\ tool' = t
          /\ opts' = o
          /\ excluded_wit_ids' = o.e
    /\ UNCHANGED <<popVars, query, selected, wits, vu_ids, vus, outcome, reported>>

\* main parses the options; compare_witnesses ignores -e and -p if it is given
\* secondary witnesses.
StartTool ==
    /\ step = "written" /\ tool = "none"
    /\ \E t \in Tools : \E o \in Options(t) :
          LET ignored == t = "compare_witnesses" /\ o.secondaries # {}
          IN  /\ tool' = t
              /\ opts' = IF ignored THEN [o EXCEPT !.p = 0] ELSE o
              /\ excluded_wit_ids' = IF ignored THEN {} ELSE o.e
    /\ UNCHANGED <<popVars, query, selected, wits, vu_ids, vus, outcome, reported>>

\* add_fragmentary_witnesses_to_excluded_set, if -p is positive.
AddFragmentary ==
    /\ At("proportion")
    /\ excluded_wit_ids' = excluded_wit_ids \cup
          (IF opts.p > 0 THEN Fragmentary(MinExtant(opts.p, Len(variation_unit_labels))) ELSE {})
    /\ Continue
    /\ UNCHANGED <<popVars, tool, opts, selected, wits, vu_ids, vus, reported>>

ListWitnesses ==
    /\ At("list")
    /\ selected' = get_list_wit
    /\ Continue
    /\ UNCHANGED <<popVars, tool, opts, excluded_wit_ids, wits, vu_ids, vus, reported>>

WitnessExists ==
    /\ At("exists")
    /\ IF witness_exists(opts.primary) THEN Continue ELSE End("exit1")
    /\ UNCHANGED <<popVars, tool, opts, excluded_wit_ids, selected, wits, vu_ids, vus, reported>>

GetWitness ==
    /\ At("witness")
    /\ wits' = <<get_witness(opts.primary)>>
    /\ Continue
    /\ UNCHANGED <<popVars, tool, opts, excluded_wit_ids, selected, vu_ids, vus, reported>>

\* compare_witnesses: the secondary witnesses are others than the primary one,
\* and known.
CheckSecondaries ==
    /\ At("secondaries")
    /\ IF \A w \in opts.secondaries : w # opts.primary /\ witness_exists(w)
       THEN Continue ELSE End("exit1")
    /\ UNCHANGED <<popVars, tool, opts, excluded_wit_ids, selected, wits, vu_ids, vus, reported>>

\* find_relatives: the passage, if it exists.
GetUnit ==
    /\ At("unit")
    /\ \E u \in opts.passages :
          IF variation_unit_exists(u)
          THEN vus' = <<get_variation_unit(u)>> /\ Continue
          ELSE End("exit1") /\ UNCHANGED vus
    /\ UNCHANGED <<popVars, tool, opts, excluded_wit_ids, selected, wits, vu_ids, reported>>

CheckReadings ==
    /\ At("readings")
    /\ IF \A u \in opts.passages, rdg \in opts.readings : reading_exists(u, rdg)
       THEN Continue ELSE End("exit1")
    /\ UNCHANGED <<popVars, tool, opts, excluded_wit_ids, selected, wits, vu_ids, vus, reported>>

\* get_variation_unit_ids
ListUnits ==
    /\ At("ids")
    /\ vu_ids' = variation_unit_ids
    /\ Continue
    /\ UNCHANGED <<popVars, tool, opts, excluded_wit_ids, selected, wits, vus, reported>>

\* The passages given must exist; if any are, the others are removed.
FilterUnits ==
    /\ At("passages")
    /\ IF \A u \in opts.passages : variation_unit_exists(u)
       THEN /\ vu_ids' = IF opts.passages = {} THEN vu_ids
                         ELSE Keep(vu_ids, opts.passages)
            /\ Continue
       ELSE End("exit1") /\ UNCHANGED vu_ids
    /\ UNCHANGED <<popVars, tool, opts, excluded_wit_ids, selected, wits, vus, reported>>

GetUnits ==
    /\ At("units")
    /\ vus' = [i \in DOMAIN vu_ids |-> get_variation_unit(vu_ids[i])]
    /\ Continue
    /\ UNCHANGED <<popVars, tool, opts, excluded_wit_ids, selected, wits, vu_ids, reported>>

\* print_textual_flow and print_global_stemma: all the witnesses of the list.
GetWitnesses ==
    /\ At("witnesses")
    /\ LET ids == Keep(selected, ToSet(selected) \ excluded_wit_ids)
       IN  wits' = [i \in DOMAIN ids |-> get_witness(ids[i])]
    /\ Continue
    /\ UNCHANGED <<popVars, tool, opts, excluded_wit_ids, selected, vu_ids, vus, reported>>

-----------------------------------------------------------------------------
(* enumerate_relationships *)

SecondaryExists ==
    /\ At("secondary")
    /\ IF \A w \in opts.secondaries : witness_exists(w) THEN Continue ELSE End("exit1")
    /\ UNCHANGED <<popVars, tool, opts, excluded_wit_ids, selected, wits, vu_ids, vus, reported>>

Types == {"extant", "agreements", "prior", "posterior", "norel", "unclear", "explained"}

\* get_genealogical_comparison returns the first row of the pair; the table
\* names the passages of each of its bitmaps.
Enumerate ==
    /\ At("comparison")
    /\ \E w \in opts.secondaries :
          LET rows == InOrder({r \in db["GENEALOGICAL_COMPARISONS"] :
                         r.primary_wit = opts.primary /\ r.secondary_wit = w})
          IN  reported' = IF rows = <<>> THEN {}
                          ELSE UNION {{<<type, vu_ids[bit + 1]>> : bit \in rows[1].comp[type]} : type \in Types}
    /\ Continue
    /\ UNCHANGED <<popVars, tool, opts, excluded_wit_ids, selected, wits, vu_ids, vus>>

-----------------------------------------------------------------------------
(* optimize_substemmata *)

\* get_potential_ancestor_ids (lib/open-cbgm): those with more prior readings.
PotentialAncestors(comps) ==
    {i \in DOMAIN comps : Cardinality(comps[i].comp.posterior) > Cardinality(comps[i].comp.prior)}

Explained(comps) == UNION {comps[i].comp.explained : i \in PotentialAncestors(comps)}

\* Mutant: the passages that are explained are not taken from those extant there.
UncoveredOfAll(extant, comps) == (0..(Len(variation_unit_labels) - 1)) \ Explained(comps)

\* extant ^ covered, a symmetric difference.
Uncovered(extant, comps) == (extant \ Explained(comps)) \cup (Explained(comps) \ extant)

\* Without potential ancestors the tool says so.  Otherwise the table may have
\* rows only if every passage is covered; if it has none, the passages that are
\* not covered are named, by the labels that their bits point to; a bound (-b)
\* may leave the table empty for another reason.  If the
\* witness's own comparison is excluded the library decides what the tool gets
\* in its place: it throws, or it returns some bitmap.
Diagnose ==
    /\ At("diagnose")
    /\ LET comps == wits[1].comps
           own == {i \in DOMAIN comps : comps[i].secondary_wit = opts.primary}
           labels == variation_unit_labels
       IN  IF PotentialAncestors(comps) = {}
           THEN End("no_ancestors") /\ UNCHANGED reported
           ELSE \/ own = {} /\ End("terminated") /\ UNCHANGED reported
                \/ \E extant \in IF own = {} THEN SUBSET (0..(Len(labels) - 1)) ELSE {comps[i].comp.extant : i \in own} :
                      LET uncovered == Uncovered(extant, comps)
                      IN  IF uncovered = {}
                          THEN (Continue \/ (opts.bounded /\ End("raise_bound"))) /\ UNCHANGED reported
                          ELSE End("uncovered") /\ reported' = {labels[bit + 1] : bit \in uncovered}
    /\ UNCHANGED <<popVars, tool, opts, excluded_wit_ids, selected, wits, vu_ids, vus>>

-----------------------------------------------------------------------------

ToolStep ==
    \/ AddFragmentary \/ ListWitnesses \/ WitnessExists \/ GetWitness \/ CheckSecondaries
    \/ GetUnit \/ CheckReadings \/ ListUnits \/ FilterUnits \/ GetUnits \/ GetWitnesses
    \/ SecondaryExists \/ Enumerate \/ Diagnose

Ended == outcome # "none" /\ UNCHANGED vars

Next ==
    \/ PopNext /\ UNCHANGED toolVars
    \/ StartTool \/ ToolStep \/ Ended

Spec == Init /\ [][Next]_vars

-----------------------------------------------------------------------------
(* Properties. *)

Written == step = "written"
Bits == 0..(Len(app.units) - 1)
Unit(i) == app.units[i]
Kept == ToSet(list_wit)

TypeOK ==
    /\ Kept \subseteq ToSet(app.list_wit)
    /\ step \in ToSet(Tables) \cup {"filter", "witnesses", "written"}
    /\ \A r \in db["GENEALOGICAL_COMPARISONS"], type \in Types : r.comp[type] \subseteq Bits
    /\ tool \in Tools \cup {"none"}
    /\ tool # "none" => opts \in Options(tool)
    /\ outcome \in {"none", "output", "exit1", "no_ancestors", "uncovered", "raise_bound", "terminated"}
    /\ query \in 1..(IF tool = "none" THEN 1 ELSE Len(Queries(tool)) + 1)
    /\ outcome = "output" <=> tool # "none" /\ query = Len(Queries(tool)) + 1
    /\ ToSet(selected) \subseteq Kept
    /\ ToSet(vu_ids) \subseteq {Unit(i).id : i \in DOMAIN app.units}

-----------------------------------------------------------------------------
(* The inductive invariant. *)

\* The lists are without repetition, hold the same witnesses, and after the
\* filter no one below the threshold.
ListsOK ==
    /\ app \in Apparatuses /\ threshold \in Thresholds
    /\ list_wit \in Seq(ToSet(app.list_wit)) /\ IsInjective(list_wit)
    /\ step # "filter" /\ threshold > 0 => \A w \in Kept : ExtantPassages(w) >= threshold
    /\ step \notin {"filter", "witnesses"} =>
          witnesses \in Seq(Kept) /\ IsInjective(witnesses) /\ Kept \subseteq ToSet(witnesses)

Filled(table) ==
    \/ Written
    \/ \E s, t \in DOMAIN Tables : table = Tables[t] /\ step = Tables[s] /\ t < s

\* A table has its contents as soon as its function has been called.
TablesOK ==
    db = [table \in ToSet(Tables) |-> IF Filled(table) THEN Contents(table) ELSE {}]

\* A tool starts when the cache is written.
StartOK ==
    IF tool = "none" THEN outcome = "none" /\ selected = <<>> /\ vu_ids = <<>>
    ELSE /\ Written
         /\ tool = "compare_witnesses" /\ opts.secondaries # {} => opts.p = 0 /\ excluded_wit_ids = {}

Passed(name) == tool # "none" /\ \E k \in 1..(query - 1) : Queries(tool)[k] = name

\* What each query has found is what it would find again.
ExistsFound == Passed("exists") => witness_exists(opts.primary)
SecondariesFound ==
    Passed("secondaries") \/ Passed("secondary") => \A w \in opts.secondaries : witness_exists(w)
ListFound == Passed("list") => selected = get_list_wit
WitnessFound == Passed("witness") => wits = <<get_witness(opts.primary)>>
WitnessesFound ==
    Passed("witnesses") =>
        LET ids == Keep(selected, ToSet(selected) \ excluded_wit_ids)
        IN  wits = [i \in DOMAIN ids |-> get_witness(ids[i])]
IdsFound ==
    Passed("ids") => vu_ids = IF Passed("passages") /\ opts.passages # {}
                              THEN Keep(variation_unit_ids, opts.passages) ELSE variation_unit_ids
UnitFound ==
    Passed("unit") => \E u \in opts.passages : variation_unit_exists(u) /\ vus = <<get_variation_unit(u)>>
UnitsFound == Passed("units") => vus = [i \in DOMAIN vu_ids |-> get_variation_unit(vu_ids[i])]

QueriesOK ==
    /\ ExistsFound /\ SecondariesFound /\ ListFound /\ WitnessFound /\ WitnessesFound
    /\ IdsFound /\ UnitFound /\ UnitsFound

-----------------------------------------------------------------------------

\* The tables agree with each other although they are filled from three
\* sources, the apparatus, the filtered list and the list of the threads
\* (populate_db.cpp:625-636): every pair of witnesses has one row; the bits of
\* a witness's own row are the positions of the units that its support has; and
\* no table knows a witness that WITNESSES does not have.
TablesAgree ==
    Written =>
        LET comps == db["GENEALOGICAL_COMPARISONS"]
            support == db["READING_SUPPORT"]
            units == db["VARIATION_UNITS"]
            names == {r.witness : r \in db["WITNESSES"]}
        IN  /\ \A w, v \in names :
                 Cardinality({r \in comps : r.primary_wit = w /\ r.secondary_wit = v}) = 1
            /\ \A r \in comps : {r.primary_wit, r.secondary_wit} \subseteq names
            /\ \A s \in support : s.witness \in names
            /\ \A r \in comps : r.primary_wit = r.secondary_wit =>
                 r.comp.extant =
                    {u.row_id : u \in {x \in units : \E s \in support :
                        s.variation_unit = x.variation_unit /\ s.witness = r.primary_wit}}

\* What a tool reads of a variation unit is the unit of the collation, with the
\* support of the witnesses that have passed the filter; passages that are named
\* come once each and in the order of the collation (populate_db.cpp:73-290,
\* print_textual_flow.cpp:133-197).
UnitsRoundTrip ==
    outcome = "output" /\ tool \in {"find_relatives", "print_local_stemma", "print_textual_flow"} =>
        LET chosen == Keep(app.units, {unit \in ToSet(app.units) : opts.passages = {} \/ unit.id \in opts.passages})
        IN  vus = [i \in DOMAIN chosen |->
                     [chosen[i] EXCEPT !.support =
                        [w \in Kept \cap DOMAIN chosen[i].support |-> chosen[i].support[w]]]]

\* The list of witnesses and the comparisons of a witness come from two tables
\* with different orders, and both are filtered: each witness of the list is
\* compared, and no other, even if the primary witness itself is excluded
\* (find_relatives.cpp:390-398).  In print_global_stemma no ancestor is missing
\* in the list.
ListMatchesComparisons ==
    outcome = "output" /\ tool \in Excluding \ {"optimize_substemmata"} =>
        \A i \in DOMAIN wits : ToSet(Column(wits[i].comps, "secondary_wit")) = ToSet(selected)

\* Witnesses named as secondary ones are compared whatever -e and -p say
\* (compare_witnesses.cpp:209-222, 262-276).
SecondariesCompared ==
    outcome = "output" /\ tool = "compare_witnesses" =>
        opts.secondaries \subseteq ToSet(selected) \cap ToSet(Column(wits[1].comps, "secondary_wit"))

\* The witnesses left by the options that are prior to the primary witness more
\* often than posterior.
Ancestors ==
    {v \in Kept \ excluded_wit_ids :
        Cardinality(Comparison(opts.primary, v).posterior)
            > Cardinality(Comparison(opts.primary, v).prior)}

\* The units of the primary witness that none of them explains.
Unexplained ==
    {i \in DOMAIN app.units :
        /\ opts.primary \in DOMAIN Unit(i).support
        /\ \A v \in Ancestors : i - 1 \notin Comparison(opts.primary, v).explained}

\* "every extant reading in the witness must be explained by a reading in at
\* least one of the potential ancestors" (README.md:307): optimize_substemmata
\* finds no potential ancestor only if the options leave none in the collation,
\* even if the witness itself is excluded; and the passages that it names are
\* exactly those of the collation that none of them explains, as long as the
\* witness itself is left (optimize_substemmata.cpp:258-293).
DiagnosisExact ==
    tool = "optimize_substemmata" /\ outcome \notin {"none", "exit1"} =>
        /\ outcome = "no_ancestors" <=> Ancestors = {}
        /\ opts.primary \notin excluded_wit_ids =>
              /\ outcome = "uncovered" => reported = {Unit(i).label : i \in Unexplained} /\ reported # {}
              /\ outcome \in {"output", "raise_bound"} => Unexplained = {}
              /\ outcome # "terminated"

\* "places where the first witness is prior to the second" (README.md:235), and
\* so on: the passages that enumerate_relationships names are those of the
\* collation, in that direction (enumerate_relationships.cpp:187-221).
Enumerated ==
    outcome = "output" /\ tool = "enumerate_relationships" =>
        \A w \in opts.secondaries, type \in Types, i \in DOMAIN app.units :
            <<type, Unit(i).id>> \in reported <=> i - 1 \in Comparison(opts.primary, w)[type]

\* A cache that was filtered by -t needs no filter below it: a minimum of
\* extant passages (-p) that is not above the threshold excludes nobody
\* (populate_db.cpp:562-569, find_relatives.cpp:384-386).
FilteredOnce ==
    tool \in Excluding /\ opts.p > 0 /\ MinExtant(opts.p, Len(app.units)) <= threshold =>
        excluded_wit_ids \subseteq opts.e

\* The results of the last queries are not kept: what is said of them is
\* inductive as it stands.
IInv ==
    /\ TypeOK /\ ListsOK /\ TablesOK /\ StartOK /\ QueriesOK
    /\ DiagnosisExact /\ Enumerated /\ FilteredOnce
==============================================================================
