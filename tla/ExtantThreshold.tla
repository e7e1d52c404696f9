--------------------------- MODULE ExtantThreshold ---------------------------
(***************************************************************************)
(* The option -p (--proportion_extant) of the tools that read the cache:   *)
(* which witnesses it adds to the exclusion set.  The names and lines are  *)
(* those of scripts/find_relatives.cpp; compare_witnesses,                 *)
(* optimize_substemmata, print_textual_flow and print_global_stemma have   *)
(* the same code.                                                          *)
(***************************************************************************)
EXTENDS ProportionThreshold

CONSTANTS NumWits,      \* the witnesses of the cache, in order of their rows
          Sizes,        \* numbers of variation units considered
          Hundredths    \* arguments of -p considered, times 100

\* Up to this many units the rounding errors stay below a hundredth.
MaxUnits == 50000

ASSUME NumWitsAssumption == NumWits \in Nat
ASSUME SizesAssumption == \A n \in Sizes : n \in Nat /\ n <= MaxUnits
ASSUME HundredthsAssumption == Hundredths \subseteq Int

VARIABLES
    pc,                 \* control state
    proportion_extant,  \* the argument, in hundredths; 0 if -p is not given
    units,              \* vu_labels.size()
    extant,             \* for each witness the cardinality of its EXTANT bitmap
    min_extant,
    row,                \* rows of witnesses with themselves read so far
    excluded_wit_ids    \* the witnesses that -p adds to the exclusion set

vars == <<pc, proportion_extant, units, extant, min_extant, row, excluded_wit_ids>>

Wits == 1..NumWits

-----------------------------------------------------------------------------

Init ==
    /\ pc = "options"
    /\ proportion_extant \in Hundredths
    /\ units \in Sizes
    /\ extant \in [Wits -> 0..units]
    /\ min_extant = 0
    /\ row = 0
    /\ excluded_wit_ids = {}

\* The argument must be between 0 and 1, otherwise exit(1).
ParseOptions ==
    /\ pc = "options"
    /\ pc' = IF proportion_extant < 0 \/ proportion_extant > 100 THEN "exit1" ELSE "threshold"
    /\ UNCHANGED <<proportion_extant, units, extant, min_extant, row, excluded_wit_ids>>

\* Without -p, or with 0, nothing is excluded for being fragmentary.
SkipThreshold ==
    /\ pc = "threshold"
    /\ proportion_extant = 0
    /\ pc' = "list"
    /\ UNCHANGED <<proportion_extant, units, extant, min_extant, row, excluded_wit_ids>>

ComputeMinExtant ==
    /\ pc = "threshold"
    /\ proportion_extant > 0
    /\ min_extant' = MinExtant(proportion_extant, units)
    /\ pc' = "fragmentary"
    /\ UNCHANGED <<proportion_extant, units, extant, row, excluded_wit_ids>>

\* add_fragmentary_witnesses_to_excluded_set: the next row of a witness with itself.
AddIfFragmentary ==
    /\ pc = "fragmentary"
    /\ row < NumWits
    /\ row' = row + 1
    /\ excluded_wit_ids' = excluded_wit_ids \cup {w \in {row + 1} : extant[w] < min_extant}
    /\ UNCHANGED <<pc, proportion_extant, units, extant, min_extant>>

NoMoreRows ==
    /\ pc = "fragmentary"
    /\ row = NumWits
    /\ pc' = "list"
    /\ UNCHANGED <<proportion_extant, units, extant, min_extant, row, excluded_wit_ids>>

\* The tool goes on to the list of witnesses, or has ended.
Terminating == pc \in {"list", "exit1"} /\ UNCHANGED vars

Next ==
    \/ ParseOptions \/ SkipThreshold \/ ComputeMinExtant
    \/ AddIfFragmentary \/ NoMoreRows \/ Terminating

Spec == Init /\ [][Next]_vars

-----------------------------------------------------------------------------
(* Properties.  The exact proportion of a witness is extant[w] / units.     *)

TypeOK ==
    /\ pc \in {"options", "threshold", "fragmentary", "list", "exit1"}
    /\ proportion_extant \in Hundredths
    /\ units \in Sizes
    /\ extant \in [Wits -> 0..units]
    /\ min_extant \in Int
    /\ row \in 0..NumWits
    /\ excluded_wit_ids \subseteq Wits

BelowProportion(w) == 100 * extant[w] < proportion_extant * units
AtProportion(w) == 100 * extant[w] = proportion_extant * units

\* No witness below the given proportion gets through, whatever the two
\* roundings do (find_relatives.cpp:384, 108; "to exclude witnesses extant
\* below a certain proportion of variation units", README.md:303).
FragmentaryExcluded ==
    pc = "list" => \A w \in Wits : BelowProportion(w) => w \in excluded_wit_ids

\* Of the witnesses that are not below it, only those that are extant at
\* exactly the given proportion can be excluded by the roundings.
OnlyBoundaryLost ==
    \A w \in excluded_wit_ids : BelowProportion(w) \/ AtProportion(w)

\* What the options' help says, "minimum proportion of variation units at
\* which a witness must be extant to be included" (find_relatives.cpp:309): a
\* witness at exactly that proportion is included.
MinimumIncluded == \A w \in excluded_wit_ids : ~AtProportion(w)

\* The inductive invariant behind the first two: what the threshold does to
\* any witness, and which rows have been compared with it.
ThresholdOK ==
    pc \in {"fragmentary", "list"} /\ proportion_extant > 0 =>
        \A e \in 0..units :
            /\ 100 * e < proportion_extant * units => e < min_extant
            /\ e < min_extant => 100 * e <= proportion_extant * units

RowsRead ==
    /\ excluded_wit_ids = {w \in 1..row : extant[w] < min_extant}
    /\ pc \in {"options", "threshold", "exit1"} => row = 0 /\ min_extant = 0
    /\ pc \in {"threshold", "fragmentary", "list"} => proportion_extant \in 0..100
    /\ pc = "fragmentary" => proportion_extant > 0
    /\ pc = "list" => \/ row = NumWits /\ proportion_extant > 0
                      \/ row = 0 /\ proportion_extant = 0

IInv == TypeOK /\ ThresholdOK /\ RowsRead
==============================================================================
