------------------------ MODULE ExtantThresholdProofs ------------------------
(***************************************************************************)
(* For every proportion of two decimals and up to 50000 variation units:   *)
(* -p excludes every witness below the proportion, and of the others none  *)
(* but those that are extant at exactly the proportion.                    *)
(***************************************************************************)
EXTENDS ExtantThreshold, TLAPS

-----------------------------------------------------------------------------
(* Arithmetic. *)

\* Multiplication by a natural number is monotone (the products of
\* find_relatives.cpp:384).
LEMMA TimesMonotone ==
    ASSUME NEW a \in Int, NEW b \in Int, NEW c \in Nat, a <= b
    PROVE  a * c <= b * c
  BY SMT

\* An error of half a hundredth in m is one of n halves in m * n.
LEMMA ScaledError ==
    ASSUME NEW m \in Int, NEW hs \in Int, NEW n \in Nat,
           100 * m <= hs + 50, hs <= 100 * m + 50
    PROVE  100 * (m * n) <= hs * n + 50 * n /\ hs * n <= 100 * (m * n) + 50 * n
  <1>1. (100 * m) * n <= (hs + 50) * n /\ hs * n <= (100 * m + 50) * n
    BY SMT, TimesMonotone
  <1>2. /\ (100 * m) * n = 100 * (m * n)
        /\ (hs + 50) * n = hs * n + 50 * n
        /\ (100 * m + 50) * n = 100 * (m * n) + 50 * n
    BY SMT
  <1> QED
    BY SMT, <1>1, <1>2

\* With an error of less than one part in s, only an equality can be missed.
LEMMA OnlyEqualityMissed ==
    ASSUME NEW r \in Int, NEW hn \in Int, NEW e \in Int, NEW s \in Nat, s > 0,
           100 * r < hn * s + s, hn * s < 100 * r + s
    PROVE  /\ 100 * e < hn => e * s < r
           /\ e * s < r => 100 * e <= hn
  <1>1. ASSUME 100 * e + 1 <= hn PROVE e * s < r
    <2>1. (100 * e + 1) * s <= hn * s
      BY SMT, <1>1, TimesMonotone
    <2>2. (100 * e + 1) * s = 100 * (e * s) + s
      BY SMT
    <2> QED
      BY SMT, <2>1, <2>2
  <1>2. ASSUME e * s < r, hn + 1 <= 100 * e PROVE FALSE
    <2>1. (hn + 1) * s <= (100 * e) * s
      BY SMT, <1>2, TimesMonotone
    <2>2. (hn + 1) * s = hn * s + s /\ (100 * e) * s = 100 * (e * s)
      BY SMT
    <2>3. e * s + 1 <= r
      BY SMT, <1>2
    <2> QED
      BY SMT, <2>1, <2>2, <2>3
  <1> QED
    BY SMT, <1>1, <1>2

-----------------------------------------------------------------------------
(* Rounding. *)

\* Rounding to the nearest integer is off by half a unit at most
\* (the multiplication in find_relatives.cpp:384).
LEMMA NearestError ==
    ASSUME NEW x \in Int, NEW unit \in LastBits \cup {100}
    PROVE  /\ Nearest(x, unit) \in Int
           /\ 2 * (Nearest(x, unit) * unit) <= 2 * x + unit
           /\ 2 * x <= 2 * (Nearest(x, unit) * unit) + unit
  BY SMT DEF Nearest, LastBits

\* An integer is below the ceiling of a number exactly if it is below the number
\* (ceil in find_relatives.cpp:384, compared in line 108).
LEMMA BelowCeil ==
    ASSUME NEW x \in Int, NEW s \in Scales, NEW e \in Int
    PROVE  Ceil(x, s) \in Int /\ (e < Ceil(x, s) <=> e * s < x)
  BY SMT DEF Ceil, Scales

\* Every proportion has a scale (find_relatives.cpp:332).
LEMMA ScaleExists ==
    ASSUME NEW h \in 1..100
    PROVE  /\ Scale(h) \in Scales
           /\ 838860800 <= h * Scale(h) /\ h * Scale(h) < 1677721600
  <1>1. \E s \in Scales : 838860800 <= h * s /\ h * s < 1677721600
    BY SMTT(60) DEF Scales
  <1> QED
    BY SMT, <1>1 DEF Scale

\* The significand of a proportion is within half a unit, and has 24 bits.
LEMMA SignificandError ==
    ASSUME NEW h \in 1..100
    PROVE  /\ Significand(h) \in Nat /\ Significand(h) <= MaxSignificand
           /\ 100 * Significand(h) <= h * Scale(h) + 50
           /\ h * Scale(h) <= 100 * Significand(h) + 50
  <1> DEFINE hs == h * Scale(h)
             m == Significand(h)
  <1>1. hs \in Int /\ 838860800 <= hs /\ hs < 1677721600
    BY SMT, ScaleExists DEF Scales
  <1>2. m = Nearest(hs, 100)
    BY SMT DEF Significand
  <1> HIDE DEF hs, m
  <1>3. m \in Int /\ 100 * m <= hs + 50 /\ hs <= 100 * m + 50
    <2>1. /\ Nearest(hs, 100) \in Int
          /\ 2 * (Nearest(hs, 100) * 100) <= 2 * hs + 100
          /\ 2 * hs <= 2 * (Nearest(hs, 100) * 100) + 100
      BY SMT, <1>1, NearestError
    <2> QED
      BY SMT, <1>1, <1>2, <2>1
  <1>4. 0 <= m /\ m <= MaxSignificand
    BY SMT, <1>1, <1>3 DEF MaxSignificand
  <1> QED
    BY SMT, <1>3, <1>4 DEF hs, m

\* Every product has a last bit, which is 1 or leaves at least 24 bits.
LEMMA LastBitExists ==
    ASSUME NEW x \in Nat, x < 2199023255552
    PROVE  LastBit(x) \in LastBits /\ (LastBit(x) = 1 \/ 8388608 * LastBit(x) <= x)
  <1>1. \E b \in LastBits : x \div b < MaxSignificand /\ (b = 1 \/ x \div b >= 8388608)
    BY SMTT(60) DEF LastBits, MaxSignificand
  <1>2. /\ LastBit(x) \in LastBits
        /\ LastBit(x) = 1 \/ x \div LastBit(x) >= 8388608
    BY SMT, <1>1 DEF LastBit
  <1> QED
    BY SMT, <1>2 DEF LastBits

\* A product is within half of its last bit, which is worth at most 2 * n.
LEMMA ProductError ==
    ASSUME NEW m \in Nat, m <= MaxSignificand, NEW n \in Nat, n <= MaxUnits
    PROVE  /\ m * n \in Nat /\ LastBit(m * n) \in Nat /\ Rounded(m * n) \in Int
           /\ LastBit(m * n) = 1 \/ LastBit(m * n) <= 2 * n
           /\ 2 * Rounded(m * n) <= 2 * (m * n) + LastBit(m * n)
           /\ 2 * (m * n) <= 2 * Rounded(m * n) + LastBit(m * n)
  <1> DEFINE x == m * n
             b == LastBit(x)
  <1>1. x \in Nat /\ x <= MaxSignificand * n
    BY SMT, TimesMonotone DEF MaxSignificand
  <1> HIDE DEF x
  <1>2. b \in LastBits /\ (b = 1 \/ 8388608 * b <= x)
    BY SMT, <1>1, LastBitExists DEF MaxSignificand, MaxUnits
  <1>3. b \in Nat /\ (b = 1 \/ b <= 2 * n)
    <2> HIDE DEF b
    <2> QED
      BY SMT, <1>1, <1>2 DEF LastBits, MaxSignificand
  <1>4. /\ Nearest(x, b) \in Int
        /\ 2 * (Nearest(x, b) * b) <= 2 * x + b
        /\ 2 * x <= 2 * (Nearest(x, b) * b) + b
    BY SMT, <1>1, <1>2, NearestError
  <1>5. Rounded(x) = Nearest(x, b) * b
    BY SMT DEF Rounded
  <1> HIDE DEF b
  <1> QED
    BY SMT, <1>1, <1>3, <1>4, <1>5 DEF x, b

\* The threshold is an integer (the conversion in find_relatives.cpp:384).
LEMMA MinExtantInt ==
    ASSUME NEW h \in 1..100, NEW n \in Nat, n <= MaxUnits
    PROVE  MinExtant(h, n) \in Int
  <1>1. Significand(h) \in Nat /\ Significand(h) <= MaxSignificand
    BY Zenon, SignificandError
  <1>2. Rounded(Significand(h) * n) \in Int
    BY Zenon, <1>1, ProductError
  <1>3. Scale(h) \in Scales
    BY SMT, ScaleExists
  <1>4. Ceil(Rounded(Significand(h) * n), Scale(h)) \in Int
    <2>1. 0 \in Int
      BY SMT
    <2> QED
      BY Zenon, <1>2, <1>3, <2>1, BelowCeil
  <1> QED
    BY Zenon, <1>4 DEF MinExtant

\* The three roundings of the proportion, of the product and of ceil together
\* decide as the exact proportion does, except at equality
\* (find_relatives.cpp:332, 384 and 108).
LEMMA ThresholdExact ==
    ASSUME NEW h \in 1..100, NEW n \in Nat, n <= MaxUnits, NEW e \in Nat
    PROVE  /\ 100 * e < h * n => e < MinExtant(h, n)
           /\ e < MinExtant(h, n) => 100 * e <= h * n
  <1> DEFINE s == Scale(h)
             m == Significand(h)
             x == m * n
             b == LastBit(x)
             r == Rounded(x)
  <1>1. s \in Scales /\ s \in Nat /\ 8388608 <= s
    BY SMT, ScaleExists DEF Scales
  <1>2. /\ m \in Nat /\ m <= MaxSignificand
        /\ 100 * m <= h * s + 50 /\ h * s <= 100 * m + 50
    BY SMT, SignificandError
  <1>3. MinExtant(h, n) = Ceil(r, s)
    BY SMT DEF MinExtant
  <1> HIDE DEF m, s
  <1>4. /\ x \in Nat /\ b \in Nat /\ r \in Int
        /\ b = 1 \/ b <= 2 * n
        /\ 2 * r <= 2 * x + b /\ 2 * x <= 2 * r + b
    BY Zenon, <1>2, ProductError DEF x, b, r
  <1>5. 100 * x <= (h * s) * n + 50 * n /\ (h * s) * n <= 100 * x + 50 * n
    <2>1. h * s \in Int
      BY SMT, <1>1
    <2> QED
      BY SMT, <1>2, <2>1, ScaledError
  <1> HIDE DEF x, b, r
  <1>6. 100 * r < (h * s) * n + s /\ (h * s) * n < 100 * r + s
    <2> DEFINE hsn == (h * s) * n
    <2>1. hsn \in Int /\ 100 * x <= hsn + 50 * n /\ hsn <= 100 * x + 50 * n
      BY SMT, <1>1, <1>5
    <2> HIDE DEF hsn
    <2>2. 100 * r < hsn + s /\ hsn < 100 * r + s
      BY SMT, <1>1, <1>4, <2>1 DEF MaxUnits
    <2> QED
      BY SMT, <2>2 DEF hsn
  <1>7. (h * s) * n = (h * n) * s /\ h * n \in Int
    BY SMT, <1>1
  <1>8. /\ 100 * e < h * n => e * s < r
        /\ e * s < r => 100 * e <= h * n
    BY SMT, <1>1, <1>4, <1>6, <1>7, OnlyEqualityMissed
  <1>9. e < MinExtant(h, n) <=> e * s < r
    BY SMT, <1>1, <1>3, <1>4, BelowCeil
  <1> QED
    BY SMT, <1>8, <1>9

-----------------------------------------------------------------------------
(* The inductive invariant. *)

\* Nothing is excluded before the options are parsed (find_relatives.cpp:294-295).
LEMMA InvInit == Init => IInv
  <1> SUFFICES ASSUME Init PROVE IInv
    OBVIOUS
  <1>1. TypeOK
    BY NumWitsAssumption DEF Init, TypeOK, Wits
  <1>2. ThresholdOK
    BY DEF Init, ThresholdOK
  <1>3. RowsRead
    BY DEF Init, RowsRead
  <1> QED
    BY <1>1, <1>2, <1>3 DEF IInv

\* Every step keeps the types (find_relatives.cpp:331-387).
LEMMA TypeStep == IInv /\ [Next]_vars => TypeOK'
  <1> SUFFICES ASSUME TypeOK, RowsRead, [Next]_vars PROVE TypeOK'
    BY DEF IInv
  <1> USE NumWitsAssumption, HundredthsAssumption DEF TypeOK, Wits
  <1>1. CASE ParseOptions
    BY <1>1 DEF ParseOptions
  <1>2. CASE SkipThreshold
    BY <1>2 DEF SkipThreshold
  <1>3. CASE ComputeMinExtant
    <2>1. /\ proportion_extant \in 1..100
          /\ units \in Nat /\ units <= MaxUnits
      BY SMT, <1>3, SizesAssumption DEF ComputeMinExtant, RowsRead
    <2>2. MinExtant(proportion_extant, units) \in Int
      BY Zenon, <2>1, MinExtantInt
    <2> QED
      BY <1>3, <2>2 DEF ComputeMinExtant
  <1>4. CASE AddIfFragmentary
    <2>1. row + 1 \in 1..NumWits /\ row' = row + 1
      BY <1>4 DEF AddIfFragmentary
    <2>2. excluded_wit_ids' \subseteq Wits
      BY <1>4, <2>1 DEF AddIfFragmentary
    <2> QED
      BY <1>4, <2>1, <2>2 DEF AddIfFragmentary
  <1>5. CASE NoMoreRows
    BY <1>5 DEF NoMoreRows
  <1>6. CASE UNCHANGED vars
    BY <1>6 DEF vars
  <1> QED
    BY <1>1, <1>2, <1>3, <1>4, <1>5, <1>6 DEF Next, Terminating

\* Every step keeps what the threshold does to a witness
\* (find_relatives.cpp:381-387).
LEMMA ThresholdStep == IInv /\ [Next]_vars => ThresholdOK'
  <1> SUFFICES ASSUME TypeOK, ThresholdOK, RowsRead, [Next]_vars PROVE ThresholdOK'
    BY DEF IInv
  <1>1. CASE ParseOptions
    BY <1>1 DEF ParseOptions, ThresholdOK
  <1>2. CASE SkipThreshold
    BY <1>2 DEF SkipThreshold, ThresholdOK
  <1>3. CASE ComputeMinExtant
    <2>1. /\ proportion_extant \in 1..100
          /\ units \in Nat /\ units <= MaxUnits
      BY SMT, <1>3, SizesAssumption, HundredthsAssumption DEF ComputeMinExtant, RowsRead, TypeOK
    <2>2. ASSUME NEW e \in 0..units
          PROVE  /\ 100 * e < proportion_extant * units
                       => e < MinExtant(proportion_extant, units)
                 /\ e < MinExtant(proportion_extant, units)
                       => 100 * e <= proportion_extant * units
      <3>1. e \in Nat
        BY SMT, <2>1
      <3> QED
        BY Zenon, <2>1, <3>1, ThresholdExact
    <2>3. /\ min_extant' = MinExtant(proportion_extant, units)
          /\ proportion_extant' = proportion_extant /\ units' = units
      BY <1>3 DEF ComputeMinExtant
    <2> QED
      BY <2>2, <2>3, Zenon DEF ThresholdOK
  <1>4. CASE AddIfFragmentary
    BY <1>4 DEF AddIfFragmentary, ThresholdOK
  <1>5. CASE NoMoreRows
    BY <1>5 DEF NoMoreRows, ThresholdOK
  <1>6. CASE UNCHANGED vars
    BY <1>6 DEF vars, ThresholdOK
  <1> QED
    BY <1>1, <1>2, <1>3, <1>4, <1>5, <1>6 DEF Next, Terminating

\* Every step keeps what is known of the rows read so far
\* (find_relatives.cpp:103-112).
LEMMA RowsStep == IInv /\ [Next]_vars => RowsRead'
  <1> SUFFICES ASSUME TypeOK, RowsRead, [Next]_vars PROVE RowsRead'
    BY DEF IInv
  <1> USE DEF RowsRead
  <1>1. CASE ParseOptions
    <2>1. proportion_extant \in Int
      BY HundredthsAssumption DEF TypeOK
    <2> QED
      BY <1>1, <2>1 DEF ParseOptions
  <1>2. CASE SkipThreshold
    BY <1>2 DEF SkipThreshold
  <1>3. CASE ComputeMinExtant
    <2>1. excluded_wit_ids' = {w \in 1..row' : (extant[w] < min_extant)'}
      BY <1>3 DEF ComputeMinExtant
    <2> QED
      BY <1>3, <2>1 DEF ComputeMinExtant
  <1>4. CASE AddIfFragmentary
    <2>1. row \in Nat /\ row' = row + 1
      BY <1>4, NumWitsAssumption DEF AddIfFragmentary, TypeOK
    <2>2. 1..row' = 1..row \cup {row + 1}
      BY <2>1
    <2>3. excluded_wit_ids' = {w \in 1..row' : (extant[w] < min_extant)'}
      BY <1>4, <2>2 DEF AddIfFragmentary
    <2> QED
      BY <1>4, <2>3 DEF AddIfFragmentary
  <1>5. CASE NoMoreRows
    BY <1>5 DEF NoMoreRows
  <1>6. CASE UNCHANGED vars
    BY <1>6 DEF vars
  <1> QED
    BY <1>1, <1>2, <1>3, <1>4, <1>5, <1>6 DEF Next, Terminating

\* The invariant of the loop over the rows of witnesses with themselves, for
\* any number of witnesses and up to 50000 units (find_relatives.cpp:381-387).
THEOREM IInvHolds == Spec => []IInv
  <1>1. IInv /\ [Next]_vars => IInv'
    BY TypeStep, ThresholdStep, RowsStep DEF IInv
  <1> QED
    BY <1>1, InvInit, PTL DEF Spec

\* No witness below the proportion is compared (find_relatives.cpp:108-110),
\* for any number of witnesses and up to 50000 variation units.
THEOREM FragmentaryExcludedHolds == Spec => []FragmentaryExcluded
  <1>1. IInv => FragmentaryExcluded
    <2> SUFFICES ASSUME TypeOK, ThresholdOK, RowsRead,
                        pc = "list", NEW w \in Wits, BelowProportion(w)
                 PROVE  w \in excluded_wit_ids
      BY DEF FragmentaryExcluded, IInv
    <2>1. units \in Nat /\ extant[w] \in 0..units
      BY SizesAssumption DEF TypeOK
    <2>2. proportion_extant > 0 /\ row = NumWits
      BY <2>1 DEF BelowProportion, RowsRead
    <2>3. extant[w] < min_extant
      BY <2>1, <2>2 DEF ThresholdOK, BelowProportion
    <2> QED
      BY <2>2, <2>3 DEF RowsRead, Wits
  <1> QED
    BY <1>1, IInvHolds, PTL

\* Only a witness at exactly the proportion can be lost to rounding, for any
\* number of witnesses and up to 50000 variation units (find_relatives.cpp:108, 384).
THEOREM OnlyBoundaryLostHolds == Spec => []OnlyBoundaryLost
  <1>1. IInv => OnlyBoundaryLost
    <2> SUFFICES ASSUME TypeOK, ThresholdOK, RowsRead, NEW w \in excluded_wit_ids
                 PROVE  BelowProportion(w) \/ AtProportion(w)
      BY DEF OnlyBoundaryLost, IInv
    <2>1. w \in 1..row /\ extant[w] < min_extant /\ row \in 0..NumWits /\ w \in Wits
      BY DEF TypeOK, RowsRead
    <2>2. pc \in {"fragmentary", "list"} /\ proportion_extant \in 0..100
      BY <2>1, NumWitsAssumption DEF TypeOK, RowsRead
    <2>3. proportion_extant > 0
      BY <2>1, <2>2, NumWitsAssumption DEF RowsRead
    <2>4. extant[w] \in 0..units /\ units \in Nat
      BY <2>1, SizesAssumption DEF TypeOK
    <2>5. 100 * extant[w] <= proportion_extant * units
      BY <2>1, <2>2, <2>3, <2>4 DEF ThresholdOK
    <2>6. 100 * extant[w] \in Int /\ proportion_extant * units \in Int
      BY <2>2, <2>4
    <2> QED
      BY <2>5, <2>6 DEF BelowProportion, AtProportion
  <1> QED
    BY <1>1, IInvHolds, PTL
==============================================================================
