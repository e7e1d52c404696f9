-------------------------- MODULE CacheQueriesProofs --------------------------
(***************************************************************************)
(* For any collation, any order of the threads and any options: the tables *)
(* agree with each other, and what a tool reads of them and reports is     *)
(* what the collation says.                                                *)
(***************************************************************************)
EXTENDS CacheQueries, FiniteSetTheorems, TLAPS

-----------------------------------------------------------------------------
(* Sets of integers in their order (ORDER BY ROW_ID). *)

\* The counter of the rows before one tells the rows apart (the ORDER BY of
\* find_relatives.cpp:40).
LEMMA RankOf ==
    ASSUME NEW ids \in SUBSET Int, IsFiniteSet(ids)
    PROVE  /\ Cardinality(ids) \in Nat
           /\ \A i \in ids : /\ Cardinality({j \in ids : j < i}) \in Nat
                             /\ Cardinality({j \in ids : j < i}) < Cardinality(ids)
           /\ \A i, k \in ids : i < k =>
                Cardinality({j \in ids : j < i}) < Cardinality({j \in ids : j < k})
  <1>1. Cardinality(ids) \in Nat
    BY FS_CardinalityType
  <1>3. ASSUME NEW S \in SUBSET ids, NEW T \in SUBSET S, S # T
        PROVE  Cardinality(T) \in Nat /\ Cardinality(T) < Cardinality(S)
    <2>1. IsFiniteSet(S)
      BY FS_Subset
    <2>2. IsFiniteSet(T) /\ Cardinality(T) <= Cardinality(S) /\ Cardinality(S) # Cardinality(T)
      BY <1>3, <2>1, FS_Subset
    <2>3. Cardinality(T) \in Nat /\ Cardinality(S) \in Nat
      BY <2>1, <2>2, FS_CardinalityType
    <2> QED
      BY <2>2, <2>3
  <1>4. ASSUME NEW i \in ids
        PROVE  /\ Cardinality({j \in ids : j < i}) \in Nat
               /\ Cardinality({j \in ids : j < i}) < Cardinality(ids)
    <2>1. {j \in ids : j < i} \in SUBSET ids /\ ids # {j \in ids : j < i}
      BY SMT
    <2> QED
      BY <1>3, <2>1
  <1>5. ASSUME NEW i \in ids, NEW k \in ids, i < k
        PROVE  Cardinality({j \in ids : j < i}) < Cardinality({j \in ids : j < k})
    <2>1. /\ {j \in ids : j < k} \in SUBSET ids
          /\ {j \in ids : j < i} \in SUBSET {j \in ids : j < k}
      <3>1. \A j \in ids : j < i => j < k
        BY SMT, <1>5
      <3> QED
        BY Zenon, <3>1
    <2>2. i \in {j \in ids : j < k} /\ i \notin {j \in ids : j < i}
      BY SMT, <1>5
    <2> QED
      BY <1>3, <2>1, <2>2
  <1> QED
    BY <1>1, <1>4, <1>5

\* Nth enumerates a finite set of integers from below.
LEMMA NthOf ==
    ASSUME NEW ids \in SUBSET Int, IsFiniteSet(ids)
    PROVE  /\ Cardinality(ids) \in Nat
           /\ \A n \in 1..Cardinality(ids) :
                Nth(ids, n) \in ids /\ Cardinality({j \in ids : j < Nth(ids, n)}) = n - 1
           /\ \A i \in ids, n \in 1..Cardinality(ids) :
                Cardinality({j \in ids : j < i}) = n - 1 => Nth(ids, n) = i
           /\ \A i \in ids : \E n \in 1..Cardinality(ids) : Nth(ids, n) = i
           /\ \A n, m \in 1..Cardinality(ids) : Nth(ids, n) = Nth(ids, m) => n = m
  <1> DEFINE R(i) == Cardinality({j \in ids : j < i})
             c == Cardinality(ids)
             f == [i \in ids |-> R(i) + 1]
  <1>1. /\ c \in Nat
        /\ \A i \in ids : R(i) \in Nat /\ R(i) < c
        /\ \A i, k \in ids : i < k => R(i) < R(k)
    BY RankOf
  <1> HIDE DEF R, c
  <1>2. \A i, k \in ids : R(i) = R(k) => i = k
    BY <1>1
  <1>3. f \in Injection(ids, 1..c)
    BY <1>1, <1>2 DEF Injection, IsInjective
  <1>4. IsFiniteSet(1..c) /\ Cardinality(1..c) = c
    BY <1>1, FS_Interval
  <1>5. f \in Surjection(ids, 1..c)
    BY <1>3, <1>4, FS_Injection DEF c
  <1>6. \A n \in 1..c : \E i \in ids : R(i) = n - 1
    <2>1. ASSUME NEW n \in 1..c PROVE \E i \in ids : R(i) = n - 1
      <3>1. PICK i \in ids : f[i] = n
        BY Zenon, <1>5 DEF Surjection
      <3> QED
        BY <1>1, <3>1
    <2> QED
      BY <2>1
  <1>7. ASSUME NEW n \in 1..c
        PROVE  Nth(ids, n) \in ids /\ R(Nth(ids, n)) = n - 1
    <2>1. Nth(ids, n) = CHOOSE i \in ids : R(i) = n - 1
      BY Zenon DEF Nth, R
    <2> QED
      BY Zenon, <1>6, <2>1
  <1>8. ASSUME NEW i \in ids, NEW n \in 1..c, R(i) = n - 1
        PROVE  Nth(ids, n) = i
    BY Zenon, <1>2, <1>7, <1>8
  <1>9. ASSUME NEW i \in ids
        PROVE  \E n \in 1..c : Nth(ids, n) = i
    <2>1. R(i) + 1 \in 1..c /\ R(i) = (R(i) + 1) - 1
      BY <1>1
    <2> QED
      BY <1>8, <2>1
  <1>10. \A n, m \in 1..c : Nth(ids, n) = Nth(ids, m) => n = m
    BY <1>1, <1>7
  <1> QED
    BY Zenon, <1>1, <1>7, <1>8, <1>9, <1>10 DEF R, c

\* Rows with increasing numbers come back as they were inserted: the n-th number
\* is that of the n-th (populate_db.cpp:73-90).
LEMMA NthOfIncreasing ==
    ASSUME NEW n \in Nat, NEW f \in [1..n -> Int],
           \A i, k \in 1..n : i < k => f[i] < f[k]
    PROVE  LET ids == {f[i] : i \in 1..n}
           IN  /\ ids \in SUBSET Int /\ IsFiniteSet(ids) /\ Cardinality(ids) = n
               /\ \A k \in 1..n : Nth(ids, k) = f[k]
  <1> DEFINE Up(k) == {f[i] : i \in 1..k}
             ids == Up(n)
  <1>1. ASSUME NEW k \in 0..n
        PROVE  IsFiniteSet(Up(k)) /\ Cardinality(Up(k)) = k
    <2> DEFINE g == [i \in 1..k |-> f[i]]
    <2>1. g \in Surjection(1..k, Up(k)) /\ g \in Injection(1..k, Up(k))
      BY DEF Surjection, Injection, IsInjective
    <2>2. IsFiniteSet(1..k) /\ Cardinality(1..k) = k
      BY FS_Interval
    <2> HIDE DEF g, Up
    <2> QED
      BY <2>1, <2>2, FS_Surjection
  <1>2. ids \in SUBSET Int
    OBVIOUS
  <1>3. ASSUME NEW k \in 1..n
        PROVE  Nth(ids, k) = f[k]
    <2>1. {j \in ids : j < f[k]} = Up(k - 1)
      OBVIOUS
    <2>2. k - 1 \in 0..n /\ n \in 0..n /\ f[k] \in ids
      OBVIOUS
    <2> HIDE DEF Up
    <2>3. Cardinality({j \in ids : j < f[k]}) = k - 1 /\ Cardinality(ids) = n /\ IsFiniteSet(ids)
      BY <1>1, <2>1, <2>2
    <2> HIDE DEF ids
    <2> QED
      <3>1. k \in 1..Cardinality(ids)
        BY <2>3
      <3> QED
        <4>1. \A i \in ids, m \in 1..Cardinality(ids) :
                Cardinality({j \in ids : j < i}) = m - 1 => Nth(ids, m) = i
          BY <1>2, <2>3, NthOf
        <4> QED
          BY Zenon, <2>2, <2>3, <3>1, <4>1
  <1>4. IsFiniteSet(ids) /\ Cardinality(ids) = n
    <2> HIDE DEF Up
    <2> QED
      BY <1>1
  <1> HIDE DEF ids
  <1> QED
    BY Zenon, <1>2, <1>3, <1>4 DEF ids

\* A query returns the rows that it selects, each once (find_relatives.cpp:40-53).
LEMMA InOrderOf ==
    ASSUME NEW rows, NEW N \in Nat, \A r \in rows : r.row_id \in 0..N
    PROVE  LET s == InOrder(rows)
           IN  /\ \E n \in Nat : DOMAIN s = 1..n
               /\ \A i \in DOMAIN s : s[i] \in rows
               /\ (\A r, q \in rows : r.row_id = q.row_id => r = q) =>
                     \A r \in rows : \E i \in DOMAIN s : s[i] = r
  <1> DEFINE ids == {r.row_id : r \in rows}
             s == InOrder(rows)
  <1>1. ids \in SUBSET Int /\ IsFiniteSet(ids)
    <2>1. ids \in SUBSET (0..N) /\ IsFiniteSet(0..N) /\ ids \in SUBSET Int
      BY FS_Interval
    <2> HIDE DEF ids
    <2> QED
      BY <2>1, FS_Subset
  <1>2. s = [n \in 1..Cardinality(ids) |-> CHOOSE r \in rows : r.row_id = Nth(ids, n)]
    BY DEF InOrder
  <1>3. \A i \in ids : \E r \in rows : r.row_id = i
    OBVIOUS
  <1>4. \A r \in rows : r.row_id \in ids
    OBVIOUS
  <1> HIDE DEF ids, s
  <1>5. DOMAIN s = 1..Cardinality(ids) /\ Cardinality(ids) \in Nat
    BY <1>1, <1>2, NthOf
  <1>6. ASSUME NEW i \in DOMAIN s
        PROVE  s[i] \in rows /\ s[i].row_id = Nth(ids, i)
    <2>1. Nth(ids, i) \in ids
      BY <1>1, <1>5, NthOf
    <2> QED
      BY <1>2, <1>3, <1>5, <2>1
  <1>7. ASSUME \A r, q \in rows : r.row_id = q.row_id => r = q, NEW r \in rows
        PROVE  \E i \in DOMAIN s : s[i] = r
    <2>1. PICK i \in 1..Cardinality(ids) : Nth(ids, i) = r.row_id
      BY <1>1, <1>4, NthOf
    <2> QED
      BY <1>5, <1>6, <1>7, <2>1
  <1> QED
    BY <1>5, <1>6, <1>7 DEF s

\* Rows that were inserted one after the other come back in that order
\* (find_relatives.cpp:60-73).
LEMMA InOrderOfSequence ==
    ASSUME NEW n \in Nat, NEW g, g = [i \in 1..n |-> g[i]],
           \A i \in 1..n : g[i].row_id \in Int,
           \A i, k \in 1..n : i < k => g[i].row_id < g[k].row_id
    PROVE  InOrder({g[i] : i \in 1..n}) = g
  <1> DEFINE rows == {g[i] : i \in 1..n}
             f == [i \in 1..n |-> g[i].row_id]
             ids == {r.row_id : r \in rows}
  <1>1. ids = {f[i] : i \in 1..n}
    OBVIOUS
  <1>2. f \in [1..n -> Int] /\ \A i, k \in 1..n : i < k => f[i] < f[k]
    OBVIOUS
  <1>3. Cardinality(ids) = n /\ \A k \in 1..n : Nth(ids, k) = f[k]
    <2> HIDE DEF f
    <2> QED
      BY <1>1, <1>2, NthOfIncreasing
  <1>4. InOrder(rows) = [k \in 1..Cardinality(ids) |-> CHOOSE r \in rows : r.row_id = Nth(ids, k)]
    BY DEF InOrder
  <1>5. ASSUME NEW k \in 1..n
        PROVE  (CHOOSE r \in rows : r.row_id = Nth(ids, k)) = g[k]
    <2>1. g[k] \in rows /\ g[k].row_id = Nth(ids, k)
      BY <1>3
    <2>2. \A r \in rows : r.row_id = Nth(ids, k) => r = g[k]
      <3>1. ASSUME NEW i \in 1..n, g[i].row_id = Nth(ids, k) PROVE i = k
        BY <1>3, <3>1
      <3> QED
        BY <3>1
    <2> HIDE DEF rows, ids
    <2> QED
      BY <2>1, <2>2
  <1> HIDE DEF rows, ids
  <1>6. InOrder(rows) = [k \in 1..n |-> g[k]]
    BY <1>3, <1>4, <1>5
  <1> QED
    BY <1>6 DEF rows

\* The counter of two nested loops increases from one insertion to the next
\* (populate_db.cpp:341-411).
LEMMA RowIdOf ==
    ASSUME NEW positions, IsFiniteSet(positions),
           \A p \in positions : p[1] \in Int /\ p[2] \in Int
    PROVE  /\ Cardinality(positions) \in Nat
           /\ \A p \in positions : RowId(p, positions) \in 0..Cardinality(positions)
           /\ \A p, q \in positions : Precedes(p, q) => RowId(p, positions) < RowId(q, positions)
           /\ \A p, q \in positions : RowId(p, positions) = RowId(q, positions) =>
                 p[1] = q[1] /\ p[2] = q[2]
  <1> DEFINE before(p) == {q \in positions : Precedes(q, p)}
  <1>1. \A p : before(p) \in SUBSET positions /\ RowId(p, positions) = Cardinality(before(p))
    BY DEF RowId
  <1>2. \A p \in positions : p \notin before(p)
    BY DEF Precedes
  <1>3. \A p, q \in positions : Precedes(p, q) => before(p) \subseteq before(q) /\ p \in before(q)
    BY DEF Precedes
  <1> HIDE DEF before
  <1>4. Cardinality(positions) \in Nat
    BY FS_CardinalityType
  <1>5. ASSUME NEW p \in positions
        PROVE  /\ IsFiniteSet(before(p)) /\ Cardinality(before(p)) \in Nat
               /\ RowId(p, positions) \in 0..Cardinality(positions)
    <2>1. IsFiniteSet(before(p)) /\ Cardinality(before(p)) <= Cardinality(positions)
      BY <1>1, FS_Subset
    <2>2. Cardinality(before(p)) \in Nat
      BY <2>1, FS_CardinalityType
    <2> QED
      BY <1>1, <1>4, <2>1, <2>2
  <1>6. ASSUME NEW p \in positions, NEW q \in positions, Precedes(p, q)
        PROVE  RowId(p, positions) < RowId(q, positions)
    <2>1. before(p) \in SUBSET before(q) /\ before(p) # before(q)
      BY <1>2, <1>3, <1>6
    <2>2. Cardinality(before(p)) <= Cardinality(before(q)) /\ Cardinality(before(p)) # Cardinality(before(q))
      BY <1>5, <2>1, FS_Subset
    <2> QED
      BY <1>1, <1>5, <2>2
  <1>7. ASSUME NEW p \in positions, NEW q \in positions, RowId(p, positions) = RowId(q, positions)
        PROVE  p[1] = q[1] /\ p[2] = q[2]
    <2>1. ~Precedes(p, q) /\ ~Precedes(q, p)
      BY <1>5, <1>6, <1>7
    <2> QED
      BY <2>1 DEF Precedes
  <1> QED
    BY <1>4, <1>5, <1>6, <1>7

-----------------------------------------------------------------------------
(* Lists. *)

\* The kept elements are those of the list that are in the set, each as often as
\* before (remove_if in populate_db.cpp:566).
LEMMA KeepOf ==
    ASSUME NEW T, NEW list \in Seq(T), NEW S
    PROVE  LET k == Keep(list, S)
           IN  /\ k \in Seq(T)
               /\ ToSet(k) = ToSet(list) \cap S
               /\ IsInjective(list) => IsInjective(k)
  <1> DEFINE kept == {i \in DOMAIN list : list[i] \in S}
             c == Cardinality(kept)
             k == Keep(list, S)
  <1>1. kept \in SUBSET Int /\ IsFiniteSet(kept)
    <2>1. kept \in SUBSET (1..Len(list)) /\ IsFiniteSet(1..Len(list)) /\ kept \in SUBSET Int
      BY FS_Interval
    <2> HIDE DEF kept
    <2> QED
      BY <2>1, FS_Subset
  <1>2. k = [n \in 1..c |-> list[Nth(kept, n)]]
    BY DEF Keep
  <1>3. \A i : i \in kept <=> i \in DOMAIN list /\ list[i] \in S
    OBVIOUS
  <1> HIDE DEF kept, k
  <1>4. /\ c \in Nat
        /\ \A n \in 1..c : Nth(kept, n) \in kept
        /\ \A i \in kept : \E n \in 1..c : Nth(kept, n) = i
    BY <1>1, NthOf
  <1>5. \A n, m \in 1..c : Nth(kept, n) = Nth(kept, m) => n = m
    BY <1>1, NthOf
  <1> HIDE DEF c
  <1>6. \A n \in 1..c : k[n] = list[Nth(kept, n)] /\ k[n] \in T
    BY <1>2, <1>3, <1>4
  <1>7. k \in Seq(T) /\ DOMAIN k = 1..c
    BY <1>2, <1>4, <1>6
  <1>8. ToSet(k) = ToSet(list) \cap S
    <2>1. ASSUME NEW n \in 1..c PROVE k[n] \in ToSet(list) \cap S
      BY Zenon, <1>3, <1>4, <1>6 DEF ToSet
    <2>2. ASSUME NEW i \in DOMAIN list, list[i] \in S PROVE \E n \in 1..c : k[n] = list[i]
      BY Zenon, <1>3, <1>4, <1>6, <2>2
    <2> QED
      BY Zenon, <1>7, <2>1, <2>2 DEF ToSet
  <1>9. ASSUME IsInjective(list) PROVE IsInjective(k)
    <2>1. ASSUME NEW n \in 1..c, NEW m \in 1..c, k[n] = k[m] PROVE n = m
      <3>1. Nth(kept, n) = Nth(kept, m)
        BY <1>3, <1>4, <1>6, <1>9, <2>1 DEF IsInjective
      <3> QED
        BY <1>5, <3>1
    <2> QED
      BY <1>7, <2>1 DEF IsInjective
  <1> QED
    BY Zenon, <1>7, <1>8, <1>9 DEF k

\* If nothing is removed the list stays as it is (print_textual_flow.cpp:401).
LEMMA KeepAll ==
    ASSUME NEW T, NEW list \in Seq(T), NEW S, \A i \in DOMAIN list : list[i] \in S
    PROVE  Keep(list, S) = list
  <1> DEFINE f == [i \in 1..Len(list) |-> i]
             kept == {i \in DOMAIN list : list[i] \in S}
  <1>1. /\ f \in [1..Len(list) -> Int]
        /\ \A i, j \in 1..Len(list) : i < j => f[i] < f[j]
        /\ kept = {f[i] : i \in 1..Len(list)}
        /\ Len(list) \in Nat
    OBVIOUS
  <1>2. Cardinality(kept) = Len(list) /\ \A n \in 1..Len(list) : Nth(kept, n) = n
    <2>1. \A n \in 1..Len(list) : f[n] = n
      OBVIOUS
    <2> HIDE DEF f, kept
    <2> QED
      BY <1>1, <2>1, NthOfIncreasing
  <1>3. Keep(list, S) = [n \in 1..Cardinality(kept) |-> list[Nth(kept, n)]]
    BY DEF Keep
  <1> HIDE DEF kept
  <1> QED
    BY <1>2, <1>3

\* If one element is left the list is that element (find_relatives.cpp:404).
LEMMA KeepOne ==
    ASSUME NEW T, NEW list \in Seq(T), NEW S, NEW i \in DOMAIN list, list[i] \in S,
           \A j \in DOMAIN list : list[j] \in S => j = i
    PROVE  Keep(list, S) = <<list[i]>>
  <1> DEFINE f == [n \in 1..1 |-> i]
             kept == {j \in DOMAIN list : list[j] \in S}
  <1>1. /\ f \in [1..1 -> Int]
        /\ \A n, m \in 1..1 : n < m => f[n] < f[m]
        /\ kept = {f[n] : n \in 1..1}
        /\ 1 \in Nat
    OBVIOUS
  <1>2. Cardinality(kept) = 1 /\ Nth(kept, 1) = i
    <2>1. f[1] = i /\ 1 \in 1..1
      OBVIOUS
    <2> HIDE DEF f, kept
    <2> QED
      BY <1>1, <2>1, NthOfIncreasing
  <1>3. Keep(list, S) = [n \in 1..Cardinality(kept) |-> list[Nth(kept, n)]]
    BY DEF Keep
  <1> HIDE DEF kept
  <1> QED
    BY <1>2, <1>3

-----------------------------------------------------------------------------
(* The tables (populate_db.cpp:625-637). *)

\* The collation is a list of units with distinct IDs (populate_db.cpp:559).
LEMMA UnitsOf ==
    ASSUME app \in Apparatuses
    PROVE  /\ Len(app.units) \in Nat /\ DOMAIN app.units = 1..Len(app.units)
           /\ app.units \in Seq(ToSet(app.units))
           /\ \A i \in DOMAIN app.units : IsUnit(app.units[i], ToSet(app.list_wit))
           /\ \A i, j \in DOMAIN app.units : app.units[i].id = app.units[j].id => i = j
  BY ApparatusesAssumption

\* After main each table has the rows of its function (populate_db.cpp:625-637).
LEMMA WrittenTables ==
    ASSUME TablesOK, Written
    PROVE  /\ db["READINGS"] = Readings
           /\ db["READING_RELATIONS"] = ReadingRelations
           /\ db["READING_SUPPORT"] = ReadingSupport
           /\ db["VARIATION_UNITS"] = VariationUnits
           /\ db["GENEALOGICAL_COMPARISONS"] = GenealogicalComparisons
           /\ db["WITNESSES"] = Witnesses
  <1>1. \A table \in ToSet(Tables) : db[table] = Contents(table)
    BY DEF TablesOK, Filled
  <1>2. /\ "READINGS" \in ToSet(Tables) /\ "READING_RELATIONS" \in ToSet(Tables)
        /\ "READING_SUPPORT" \in ToSet(Tables) /\ "VARIATION_UNITS" \in ToSet(Tables)
        /\ "GENEALOGICAL_COMPARISONS" \in ToSet(Tables) /\ "WITNESSES" \in ToSet(Tables)
    BY DEF ToSet, Tables
  <1> QED
    BY <1>1, <1>2 DEF Contents

\* WITNESSES has the witnesses that passed the filter, and the tools' list those
\* that are not excluded (find_relatives.cpp:40-53).
LEMMA WitnessRows ==
    ASSUME ListsOK, TablesOK, Written
    PROVE  /\ {r.witness : r \in db["WITNESSES"]} = Kept
           /\ get_list_wit \in Seq(Kept)
           /\ ToSet(get_list_wit) = Kept \ excluded_wit_ids
  <1> DEFINE rows == {r \in db["WITNESSES"] : r.witness \notin excluded_wit_ids}
             s == InOrder(rows)
  <1>1. Len(list_wit) \in Nat /\ DOMAIN list_wit = 1..Len(list_wit)
    BY DEF ListsOK
  <1>2. db["WITNESSES"] = {[row_id |-> i - 1, witness |-> list_wit[i]] : i \in DOMAIN list_wit}
    BY WrittenTables DEF Witnesses
  <1>3. {r.witness : r \in db["WITNESSES"]} = Kept
    <2>1. \A r \in db["WITNESSES"] : \E i \in DOMAIN list_wit : r.witness = list_wit[i]
      BY <1>2
    <2>2. ASSUME NEW i \in DOMAIN list_wit
          PROVE  \E r \in db["WITNESSES"] : r.witness = list_wit[i]
      <3>1. [row_id |-> i - 1, witness |-> list_wit[i]] \in db["WITNESSES"]
        BY <1>2
      <3> QED
        BY <3>1
    <2> QED
      BY <2>1, <2>2 DEF Kept, ToSet
  <1>4. {r.witness : r \in rows} = Kept \ excluded_wit_ids
    BY <1>3
  <1>5. \A r \in rows : r.row_id \in 0..Len(list_wit)
    BY <1>1, <1>2
  <1>6. \A r, q \in rows : r.row_id = q.row_id => r = q
    BY <1>1, <1>2
  <1> HIDE DEF rows, s
  <1>7. /\ \E n \in Nat : DOMAIN s = 1..n
        /\ \A i \in DOMAIN s : s[i] \in rows
        /\ \A r \in rows : \E i \in DOMAIN s : s[i] = r
    BY <1>1, <1>5, <1>6, InOrderOf DEF s
  <1>8. get_list_wit = [i \in DOMAIN s |-> s[i].witness]
    BY DEF get_list_wit, Column, s, rows
  <1>9. \A i \in DOMAIN s : s[i].witness \in Kept \ excluded_wit_ids
    BY <1>4, <1>7
  <1>10. \A w \in Kept \ excluded_wit_ids : \E i \in DOMAIN s : s[i].witness = w
    BY <1>4, <1>7
  <1>11. ToSet(get_list_wit) = Kept \ excluded_wit_ids
    BY <1>8, <1>9, <1>10 DEF ToSet
  <1>12. get_list_wit \in Seq(Kept)
    <2>1. PICK n \in Nat : DOMAIN s = 1..n
      BY <1>7
    <2> QED
      BY <1>8, <1>9, <2>1
  <1> QED
    BY <1>3, <1>11, <1>12

\* GENEALOGICAL_COMPARISONS has one row for each pair of the witnesses that
\* passed the filter, in whatever order the threads built them
\* (populate_db.cpp:341-411).
LEMMA ComparisonRows ==
    ASSUME ListsOK, TablesOK, Written
    PROVE  LET comps == db["GENEALOGICAL_COMPARISONS"]
           IN  /\ \E N \in Nat : \A r \in comps : r.row_id \in 0..N
               /\ \A r, q \in comps : r.row_id = q.row_id => r = q
               /\ \A r \in comps : /\ r.primary_wit \in Kept /\ r.secondary_wit \in Kept
                                   /\ r.comp = Comparison(r.primary_wit, r.secondary_wit)
               /\ \A w, v \in Kept : \E r \in comps : r.primary_wit = w /\ r.secondary_wit = v
               /\ \A r, q \in comps :
                     r.primary_wit = q.primary_wit /\ r.secondary_wit = q.secondary_wit => r = q
  <1> DEFINE comps == db["GENEALOGICAL_COMPARISONS"]
             positions == (DOMAIN witnesses) \X (DOMAIN witnesses)
             Row(p) == [row_id |-> RowId(p, positions), primary_wit |-> witnesses[p[1]],
                        secondary_wit |-> witnesses[p[2]],
                        comp |-> Comparison(witnesses[p[1]], witnesses[p[2]])]
  <1>1. /\ witnesses \in Seq(Kept) /\ IsInjective(witnesses) /\ Kept \subseteq ToSet(witnesses)
        /\ Len(witnesses) \in Nat /\ DOMAIN witnesses = 1..Len(witnesses)
    BY DEF ListsOK, Written
  <1>2. comps = {Row(p) : p \in positions}
    BY WrittenTables DEF GenealogicalComparisons
  <1>3. IsFiniteSet(positions)
    <2>1. IsFiniteSet(DOMAIN witnesses)
      BY <1>1, FS_Interval
    <2> QED
      BY <2>1, FS_Product
  <1>4. \A p \in positions : /\ p = <<p[1], p[2]>> /\ p[1] \in Int /\ p[2] \in Int
                             /\ p[1] \in DOMAIN witnesses /\ p[2] \in DOMAIN witnesses
    BY <1>1
  <1>5. \A i, j \in DOMAIN witnesses : <<i, j>> \in positions
    OBVIOUS
  <1> HIDE DEF positions
  <1>6. /\ Cardinality(positions) \in Nat
        /\ \A p \in positions : RowId(p, positions) \in 0..Cardinality(positions)
        /\ \A p, q \in positions : RowId(p, positions) = RowId(q, positions) => p = q
    BY <1>3, <1>4, RowIdOf
  <1>7. \A p \in positions : /\ Row(p).row_id = RowId(p, positions)
                             /\ Row(p).primary_wit = witnesses[p[1]]
                             /\ Row(p).secondary_wit = witnesses[p[2]]
                             /\ Row(p).comp = Comparison(witnesses[p[1]], witnesses[p[2]])
    OBVIOUS
  <1> HIDE DEF Row, comps
  <1>8. \A r \in comps : r.row_id \in 0..Cardinality(positions)
    BY <1>2, <1>6, <1>7
  <1>9. \A r, q \in comps : r.row_id = q.row_id => r = q
    BY <1>2, <1>6, <1>7
  <1>10. \A r \in comps : /\ r.primary_wit \in Kept /\ r.secondary_wit \in Kept
                         /\ r.comp = Comparison(r.primary_wit, r.secondary_wit)
    BY <1>1, <1>2, <1>4, <1>7
  <1>11. ASSUME NEW w \in Kept, NEW v \in Kept
         PROVE  \E r \in comps : r.primary_wit = w /\ r.secondary_wit = v
    <2>1. PICK i \in DOMAIN witnesses : witnesses[i] = w
      BY <1>1 DEF ToSet
    <2>2. PICK j \in DOMAIN witnesses : witnesses[j] = v
      BY <1>1 DEF ToSet
    <2>3. <<i, j>> \in positions
      BY <1>5
    <2> QED
      BY <1>2, <1>7, <2>1, <2>2, <2>3
  <1>12. ASSUME NEW r \in comps, NEW q \in comps,
                r.primary_wit = q.primary_wit, r.secondary_wit = q.secondary_wit
         PROVE  r = q
    <2>1. PICK p \in positions : r = Row(p)
      BY <1>2
    <2>2. PICK o \in positions : q = Row(o)
      BY <1>2
    <2>3. p[1] = o[1] /\ p[2] = o[2]
      BY <1>1, <1>4, <1>7, <1>12, <2>1, <2>2 DEF IsInjective
    <2> QED
      BY <1>4, <2>1, <2>2, <2>3
  <1> QED
    BY <1>6, <1>8, <1>9, <1>10, <1>11, <1>12 DEF comps

\* What a tool gets of a witness that passed the filter is one comparison with
\* each witness that is not excluded (find_relatives.cpp:122-177).
LEMMA WitnessRead ==
    ASSUME ListsOK, TablesOK, Written, NEW w
    PROVE  LET comps == get_witness(w).comps
           IN  /\ \E n \in Nat : DOMAIN comps = 1..n
               /\ \A i \in DOMAIN comps :
                     /\ comps[i].secondary_wit \in Kept \ excluded_wit_ids
                     /\ comps[i].comp = Comparison(w, comps[i].secondary_wit)
               /\ w \in Kept => \A v \in Kept \ excluded_wit_ids :
                     \E i \in DOMAIN comps : comps[i].secondary_wit = v
  <1> DEFINE all == db["GENEALOGICAL_COMPARISONS"]
             rows == {r \in all : r.primary_wit = w /\ r.secondary_wit \notin excluded_wit_ids}
             comps == InOrder(rows)
  <1>1. /\ \A r, q \in all : r.row_id = q.row_id => r = q
        /\ \A r \in all : /\ r.primary_wit \in Kept /\ r.secondary_wit \in Kept
                          /\ r.comp = Comparison(r.primary_wit, r.secondary_wit)
        /\ \A u, v \in Kept : \E r \in all : r.primary_wit = u /\ r.secondary_wit = v
    BY ComparisonRows
  <1>2. PICK N \in Nat : \A r \in all : r.row_id \in 0..N
    BY ComparisonRows
  <1>3. get_witness(w).comps = comps
    BY DEF get_witness
  <1>4. /\ \A r \in rows : r.row_id \in 0..N
        /\ \A r, q \in rows : r.row_id = q.row_id => r = q
    BY <1>1, <1>2
  <1>5. \A r \in rows : r.secondary_wit \in Kept \ excluded_wit_ids /\ r.comp = Comparison(w, r.secondary_wit)
    BY <1>1
  <1>6. w \in Kept => \A v \in Kept \ excluded_wit_ids : \E r \in rows : r.secondary_wit = v
    BY <1>1
  <1> HIDE DEF rows
  <1>7. /\ \E n \in Nat : DOMAIN comps = 1..n
        /\ \A i \in DOMAIN comps : comps[i] \in rows
        /\ \A r \in rows : \E i \in DOMAIN comps : comps[i] = r
    BY <1>4, InOrderOf
  <1> HIDE DEF comps
  <1> QED
    BY <1>3, <1>5, <1>6, <1>7

\* A witness has comparisons exactly if it passed the filter
\* (find_relatives.cpp:79-92).
LEMMA WitnessKnown ==
    ASSUME ListsOK, TablesOK, Written, NEW w
    PROVE  witness_exists(w) <=> w \in Kept
  BY ComparisonRows DEF witness_exists

\* VARIATION_UNITS has the units in the order of the collation
\* (populate_db.cpp:271-290).
LEMMA UnitRows ==
    ASSUME ListsOK, TablesOK, Written
    PROVE  /\ variation_unit_ids = [i \in DOMAIN app.units |-> app.units[i].id]
           /\ variation_unit_labels = [i \in DOMAIN app.units |-> app.units[i].label]
           /\ \A u : variation_unit_exists(u) <=> \E i \in DOMAIN app.units : app.units[i].id = u
  <1> DEFINE n == Len(app.units)
             Row(i) == [row_id |-> i - 1, variation_unit |-> app.units[i].id,
                        label |-> app.units[i].label, connectivity |-> app.units[i].connectivity]
             g == [i \in 1..n |-> Row(i)]
             rows == db["VARIATION_UNITS"]
  <1>1. n \in Nat /\ DOMAIN app.units = 1..n
    BY UnitsOf DEF ListsOK
  <1>2. rows = {Row(i) : i \in 1..n}
    BY <1>1, WrittenTables DEF VariationUnits
  <1>3. \A i \in 1..n : /\ Row(i).row_id = i - 1 /\ Row(i).variation_unit = app.units[i].id
                        /\ Row(i).label = app.units[i].label
    OBVIOUS
  <1> HIDE DEF n, Row, rows
  <1>4. rows = {g[i] : i \in 1..n}
    BY <1>2
  <1>5. /\ g = [i \in 1..n |-> g[i]] /\ \A i \in 1..n : g[i].row_id \in Int
        /\ \A i, k \in 1..n : i < k => g[i].row_id < g[k].row_id
    BY <1>3
  <1>6. InOrder(rows) = g
    <2> HIDE DEF g
    <2> QED
      BY <1>1, <1>4, <1>5, InOrderOfSequence
  <1>7. variation_unit_ids = [i \in DOMAIN app.units |-> app.units[i].id]
    BY <1>1, <1>3, <1>6 DEF variation_unit_ids, Column, rows
  <1>8. variation_unit_labels = [i \in DOMAIN app.units |-> app.units[i].label]
    BY <1>1, <1>3, <1>6 DEF variation_unit_labels, Column, rows
  <1>9. \A u : variation_unit_exists(u) <=> \E i \in DOMAIN app.units : app.units[i].id = u
    BY <1>1, <1>2, <1>3 DEF variation_unit_exists, rows
  <1> QED
    BY <1>7, <1>8, <1>9

\* A loop over a finite list ends.
LEMMA IntervalFinite ==
    ASSUME NEW n \in Nat
    PROVE  IsFiniteSet(1..n)
  BY FS_Interval

\* Two nested loops over finite lists end (populate_db.cpp:74-90).
LEMMA PositionsFinite ==
    ASSUME NEW n \in Nat, NEW len \in [1..n -> Nat], NEW positions,
           \A p \in positions : p = <<p[1], p[2]>> /\ p[1] \in 1..n /\ p[2] \in 1..len[p[1]]
    PROVE  IsFiniteSet(positions) /\ \A p \in positions : p[1] \in Int /\ p[2] \in Int
  <1> DEFINE Inner(i) == {<<i, j>> : j \in 1..len[i]}
             S == {Inner(i) : i \in 1..n}
  <1>1. ASSUME NEW i \in 1..n PROVE IsFiniteSet(Inner(i))
    <2> DEFINE f == [j \in 1..len[i] |-> <<i, j>>]
    <2>1. f \in Surjection(1..len[i], Inner(i))
      BY DEF Surjection
    <2>2. IsFiniteSet(1..len[i])
      BY FS_Interval
    <2> HIDE DEF f, Inner
    <2> QED
      BY <2>1, <2>2, FS_Surjection
  <1>2. IsFiniteSet(S)
    <2>2. IsFiniteSet(1..n)
      BY Zenon, IntervalFinite
    <2> HIDE DEF Inner
    <2> DEFINE f == [i \in 1..n |-> Inner(i)]
    <2>1. f \in Surjection(1..n, S)
      BY DEF Surjection
    <2> HIDE DEF f, S
    <2> QED
      BY <2>1, <2>2, FS_Surjection
  <1>3. IsFiniteSet(UNION S)
    <2>1. \A T \in S : IsFiniteSet(T)
      BY <1>1
    <2> HIDE DEF S
    <2> QED
      BY <1>2, <2>1, FS_UNION
  <1>4. positions \in SUBSET UNION S
    <2>1. ASSUME NEW p \in positions PROVE p \in Inner(p[1]) /\ Inner(p[1]) \in S
      OBVIOUS
    <2> QED
      BY Zenon, <2>1
  <1> HIDE DEF S
  <1>5. IsFiniteSet(positions)
    BY <1>3, <1>4, FS_Subset
  <1>6. \A p \in positions : p[1] \in Int /\ p[2] \in Int
    OBVIOUS
  <1> QED
    BY <1>5, <1>6

\* The inner loop at a step of the outer one; row gives the row of each position.
Inner(row, i, n) == [j \in 1..n |-> row[<<i, j>>]]

\* The rows of one unit come back in the order of its inner loop
\* (print_textual_flow.cpp:152-181).
LEMMA LoopRows ==
    ASSUME NEW row, IsFiniteSet(DOMAIN row), \A p \in DOMAIN row : p[1] \in Int /\ p[2] \in Int,
           NEW i \in Int, NEW n \in Nat,
           \A j \in 1..n : <<i, j>> \in DOMAIN row /\ row[<<i, j>>].row_id = RowId(<<i, j>>, DOMAIN row),
           NEW rows, \A r : r \in rows <=> \E j \in 1..n : r = row[<<i, j>>]
    PROVE  InOrder(rows) = Inner(row, i, n)
  <1> DEFINE g == Inner(row, i, n)
  <1>0. DOMAIN g = 1..n /\ \A j \in 1..n : g[j] = row[<<i, j>>]
    BY DEF Inner
  <1>1. \A j \in 1..n : g[j].row_id = RowId(<<i, j>>, DOMAIN row) /\ g[j].row_id \in Int
    BY RowIdOf DEF Inner
  <1>2. ASSUME NEW j \in 1..n, NEW k \in 1..n, j < k
        PROVE  g[j].row_id < g[k].row_id
    <2>1. Precedes(<<i, j>>, <<i, k>>)
      BY <1>2 DEF Precedes
    <2>2. <<i, j>> \in DOMAIN row /\ <<i, k>> \in DOMAIN row
      OBVIOUS
    <2>3. RowId(<<i, j>>, DOMAIN row) < RowId(<<i, k>>, DOMAIN row)
      BY <2>1, <2>2, RowIdOf
    <2> HIDE DEF g
    <2> QED
      BY <1>1, <2>3
  <1>3. rows = {g[j] : j \in 1..n} /\ g = [j \in 1..n |-> g[j]]
    BY DEF Inner
  <1> HIDE DEF g
  <1>4. InOrder(rows) = g
    BY <1>1, <1>2, <1>3, InOrderOfSequence
  <1> QED
    BY Zenon, <1>4 DEF g

\* The rows of one unit in a table that is filled by two nested loops, over the
\* units and over the readings or the edges of a unit: they come back in the
\* order of the inner loop (populate_db.cpp:74-90, 137-156).
LEMMA UnitLoop ==
    ASSUME ListsOK, NEW i \in DOMAIN app.units,
           NEW len \in [1..Len(app.units) -> Nat],
           NEW row,
           \A p \in DOMAIN row : p = <<p[1], p[2]>> /\ p[1] \in 1..Len(app.units) /\ p[2] \in 1..len[p[1]],
           \A j \in 1..len[i] : <<i, j>> \in DOMAIN row,
           \A p \in DOMAIN row : /\ row[p].row_id = RowId(p, DOMAIN row)
                                 /\ row[p].variation_unit = app.units[p[1]].id,
           NEW rows,
           \A r : r \in rows <=> \E p \in DOMAIN row : r = row[p] /\ r.variation_unit = app.units[i].id
    PROVE  InOrder(rows) = Inner(row, i, len[i])
  <1>1. /\ DOMAIN app.units = 1..Len(app.units) /\ Len(app.units) \in Nat
        /\ \A k \in DOMAIN app.units : app.units[k].id = app.units[i].id => k = i
    BY UnitsOf DEF ListsOK
  <1>2. IsFiniteSet(DOMAIN row) /\ \A p \in DOMAIN row : p[1] \in Int /\ p[2] \in Int
    BY Zenon, <1>1, PositionsFinite
  <1>3. ASSUME NEW r
        PROVE  r \in rows <=> \E j \in 1..len[i] : r = row[<<i, j>>]
    <2>1. ASSUME r \in rows PROVE \E j \in 1..len[i] : r = row[<<i, j>>]
      <3>1. PICK p \in DOMAIN row : r = row[p] /\ r.variation_unit = app.units[i].id
        BY Zenon, <2>1
      <3>2. p[1] = i
        BY Zenon, <1>1, <3>1
      <3>3. p = <<i, p[2]>> /\ p[2] \in 1..len[i]
        BY Zenon, <3>2
      <3> QED
        BY Zenon, <3>1, <3>3
    <2>2. ASSUME NEW j \in 1..len[i], r = row[<<i, j>>] PROVE r \in rows
      <3>1. <<i, j>> \in DOMAIN row /\ <<i, j>>[1] = i
        OBVIOUS
      <3>2. row[<<i, j>>].variation_unit = app.units[i].id
        BY Zenon, <3>1
      <3> QED
        BY Zenon, <2>2, <3>1, <3>2
    <2> QED
      BY Zenon, <2>1, <2>2
  <1>4. i \in Int /\ len[i] \in Nat
    BY <1>1
  <1>5. \A j \in 1..len[i] : <<i, j>> \in DOMAIN row /\ row[<<i, j>>].row_id = RowId(<<i, j>>, DOMAIN row)
    BY Zenon
  <1> QED
    BY <1>2, <1>3, <1>4, <1>5, LoopRows

-----------------------------------------------------------------------------
(* get_variation_unit: each of its four queries. *)

\* The row of the unit itself (print_textual_flow.cpp:135-147).
LEMMA UnitRow ==
    ASSUME ListsOK, TablesOK, Written, NEW i \in DOMAIN app.units
    PROVE  InOrder(OfUnit("VARIATION_UNITS", app.units[i].id))
             = <<[row_id |-> i - 1, variation_unit |-> app.units[i].id,
                  label |-> app.units[i].label, connectivity |-> app.units[i].connectivity]>>
  <1> DEFINE Row(k) == [row_id |-> k - 1, variation_unit |-> app.units[k].id,
                        label |-> app.units[k].label, connectivity |-> app.units[k].connectivity]
             g == <<Row(i)>>
             rows == OfUnit("VARIATION_UNITS", app.units[i].id)
  <1>1. DOMAIN app.units = 1..Len(app.units) /\ Len(app.units) \in Nat
    BY UnitsOf DEF ListsOK
  <1>2. db["VARIATION_UNITS"] = {Row(k) : k \in DOMAIN app.units}
    BY WrittenTables DEF VariationUnits
  <1>3. \A k : Row(k).variation_unit = app.units[k].id /\ Row(k).row_id = k - 1
    OBVIOUS
  <1>4. \A k \in DOMAIN app.units : app.units[k].id = app.units[i].id => k = i
    BY UnitsOf DEF ListsOK
  <1> HIDE DEF Row
  <1>5. rows = {Row(i)}
    BY <1>2, <1>3, <1>4 DEF OfUnit
  <1> HIDE DEF rows
  <1>6. /\ g = [k \in 1..1 |-> g[k]] /\ {g[k] : k \in 1..1} = {Row(i)}
        /\ \A k \in 1..1 : g[k].row_id \in Int
        /\ \A j, k \in 1..1 : j < k => g[j].row_id < g[k].row_id
        /\ 1 \in Nat
    BY <1>1, <1>3
  <1>7. InOrder({g[k] : k \in 1..1}) = g
    <2> HIDE DEF g
    <2> QED
      BY <1>6, InOrderOfSequence
  <1> QED
    BY <1>5, <1>6, <1>7 DEF rows, Row

\* The readings of the unit (print_textual_flow.cpp:149-164).
LEMMA ReadingRows ==
    ASSUME ListsOK, TablesOK, Written, NEW i \in DOMAIN app.units
    PROVE  Column(InOrder(OfUnit("READINGS", app.units[i].id)), "reading") = app.units[i].readings
  <1> DEFINE len == [k \in 1..Len(app.units) |-> Len(app.units[k].readings)]
             positions == UNION {{<<k, j>> : j \in DOMAIN app.units[k].readings} : k \in DOMAIN app.units}
             row == [p \in positions |->
                       [row_id |-> RowId(p, positions), variation_unit |-> app.units[p[1]].id,
                        reading |-> app.units[p[1]].readings[p[2]]]]
             s == InOrder(OfUnit("READINGS", app.units[i].id))
  <1>1. DOMAIN app.units = 1..Len(app.units) /\ Len(app.units) \in Nat
    BY UnitsOf DEF ListsOK
  <1>2. \A k \in DOMAIN app.units : /\ app.units[k].readings \in Seq(STRING)
                                    /\ DOMAIN app.units[k].readings = 1..Len(app.units[k].readings)
                                    /\ Len(app.units[k].readings) \in Nat
    BY UnitsOf DEF ListsOK, IsUnit
  <1>3. /\ len \in [1..Len(app.units) -> Nat]
        /\ \A k \in DOMAIN app.units : len[k] = Len(app.units[k].readings)
    BY <1>1, <1>2
  <1>4. /\ \A p \in positions : p = <<p[1], p[2]>> /\ p[1] \in 1..Len(app.units) /\ p[2] \in 1..len[p[1]]
        /\ \A j \in 1..len[i] : <<i, j>> \in positions
    <2>1. /\ \A p \in positions : /\ p = <<p[1], p[2]>> /\ p[1] \in DOMAIN app.units
                                   /\ p[2] \in DOMAIN app.units[p[1]].readings
          /\ \A j \in DOMAIN app.units[i].readings : <<i, j>> \in positions
      OBVIOUS
    <2> HIDE DEF positions, len
    <2> QED
      BY <1>1, <1>2, <1>3, <2>1
  <1>5. db["READINGS"] = {row[p] : p \in positions}
    BY WrittenTables DEF Readings
  <1> HIDE DEF positions, len
  <1>6. /\ DOMAIN row = positions
        /\ \A p \in positions : /\ row[p].row_id = RowId(p, positions)
                                /\ row[p].variation_unit = app.units[p[1]].id
                                /\ row[p].reading = app.units[p[1]].readings[p[2]]
    OBVIOUS
  <1> HIDE DEF row
  <1>7. DOMAIN s = 1..len[i] /\ \A j \in 1..len[i] : s[j] = row[<<i, j>>]
    <2> DEFINE rows == OfUnit("READINGS", app.units[i].id)
    <2>1. \A r : r \in rows <=> \E p \in positions : r = row[p] /\ r.variation_unit = app.units[i].id
      BY Zenon, <1>5 DEF OfUnit
    <2> HIDE DEF rows
    <2>2. InOrder(rows) = Inner(row, i, len[i])
      <3>1. \A p \in DOMAIN row : p = <<p[1], p[2]>> /\ p[1] \in 1..Len(app.units) /\ p[2] \in 1..len[p[1]]
        BY Zenon, <1>4, <1>6
      <3>2. \A j \in 1..len[i] : <<i, j>> \in DOMAIN row
        BY Zenon, <1>4, <1>6
      <3>3. \A p \in DOMAIN row : /\ row[p].row_id = RowId(p, DOMAIN row)
                                  /\ row[p].variation_unit = app.units[p[1]].id
        BY Zenon, <1>6
      <3>4. \A r : r \in rows <=> \E p \in DOMAIN row : r = row[p] /\ r.variation_unit = app.units[i].id
        BY Zenon, <1>6, <2>1
      <3> QED
        BY <1>3, <3>1, <3>2, <3>3, <3>4, UnitLoop
    <2> QED
      BY <2>2 DEF rows, Inner
  <1> HIDE DEF s
  <1>8. Column(s, "reading") = [j \in 1..len[i] |-> app.units[i].readings[j]]
    BY <1>4, <1>6, <1>7 DEF Column
  <1>9. app.units[i].readings = [j \in 1..len[i] |-> app.units[i].readings[j]]
    BY <1>2, <1>3
  <1> QED
    BY <1>8, <1>9 DEF s

\* The edges of its local stemma (print_textual_flow.cpp:166-181).
LEMMA EdgeRows ==
    ASSUME ListsOK, TablesOK, Written, NEW i \in DOMAIN app.units
    PROVE  LET s == InOrder(OfUnit("READING_RELATIONS", app.units[i].id))
           IN  [k \in DOMAIN s |-> [prior |-> s[k].prior, posterior |-> s[k].posterior]]
                 = app.units[i].edges
  <1> DEFINE len == [k \in 1..Len(app.units) |-> Len(app.units[k].edges)]
             positions == UNION {{<<k, j>> : j \in DOMAIN app.units[k].edges} : k \in DOMAIN app.units}
             row == [p \in positions |->
                       [row_id |-> RowId(p, positions), variation_unit |-> app.units[p[1]].id,
                        prior |-> app.units[p[1]].edges[p[2]].prior,
                        posterior |-> app.units[p[1]].edges[p[2]].posterior]]
             s == InOrder(OfUnit("READING_RELATIONS", app.units[i].id))
             Edges == [prior : STRING, posterior : STRING]
  <1>1. DOMAIN app.units = 1..Len(app.units) /\ Len(app.units) \in Nat
    BY UnitsOf DEF ListsOK
  <1>2. \A k \in DOMAIN app.units : /\ app.units[k].edges \in Seq(Edges)
                                    /\ DOMAIN app.units[k].edges = 1..Len(app.units[k].edges)
                                    /\ Len(app.units[k].edges) \in Nat
    <2>1. \A k \in DOMAIN app.units : app.units[k].edges \in Seq(Edges)
      BY UnitsOf DEF ListsOK, IsUnit
    <2> HIDE DEF Edges
    <2> QED
      BY <2>1
  <1>3. /\ len \in [1..Len(app.units) -> Nat]
        /\ \A k \in DOMAIN app.units : len[k] = Len(app.units[k].edges)
    BY <1>1, <1>2
  <1>4. /\ \A p \in positions : p = <<p[1], p[2]>> /\ p[1] \in 1..Len(app.units) /\ p[2] \in 1..len[p[1]]
        /\ \A j \in 1..len[i] : <<i, j>> \in positions
    <2>1. /\ \A p \in positions : /\ p = <<p[1], p[2]>> /\ p[1] \in DOMAIN app.units
                                   /\ p[2] \in DOMAIN app.units[p[1]].edges
          /\ \A j \in DOMAIN app.units[i].edges : <<i, j>> \in positions
      OBVIOUS
    <2> HIDE DEF positions, len
    <2> QED
      BY <1>1, <1>2, <1>3, <2>1
  <1>5. db["READING_RELATIONS"] = {row[p] : p \in positions}
    BY WrittenTables DEF ReadingRelations
  <1> HIDE DEF positions, len
  <1>6. /\ DOMAIN row = positions
        /\ \A p \in positions : /\ row[p].row_id = RowId(p, positions)
                                /\ row[p].variation_unit = app.units[p[1]].id
                                /\ row[p].prior = app.units[p[1]].edges[p[2]].prior
                                /\ row[p].posterior = app.units[p[1]].edges[p[2]].posterior
    OBVIOUS
  <1> HIDE DEF row
  <1>7. DOMAIN s = 1..len[i] /\ \A j \in 1..len[i] : s[j] = row[<<i, j>>]
    <2> DEFINE rows == OfUnit("READING_RELATIONS", app.units[i].id)
    <2>1. \A r : r \in rows <=> \E p \in positions : r = row[p] /\ r.variation_unit = app.units[i].id
      BY Zenon, <1>5 DEF OfUnit
    <2> HIDE DEF rows
    <2>2. InOrder(rows) = Inner(row, i, len[i])
      <3>1. \A p \in DOMAIN row : p = <<p[1], p[2]>> /\ p[1] \in 1..Len(app.units) /\ p[2] \in 1..len[p[1]]
        BY Zenon, <1>4, <1>6
      <3>2. \A j \in 1..len[i] : <<i, j>> \in DOMAIN row
        BY Zenon, <1>4, <1>6
      <3>3. \A p \in DOMAIN row : /\ row[p].row_id = RowId(p, DOMAIN row)
                                  /\ row[p].variation_unit = app.units[p[1]].id
        BY Zenon, <1>6
      <3>4. \A r : r \in rows <=> \E p \in DOMAIN row : r = row[p] /\ r.variation_unit = app.units[i].id
        BY Zenon, <1>6, <2>1
      <3> QED
        BY <1>3, <3>1, <3>2, <3>3, <3>4, UnitLoop
    <2> QED
      BY <2>2 DEF rows, Inner
  <1> HIDE DEF s
  <1>8. \A j \in 1..len[i] : [prior |-> s[j].prior, posterior |-> s[j].posterior] = app.units[i].edges[j]
    <2>0. \A j \in 1..len[i] : app.units[i].edges[j] \in Edges
      <3> HIDE DEF Edges
      <3> QED
        BY <1>2, <1>3
    <2>1. ASSUME NEW j \in 1..len[i]
          PROVE  [prior |-> s[j].prior, posterior |-> s[j].posterior] = app.units[i].edges[j]
      <3>1. s[j].prior = app.units[i].edges[j].prior /\ s[j].posterior = app.units[i].edges[j].posterior
        BY <1>4, <1>6, <1>7
      <3>2. app.units[i].edges[j] \in Edges
        BY Zenon, <2>0
      <3> QED
        BY <3>1, <3>2
    <2> QED
      BY <2>1
  <1>9. app.units[i].edges = [j \in 1..len[i] |-> app.units[i].edges[j]]
    BY <1>2, <1>3
  <1>10. DOMAIN s = 1..len[i]
    BY <1>7
  <1> QED
    BY <1>8, <1>9, <1>10 DEF s

\* The readings of the witnesses that passed the filter, one row for each
\* (print_textual_flow.cpp:183-193).
LEMMA SupportRows ==
    ASSUME ListsOK, TablesOK, Written, NEW i \in DOMAIN app.units
    PROVE  LET rows == OfUnit("READING_SUPPORT", app.units[i].id)
           IN  /\ {r.witness : r \in rows} = Kept \cap DOMAIN app.units[i].support
               /\ \A r \in rows : r.row_id \in Int /\ r.reading = app.units[i].support[r.witness]
               /\ \A r, q \in rows : r.witness = q.witness => r = q
  <1> DEFINE positions == {p \in (DOMAIN app.units) \X (DOMAIN list_wit) :
                             list_wit[p[2]] \in DOMAIN app.units[p[1]].support}
             Row(p) == [row_id |-> RowId(p, positions), variation_unit |-> app.units[p[1]].id,
                        witness |-> list_wit[p[2]],
                        reading |-> app.units[p[1]].support[list_wit[p[2]]]]
             rows == OfUnit("READING_SUPPORT", app.units[i].id)
  <1>1. /\ DOMAIN app.units = 1..Len(app.units) /\ Len(app.units) \in Nat
        /\ \A k \in DOMAIN app.units : app.units[k].id = app.units[i].id => k = i
    BY UnitsOf DEF ListsOK
  <1>2. Len(list_wit) \in Nat /\ DOMAIN list_wit = 1..Len(list_wit) /\ IsInjective(list_wit)
    BY DEF ListsOK
  <1>3. IsFiniteSet(positions)
    <2>1. IsFiniteSet(DOMAIN app.units) /\ IsFiniteSet(DOMAIN list_wit)
      BY <1>1, <1>2, IntervalFinite
    <2>2. IsFiniteSet((DOMAIN app.units) \X (DOMAIN list_wit))
      BY <2>1, FS_Product
    <2>3. positions \in SUBSET ((DOMAIN app.units) \X (DOMAIN list_wit))
      OBVIOUS
    <2> HIDE DEF positions
    <2> QED
      BY <2>2, <2>3, FS_Subset
  <1>4. \A p \in positions : /\ p = <<p[1], p[2]>> /\ p[1] \in DOMAIN app.units /\ p[2] \in DOMAIN list_wit
                             /\ list_wit[p[2]] \in DOMAIN app.units[p[1]].support
    OBVIOUS
  <1>5. \A k \in DOMAIN list_wit : list_wit[k] \in DOMAIN app.units[i].support => <<i, k>> \in positions
    OBVIOUS
  <1>6. db["READING_SUPPORT"] = {Row(p) : p \in positions}
    BY WrittenTables DEF ReadingSupport
  <1> HIDE DEF positions
  <1>7. \A p \in positions : RowId(p, positions) \in Int
    <2>1. \A p \in positions : p[1] \in Int /\ p[2] \in Int
      BY <1>1, <1>2, <1>4
    <2> QED
      BY <1>3, <2>1, RowIdOf
  <1>8. \A p : /\ Row(p).row_id = RowId(p, positions) /\ Row(p).variation_unit = app.units[p[1]].id
               /\ Row(p).witness = list_wit[p[2]]
               /\ Row(p).reading = app.units[p[1]].support[list_wit[p[2]]]
    OBVIOUS
  <1> HIDE DEF Row
  <1>9. \A r : r \in rows <=> \E p \in positions : r = Row(p) /\ r.variation_unit = app.units[i].id
    BY Zenon, <1>6 DEF OfUnit
  <1> HIDE DEF rows
  <1>10. ASSUME NEW r \in rows
         PROVE  \E k \in DOMAIN list_wit : /\ <<i, k>> \in positions /\ r = Row(<<i, k>>)
                                           /\ r.witness = list_wit[k]
                                           /\ list_wit[k] \in DOMAIN app.units[i].support
    <2>1. PICK p \in positions : r = Row(p) /\ r.variation_unit = app.units[i].id
      BY Zenon, <1>9
    <2>2. p[1] = i
      BY Zenon, <1>1, <1>4, <1>8, <2>1
    <2>3. p = <<i, p[2]>> /\ p[2] \in DOMAIN list_wit /\ list_wit[p[2]] \in DOMAIN app.units[i].support
      BY Zenon, <1>4, <2>2
    <2> QED
      BY Zenon, <1>8, <2>1, <2>3
  <1>11. ASSUME NEW k \in DOMAIN list_wit, list_wit[k] \in DOMAIN app.units[i].support
         PROVE  \E r \in rows : r.witness = list_wit[k]
    <2>1. <<i, k>> \in positions
      BY Zenon, <1>5, <1>11
    <2>2. Row(<<i, k>>).variation_unit = app.units[i].id /\ Row(<<i, k>>).witness = list_wit[k]
      BY <1>8
    <2> QED
      BY Zenon, <1>9, <2>1, <2>2
  <1>12. {r.witness : r \in rows} = Kept \cap DOMAIN app.units[i].support
    <2>1. \A r \in rows : r.witness \in Kept \cap DOMAIN app.units[i].support
      BY Zenon, <1>10 DEF Kept, ToSet
    <2>2. ASSUME NEW w \in Kept \cap DOMAIN app.units[i].support PROVE \E r \in rows : r.witness = w
      <3>1. PICK k \in DOMAIN list_wit : list_wit[k] = w
        BY Zenon DEF Kept, ToSet
      <3> QED
        BY Zenon, <1>11, <3>1
    <2> QED
      BY <2>1, <2>2
  <1>13. ASSUME NEW r \in rows
         PROVE  r.row_id \in Int /\ r.reading = app.units[i].support[r.witness]
    <2>1. PICK k \in DOMAIN list_wit : <<i, k>> \in positions /\ r = Row(<<i, k>>) /\ r.witness = list_wit[k]
      BY <1>10
    <2>2. /\ Row(<<i, k>>).row_id = RowId(<<i, k>>, positions)
          /\ Row(<<i, k>>).reading = app.units[i].support[list_wit[k]]
      BY <1>8
    <2> QED
      BY <1>7, <2>1, <2>2
  <1>14. ASSUME NEW r \in rows, NEW q \in rows, r.witness = q.witness
         PROVE  r = q
    <2>1. PICK k \in DOMAIN list_wit : r = Row(<<i, k>>) /\ r.witness = list_wit[k]
      BY <1>10
    <2>2. PICK l \in DOMAIN list_wit : q = Row(<<i, l>>) /\ q.witness = list_wit[l]
      BY <1>10
    <2>3. k = l
      BY <1>2, <1>14, <2>1, <2>2 DEF IsInjective
    <2> QED
      BY <2>1, <2>2, <2>3
  <1> QED
    BY <1>12, <1>13, <1>14 DEF rows

\* The unit of the collation, with the support of the witnesses that passed the
\* filter.
KeptUnit(unit) ==
    [unit EXCEPT !.support = [w \in Kept \cap DOMAIN unit.support |-> unit.support[w]]]

\* What a tool gets of a variation unit (print_textual_flow.cpp:133-197).
LEMMA UnitRead ==
    ASSUME ListsOK, TablesOK, Written, NEW i \in DOMAIN app.units
    PROVE  get_variation_unit(app.units[i].id) = KeptUnit(app.units[i])
  <1> DEFINE unit == app.units[i]
             row == InOrder(OfUnit("VARIATION_UNITS", unit.id))
             edges == InOrder(OfUnit("READING_RELATIONS", unit.id))
             rows == OfUnit("READING_SUPPORT", unit.id)
             LastRow(w) == CHOOSE r \in rows : r.witness = w /\
                            \A s \in rows : s.witness = w => s.row_id <= r.row_id
             support == [w \in {r.witness : r \in rows} |-> LastRow(w).reading]
             kept == [w \in Kept \cap DOMAIN unit.support |-> unit.support[w]]
  <1>1. row = <<[row_id |-> i - 1, variation_unit |-> unit.id, label |-> unit.label,
                 connectivity |-> unit.connectivity]>>
    BY UnitRow
  <1>2. Column(InOrder(OfUnit("READINGS", unit.id)), "reading") = unit.readings
    BY ReadingRows
  <1>3. [k \in DOMAIN edges |-> [prior |-> edges[k].prior, posterior |-> edges[k].posterior]] = unit.edges
    BY EdgeRows
  <1>4. support = kept
    <2>1. /\ {r.witness : r \in rows} = Kept \cap DOMAIN unit.support
          /\ \A r \in rows : r.row_id \in Int /\ r.reading = unit.support[r.witness]
          /\ \A r, q \in rows : r.witness = q.witness => r = q
      BY SupportRows
    <2> HIDE DEF rows, unit
    <2>2. ASSUME NEW w \in {r.witness : r \in rows}
          PROVE  LastRow(w).reading = unit.support[w]
      <3>1. PICK r \in rows : r.witness = w
        OBVIOUS
      <3>2. r.witness = w /\ \A s \in rows : s.witness = w => s.row_id <= r.row_id
        BY <2>1, <3>1
      <3>3. LastRow(w) \in rows /\ LastRow(w).witness = w
        BY Zenon, <3>2
      <3> QED
        BY <2>1, <3>3
    <2> QED
      BY <2>1, <2>2
  <1>5. get_variation_unit(unit.id)
          = [id |-> unit.id,
             label |-> IF row = <<>> THEN "" ELSE row[1].label,
             connectivity |-> IF row = <<>> THEN 0 ELSE row[1].connectivity,
             readings |-> Column(InOrder(OfUnit("READINGS", unit.id)), "reading"),
             edges |-> [k \in DOMAIN edges |-> [prior |-> edges[k].prior, posterior |-> edges[k].posterior]],
             support |-> support]
    BY Zenon DEF get_variation_unit, UnitOfRows
  <1>6. row # <<>> /\ row[1].label = unit.label /\ row[1].connectivity = unit.connectivity
    BY <1>1
  <1>7. unit \in [id : STRING, label : STRING, connectivity : Int, readings : Seq(STRING),
                  edges : Seq([prior : STRING, posterior : STRING]),
                  support : [DOMAIN unit.support -> ToSet(unit.readings)]]
    BY UnitsOf DEF ListsOK, IsUnit
  <1>8. KeptUnit(unit) = [unit EXCEPT !.support = kept]
    BY DEF KeptUnit
  <1> HIDE DEF unit, row, edges, rows, support, kept
  <1>9. get_variation_unit(unit.id)
          = [id |-> unit.id, label |-> unit.label, connectivity |-> unit.connectivity,
             readings |-> unit.readings, edges |-> unit.edges, support |-> kept]
    BY <1>2, <1>3, <1>4, <1>5, <1>6
  <1>10. [unit EXCEPT !.support = kept]
          = [id |-> unit.id, label |-> unit.label, connectivity |-> unit.connectivity,
             readings |-> unit.readings, edges |-> unit.edges, support |-> kept]
    BY <1>7
  <1> QED
    BY <1>8, <1>9, <1>10 DEF unit

-----------------------------------------------------------------------------
(* The comparison of two witnesses (lib/open-cbgm). *)

\* The bits of a comparison are positions of units; those of a witness with
\* itself are the units that it is extant in.
LEMMA ComparisonBits ==
    ASSUME app \in Apparatuses, NEW w, NEW v
    PROVE  /\ \A type \in Types : Comparison(w, v)[type] \subseteq Bits
           /\ Comparison(w, w).extant = {i - 1 : i \in {k \in DOMAIN app.units : w \in DOMAIN app.units[k].support}}
           /\ Comparison(w, v).explained \subseteq Comparison(w, w).extant
  <1> DEFINE Both == {j \in DOMAIN app.units : {w, v} \subseteq DOMAIN app.units[j].support}
             Rdg(j, x) == app.units[j].support[x]
             Same == {j \in Both : Rdg(j, w) = Rdg(j, v)}
             Before(x, y) == {j \in Both \ Same : Ancestor(app.units[j], Rdg(j, x), Rdg(j, y))}
             Prior == Before(w, v)
             Posterior == Before(v, w)
             Rest == Both \ (Same \cup Prior \cup Posterior)
             Norel == {j \in Rest : CommonSource(app.units[j], Rdg(j, w), Rdg(j, v))}
             BitsOf(js) == {j - 1 : j \in js}
             c == Comparison(w, v)
  <1>1. /\ c.extant = BitsOf(Both) /\ c.agreements = BitsOf(Same)
        /\ c.prior = BitsOf(Prior) /\ c.posterior = BitsOf(Posterior)
        /\ c.norel = BitsOf(Norel) /\ c.unclear = BitsOf(Rest \ Norel)
        /\ c.explained = BitsOf(Same \cup Posterior)
    BY DEF Comparison
  <1>2. /\ Same \subseteq Both /\ Prior \subseteq Both /\ Posterior \subseteq Both
        /\ Both \subseteq DOMAIN app.units
        /\ Both \subseteq {k \in DOMAIN app.units : w \in DOMAIN app.units[k].support}
        /\ Norel \subseteq Both /\ Rest \ Norel \subseteq Both
    OBVIOUS
  <1>3. DOMAIN app.units = 1..Len(app.units) /\ Len(app.units) \in Nat
    BY UnitsOf
  <1>4. Comparison(w, w).extant = {i - 1 : i \in {k \in DOMAIN app.units : w \in DOMAIN app.units[k].support}}
    <2>1. {j \in DOMAIN app.units : {w, w} \subseteq DOMAIN app.units[j].support}
            = {k \in DOMAIN app.units : w \in DOMAIN app.units[k].support}
      OBVIOUS
    <2>2. Comparison(w, w).extant
            = {j - 1 : j \in {j \in DOMAIN app.units : {w, w} \subseteq DOMAIN app.units[j].support}}
      BY DEF Comparison
    <2> QED
      BY Zenon, <2>1, <2>2
  <1> HIDE DEF Both, Same, Prior, Posterior, Rest, Norel, c
  <1>5. \A js : js \subseteq Both => BitsOf(js) \subseteq Bits
    BY <1>2, <1>3 DEF Bits
  <1>6. \A js : js \subseteq Both => BitsOf(js) \subseteq Comparison(w, w).extant
    BY <1>2, <1>4
  <1>7. \A type \in Types : c[type] \subseteq Bits
    <2>1. Same \cup Posterior \subseteq Both
      BY <1>2
    <2> HIDE DEF BitsOf
    <2> QED
      BY <1>1, <1>2, <1>5, <2>1 DEF Types
  <1>8. c.explained \subseteq Comparison(w, w).extant
    <2>1. Same \cup Posterior \subseteq Both
      BY <1>2
    <2> HIDE DEF BitsOf
    <2> QED
      BY <1>1, <1>6, <2>1
  <1> QED
    BY <1>4, <1>7, <1>8 DEF c

\* The comparisons in the table name passages of the collation
\* (enumerate_relationships.cpp:187-221).
LEMMA TableBits ==
    ASSUME ListsOK, TablesOK
    PROVE  \A r \in db["GENEALOGICAL_COMPARISONS"], type \in Types : r.comp[type] \subseteq Bits
  <1> DEFINE comps == db["GENEALOGICAL_COMPARISONS"]
  <1>1. comps = {} \/ comps = GenealogicalComparisons
    <2>1. "GENEALOGICAL_COMPARISONS" \in ToSet(Tables)
      BY DEF ToSet, Tables
    <2>2. Contents("GENEALOGICAL_COMPARISONS") = GenealogicalComparisons
      BY DEF Contents
    <2> QED
      BY <2>1, <2>2 DEF TablesOK
  <1>2. ASSUME NEW r \in comps
        PROVE  \E w, v : r.comp = Comparison(w, v)
    BY <1>1 DEF GenealogicalComparisons
  <1>3. app \in Apparatuses
    BY DEF ListsOK
  <1> QED
    BY <1>2, <1>3, ComparisonBits

\* The passages that a witness is extant in are counted by populate_db and by the
\* tools in the same way (populate_db.cpp:566, find_relatives.cpp:103-112).
LEMMA OwnExtent ==
    ASSUME app \in Apparatuses, NEW w
    PROVE  /\ Cardinality(Comparison(w, w).extant) = ExtantPassages(w)
           /\ ExtantPassages(w) \in Nat
  <1> DEFINE S == {k \in DOMAIN app.units : w \in DOMAIN app.units[k].support}
             T == {i - 1 : i \in S}
             f == [i \in S |-> i - 1]
  <1>1. Comparison(w, w).extant = T
    BY ComparisonBits
  <1>2. S \in SUBSET Int /\ IsFiniteSet(S)
    <2>1. DOMAIN app.units = 1..Len(app.units) /\ Len(app.units) \in Nat
      BY UnitsOf
    <2>2. IsFiniteSet(1..Len(app.units))
      BY <2>1, IntervalFinite
    <2>3. S \in SUBSET (1..Len(app.units)) /\ S \in SUBSET Int
      BY <2>1
    <2> HIDE DEF S
    <2> QED
      BY <2>2, <2>3, FS_Subset
  <1>3. ExtantPassages(w) = Cardinality(S)
    BY DEF ExtantPassages
  <1> HIDE DEF S
  <1>4. f \in Surjection(S, T) /\ f \in Injection(S, T)
    <2>1. f \in [S -> T] /\ \A t \in T : \E i \in S : f[i] = t
      OBVIOUS
    <2>2. \A i, j \in S : f[i] = f[j] => i = j
      BY <1>2
    <2> HIDE DEF f, T
    <2> QED
      BY <2>1, <2>2 DEF Surjection, Injection, IsInjective
  <1> HIDE DEF f, T
  <1>5. Cardinality(T) = Cardinality(S)
    BY <1>2, <1>4, FS_Surjection
  <1> QED
    BY <1>1, <1>2, <1>3, <1>5, FS_CardinalityType

\* Every product has a last bit.
LEMMA LastBitExists ==
    ASSUME NEW x \in Nat, x < 2199023255552
    PROVE  LastBit(x) \in LastBits
  <1>1. \E b \in LastBits : x \div b < MaxSignificand /\ (b = 1 \/ x \div b >= 8388608)
    BY SMTT(60) DEF LastBits, MaxSignificand
  <1> QED
    BY SMT, <1>1 DEF LastBit

\* The minimum of extant passages is an integer (the conversion in
\* find_relatives.cpp:384).
LEMMA MinExtantInt ==
    ASSUME NEW h \in 1..100, NEW n \in Nat, n <= MaxUnits
    PROVE  MinExtant(h, n) \in Int
  <1>1. \A x \in Int, unit \in LastBits \cup {100} :
           /\ Nearest(x, unit) \in Int
           /\ 2 * (Nearest(x, unit) * unit) <= 2 * x + unit
           /\ 2 * x <= 2 * (Nearest(x, unit) * unit) + unit
    BY SMT DEF Nearest, LastBits
  <1>2. Scale(h) \in Scales /\ 838860800 <= h * Scale(h) /\ h * Scale(h) < 1677721600
    <2>1. \E s \in Scales : 838860800 <= h * s /\ h * s < 1677721600
      BY SMTT(60) DEF Scales
    <2> QED
      BY SMT, <2>1 DEF Scale
  <1>3. Significand(h) \in Nat /\ Significand(h) <= MaxSignificand
    <2> DEFINE hs == h * Scale(h)
    <2>1. hs \in Int /\ 838860800 <= hs /\ hs < 1677721600 /\ Significand(h) = Nearest(hs, 100)
      BY SMT, <1>2 DEF Scales, Significand
    <2> HIDE DEF hs
    <2>2. /\ Nearest(hs, 100) \in Int
          /\ 2 * (Nearest(hs, 100) * 100) <= 2 * hs + 100
          /\ 2 * hs <= 2 * (Nearest(hs, 100) * 100) + 100
      BY SMT, <1>1, <2>1
    <2> QED
      BY SMT, <2>1, <2>2 DEF MaxSignificand
  <1> DEFINE x == Significand(h) * n
  <1>4. x \in Nat /\ x < 2199023255552
    <2>1. Significand(h) * n <= MaxSignificand * n
      BY SMT, <1>3 DEF MaxSignificand
    <2> QED
      BY SMT, <1>3, <2>1 DEF MaxSignificand, MaxUnits
  <1> HIDE DEF x
  <1>5. Rounded(x) \in Int
    <2>1. LastBit(x) \in LastBits
      BY <1>4, LastBitExists
    <2>2. Nearest(x, LastBit(x)) \in Int /\ LastBit(x) \in Int
      <3>1. LastBit(x) \in LastBits \cup {100} /\ x \in Int
        BY <1>4, <2>1
      <3>2. Nearest(x, LastBit(x)) \in Int
        BY Zenon, <1>1, <3>1
      <3> QED
        BY <2>1, <3>2 DEF LastBits
    <2> QED
      BY SMT, <2>2 DEF Rounded
  <1>6. Ceil(Rounded(x), Scale(h)) \in Int
    BY SMT, <1>2, <1>5 DEF Ceil, Scales
  <1> QED
    BY Zenon, <1>6 DEF MinExtant, x

\* A minimum of extant passages that is not above the threshold of populate_db
\* excludes nobody (populate_db.cpp:562-569, find_relatives.cpp:381-387).
LEMMA NobodyFragmentary ==
    ASSUME ListsOK, TablesOK, Written,
           NEW min_extant \in Int, min_extant <= threshold
    PROVE  Fragmentary(min_extant) = {}
  <1>1. app \in Apparatuses /\ threshold \in Nat /\ \A w \in Kept : ExtantPassages(w) >= threshold
    BY ThresholdsAssumption, OwnExtent DEF ListsOK, Written
  <1>2. ASSUME NEW r \in db["GENEALOGICAL_COMPARISONS"], r.primary_wit = r.secondary_wit
        PROVE  ~(Cardinality(r.comp.extant) < min_extant)
    <2>1. r.primary_wit \in Kept /\ r.comp = Comparison(r.primary_wit, r.primary_wit)
      BY <1>2, ComparisonRows
    <2>2. /\ Cardinality(r.comp.extant) = ExtantPassages(r.primary_wit)
          /\ ExtantPassages(r.primary_wit) \in Nat
      BY <1>1, <2>1, OwnExtent
    <2> QED
      BY <1>1, <2>1, <2>2
  <1> QED
    BY <1>2 DEF Fragmentary

-----------------------------------------------------------------------------
(* The order of the queries. *)

\* The queries of a tool are distinct.
LEMMA QueriesDistinct ==
    ASSUME NEW t \in Tools
    PROVE  /\ Len(Queries(t)) \in Nat /\ Len(Queries(t)) >= 3 /\ DOMAIN Queries(t) = 1..Len(Queries(t))
           /\ \A j, k \in 1..Len(Queries(t)) : Queries(t)[j] = Queries(t)[k] => j = k
  <1>1. CASE t = "compare_witnesses" BY <1>1 DEF Queries
  <1>2. CASE t = "find_relatives" BY <1>2 DEF Queries
  <1>3. CASE t = "optimize_substemmata" BY <1>3 DEF Queries
  <1>4. CASE t = "enumerate_relationships" BY <1>4 DEF Queries
  <1>5. CASE t = "print_local_stemma" BY <1>5 DEF Queries
  <1>6. CASE t = "print_textual_flow" BY <1>6 DEF Queries
  <1>7. CASE t = "print_global_stemma" BY <1>7 DEF Queries
  <1> QED
    BY <1>1, <1>2, <1>3, <1>4, <1>5, <1>6, <1>7 DEF Tools

\* What comes before what.  -p is evaluated before the list and the comparisons
\* are read (find_relatives.cpp:381-402), and the passages are checked between
\* the query of the IDs and that of the units (print_textual_flow.cpp:366-398).
LEMMA QueriesOrdered ==
    ASSUME NEW t \in Tools, NEW j \in 1..Len(Queries(t)), NEW k \in 1..Len(Queries(t))
    PROVE  /\ Queries(t)[j] = "proportion" =>
                t \in Excluding /\ (Queries(t)[k] \in {"list", "witness", "witnesses"} => j < k)
           /\ Queries(t)[j] = "list" => Queries(t)[k] # "witnesses" \/ j < k
           /\ Queries(t)[j] = "ids" => Queries(t)[k] \notin {"passages", "units"} \/ j < k
           /\ Queries(t)[j] = "passages" => Queries(t)[k] # "units" \/ j < k
           /\ Queries(t)[j] = "witness" => Queries(t)[k] # "witnesses"
           /\ Queries(t)[j] = "unit" => Queries(t)[k] # "units"
           /\ Queries(t)[j] = "diagnose" => t = "optimize_substemmata" /\ j = Len(Queries(t))
           /\ Queries(t)[j] = "comparison" =>
                 t = "enumerate_relationships" /\ j = Len(Queries(t)) /\ Queries(t)[k] # "passages"
  <1>1. CASE t = "compare_witnesses" BY <1>1 DEF Queries, Excluding
  <1>2. CASE t = "find_relatives" BY <1>2 DEF Queries, Excluding
  <1>3. CASE t = "optimize_substemmata" BY <1>3 DEF Queries, Excluding
  <1>4. CASE t = "enumerate_relationships" BY <1>4 DEF Queries, Excluding
  <1>5. CASE t = "print_local_stemma" BY <1>5 DEF Queries, Excluding
  <1>6. CASE t = "print_textual_flow" BY <1>6 DEF Queries, Excluding
  <1>7. CASE t = "print_global_stemma" BY <1>7 DEF Queries, Excluding
  <1> QED
    BY <1>1, <1>2, <1>3, <1>4, <1>5, <1>6, <1>7 DEF Tools

\* The queries that the last ones rest on.
LEMMA QueriesBefore ==
    ASSUME NEW t \in Tools, NEW j \in 1..Len(Queries(t))
    PROVE  /\ Queries(t)[j] = "passages" => \E k \in 1..(j - 1) : Queries(t)[k] = "ids"
           /\ Queries(t)[j] = "diagnose" =>
                /\ \E k \in 1..(j - 1) : Queries(t)[k] = "exists"
                /\ \E k \in 1..(j - 1) : Queries(t)[k] = "witness"
           /\ Queries(t)[j] = "comparison" =>
                /\ \E k \in 1..(j - 1) : Queries(t)[k] = "exists"
                /\ \E k \in 1..(j - 1) : Queries(t)[k] = "secondary"
                /\ \E k \in 1..(j - 1) : Queries(t)[k] = "ids"
  <1>1. CASE t = "compare_witnesses" BY <1>1 DEF Queries
  <1>2. CASE t = "find_relatives" BY <1>2 DEF Queries
  <1>3. CASE t = "optimize_substemmata" BY <1>3 DEF Queries
  <1>4. CASE t = "enumerate_relationships" BY <1>4 DEF Queries
  <1>5. CASE t = "print_local_stemma" BY <1>5 DEF Queries
  <1>6. CASE t = "print_textual_flow" BY <1>6 DEF Queries
  <1>7. CASE t = "print_global_stemma" BY <1>7 DEF Queries
  <1> QED
    BY <1>1, <1>2, <1>3, <1>4, <1>5, <1>6, <1>7 DEF Tools

-----------------------------------------------------------------------------
(* Steps of a tool. *)

\* A query that comes next is one of its tool's.
LEMMA AtQuery ==
    ASSUME TypeOK, NEW name, At(name)
    PROVE  /\ tool \in Tools /\ tool # "none" /\ opts \in Options(tool) /\ outcome = "none"
           /\ Len(Queries(tool)) \in Nat
           /\ query \in 1..Len(Queries(tool)) /\ Queries(tool)[query] = name
  <1>1. tool \in Tools /\ tool # "none" /\ outcome = "none" /\ Queries(tool)[query] = name
    BY DEF At, TypeOK
  <1>2. Len(Queries(tool)) \in Nat
    BY <1>1, QueriesDistinct
  <1>3. opts \in Options(tool) /\ query \in 1..(Len(Queries(tool)) + 1) /\ query # Len(Queries(tool)) + 1
    BY <1>1, Zenon DEF TypeOK
  <1> QED
    BY <1>1, <1>2, <1>3

\* After a query, that one has passed and the others as before.
LEMMA PassedNext ==
    ASSUME TypeOK, NEW name, At(name), UNCHANGED tool, Continue
    PROVE  \A other : Passed(other)' <=> Passed(other) \/ other = name
  <1>1. /\ tool # "none" /\ query \in 1..Len(Queries(tool)) /\ Queries(tool)[query] = name
        /\ Len(Queries(tool)) \in Nat
    BY AtQuery
  <1>2. tool' = tool /\ query' = query + 1
    BY DEF Continue
  <1>3. 1..(query' - 1) = 1..(query - 1) \cup {query}
    BY <1>1, <1>2
  <1> QED
    BY <1>1, <1>2, <1>3 DEF Passed

\* After an exit, the same queries have passed.
LEMMA PassedEnd ==
    ASSUME UNCHANGED <<tool, query>>
    PROVE  \A other : Passed(other)' <=> Passed(other)
  BY DEF Passed

\* Queries that cannot have passed yet.
LEMMA NotYet ==
    ASSUME TypeOK
    PROVE  /\ \A name : At(name) => ~Passed(name)
           /\ At("proportion") => /\ tool \in Excluding
                                  /\ ~Passed("list") /\ ~Passed("witness") /\ ~Passed("witnesses")
           /\ At("list") => ~Passed("witnesses")
           /\ At("ids") => ~Passed("passages") /\ ~Passed("units")
           /\ At("passages") => ~Passed("units")
           /\ At("witness") => ~Passed("witnesses")
           /\ At("witnesses") => ~Passed("witness")
           /\ At("unit") => ~Passed("units")
           /\ At("units") => ~Passed("unit")
           /\ At("diagnose") => tool = "optimize_substemmata" /\ query = Len(Queries(tool))
           /\ At("comparison") => /\ tool = "enumerate_relationships" /\ query = Len(Queries(tool))
                                  /\ ~Passed("passages")
  <1>1. ASSUME NEW name, At(name)
        PROVE  /\ tool \in Tools /\ query \in 1..Len(Queries(tool)) /\ Queries(tool)[query] = name
               /\ \A other : Passed(other) =>
                    \E k \in 1..Len(Queries(tool)) : Queries(tool)[k] = other /\ ~(query < k)
    <2>1. /\ tool \in Tools /\ Len(Queries(tool)) \in Nat
          /\ query \in 1..Len(Queries(tool)) /\ Queries(tool)[query] = name
      BY <1>1, AtQuery
    <2>2. \A k \in 1..(query - 1) : k \in 1..Len(Queries(tool)) /\ ~(query < k)
      BY <2>1
    <2> QED
      BY Zenon, <2>1, <2>2 DEF Passed
  <1>10. ASSUME NEW name, At(name)
         PROVE  ~Passed(name)
    <2>1. /\ tool \in Tools /\ Len(Queries(tool)) \in Nat
          /\ query \in 1..Len(Queries(tool)) /\ Queries(tool)[query] = name
      BY <1>10, AtQuery
    <2> QED
      BY <2>1, QueriesDistinct DEF Passed
  <1>2. At("proportion") => /\ tool \in Excluding
                            /\ ~Passed("list") /\ ~Passed("witness") /\ ~Passed("witnesses")
    BY <1>1, QueriesOrdered
  <1>3. At("list") => ~Passed("witnesses")
    BY <1>1, QueriesOrdered
  <1>4. At("ids") => ~Passed("passages") /\ ~Passed("units")
    BY <1>1, QueriesOrdered
  <1>5. At("passages") => ~Passed("units")
    BY <1>1, QueriesOrdered
  <1>6. (At("witness") => ~Passed("witnesses")) /\ (At("witnesses") => ~Passed("witness"))
    BY <1>1, QueriesOrdered
  <1>7. (At("unit") => ~Passed("units")) /\ (At("units") => ~Passed("unit"))
    BY <1>1, QueriesOrdered
  <1>8. At("diagnose") => tool = "optimize_substemmata" /\ query = Len(Queries(tool))
    BY <1>1, QueriesOrdered
  <1>9. At("comparison") => /\ tool = "enumerate_relationships" /\ query = Len(Queries(tool))
                            /\ ~Passed("passages")
    BY <1>1, QueriesOrdered
  <1> QED
    BY <1>10, <1>2, <1>3, <1>4, <1>5, <1>6, <1>7, <1>8, <1>9

\* What the other queries have found is not disturbed, as long as what it rests
\* on stays as it is.
LEMMA FoundKept ==
    ASSUME QueriesOK, UNCHANGED <<db, opts>>,
           NEW name, \A other : other # name => (Passed(other)' <=> Passed(other))
    PROVE  /\ name # "exists" => ExistsFound'
           /\ name \notin {"secondaries", "secondary"} => SecondariesFound'
           /\ name # "list" /\ (UNCHANGED <<selected, excluded_wit_ids>> \/ ~Passed("list")) => ListFound'
           /\ name # "witness" /\ (UNCHANGED <<wits, excluded_wit_ids>> \/ ~Passed("witness")) => WitnessFound'
           /\ name # "witnesses" /\ (UNCHANGED <<selected, wits, excluded_wit_ids>> \/ ~Passed("witnesses"))
                => WitnessesFound'
           /\ name \notin {"ids", "passages"} /\ UNCHANGED vu_ids => IdsFound'
           /\ name # "unit" /\ (UNCHANGED vus \/ ~Passed("unit")) => UnitFound'
           /\ name # "units" /\ (UNCHANGED <<vu_ids, vus>> \/ ~Passed("units")) => UnitsFound'
  <1> USE DEF QueriesOK
  <1>1. name # "exists" => ExistsFound'
    BY DEF ExistsFound, witness_exists
  <1>2. name \notin {"secondaries", "secondary"} => SecondariesFound'
    BY DEF SecondariesFound, witness_exists
  <1>3. name # "list" /\ (UNCHANGED <<selected, excluded_wit_ids>> \/ ~Passed("list")) => ListFound'
    BY DEF ListFound, get_list_wit
  <1>4. name # "witness" /\ (UNCHANGED <<wits, excluded_wit_ids>> \/ ~Passed("witness")) => WitnessFound'
    BY DEF WitnessFound, get_witness
  <1>5. name # "witnesses" /\ (UNCHANGED <<selected, wits, excluded_wit_ids>> \/ ~Passed("witnesses"))
                => WitnessesFound'
    BY DEF WitnessesFound, get_witness
  <1>6. name \notin {"ids", "passages"} /\ UNCHANGED vu_ids => IdsFound'
    BY DEF IdsFound, variation_unit_ids
  <1>7. name # "unit" /\ (UNCHANGED vus \/ ~Passed("unit")) => UnitFound'
    BY DEF UnitFound, variation_unit_exists, get_variation_unit, OfUnit
  <1>8. name # "units" /\ (UNCHANGED <<vu_ids, vus>> \/ ~Passed("units")) => UnitsFound'
    BY DEF UnitsFound, get_variation_unit, OfUnit
  <1> QED
    BY <1>1, <1>2, <1>3, <1>4, <1>5, <1>6, <1>7, <1>8

-----------------------------------------------------------------------------
(* Steps of populate_db. *)

\* A table depends on the collation and on the lists only
\* (populate_db.cpp:625-637).
LEMMA ContentsSame ==
    ASSUME UNCHANGED <<app, list_wit, witnesses>>
    PROVE  \A table \in ToSet(Tables) : Contents(table)' = Contents(table)
  <1>1. Readings' = Readings
    BY DEF Readings
  <1>2. ReadingRelations' = ReadingRelations
    BY DEF ReadingRelations
  <1>3. ReadingSupport' = ReadingSupport
    BY DEF ReadingSupport
  <1>4. VariationUnits' = VariationUnits
    BY DEF VariationUnits
  <1>5. GenealogicalComparisons' = GenealogicalComparisons
    BY DEF GenealogicalComparisons, Comparison
  <1>6. Witnesses' = Witnesses
    BY DEF Witnesses
  <1> QED
    BY <1>1, <1>2, <1>3, <1>4, <1>5, <1>6 DEF Contents

\* The library's results depend on the collation only.
LEMMA CollationSame ==
    ASSUME UNCHANGED app
    PROVE  /\ \A w, v : Comparison(w, v)' = Comparison(w, v)
           /\ \A w : ExtantPassages(w)' = ExtantPassages(w)
  BY DEF Comparison, ExtantPassages

\* No table is filled before the first function is called.
LEMMA NothingFilled ==
    ASSUME step \in {"filter", "witnesses", "READINGS"}
    PROVE  \A table \in ToSet(Tables) : ~Filled(table)
  BY DEF Filled, Written, Tables, ToSet

\* A function fills its table, in the order of main (populate_db.cpp:625-637).
LEMMA OneMoreFilled ==
    ASSUME NEW t \in DOMAIN Tables, step = Tables[t],
           step' = IF t < Len(Tables) THEN Tables[t + 1] ELSE "written"
    PROVE  \A table \in ToSet(Tables) : Filled(table)' <=> Filled(table) \/ table = Tables[t]
  <1>1. /\ Tables = <<"READINGS", "READING_RELATIONS", "READING_SUPPORT", "VARIATION_UNITS",
                      "GENEALOGICAL_COMPARISONS", "WITNESSES">>
        /\ Len(Tables) = 6 /\ DOMAIN Tables = 1..6
    BY DEF Tables
  <1>2. \A j, k \in 1..6 : Tables[j] = Tables[k] => j = k
    BY <1>1
  <1>3. \A j \in 1..6 : Tables[j] # "written"
    BY <1>1
  <1>4. \A table \in ToSet(Tables) : \E k \in 1..6 : table = Tables[k]
    BY <1>1 DEF ToSet
  <1>5. \A k \in 1..6 : Filled(Tables[k]) <=> k < t
    BY <1>1, <1>2, <1>3 DEF Filled, Written
  <1>6. \A k \in 1..6 : Filled(Tables[k])' <=> k < t + 1
    <2>1. CASE t < 6
      <3>1. step' = Tables[t + 1] /\ t + 1 \in 1..6
        BY <1>1, <2>1
      <3> QED
        BY <1>1, <1>2, <1>3, <3>1 DEF Filled, Written
    <2>2. CASE t = 6
      BY <1>1, <2>2 DEF Filled, Written
    <2> QED
      BY <1>1, <2>1, <2>2
  <1> QED
    BY <1>1, <1>2, <1>4, <1>5, <1>6

\* Before populate_db starts there are no tables (populate_db.cpp:553-559).
LEMMA CacheInit ==
    ASSUME PopInit
    PROVE  ListsOK /\ TablesOK
  <1>1. ListsOK
    <2>1. app \in Apparatuses /\ list_wit = app.list_wit /\ app.list_wit \in Seq(STRING)
          /\ IsInjective(app.list_wit) /\ threshold \in Thresholds /\ step = "filter"
      BY ApparatusesAssumption DEF PopInit
    <2>2. list_wit \in Seq(ToSet(app.list_wit))
      BY <2>1 DEF ToSet
    <2> QED
      BY <2>1, <2>2 DEF ListsOK
  <1>2. TablesOK
    BY NothingFilled DEF PopInit, TablesOK, EmptyDB
  <1> QED
    BY <1>1, <1>2

\* What does not touch the cache leaves it in order.
LEMMA CacheKept ==
    ASSUME ListsOK, TablesOK, UNCHANGED popVars
    PROVE  ListsOK' /\ TablesOK'
  <1> USE DEF popVars
  <1>1. ListsOK'
    BY CollationSame DEF ListsOK, Kept
  <1>2. \A table \in ToSet(Tables) : (Filled(table)' <=> Filled(table)) /\ Contents(table)' = Contents(table)
    BY ContentsSame DEF Filled, Written
  <1>3. TablesOK'
    BY <1>2 DEF TablesOK
  <1> QED
    BY <1>1, <1>3

\* The orders of a finite list's elements hold each of them, once
\* (populate_db.cpp:583-609).
LEMMA OrdersOf ==
    ASSUME ListsOK, NEW s \in SetToSeqs(Kept)
    PROVE  s \in Seq(Kept) /\ IsInjective(s) /\ Kept \subseteq ToSet(s)
  <1> DEFINE n == Cardinality(Kept)
  <1>1. IsFiniteSet(Kept)
    <2>1. list_wit \in Surjection(1..Len(list_wit), Kept) /\ Len(list_wit) \in Nat
      BY DEF ListsOK, Kept, ToSet, Surjection
    <2>2. IsFiniteSet(1..Len(list_wit))
      BY <2>1, IntervalFinite
    <2> QED
      BY <2>1, <2>2, FS_Surjection
  <1>2. n \in Nat /\ IsFiniteSet(1..n) /\ Cardinality(1..n) = n
    BY <1>1, FS_CardinalityType, FS_Interval
  <1>3. s \in [1..n -> Kept] /\ IsInjective(s)
    BY DEF SetToSeqs, IsInjective
  <1>4. s \in Injection(1..n, Kept)
    BY <1>3 DEF Injection
  <1>5. s \in Surjection(1..n, Kept)
    BY <1>1, <1>2, <1>4, FS_Injection
  <1> QED
    BY <1>2, <1>3, <1>5 DEF Surjection, ToSet

\* Each step of populate_db leaves the lists and the tables in order
\* (populate_db.cpp:559-637).
LEMMA CacheStep ==
    ASSUME ListsOK, TablesOK, PopNext
    PROVE  ListsOK' /\ TablesOK'
  <1>1. CASE Filter
    <2>1. /\ step = "filter" /\ step' = "witnesses"
          /\ UNCHANGED <<app, threshold, witnesses, db>>
      BY <1>1 DEF Filter
    <2>2. /\ list_wit' \in Seq(ToSet(app.list_wit)) /\ IsInjective(list_wit')
          /\ threshold > 0 => \A w \in ToSet(list_wit') : ExtantPassages(w) >= threshold
      <3>1. CASE threshold > 0
        <4> DEFINE S == {w \in ToSet(list_wit) : ExtantPassages(w) >= threshold}
        <4>1. list_wit' = Keep(list_wit, S)
          BY <1>1, <3>1 DEF Filter
        <4>2. /\ Keep(list_wit, S) \in Seq(ToSet(app.list_wit)) /\ IsInjective(Keep(list_wit, S))
              /\ ToSet(Keep(list_wit, S)) = ToSet(list_wit) \cap S
          BY KeepOf DEF ListsOK
        <4> QED
          BY <4>1, <4>2
      <3>2. CASE ~(threshold > 0)
        BY <1>1, <3>2 DEF Filter, ListsOK
      <3> QED
        BY <3>1, <3>2
    <2>3. ListsOK'
      BY <2>1, <2>2, CollationSame DEF ListsOK, Kept
    <2>4. \A table \in ToSet(Tables) : ~Filled(table) /\ ~Filled(table)'
      BY <2>1, NothingFilled DEF Filled, Written, Tables, ToSet
    <2>5. TablesOK'
      BY <2>1, <2>4 DEF TablesOK
    <2> QED
      BY <2>3, <2>5
  <1>2. CASE InitWitnesses
    <2>1. /\ step = "witnesses" /\ step' = "READINGS" /\ witnesses' \in SetToSeqs(Kept)
          /\ UNCHANGED <<app, threshold, list_wit, db>>
      BY <1>2 DEF InitWitnesses, Kept
    <2>2. witnesses' \in Seq(Kept) /\ IsInjective(witnesses') /\ Kept \subseteq ToSet(witnesses')
      BY <2>1, OrdersOf
    <2>3. ListsOK'
      BY <2>1, <2>2, CollationSame DEF ListsOK, Kept
    <2>4. \A table \in ToSet(Tables) : ~Filled(table) /\ ~Filled(table)'
      BY <2>1, NothingFilled DEF Filled, Written, Tables, ToSet
    <2>5. TablesOK'
      BY <2>1, <2>4 DEF TablesOK
    <2> QED
      BY <2>3, <2>5
  <1>3. ASSUME NEW t \in DOMAIN Tables, PopulateTable(t)
        PROVE  ListsOK' /\ TablesOK'
    <2>1. /\ step = Tables[t] /\ step' = IF t < Len(Tables) THEN Tables[t + 1] ELSE "written"
          /\ db' = [db EXCEPT ![Tables[t]] = Contents(Tables[t])]
          /\ UNCHANGED <<app, threshold, list_wit, witnesses>>
      BY <1>3 DEF PopulateTable
    <2>2. step \notin {"filter", "witnesses"}
      BY <2>1 DEF Tables
    <2>3. ListsOK'
      BY <2>1, <2>2, CollationSame DEF ListsOK, Kept
    <2>4. /\ \A table \in ToSet(Tables) : Filled(table)' <=> Filled(table) \/ table = Tables[t]
          /\ \A table \in ToSet(Tables) : Contents(table)' = Contents(table)
          /\ Tables[t] \in ToSet(Tables)
      BY <2>1, OneMoreFilled, ContentsSame DEF ToSet
    <2>5. TablesOK'
      BY <2>1, <2>4 DEF TablesOK
    <2> QED
      BY <2>3, <2>5
  <1> QED
    BY <1>1, <1>2, <1>3 DEF PopNext

-----------------------------------------------------------------------------
(* What the queries have found. *)

\* The parts of the step of a tool that are common to its queries.
LEMMA OneQuery ==
    ASSUME TypeOK, QueriesOK, UNCHANGED <<db, tool, opts>>, NEW name, At(name),
           Continue \/ UNCHANGED query
    PROVE  /\ \A other : other # name => (Passed(other)' <=> Passed(other))
           /\ UNCHANGED query => \A other : Passed(other)' <=> Passed(other)
           /\ Continue => Passed(name)'
           /\ UNCHANGED query /\ UNCHANGED <<excluded_wit_ids, selected, wits, vu_ids, vus>> => QueriesOK'
  <1>1. UNCHANGED query => \A other : Passed(other)' <=> Passed(other)
    BY PassedEnd
  <1>2. Continue => \A other : Passed(other)' <=> Passed(other) \/ other = name
    BY PassedNext
  <1>3. ASSUME UNCHANGED query, UNCHANGED <<excluded_wit_ids, selected, wits, vu_ids, vus>>
        PROVE  QueriesOK'
    <2> DEFINE none == ""
    <2>1. /\ \A other : other # none => (Passed(other)' <=> Passed(other))
          /\ none \notin {"exists", "secondaries", "secondary", "list", "witness", "witnesses",
                          "ids", "passages", "unit", "units"}
      BY <1>1, <1>3
    <2> HIDE DEF none
    <2>2. /\ none # "exists" => ExistsFound'
          /\ none \notin {"secondaries", "secondary"} => SecondariesFound'
          /\ none # "list" => ListFound'
          /\ none # "witness" => WitnessFound'
          /\ none # "witnesses" => WitnessesFound'
          /\ none \notin {"ids", "passages"} => IdsFound'
          /\ none # "unit" => UnitFound'
          /\ none # "units" => UnitsFound'
      BY <1>3, <2>1, FoundKept
    <2> QED
      BY <2>1, <2>2 DEF QueriesOK
  <1> QED
    BY <1>1, <1>2, <1>3

\* What the queries have found is what they would find again: a step of a tool
\* adds one result, and the set of the excluded witnesses changes only before a
\* result depends on it (find_relatives.cpp:358-444, print_textual_flow.cpp:341-420).
LEMMA QueriesStep ==
    ASSUME TypeOK, QueriesOK, ToolStep
    PROVE  QueriesOK'
  <1> USE DEF popVars
  <1>1. CASE AddFragmentary
    <2>1. At("proportion") /\ Continue /\ UNCHANGED <<db, tool, opts, selected, wits, vu_ids, vus>>
      BY <1>1 DEF AddFragmentary
    <2>2. ~Passed("list") /\ ~Passed("witness") /\ ~Passed("witnesses")
      BY <2>1, NotYet
    <2> QED
      BY <2>1, <2>2, OneQuery, FoundKept DEF QueriesOK
  <1>2. CASE ListWitnesses
    <2>1. At("list") /\ Continue /\ UNCHANGED <<db, tool, opts, excluded_wit_ids, wits, vu_ids, vus>>
      BY <1>2 DEF ListWitnesses
    <2>2. ListFound'
      BY <1>2 DEF ListWitnesses, ListFound, get_list_wit
    <2>3. ~Passed("witnesses")
      BY <2>1, NotYet
    <2> QED
      BY <2>1, <2>2, <2>3, OneQuery, FoundKept DEF QueriesOK
  <1>3. CASE WitnessExists
    <2>1. At("exists") /\ UNCHANGED <<db, tool, opts, excluded_wit_ids, selected, wits, vu_ids, vus>>
      BY <1>3 DEF WitnessExists
    <2>2. (Continue /\ witness_exists(opts.primary)) \/ UNCHANGED query
      BY <1>3 DEF WitnessExists, End
    <2>3. witness_exists(opts.primary) => ExistsFound'
      BY <2>1 DEF ExistsFound, witness_exists
    <2> QED
      BY <2>1, <2>2, <2>3, OneQuery, FoundKept DEF QueriesOK
  <1>4. CASE GetWitness
    <2>1. At("witness") /\ Continue /\ UNCHANGED <<db, tool, opts, excluded_wit_ids, selected, vu_ids, vus>>
      BY <1>4 DEF GetWitness
    <2>2. WitnessFound'
      BY <1>4 DEF GetWitness, WitnessFound, get_witness
    <2>3. ~Passed("witnesses")
      BY <2>1, NotYet
    <2> QED
      BY <2>1, <2>2, <2>3, OneQuery, FoundKept DEF QueriesOK
  <1>5. CASE CheckSecondaries
    <2>1. At("secondaries") /\ UNCHANGED <<db, tool, opts, excluded_wit_ids, selected, wits, vu_ids, vus>>
      BY <1>5 DEF CheckSecondaries
    <2>2. (Continue /\ \A w \in opts.secondaries : witness_exists(w)) \/ UNCHANGED query
      BY <1>5 DEF CheckSecondaries, End
    <2>3. (\A w \in opts.secondaries : witness_exists(w)) => SecondariesFound'
      BY <2>1 DEF SecondariesFound, witness_exists
    <2> QED
      BY <2>1, <2>2, <2>3, OneQuery, FoundKept DEF QueriesOK
  <1>6. CASE GetUnit
    <2>1. At("unit") /\ UNCHANGED <<db, tool, opts, excluded_wit_ids, selected, wits, vu_ids>>
      BY <1>6 DEF GetUnit
    <2>2. ~Passed("units")
      BY <2>1, NotYet
    <2>3. \/ \E u \in opts.passages : variation_unit_exists(u) /\ vus' = <<get_variation_unit(u)>> /\ Continue
          \/ UNCHANGED <<query, vus>>
      BY <1>6 DEF GetUnit, End
    <2>4. (\E u \in opts.passages : variation_unit_exists(u) /\ vus' = <<get_variation_unit(u)>>) => UnitFound'
      BY <2>1 DEF UnitFound, variation_unit_exists, get_variation_unit, OfUnit
    <2> QED
      BY <2>1, <2>2, <2>3, <2>4, OneQuery, FoundKept DEF QueriesOK
  <1>7. CASE CheckReadings
    <2>1. /\ At("readings") /\ UNCHANGED <<db, tool, opts, excluded_wit_ids, selected, wits, vu_ids, vus>>
          /\ Continue \/ UNCHANGED query
      BY <1>7 DEF CheckReadings, End
    <2> QED
      BY <2>1, OneQuery, FoundKept DEF QueriesOK
  <1>8. CASE ListUnits
    <2>1. At("ids") /\ Continue /\ UNCHANGED <<db, tool, opts, excluded_wit_ids, selected, wits, vus>>
      BY <1>8 DEF ListUnits
    <2>2. ~Passed("passages") /\ ~Passed("units")
      BY <2>1, NotYet
    <2>3. ~Passed("passages")'
      BY <2>1, <2>2, OneQuery
    <2>4. IdsFound'
      BY <1>8, <2>3 DEF ListUnits, IdsFound, variation_unit_ids
    <2> QED
      BY <2>1, <2>2, <2>4, OneQuery, FoundKept DEF QueriesOK
  <1>9. CASE FilterUnits
    <2>1. At("passages") /\ UNCHANGED <<db, tool, opts, excluded_wit_ids, selected, wits, vus>>
      BY <1>9 DEF FilterUnits
    <2>2. ~Passed("passages") /\ ~Passed("units")
      BY <2>1, NotYet
    <2>3. CASE UNCHANGED <<query, vu_ids>>
      BY <2>1, <2>3, OneQuery
    <2>4. CASE Continue /\ vu_ids' = IF opts.passages = {} THEN vu_ids ELSE Keep(vu_ids, opts.passages)
      <3>1. Passed("passages")' /\ (Passed("ids")' <=> Passed("ids"))
        BY <2>1, <2>4, OneQuery
      <3>2. Passed("ids") => vu_ids = variation_unit_ids
        BY <2>2 DEF QueriesOK, IdsFound
      <3>3. IdsFound'
        BY <2>1, <2>4, <3>1, <3>2 DEF IdsFound, variation_unit_ids
      <3> QED
        BY <2>1, <2>2, <2>4, <3>3, OneQuery, FoundKept DEF QueriesOK
    <2> QED
      BY <1>9, <2>3, <2>4 DEF FilterUnits, End
  <1>10. CASE GetUnits
    <2>1. At("units") /\ Continue /\ UNCHANGED <<db, tool, opts, excluded_wit_ids, selected, wits, vu_ids>>
      BY <1>10 DEF GetUnits
    <2>2. ~Passed("unit")
      BY <2>1, NotYet
    <2>3. UnitsFound'
      BY <1>10 DEF GetUnits, UnitsFound, get_variation_unit, OfUnit
    <2> QED
      BY <2>1, <2>2, <2>3, OneQuery, FoundKept DEF QueriesOK
  <1>11. CASE GetWitnesses
    <2>1. At("witnesses") /\ Continue /\ UNCHANGED <<db, tool, opts, excluded_wit_ids, selected, vu_ids, vus>>
      BY <1>11 DEF GetWitnesses
    <2>2. ~Passed("witness")
      BY <2>1, NotYet
    <2>3. WitnessesFound'
      BY <1>11 DEF GetWitnesses, WitnessesFound, get_witness
    <2> QED
      BY <2>1, <2>2, <2>3, OneQuery, FoundKept DEF QueriesOK
  <1>12. CASE SecondaryExists
    <2>1. At("secondary") /\ UNCHANGED <<db, tool, opts, excluded_wit_ids, selected, wits, vu_ids, vus>>
      BY <1>12 DEF SecondaryExists
    <2>2. (Continue /\ \A w \in opts.secondaries : witness_exists(w)) \/ UNCHANGED query
      BY <1>12 DEF SecondaryExists, End
    <2>3. (\A w \in opts.secondaries : witness_exists(w)) => SecondariesFound'
      BY <2>1 DEF SecondariesFound, witness_exists
    <2> QED
      BY <2>1, <2>2, <2>3, OneQuery, FoundKept DEF QueriesOK
  <1>13. CASE Enumerate
    <2>1. /\ At("comparison") /\ Continue
          /\ UNCHANGED <<db, tool, opts, excluded_wit_ids, selected, wits, vu_ids, vus>>
      BY <1>13 DEF Enumerate
    <2> QED
      BY <2>1, OneQuery, FoundKept DEF QueriesOK
  <1>14. CASE Diagnose
    <2>1. /\ At("diagnose")
          /\ UNCHANGED <<db, tool, opts, excluded_wit_ids, selected, wits, vu_ids, vus>>
          /\ Continue \/ UNCHANGED query
      BY <1>14 DEF Diagnose, End
    <2> QED
      BY <2>1, OneQuery, FoundKept DEF QueriesOK
  <1> QED
    BY <1>1, <1>2, <1>3, <1>4, <1>5, <1>6, <1>7, <1>8, <1>9, <1>10, <1>11, <1>12, <1>13, <1>14 DEF ToolStep

-----------------------------------------------------------------------------
(* Types, the start of a tool, and the filter. *)

CacheTyped ==
    /\ Kept \subseteq ToSet(app.list_wit)
    /\ \A r \in db["GENEALOGICAL_COMPARISONS"], type \in Types : r.comp[type] \subseteq Bits

\* The lists and the tables are of their types.
LEMMA CacheTypedOK == ListsOK /\ TablesOK => CacheTyped
  <1>1. ListsOK => Kept \subseteq ToSet(app.list_wit)
    BY DEF ListsOK, Kept, ToSet
  <1> QED
    BY <1>1, TableBits DEF CacheTyped

\* What the step of a tool does to the control state.
LEMMA ControlStep ==
    ASSUME TypeOK, UNCHANGED <<tool, opts>>, NEW name, At(name),
           \/ Continue
           \/ UNCHANGED query /\ outcome' \in {"exit1", "no_ancestors", "uncovered", "raise_bound", "terminated"}
    PROVE  /\ tool' \in Tools \cup {"none"}
           /\ tool' # "none" => opts' \in Options(tool')
           /\ outcome' \in {"none", "output", "exit1", "no_ancestors", "uncovered", "raise_bound", "terminated"}
           /\ query' \in 1..(IF tool' = "none" THEN 1 ELSE Len(Queries(tool')) + 1)
           /\ outcome' = "output" <=> tool' # "none" /\ query' = Len(Queries(tool')) + 1
  <1>1. /\ tool \in Tools /\ tool # "none" /\ opts \in Options(tool) /\ outcome = "none"
        /\ Len(Queries(tool)) \in Nat /\ query \in 1..Len(Queries(tool))
    BY AtQuery
  <1> DEFINE n == Len(Queries(tool))
  <1>2. tool' = tool /\ opts' = opts /\ Len(Queries(tool')) = n
    OBVIOUS
  <1>3. n \in Nat /\ query \in 1..n
    BY <1>1
  <1>4. \/ query' = query + 1 /\ outcome' = IF query = n THEN "output" ELSE "none"
        \/ query' = query /\ outcome' \in {"exit1", "no_ancestors", "uncovered", "raise_bound", "terminated"}
    BY <1>1 DEF Continue
  <1> HIDE DEF n
  <1>5. /\ query' \in 1..(n + 1) /\ (outcome' = "output" <=> query' = n + 1)
        /\ outcome' \in {"none", "output", "exit1", "no_ancestors", "uncovered", "raise_bound", "terminated"}
    BY <1>3, <1>4
  <1>6. tool' \in Tools /\ tool' # "none" /\ opts' \in Options(tool')
    BY <1>1, <1>2
  <1> QED
    BY Zenon, <1>2, <1>5, <1>6

\* The steps of a tool start at one of its queries, go on to the next or end, and
\* leave the cache and the options alone.
LEMMA ToolFrame ==
    ASSUME ToolStep
    PROVE  /\ UNCHANGED popVars /\ UNCHANGED <<tool, opts>>
           /\ \E name : At(name) /\ (name = "comparison" => Enumerate) /\ (name = "diagnose" => Diagnose)
           /\ Continue \/ outcome' = "exit1" \/ Diagnose
           /\ \/ Continue
              \/ UNCHANGED query /\ outcome' \in {"exit1", "no_ancestors", "uncovered", "raise_bound", "terminated"}
           /\ UNCHANGED excluded_wit_ids \/ AddFragmentary
           /\ UNCHANGED selected \/ ListWitnesses
           /\ UNCHANGED vu_ids \/ ListUnits \/ FilterUnits
  <1> USE DEF End
  <1>1. CASE AddFragmentary BY <1>1 DEF AddFragmentary
  <1>2. CASE ListWitnesses BY <1>2 DEF ListWitnesses
  <1>3. CASE WitnessExists BY <1>3 DEF WitnessExists
  <1>4. CASE GetWitness BY <1>4 DEF GetWitness
  <1>5. CASE CheckSecondaries BY <1>5 DEF CheckSecondaries
  <1>6. CASE GetUnit BY <1>6 DEF GetUnit
  <1>7. CASE CheckReadings BY <1>7 DEF CheckReadings
  <1>8. CASE ListUnits BY <1>8 DEF ListUnits
  <1>9. CASE FilterUnits BY <1>9 DEF FilterUnits
  <1>10. CASE GetUnits BY <1>10 DEF GetUnits
  <1>11. CASE GetWitnesses BY <1>11 DEF GetWitnesses
  <1>12. CASE SecondaryExists BY <1>12 DEF SecondaryExists
  <1>13. CASE Enumerate
    <2>1. /\ At("comparison") /\ Continue
          /\ UNCHANGED <<popVars, tool, opts, excluded_wit_ids, selected, wits, vu_ids, vus>>
      BY <1>13 DEF Enumerate
    <2> QED
      BY <1>13, <2>1
  <1>14. CASE Diagnose
    <2>1. /\ At("diagnose")
          /\ UNCHANGED <<popVars, tool, opts, excluded_wit_ids, selected, wits, vu_ids, vus>>
          /\ \/ Continue
             \/ UNCHANGED query /\ outcome' \in {"no_ancestors", "uncovered", "raise_bound", "terminated"}
      BY <1>14 DEF Diagnose
    <2> QED
      BY <1>14, <2>1
  <1> QED
    BY <1>1, <1>2, <1>3, <1>4, <1>5, <1>6, <1>7, <1>8, <1>9, <1>10, <1>11, <1>12, <1>13, <1>14 DEF ToolStep

\* The steps of a tool keep the types (find_relatives.cpp:358-444).
LEMMA TypeToolStep ==
    ASSUME TypeOK, ListsOK, TablesOK, StartOK, QueriesOK, ToolStep
    PROVE  TypeOK'
  <1> USE DEF popVars
  <1>1. UNCHANGED popVars /\ UNCHANGED <<tool, opts>>
    BY ToolFrame
  <1>2. PICK name : At(name)
    BY ToolFrame
  <1>3. \/ Continue
        \/ UNCHANGED query /\ outcome' \in {"exit1", "no_ancestors", "uncovered", "raise_bound", "terminated"}
    BY ToolFrame
  <1>4. tool \in Tools /\ tool # "none" /\ Written
    BY <1>2, AtQuery DEF StartOK
  <1>5. /\ tool' \in Tools \cup {"none"}
        /\ tool' # "none" => opts' \in Options(tool')
        /\ outcome' \in {"none", "output", "exit1", "no_ancestors", "uncovered", "raise_bound", "terminated"}
        /\ query' \in 1..(IF tool' = "none" THEN 1 ELSE Len(Queries(tool')) + 1)
        /\ outcome' = "output" <=> tool' # "none" /\ query' = Len(Queries(tool')) + 1
    BY <1>1, <1>2, <1>3, ControlStep
  <1>6. ListsOK' /\ TablesOK'
    BY <1>1, CacheKept
  <1>7. CacheTyped'
    BY <1>6, CacheTypedOK, PTL
  <1>8. ToSet(selected') \subseteq Kept
    <2>1. CASE UNCHANGED selected
      BY <2>1 DEF TypeOK
    <2>2. CASE ListWitnesses
      BY <1>4, <2>2, WitnessRows DEF ListWitnesses
    <2> QED
      BY <2>1, <2>2, ToolFrame
  <1>9. ToSet(vu_ids') \subseteq {Unit(i).id : i \in DOMAIN app.units}
    <2> DEFINE T == {Unit(i).id : i \in DOMAIN app.units}
    <2>1. /\ variation_unit_ids = [i \in DOMAIN app.units |-> app.units[i].id]
          /\ DOMAIN app.units = 1..Len(app.units) /\ Len(app.units) \in Nat
      BY <1>4, UnitRows, UnitsOf DEF ListsOK
    <2>2. variation_unit_ids \in Seq(T) /\ ToSet(variation_unit_ids) \subseteq T
      BY <2>1 DEF Unit, ToSet
    <2> HIDE DEF T
    <2>3. CASE UNCHANGED vu_ids
      BY <2>3 DEF TypeOK, T
    <2>4. CASE ListUnits
      BY <2>2, <2>4 DEF ListUnits, T
    <2>5. CASE FilterUnits
      <3>1. At("passages")
        BY <2>5 DEF FilterUnits
      <3>2. Passed("ids") /\ ~Passed("passages")
        BY <1>4, <3>1, AtQuery, QueriesBefore, NotYet DEF Passed
      <3>3. vu_ids = variation_unit_ids
        BY <3>2 DEF QueriesOK, IdsFound
      <3>4. ToSet(Keep(vu_ids, opts.passages)) \subseteq ToSet(vu_ids)
        BY <2>2, <3>3, KeepOf
      <3>5. vu_ids' = vu_ids \/ vu_ids' = Keep(vu_ids, opts.passages)
        BY <2>5 DEF FilterUnits
      <3> QED
        BY <2>2, <3>3, <3>4, <3>5 DEF T
    <2> QED
      BY <2>3, <2>4, <2>5, ToolFrame DEF T
  <1>10. step' \in ToSet(Tables) \cup {"filter", "witnesses", "written"}
    BY <1>1 DEF TypeOK
  <1>11. ToSet(selected)' \subseteq Kept'
    BY <1>1, <1>8 DEF Kept, ToSet
  <1>12. ToSet(vu_ids)' \subseteq {Unit(i).id : i \in DOMAIN app.units}'
    BY <1>1, <1>9 DEF Unit, ToSet
  <1> QED
    BY <1>5, <1>7, <1>10, <1>11, <1>12 DEF TypeOK, CacheTyped

\* Secondary witnesses are compared whatever is excluded: the set stays empty
\* (compare_witnesses.cpp:262-276).
LEMMA StartToolStep ==
    ASSUME TypeOK, StartOK, ToolStep
    PROVE  StartOK'
  <1>1. UNCHANGED popVars /\ UNCHANGED <<tool, opts>>
    BY ToolFrame
  <1>2. \E name : At(name)
    BY ToolFrame
  <1>3. tool # "none" /\ Written
    BY <1>2, AtQuery DEF StartOK
  <1>4. Written'
    BY <1>1, <1>3 DEF Written, popVars
  <1>5. CASE UNCHANGED excluded_wit_ids
    BY <1>1, <1>3, <1>4, <1>5 DEF StartOK
  <1>6. CASE AddFragmentary
    <2>1. opts.p = 0 => excluded_wit_ids' = excluded_wit_ids
      BY <1>6 DEF AddFragmentary
    <2> QED
      BY <1>1, <1>3, <1>4, <2>1 DEF StartOK
  <1> QED
    BY <1>5, <1>6, ToolFrame

\* A filter of a tool that is not above that of populate_db adds nobody
\* (find_relatives.cpp:381-387).
LEMMA FilteredToolStep ==
    ASSUME TypeOK, ListsOK, TablesOK, StartOK, FilteredOnce, ToolStep
    PROVE  FilteredOnce'
  <1>1. UNCHANGED popVars /\ UNCHANGED <<tool, opts>>
    BY ToolFrame
  <1>2. UNCHANGED <<app, threshold, tool, opts>>
    BY <1>1 DEF popVars
  <1>3. CASE UNCHANGED excluded_wit_ids
    BY <1>2, <1>3 DEF FilteredOnce
  <1>4. CASE AddFragmentary
    <2> SUFFICES ASSUME opts.p > 0, MinExtant(opts.p, Len(app.units)) <= threshold, tool \in Excluding
                 PROVE  excluded_wit_ids' \subseteq opts.e
      BY <1>2 DEF FilteredOnce
    <2>1. At("proportion")
      BY <1>4 DEF AddFragmentary
    <2>2. tool # "none" /\ opts \in Options(tool) /\ Written
      BY <2>1, AtQuery DEF StartOK
    <2>3. opts.p \in 1..100
      <3>1. opts.p \in Proportions
        BY <2>2 DEF Options
      <3>2. opts.p \in 0..100
        BY Zenon, <3>1, ProportionsAssumption
      <3> QED
        BY <3>2
    <2>4. Len(app.units) \in Nat /\ Len(app.units) <= MaxUnits /\ DOMAIN app.units = 1..Len(app.units)
      BY UnitsOf, UnitsAssumption DEF ListsOK
    <2>5. Len(variation_unit_labels) = Len(app.units)
      BY <2>2, <2>4, UnitRows
    <2>6. MinExtant(opts.p, Len(app.units)) \in Int
      BY <2>3, <2>4, MinExtantInt
    <2>7. Fragmentary(MinExtant(opts.p, Len(app.units))) = {}
      BY <2>2, <2>6, NobodyFragmentary
    <2>8. excluded_wit_ids' = excluded_wit_ids
      BY <1>4, <2>5, <2>7 DEF AddFragmentary
    <2> QED
      BY <2>8 DEF FilteredOnce
  <1> QED
    BY <1>3, <1>4, ToolFrame

-----------------------------------------------------------------------------
(* What the tools report. *)

\* enumerate_relationships names the passages of the collation
\* (enumerate_relationships.cpp:187-221).
LEMMA EnumerateExact ==
    ASSUME TypeOK, ListsOK, TablesOK, StartOK, QueriesOK, Enumerate
    PROVE  \A w \in opts.secondaries, type \in Types, i \in DOMAIN app.units :
              <<type, Unit(i).id>> \in reported' <=> i - 1 \in Comparison(opts.primary, w)[type]
  <1>1. At("comparison")
    BY DEF Enumerate
  <1>2. /\ tool = "enumerate_relationships" /\ opts \in Options(tool) /\ Written
        /\ ~Passed("passages") /\ Passed("exists") /\ Passed("secondary") /\ Passed("ids")
    BY <1>1, AtQuery, NotYet, QueriesBefore DEF StartOK, Passed
  <1>3. PICK w \in opts.secondaries :
          LET rows == InOrder({r \in db["GENEALOGICAL_COMPARISONS"] :
                         r.primary_wit = opts.primary /\ r.secondary_wit = w})
          IN  reported' = IF rows = <<>> THEN {}
                          ELSE UNION {{<<type, vu_ids[bit + 1]>> : bit \in rows[1].comp[type]} : type \in Types}
    BY DEF Enumerate
  <1>4. \A v \in opts.secondaries : v = w
    <2>1. opts.secondaries \in {{v} : v \in WitIds}
      BY <1>2 DEF Options
    <2> QED
      BY <2>1
  <1>5. opts.primary \in Kept /\ w \in Kept
    BY <1>2, WitnessKnown DEF QueriesOK, ExistsFound, SecondariesFound
  <1>6. /\ vu_ids = [i \in DOMAIN app.units |-> app.units[i].id]
        /\ DOMAIN app.units = 1..Len(app.units) /\ Len(app.units) \in Nat
        /\ \A i, j \in DOMAIN app.units : app.units[i].id = app.units[j].id => i = j
    BY <1>2, UnitRows, UnitsOf DEF QueriesOK, IdsFound, ListsOK
  <1> DEFINE all == db["GENEALOGICAL_COMPARISONS"]
             found == {r \in all : r.primary_wit = opts.primary /\ r.secondary_wit = w}
             rows == InOrder(found)
             c == Comparison(opts.primary, w)
  <1>7. rows # <<>> /\ rows[1].comp = c
    <2>1. /\ \A r, q \in all : r.row_id = q.row_id => r = q
          /\ \A r \in all : r.comp = Comparison(r.primary_wit, r.secondary_wit)
          /\ \A u, v \in Kept : \E r \in all : r.primary_wit = u /\ r.secondary_wit = v
      BY <1>2, ComparisonRows
    <2>2. PICK N \in Nat : \A r \in all : r.row_id \in 0..N
      BY <1>2, ComparisonRows
    <2>3. /\ \A r \in found : r.row_id \in 0..N
          /\ \A r, q \in found : r.row_id = q.row_id => r = q
      BY <2>1, <2>2
    <2>4. \E r \in found : TRUE
      BY <1>5, <2>1
    <2>5. \A r \in found : r.comp = c
      BY <2>1
    <2> HIDE DEF found, c
    <2>6. /\ \E n \in Nat : DOMAIN rows = 1..n
          /\ \A i \in DOMAIN rows : rows[i] \in found
          /\ \A r \in found : \E i \in DOMAIN rows : rows[i] = r
      BY <2>3, InOrderOf
    <2> HIDE DEF rows
    <2>7. 1 \in DOMAIN rows
      BY <2>4, <2>6
    <2> QED
      BY <2>5, <2>6, <2>7
  <1>8. reported' = UNION {{<<type, vu_ids[bit + 1]>> : bit \in c[type]} : type \in Types}
    <2> HIDE DEF c
    <2>1. reported' = IF rows = <<>> THEN {}
                      ELSE UNION {{<<type, vu_ids[bit + 1]>> : bit \in rows[1].comp[type]} : type \in Types}
      BY <1>3
    <2> HIDE DEF rows
    <2> QED
      BY <1>7, <2>1
  <1>9. \A type \in Types : c[type] \subseteq Bits
    BY ComparisonBits DEF ListsOK
  <1> HIDE DEF c
  <1>10. ASSUME NEW type \in Types, NEW i \in DOMAIN app.units
         PROVE  <<type, Unit(i).id>> \in reported' <=> i - 1 \in c[type]
    <2>1. ASSUME i - 1 \in c[type] PROVE <<type, Unit(i).id>> \in reported'
      <3>1. vu_ids[(i - 1) + 1] = Unit(i).id
        BY <1>6 DEF Unit
      <3> QED
        BY <1>8, <2>1, <3>1
    <2>2. ASSUME <<type, Unit(i).id>> \in reported' PROVE i - 1 \in c[type]
      <3>1. PICK t \in Types : \E bit \in c[t] : <<type, Unit(i).id>> = <<t, vu_ids[bit + 1]>>
        BY <1>8, <2>2
      <3>2. PICK bit \in c[type] : Unit(i).id = vu_ids[bit + 1]
        BY <3>1
      <3>3. bit + 1 \in DOMAIN app.units /\ bit \in Int
        BY <1>6, <1>9 DEF Bits
      <3>4. bit + 1 = i
        BY <1>6, <3>2, <3>3 DEF Unit
      <3> QED
        BY <1>6, <3>2, <3>3, <3>4
    <2> QED
      BY <2>1, <2>2
  <1> QED
    BY <1>4, <1>10 DEF c

\* Only its last query writes the table of enumerate_relationships.
LEMMA EnumeratedStep ==
    ASSUME TypeOK, ListsOK, TablesOK, StartOK, QueriesOK, ToolStep
    PROVE  Enumerated'
  <1>1. UNCHANGED popVars /\ UNCHANGED <<tool, opts>>
    BY ToolFrame
  <1>2. UNCHANGED <<app, tool, opts>>
    BY <1>1 DEF popVars
  <1>3. ASSUME outcome' = "output", tool = "enumerate_relationships"
        PROVE  Enumerate
    <2>1. PICK name : At(name) /\ (name = "comparison" => Enumerate)
      BY ToolFrame
    <2>2. Continue
      BY <1>3, ToolFrame DEF Diagnose, End
    <2>3. outcome = "none" /\ Queries(tool)[query] = name
      BY <2>1, AtQuery
    <2>4. query = Len(Queries(tool))
      BY <1>3, <2>2, <2>3 DEF Continue
    <2>5. name = "comparison"
      BY <1>3, <2>3, <2>4 DEF Queries
    <2> QED
      BY <2>1, <2>5
  <1>4. ASSUME Enumerate
        PROVE  \A w \in opts.secondaries, type \in Types, i \in DOMAIN app.units :
                 (<<type, Unit(i).id>> \in reported <=> i - 1 \in Comparison(opts.primary, w)[type])'
    <2>1. \A w \in opts.secondaries, type \in Types, i \in DOMAIN app.units :
             <<type, Unit(i).id>> \in reported' <=> i - 1 \in Comparison(opts.primary, w)[type]
      BY <1>4, EnumerateExact
    <2>2. \A w : Comparison(opts.primary, w)' = Comparison(opts.primary, w)
      BY <1>2 DEF Comparison
    <2> QED
      BY <1>2, <2>1, <2>2 DEF Unit
  <1> QED
    BY <1>2, <1>3, <1>4 DEF Enumerated

\* The potential ancestors that optimize_substemmata finds, whether the witness
\* itself is left or not (optimize_substemmata.cpp:258).
LEMMA AncestorsExact ==
    ASSUME ListsOK, TablesOK, Written, opts.primary \in Kept
    PROVE  LET comps == get_witness(opts.primary).comps
           IN  PotentialAncestors(comps) = {} <=> Ancestors = {}
  <1> DEFINE p == opts.primary
             comps == get_witness(p).comps
  <1>1. /\ \A i \in DOMAIN comps : /\ comps[i].secondary_wit \in Kept \ excluded_wit_ids
                                   /\ comps[i].comp = Comparison(p, comps[i].secondary_wit)
        /\ \A v \in Kept \ excluded_wit_ids : \E i \in DOMAIN comps : comps[i].secondary_wit = v
    BY WitnessRead
  <1> HIDE DEF comps
  <1>2. ASSUME NEW i \in PotentialAncestors(comps) PROVE comps[i].secondary_wit \in Ancestors
    BY <1>1, <1>2 DEF PotentialAncestors, Ancestors
  <1>3. ASSUME NEW v \in Ancestors PROVE PotentialAncestors(comps) # {}
    <2>1. PICK i \in DOMAIN comps : comps[i].secondary_wit = v
      BY <1>1 DEF Ancestors
    <2>2. i \in PotentialAncestors(comps)
      BY <1>1, <2>1 DEF PotentialAncestors, Ancestors
    <2> QED
      BY <2>2
  <1>4. PotentialAncestors(comps) = {} <=> Ancestors = {}
    BY <1>2, <1>3
  <1> QED
    BY <1>4 DEF comps

\* What optimize_substemmata finds in the comparisons of a witness that is left:
\* the passages that are not covered are those that no witness explains
\* (optimize_substemmata.cpp:274-293).
LEMMA UncoveredExact ==
    ASSUME ListsOK, TablesOK, Written, opts.primary \in Kept \ excluded_wit_ids
    PROVE  LET comps == get_witness(opts.primary).comps
               own == {i \in DOMAIN comps : comps[i].secondary_wit = opts.primary}
           IN  /\ own # {}
               /\ \A i \in own :
                    Uncovered(comps[i].comp.extant, comps) = {k - 1 : k \in Unexplained}
  <1> DEFINE p == opts.primary
             comps == get_witness(p).comps
             own == {i \in DOMAIN comps : comps[i].secondary_wit = p}
             ancestors == {v \in Kept \ excluded_wit_ids :
                             Cardinality(Comparison(p, v).posterior) > Cardinality(Comparison(p, v).prior)}
             extant == Comparison(p, p).extant
  <1>1. /\ \A i \in DOMAIN comps : /\ comps[i].secondary_wit \in Kept \ excluded_wit_ids
                                   /\ comps[i].comp = Comparison(p, comps[i].secondary_wit)
        /\ \A v \in Kept \ excluded_wit_ids : \E i \in DOMAIN comps : comps[i].secondary_wit = v
    BY WitnessRead
  <1>2. own # {} /\ \A i \in own : comps[i].comp.extant = extant
    BY <1>1
  <1>3. \A b : b \in Explained(comps) <=> \E v \in ancestors : b \in Comparison(p, v).explained
    <2> HIDE DEF comps, p
    <2>1. ASSUME NEW b, b \in Explained(comps) PROVE \E v \in ancestors : b \in Comparison(p, v).explained
      BY <1>1, <2>1 DEF Explained, PotentialAncestors
    <2>2. ASSUME NEW v \in ancestors, NEW b \in Comparison(p, v).explained PROVE b \in Explained(comps)
      <3>1. PICK i \in DOMAIN comps : comps[i].secondary_wit = v
        BY <1>1
      <3>2. i \in PotentialAncestors(comps) /\ b \in comps[i].comp.explained
        BY <1>1, <3>1 DEF PotentialAncestors
      <3> QED
        BY <3>2 DEF Explained
    <2> QED
      BY <2>1, <2>2
  <1>4. /\ extant = {i - 1 : i \in {k \in DOMAIN app.units : p \in DOMAIN app.units[k].support}}
        /\ \A v : Comparison(p, v).explained \subseteq extant
        /\ DOMAIN app.units = 1..Len(app.units) /\ Len(app.units) \in Nat
    BY ComparisonBits, UnitsOf DEF ListsOK
  <1>5. \A i : i \in Unexplained <=> /\ i \in DOMAIN app.units /\ p \in DOMAIN app.units[i].support
                                     /\ \A v \in ancestors : i - 1 \notin Comparison(p, v).explained
    BY DEF Unexplained, Ancestors, Unit
  <1> HIDE DEF comps, p, ancestors, extant
  <1>6. \A b : b \in Uncovered(extant, comps) <=> b \in extant /\ b \notin Explained(comps)
    BY <1>3, <1>4 DEF Uncovered
  <1>7. Uncovered(extant, comps) = {i - 1 : i \in Unexplained}
    <2>1. ASSUME NEW b \in Uncovered(extant, comps) PROVE \E i \in Unexplained : b = i - 1
      <3>1. PICK i \in DOMAIN app.units : p \in DOMAIN app.units[i].support /\ b = i - 1
        BY <1>4, <1>6
      <3> QED
        BY <1>3, <1>5, <1>6, <3>1
    <2>2. ASSUME NEW i \in Unexplained PROVE i - 1 \in Uncovered(extant, comps)
      BY <1>3, <1>4, <1>5, <1>6
    <2> QED
      BY <2>1, <2>2
  <1> QED
    BY <1>2, <1>7 DEF comps, p

\* How optimize_substemmata ends (optimize_substemmata.cpp:262-320).
LEMMA DiagnoseExact ==
    ASSUME TypeOK, ListsOK, TablesOK, StartOK, QueriesOK, Diagnose
    PROVE  /\ outcome' = "no_ancestors" <=> Ancestors = {}
           /\ opts.primary \notin excluded_wit_ids =>
                /\ outcome' = "uncovered" => reported' = {Unit(i).label : i \in Unexplained} /\ reported' # {}
                /\ outcome' \in {"output", "raise_bound"} => Unexplained = {}
                /\ outcome' # "terminated"
  <1> DEFINE comps == wits[1].comps
             own == {i \in DOMAIN comps : comps[i].secondary_wit = opts.primary}
             labels == variation_unit_labels
             lost == {i - 1 : i \in Unexplained}
  <1>1. At("diagnose")
    BY DEF Diagnose
  <1>2. tool # "none" /\ Written /\ outcome = "none" /\ Passed("exists") /\ Passed("witness")
    BY <1>1, AtQuery, QueriesBefore DEF StartOK, Passed
  <1>3. opts.primary \in Kept /\ wits = <<get_witness(opts.primary)>>
    BY <1>2, WitnessKnown DEF QueriesOK, ExistsFound, WitnessFound
  <1>4. Continue => outcome' \in {"output", "none"}
    BY <1>2 DEF Continue
  <1>5. \/ PotentialAncestors(comps) = {} /\ outcome' = "no_ancestors"
        \/ /\ PotentialAncestors(comps) # {}
           /\ \/ outcome' \in {"terminated", "uncovered", "raise_bound"}
              \/ Continue
    BY DEF Diagnose, End
  <1>6. outcome' = "no_ancestors" <=> Ancestors = {}
    <2>1. wits[1] = get_witness(opts.primary)
      BY <1>3
    <2>2. PotentialAncestors(comps) = {} <=> Ancestors = {}
      BY <1>2, <1>3, <2>1, AncestorsExact
    <2> HIDE DEF comps
    <2> QED
      BY <1>4, <1>5, <2>2
  <1>7. ASSUME opts.primary \notin excluded_wit_ids
        PROVE  /\ outcome' = "uncovered" => reported' = {Unit(i).label : i \in Unexplained} /\ reported' # {}
               /\ outcome' \in {"output", "raise_bound"} => Unexplained = {}
               /\ outcome' # "terminated"
    <2>1. own # {} /\ \A i \in own : Uncovered(comps[i].comp.extant, comps) = lost
      <3>1. wits[1] = get_witness(opts.primary)
        BY <1>3
      <3> QED
        BY <1>2, <1>3, <1>7, <3>1, UncoveredExact
    <2>2. labels = [i \in DOMAIN app.units |-> app.units[i].label] /\ Unexplained \subseteq DOMAIN app.units
          /\ DOMAIN app.units = 1..Len(app.units)
      BY <1>2, UnitRows, UnitsOf DEF Unexplained, ListsOK
    <2>3. \/ PotentialAncestors(comps) = {} /\ outcome' = "no_ancestors"
          \/ own = {}
          \/ \E i \in own : LET uncovered == Uncovered(comps[i].comp.extant, comps)
                            IN  IF uncovered = {} THEN Continue \/ outcome' = "raise_bound"
                                ELSE outcome' = "uncovered" /\ reported' = {labels[bit + 1] : bit \in uncovered}
      BY DEF Diagnose, End
    <2> HIDE DEF comps, own, labels
    <2>4. \/ outcome' = "no_ancestors"
          \/ lost = {} /\ (Continue \/ outcome' = "raise_bound")
          \/ lost # {} /\ outcome' = "uncovered" /\ reported' = {labels[bit + 1] : bit \in lost}
      <3> HIDE DEF lost
      <3> QED
        BY <2>1, <2>3
    <2>5. lost = {} <=> Unexplained = {}
      OBVIOUS
    <2>6. {labels[bit + 1] : bit \in lost} = {Unit(i).label : i \in Unexplained}
      <3>1. \A i \in Unexplained : labels[(i - 1) + 1] = Unit(i).label
        BY <2>2 DEF Unit
      <3> QED
        BY <3>1
    <2>7. Unexplained # {} => {Unit(i).label : i \in Unexplained} # {}
      OBVIOUS
    <2> HIDE DEF lost
    <2> QED
      BY <1>4, <2>4, <2>5, <2>6, <2>7
  <1> QED
    BY <1>6, <1>7

\* Only its last query ends optimize_substemmata otherwise than for a witness
\* that is unknown.
LEMMA DiagnosedStep ==
    ASSUME TypeOK, ListsOK, TablesOK, StartOK, QueriesOK, ToolStep
    PROVE  DiagnosisExact'
  <1>1. UNCHANGED popVars /\ UNCHANGED <<tool, opts>>
    BY ToolFrame
  <1>2. UNCHANGED <<app, list_wit, tool, opts>>
    BY <1>1 DEF popVars
  <1>3. CASE Diagnose
    <2>1. UNCHANGED excluded_wit_ids
      BY <1>3 DEF Diagnose
    <2>2. Ancestors' = Ancestors /\ Unexplained' = Unexplained
      BY <1>2, <2>1 DEF Ancestors, Unexplained, Comparison, Kept, Unit
    <2>3. {Unit(i).label : i \in Unexplained}' = {Unit(i).label : i \in Unexplained}
      BY <1>2, <2>2 DEF Unit
    <2>4. /\ outcome' = "no_ancestors" <=> Ancestors = {}
          /\ opts.primary \notin excluded_wit_ids =>
                /\ outcome' = "uncovered" => reported' = {Unit(i).label : i \in Unexplained} /\ reported' # {}
                /\ outcome' \in {"output", "raise_bound"} => Unexplained = {}
                /\ outcome' # "terminated"
      BY <1>3, DiagnoseExact
    <2> QED
      BY <1>2, <2>1, <2>2, <2>3, <2>4 DEF DiagnosisExact
  <1>4. CASE ~Diagnose /\ tool = "optimize_substemmata"
    <2>1. PICK name : At(name) /\ (name = "diagnose" => Diagnose)
      BY ToolFrame
    <2>2. outcome = "none" /\ Queries(tool)[query] = name /\ name # "diagnose"
      BY <1>4, <2>1, AtQuery
    <2>3. query # Len(Queries(tool))
      BY <1>4, <2>2 DEF Queries
    <2>4. outcome' \in {"none", "exit1"}
      BY <1>4, <2>2, <2>3, ToolFrame DEF Continue
    <2> QED
      BY <2>4 DEF DiagnosisExact
  <1>5. CASE tool # "optimize_substemmata"
    BY <1>2, <1>5 DEF DiagnosisExact
  <1> QED
    BY <1>3, <1>4, <1>5

-----------------------------------------------------------------------------
(* The inductive invariant. *)

\* Before a tool is started nothing is said of it.
LEMMA NoTool ==
    ASSUME StartOK, tool = "none"
    PROVE  QueriesOK /\ DiagnosisExact /\ Enumerated /\ FilteredOnce
  <1>1. \A name : ~Passed(name)
    BY DEF Passed
  <1>2. QueriesOK
    BY <1>1 DEF QueriesOK, ExistsFound, SecondariesFound, ListFound, WitnessFound, WitnessesFound,
                IdsFound, UnitFound, UnitsFound
  <1>3. DiagnosisExact /\ Enumerated /\ FilteredOnce
    BY DEF DiagnosisExact, Enumerated, FilteredOnce, Excluding, Tools
  <1> QED
    BY <1>2, <1>3

\* The same, of any state.
LEMMA NoToolState == StartOK /\ tool = "none" => QueriesOK /\ DiagnosisExact /\ Enumerated /\ FilteredOnce
  BY NoTool

\* At the start there are neither tables nor a tool (populate_db.cpp:553-559).
LEMMA InvInit == Init => IInv
  <1> SUFFICES ASSUME Init PROVE IInv
    OBVIOUS
  <1>1. ListsOK /\ TablesOK
    BY CacheInit DEF Init
  <1>2. CacheTyped
    BY <1>1, CacheTypedOK
  <1>3. StartOK /\ tool = "none"
    BY DEF Init, StartOK
  <1>4. TypeOK
    BY <1>2, <1>3 DEF TypeOK, CacheTyped, Init, PopInit, ToSet
  <1> QED
    BY <1>1, <1>3, <1>4, NoTool DEF IInv

\* Each step of populate_db keeps the invariant (populate_db.cpp:559-637).
LEMMA PopStep ==
    ASSUME IInv, PopNext, UNCHANGED toolVars
    PROVE  IInv'
  <1> USE DEF IInv
  <1>1. ListsOK' /\ TablesOK'
    BY CacheStep
  <1>2. CacheTyped'
    BY <1>1, CacheTypedOK, PTL
  <1>3. ~Written /\ step' \in ToSet(Tables) \cup {"filter", "witnesses", "written"}
    <2>1. CASE Filter
      BY <2>1 DEF Filter, Written
    <2>2. CASE InitWitnesses
      BY <2>2 DEF InitWitnesses, Written, Tables, ToSet
    <2>3. ASSUME NEW t \in DOMAIN Tables, PopulateTable(t)
          PROVE  ~Written /\ step' \in ToSet(Tables) \cup {"filter", "witnesses", "written"}
      BY <2>3 DEF PopulateTable, Written, Tables, ToSet
    <2> QED
      BY <2>1, <2>2, <2>3 DEF PopNext
  <1>4. tool = "none" /\ outcome = "none" /\ selected = <<>> /\ vu_ids = <<>>
    BY <1>3 DEF StartOK
  <1>5. StartOK' /\ tool' = "none"
    BY <1>4 DEF toolVars, StartOK
  <1>6. TypeOK'
    BY <1>2, <1>3, <1>4 DEF TypeOK, CacheTyped, toolVars, ToSet
  <1>7. (QueriesOK /\ DiagnosisExact /\ Enumerated /\ FilteredOnce)'
    <2>1. (StartOK /\ tool = "none")'
      BY <1>5
    <2> QED
      BY <2>1, NoToolState, PTL
  <1> QED
    BY <1>1, <1>5, <1>6, <1>7

\* The options of a tool are those of its command line; compare_witnesses drops
\* -e and -p if secondary witnesses are named (compare_witnesses.cpp:209-222).
LEMMA StartStep ==
    ASSUME IInv, StartTool
    PROVE  IInv'
  <1> USE DEF IInv
  <1>1. /\ Written /\ tool = "none" /\ UNCHANGED popVars
        /\ UNCHANGED <<query, selected, wits, vu_ids, vus, outcome, reported>>
    BY DEF StartTool, Written
  <1>0. PICK t \in Tools : \E o \in Options(t) :
           LET ignored == t = "compare_witnesses" /\ o.secondaries # {}
           IN  /\ tool' = t
               /\ opts' = IF ignored THEN [o EXCEPT !.p = 0] ELSE o
               /\ excluded_wit_ids' = IF ignored THEN {} ELSE o.e
    BY DEF StartTool
  <1>2. PICK o \in Options(t) :
           LET ignored == t = "compare_witnesses" /\ o.secondaries # {}
           IN  /\ tool' = t
               /\ opts' = IF ignored THEN [o EXCEPT !.p = 0] ELSE o
               /\ excluded_wit_ids' = IF ignored THEN {} ELSE o.e
    BY <1>0
  <1>3. ListsOK' /\ TablesOK'
    BY <1>1, CacheKept
  <1>4. CacheTyped'
    BY <1>3, CacheTypedOK, PTL
  <1>5. /\ opts' \in Options(t) /\ opts'.secondaries = o.secondaries /\ opts'.e = o.e
        /\ t = "compare_witnesses" /\ o.secondaries # {} => opts'.p = 0 /\ excluded_wit_ids' = {}
    <2>1. CASE t = "compare_witnesses" /\ o.secondaries # {}
      <3>1. opts' = [o EXCEPT !.p = 0] /\ excluded_wit_ids' = {}
        BY <1>2, <2>1
      <3>2. 0 \in IF t \in Excluding THEN Proportions ELSE {0}
        BY ProportionsAssumption
      <3> QED
        BY <2>1, <3>1, <3>2 DEF Options
    <2>2. CASE ~(t = "compare_witnesses" /\ o.secondaries # {})
      BY <1>2, <2>2
    <2> QED
      BY <2>1, <2>2
  <1>6. tool' \in Tools /\ tool' # "none"
    BY <1>2 DEF Tools
  <1>7. outcome' = "none" /\ query' = 1 /\ selected' = <<>> /\ vu_ids' = <<>>
    BY <1>1 DEF StartOK, TypeOK
  <1>8. StartOK'
    BY <1>1, <1>2, <1>5, <1>6 DEF StartOK, Written, popVars
  <1>9. TypeOK'
    <2>1. Len(Queries(tool')) \in Nat /\ Len(Queries(tool')) >= 3
      BY <1>6, QueriesDistinct
    <2>2. query' \in 1..(Len(Queries(tool')) + 1) /\ query' # Len(Queries(tool')) + 1
      BY <1>7, <2>1
    <2>3. step' \in ToSet(Tables) \cup {"filter", "witnesses", "written"}
      BY <1>1 DEF Written, popVars
    <2>4. ToSet(selected)' = {} /\ ToSet(vu_ids)' = {}
      BY <1>7 DEF ToSet
    <2> QED
      BY <1>2, <1>4, <1>5, <1>6, <1>7, <2>2, <2>3, <2>4 DEF TypeOK, CacheTyped
  <1>10. \A name : ~Passed(name)'
    BY <1>7 DEF Passed
  <1>11. QueriesOK'
    BY <1>10 DEF QueriesOK, ExistsFound, SecondariesFound, ListFound, WitnessFound, WitnessesFound,
                 IdsFound, UnitFound, UnitsFound
  <1>12. DiagnosisExact' /\ Enumerated'
    BY <1>7 DEF DiagnosisExact, Enumerated
  <1>13. FilteredOnce'
    BY <1>2, <1>5 DEF FilteredOnce
  <1> QED
    BY <1>3, <1>8, <1>9, <1>11, <1>12, <1>13

\* Nothing happens.
LEMMA StutterStep ==
    ASSUME IInv, UNCHANGED vars
    PROVE  IInv'
  <1> USE DEF IInv, vars, popVars, toolVars
  <1>1. ListsOK' /\ TablesOK'
    BY CacheKept
  <1>2. CacheTyped'
    BY <1>1, CacheTypedOK, PTL
  <1>3. TypeOK'
    BY <1>2 DEF TypeOK, CacheTyped, Kept, Unit, ToSet
  <1>4. StartOK'
    BY DEF StartOK, Written
  <1>5. QueriesOK'
    <2>1. \A other : Passed(other)' <=> Passed(other)
      BY PassedEnd
    <2>2. /\ ExistsFound' /\ SecondariesFound'
      BY <2>1 DEF QueriesOK, ExistsFound, SecondariesFound, witness_exists
    <2>3. ListFound' /\ WitnessFound' /\ WitnessesFound'
      BY <2>1 DEF QueriesOK, ListFound, get_list_wit, WitnessFound, WitnessesFound, get_witness
    <2>4. IdsFound' /\ UnitFound' /\ UnitsFound'
      BY <2>1 DEF QueriesOK, IdsFound, variation_unit_ids, UnitFound, variation_unit_exists, UnitsFound,
                  get_variation_unit, OfUnit
    <2> QED
      BY <2>2, <2>3, <2>4 DEF QueriesOK
  <1>6. DiagnosisExact'
    <2>1. Ancestors' = Ancestors /\ Unexplained' = Unexplained
      BY DEF Ancestors, Unexplained, Comparison, Kept, Unit
    <2>2. {Unit(i).label : i \in Unexplained}' = {Unit(i).label : i \in Unexplained}
      BY <2>1 DEF Unit
    <2> QED
      BY <2>1, <2>2 DEF DiagnosisExact
  <1>7. Enumerated'
    <2>1. \A w : Comparison(opts.primary, w)' = Comparison(opts.primary, w)
      BY DEF Comparison
    <2> QED
      BY <2>1 DEF Enumerated, Unit
  <1>8. FilteredOnce'
    BY DEF FilteredOnce
  <1> QED
    BY <1>1, <1>3, <1>4, <1>5, <1>6, <1>7, <1>8

\* Every step keeps the invariant.
LEMMA InvStep == IInv /\ [Next]_vars => IInv'
  <1> SUFFICES ASSUME IInv, [Next]_vars PROVE IInv'
    OBVIOUS
  <1>1. CASE PopNext /\ UNCHANGED toolVars
    BY <1>1, PopStep
  <1>2. CASE StartTool
    BY <1>2, StartStep
  <1>3. CASE ToolStep
    <2>1. UNCHANGED popVars
      BY <1>3, ToolFrame
    <2> QED
      BY <1>3, <2>1, CacheKept, TypeToolStep, StartToolStep, QueriesStep, DiagnosedStep, EnumeratedStep,
         FilteredToolStep DEF IInv
  <1>4. CASE UNCHANGED vars
    BY <1>4, StutterStep
  <1> QED
    BY <1>1, <1>2, <1>3, <1>4 DEF Next, Ended

\* For any collation, any order of the threads and any options: the tables have
\* the contents of their functions, each query's result is what it would find
\* again, and what optimize_substemmata, enumerate_relationships and the filter
\* say is true (populate_db.cpp:559-637 and the seven tools).
THEOREM IInvHolds == Spec => []IInv
  BY InvInit, InvStep, PTL DEF Spec

-----------------------------------------------------------------------------
(* The properties of the tables and of the tools. *)

\* The support is written for the witnesses of the list only.
LEMMA SupportListed ==
  ASSUME NEW s \in ReadingSupport PROVE \E k \in DOMAIN list_wit : s.witness = list_wit[k]
  <1> DEFINE positions == {p \in (DOMAIN app.units) \X (DOMAIN list_wit) :
                             list_wit[p[2]] \in DOMAIN app.units[p[1]].support}
             Row(p) == [row_id |-> RowId(p, positions), variation_unit |-> app.units[p[1]].id,
                        witness |-> list_wit[p[2]],
                        reading |-> app.units[p[1]].support[list_wit[p[2]]]]
  <1>1. PICK p \in positions : s = Row(p)
    BY Zenon DEF ReadingSupport
  <1>2. Row(p).witness = list_wit[p[2]]
    OBVIOUS
  <1>3. p[2] \in DOMAIN list_wit
    OBVIOUS
  <1> HIDE DEF Row
  <1> QED
    BY Zenon, <1>1, <1>2, <1>3

\* The tables agree with each other, for any collation, any order of the threads
\* and any threshold (populate_db.cpp:625-636).
THEOREM TablesAgreeHolds == Spec => []TablesAgree
  <1>1. IInv => TablesAgree
    <2> SUFFICES ASSUME ListsOK, TablesOK, Written PROVE TablesAgree
      BY DEF IInv, TablesAgree
    <2> DEFINE comps == db["GENEALOGICAL_COMPARISONS"]
               support == db["READING_SUPPORT"]
               units == db["VARIATION_UNITS"]
               names == {r.witness : r \in db["WITNESSES"]}
    <2>1. names = Kept
      BY WitnessRows
    <2>2. /\ \A r \in comps : /\ r.primary_wit \in Kept /\ r.secondary_wit \in Kept
                              /\ r.comp = Comparison(r.primary_wit, r.secondary_wit)
          /\ \A w, v \in Kept : \E r \in comps : r.primary_wit = w /\ r.secondary_wit = v
          /\ \A r, q \in comps :
                r.primary_wit = q.primary_wit /\ r.secondary_wit = q.secondary_wit => r = q
      BY ComparisonRows
    <2>3. \A s \in support : s.witness \in Kept
      <3>1. support = ReadingSupport
        BY WrittenTables
      <3> HIDE DEF support
      <3>2. \A s \in support : \E k \in DOMAIN list_wit : s.witness = list_wit[k]
        BY Zenon, <3>1, SupportListed
      <3> QED
        BY Zenon, <3>2 DEF Kept, ToSet
    <2>4. \A u : u \in units <=> \E i \in DOMAIN app.units :
             u = [row_id |-> i - 1, variation_unit |-> app.units[i].id, label |-> app.units[i].label,
                  connectivity |-> app.units[i].connectivity]
      BY WrittenTables DEF VariationUnits
    <2>5. ASSUME NEW i \in DOMAIN app.units, NEW w \in Kept
          PROVE  (\E s \in support : s.variation_unit = app.units[i].id /\ s.witness = w)
                   <=> w \in DOMAIN app.units[i].support
      <3>1. {r.witness : r \in OfUnit("READING_SUPPORT", app.units[i].id)}
              = Kept \cap DOMAIN app.units[i].support
        BY SupportRows
      <3> QED
        BY <3>1 DEF OfUnit
    <2>6. \A w : Comparison(w, w).extant
                   = {i - 1 : i \in {k \in DOMAIN app.units : w \in DOMAIN app.units[k].support}}
      BY ComparisonBits DEF ListsOK
    <2> HIDE DEF comps, support, units, names
    <2>7. ASSUME NEW w \in Kept, NEW v \in Kept
          PROVE  Cardinality({r \in comps : r.primary_wit = w /\ r.secondary_wit = v}) = 1
      <3>1. PICK r \in comps : r.primary_wit = w /\ r.secondary_wit = v
        BY <2>2
      <3>2. {q \in comps : q.primary_wit = w /\ q.secondary_wit = v} = {r}
        BY <2>2, <3>1
      <3> QED
        BY <3>2, FS_Singleton
    <2>8. ASSUME NEW r \in comps, r.primary_wit = r.secondary_wit
          PROVE  r.comp.extant
                   = {u.row_id : u \in {x \in units : \E s \in support :
                        s.variation_unit = x.variation_unit /\ s.witness = r.primary_wit}}
      <3> DEFINE w == r.primary_wit
                 found == {x \in units : \E s \in support : s.variation_unit = x.variation_unit /\ s.witness = w}
                 own == {k \in DOMAIN app.units : w \in DOMAIN app.units[k].support}
      <3>1. w \in Kept /\ r.comp.extant = {i - 1 : i \in own}
        BY <2>2, <2>6, <2>8
      <3> HIDE DEF w
      <3>2. \A u \in found : \E i \in own : u.row_id = i - 1
        BY <2>4, <2>5, <3>1
      <3>3. ASSUME NEW i \in own PROVE \E u \in found : u.row_id = i - 1
        <4> DEFINE u == [row_id |-> i - 1, variation_unit |-> app.units[i].id, label |-> app.units[i].label,
                         connectivity |-> app.units[i].connectivity]
        <4>1. u \in units /\ u.variation_unit = app.units[i].id /\ u.row_id = i - 1
          BY <2>4
        <4> HIDE DEF u
        <4> QED
          BY <2>5, <3>1, <4>1
      <3> HIDE DEF found, own
      <3>4. {i - 1 : i \in own} = {u.row_id : u \in found}
        BY <3>2, <3>3
      <3> QED
        BY <3>1, <3>4 DEF found, w
    <2>9. /\ \A w, v \in names : Cardinality({r \in comps : r.primary_wit = w /\ r.secondary_wit = v}) = 1
          /\ \A r \in comps : {r.primary_wit, r.secondary_wit} \subseteq names
          /\ \A s \in support : s.witness \in names
      BY <2>1, <2>2, <2>3, <2>7
    <2> QED
      BY Zenon, <2>8, <2>9 DEF TablesAgree, comps, support, units, names
  <1> QED
    BY <1>1, IInvHolds, PTL

\* All its queries have passed when a tool writes its output.
LEMMA AllPassed ==
    ASSUME TypeOK, outcome = "output"
    PROVE  /\ tool \in Tools /\ tool # "none" /\ opts \in Options(tool)
           /\ tool \in {"compare_witnesses", "find_relatives"} =>
                Passed("list") /\ Passed("exists") /\ Passed("witness")
           /\ tool = "compare_witnesses" => Passed("secondaries")
           /\ tool = "find_relatives" => Passed("unit")
           /\ tool \in {"print_local_stemma", "print_textual_flow"} =>
                Passed("ids") /\ Passed("passages") /\ Passed("units")
           /\ tool \in {"print_textual_flow", "print_global_stemma"} => Passed("list") /\ Passed("witnesses")
  <1>1. /\ tool \in Tools /\ tool # "none" /\ opts \in Options(tool)
        /\ query = Len(Queries(tool)) + 1
    BY Zenon DEF TypeOK
  <1>2. Len(Queries(tool)) \in Nat
    BY <1>1, QueriesDistinct
  <1>3. \A k \in 1..Len(Queries(tool)) : Passed(Queries(tool)[k])
    BY <1>1, <1>2 DEF Passed
  <1>4. CASE tool = "compare_witnesses"
    BY <1>1, <1>3, <1>4 DEF Queries
  <1>5. CASE tool = "find_relatives"
    BY <1>1, <1>3, <1>5 DEF Queries
  <1>6. CASE tool = "print_local_stemma"
    BY <1>1, <1>3, <1>6 DEF Queries
  <1>7. CASE tool = "print_textual_flow"
    BY <1>1, <1>3, <1>7 DEF Queries
  <1>8. CASE tool = "print_global_stemma"
    BY <1>1, <1>3, <1>8 DEF Queries
  <1> QED
    BY <1>1, <1>4, <1>5, <1>6, <1>7, <1>8

\* The comparisons of a witness that passed the filter are with the witnesses
\* that are not excluded, as the list is (find_relatives.cpp:36-54, 122-177).
LEMMA ComparedWith ==
    ASSUME ListsOK, TablesOK, Written, NEW w \in Kept
    PROVE  ToSet(Column(get_witness(w).comps, "secondary_wit")) = Kept \ excluded_wit_ids
  <1> DEFINE comps == get_witness(w).comps
  <1>1. /\ \A i \in DOMAIN comps : comps[i].secondary_wit \in Kept \ excluded_wit_ids
        /\ \A v \in Kept \ excluded_wit_ids : \E i \in DOMAIN comps : comps[i].secondary_wit = v
    BY WitnessRead
  <1> HIDE DEF comps
  <1> QED
    BY <1>1 DEF Column, ToSet, comps

\* What a tool that compares witnesses has at its end.
LEMMA ListAndComparisons ==
    ASSUME IInv, outcome = "output", tool \in Excluding \ {"optimize_substemmata"}
    PROVE  /\ Written /\ ToSet(selected) = Kept \ excluded_wit_ids
           /\ \A i \in DOMAIN wits : ToSet(Column(wits[i].comps, "secondary_wit")) = Kept \ excluded_wit_ids
           /\ tool = "compare_witnesses" => 1 \in DOMAIN wits
  <1> USE DEF IInv
  <1>1. tool \in {"compare_witnesses", "find_relatives", "print_textual_flow", "print_global_stemma"}
    BY DEF Excluding, Tools
  <1>2. Written /\ Passed("list")
    BY <1>1, AllPassed DEF StartOK
  <1>3. selected = get_list_wit /\ ToSet(selected) = Kept \ excluded_wit_ids /\ selected \in Seq(Kept)
    BY <1>2, WitnessRows DEF QueriesOK, ListFound
  <1>4. CASE tool \in {"compare_witnesses", "find_relatives"}
    <2>1. wits = <<get_witness(opts.primary)>> /\ opts.primary \in Kept
      BY <1>2, <1>4, AllPassed, WitnessKnown DEF QueriesOK, WitnessFound, ExistsFound
    <2>2. DOMAIN wits = {1} /\ wits[1] = get_witness(opts.primary)
      BY <2>1
    <2>3. ToSet(Column(get_witness(opts.primary).comps, "secondary_wit")) = Kept \ excluded_wit_ids
      BY <1>2, <2>1, ComparedWith
    <2> QED
      BY <1>2, <1>3, <2>2, <2>3
  <1>5. CASE tool \in {"print_textual_flow", "print_global_stemma"}
    <2> DEFINE ids == Keep(selected, ToSet(selected) \ excluded_wit_ids)
    <2>1. wits = [i \in DOMAIN ids |-> get_witness(ids[i])]
      BY <1>5, AllPassed DEF QueriesOK, WitnessesFound
    <2>2. \A i \in DOMAIN ids : ids[i] \in Kept
      <3>1. ids \in Seq(Kept)
        BY <1>3, KeepOf
      <3> QED
        BY <3>1
    <2> HIDE DEF ids
    <2>3. ASSUME NEW i \in DOMAIN wits
          PROVE  ToSet(Column(wits[i].comps, "secondary_wit")) = Kept \ excluded_wit_ids
      <3>1. wits[i] = get_witness(ids[i]) /\ ids[i] \in Kept
        BY <2>1, <2>2
      <3> QED
        BY <1>2, <3>1, ComparedWith
    <2> QED
      BY <1>2, <1>3, <1>5, <2>3
  <1> QED
    BY <1>1, <1>4, <1>5

\* Each witness of the list is compared, and no other, whatever is excluded
\* (find_relatives.cpp:390-398).
THEOREM ListMatchesComparisonsHolds == Spec => []ListMatchesComparisons
  <1>1. IInv => ListMatchesComparisons
    BY ListAndComparisons DEF ListMatchesComparisons
  <1> QED
    BY <1>1, IInvHolds, PTL

\* The witnesses that are named are compared (compare_witnesses.cpp:209-276).
THEOREM SecondariesComparedHolds == Spec => []SecondariesCompared
  <1>1. IInv => SecondariesCompared
    <2> SUFFICES ASSUME IInv, outcome = "output", tool = "compare_witnesses", NEW w \in opts.secondaries
                 PROVE  w \in ToSet(selected) \cap ToSet(Column(wits[1].comps, "secondary_wit"))
      BY DEF SecondariesCompared
    <2> USE DEF IInv
    <2>1. excluded_wit_ids = {} /\ Written /\ Passed("secondaries")
      BY AllPassed DEF StartOK
    <2>2. w \in Kept
      BY <2>1, WitnessKnown DEF QueriesOK, SecondariesFound
    <2>3. tool \in Excluding \ {"optimize_substemmata"}
      BY DEF Excluding, Tools
    <2> QED
      BY <2>1, <2>2, <2>3, ListAndComparisons
  <1> QED
    BY <1>1, IInvHolds, PTL

\* What a list keeps is read off at the positions that are kept.
LEMMA KeptAt ==
  ASSUME NEW list, NEW S, NEW kept, {i \in DOMAIN list : list[i] \in S} = kept
  PROVE  Keep(list, S) = [n \in 1..Cardinality(kept) |-> list[Nth(kept, n)]]
  BY DEF Keep

\* Filtering the list of IDs selects the units that a filter of the units would
\* (print_textual_flow.cpp:385-398).
LEMMA IdsKept ==
    ASSUME app \in Apparatuses, NEW P,
           NEW ids, DOMAIN ids = DOMAIN app.units,
           \A i \in DOMAIN ids : ids[i] = app.units[i].id
    PROVE  LET chosen == Keep(app.units, {unit \in ToSet(app.units) : unit.id \in P})
           IN  Keep(ids, P) = [n \in DOMAIN chosen |-> chosen[n].id]
  <1> DEFINE S == {unit \in ToSet(app.units) : unit.id \in P}
             chosen == Keep(app.units, S)
             kept == {i \in DOMAIN app.units : app.units[i].id \in P}
             c == Cardinality(kept)
  <1>1. DOMAIN app.units = 1..Len(app.units) /\ Len(app.units) \in Nat
    BY UnitsOf
  <1>2. kept \in SUBSET Int /\ IsFiniteSet(kept)
    <2>1. kept \in SUBSET (1..Len(app.units)) /\ kept \in SUBSET Int
      BY <1>1
    <2>2. IsFiniteSet(1..Len(app.units))
      BY <1>1, IntervalFinite
    <2> HIDE DEF kept
    <2> QED
      BY <2>1, <2>2, FS_Subset
  <1>3. {i \in DOMAIN app.units : app.units[i] \in S} = kept
    BY DEF ToSet
  <1>4. {i \in DOMAIN ids : ids[i] \in P} = kept
    OBVIOUS
  <1>5. \A i \in kept : ids[i] = app.units[i].id
    OBVIOUS
  <1> HIDE DEF kept, S
  <1>6. chosen = [n \in 1..c |-> app.units[Nth(kept, n)]]
    BY <1>3 DEF Keep
  <1>7. Keep(ids, P) = [n \in 1..c |-> ids[Nth(kept, n)]]
    BY <1>4, KeptAt
  <1>8. \A n \in 1..c : Nth(kept, n) \in kept
    BY <1>2, NthOf
  <1> HIDE DEF chosen, c
  <1>9. Keep(ids, P) = [n \in DOMAIN chosen |-> chosen[n].id]
    BY <1>5, <1>6, <1>7, <1>8
  <1> QED
    BY <1>9 DEF chosen, S

\* What a tool reads of the variation units is the collation, with the support
\* of the witnesses that passed the filter (populate_db.cpp:73-290,
\* print_textual_flow.cpp:133-197, 366-398, find_relatives.cpp:404-420).
THEOREM UnitsRoundTripHolds == Spec => []UnitsRoundTrip
  <1>1. IInv => UnitsRoundTrip
    <2> SUFFICES ASSUME IInv, outcome = "output",
                        tool \in {"find_relatives", "print_local_stemma", "print_textual_flow"}
                 PROVE  LET chosen == Keep(app.units, {unit \in ToSet(app.units) :
                                              opts.passages = {} \/ unit.id \in opts.passages})
                        IN  vus = [i \in DOMAIN chosen |-> KeptUnit(chosen[i])]
      BY DEF UnitsRoundTrip, KeptUnit
    <2> USE DEF IInv
    <2> DEFINE S == {unit \in ToSet(app.units) : opts.passages = {} \/ unit.id \in opts.passages}
               chosen == Keep(app.units, S)
    <2>1. Written /\ opts \in Options(tool) /\ app \in Apparatuses
      BY AllPassed DEF StartOK, ListsOK
    <2>2. /\ Len(app.units) \in Nat /\ DOMAIN app.units = 1..Len(app.units)
          /\ app.units \in Seq(ToSet(app.units))
          /\ \A i, j \in DOMAIN app.units : app.units[i].id = app.units[j].id => i = j
      BY <2>1, UnitsOf
    <2>3. \A i \in DOMAIN app.units : get_variation_unit(app.units[i].id) = KeptUnit(app.units[i])
      BY <2>1, UnitRead
    <2>4. /\ variation_unit_ids = [i \in DOMAIN app.units |-> app.units[i].id]
          /\ \A u : variation_unit_exists(u) <=> \E i \in DOMAIN app.units : app.units[i].id = u
      BY <2>1, UnitRows
    <2>5. CASE tool \in {"print_local_stemma", "print_textual_flow"}
      <3>1. /\ vu_ids = IF opts.passages # {} THEN Keep(variation_unit_ids, opts.passages)
                                               ELSE variation_unit_ids
            /\ vus = [i \in DOMAIN vu_ids |-> get_variation_unit(vu_ids[i])]
        BY <2>5, AllPassed DEF QueriesOK, IdsFound, UnitsFound
      <3>2. vu_ids = [n \in DOMAIN chosen |-> chosen[n].id]
        <4>1. CASE opts.passages = {}
          <5>1. chosen = app.units
            BY <2>2, <4>1, KeepAll DEF ToSet
          <5> QED
            BY <2>4, <3>1, <4>1, <5>1
        <4>2. CASE opts.passages # {}
          <5>1. S = {unit \in ToSet(app.units) : unit.id \in opts.passages}
            BY <4>2
          <5> HIDE DEF S
          <5> QED
            BY <2>1, <2>4, <3>1, <4>2, <5>1, IdsKept
        <4> QED
          BY <4>1, <4>2
      <3>3. \A n \in DOMAIN chosen : \E i \in DOMAIN app.units : chosen[n] = app.units[i]
        <4>1. chosen \in Seq(ToSet(app.units))
          BY <2>2, KeepOf
        <4> HIDE DEF chosen
        <4> QED
          BY <4>1 DEF ToSet
      <3> HIDE DEF chosen
      <3>4. \A n \in DOMAIN chosen : get_variation_unit(chosen[n].id) = KeptUnit(chosen[n])
        BY <2>3, <3>3
      <3>5. vus = [n \in DOMAIN chosen |-> KeptUnit(chosen[n])]
        BY <3>1, <3>2, <3>4
      <3> QED
        BY <3>5 DEF chosen, S
    <2>6. CASE tool = "find_relatives"
      <3>1. PICK u \in opts.passages : variation_unit_exists(u) /\ vus = <<get_variation_unit(u)>>
        BY <2>6, AllPassed DEF QueriesOK, UnitFound
      <3>2. opts.passages = {u}
        <4>1. opts.passages \in {{v} : v \in UnitIds}
          BY <2>1, <2>6 DEF Options
        <4> QED
          BY <3>1, <4>1
      <3>3. PICK i \in DOMAIN app.units : app.units[i].id = u
        BY <2>4, <3>1
      <3>4. app.units[i] \in S /\ \A j \in DOMAIN app.units : app.units[j] \in S => j = i
        BY <2>2, <3>2, <3>3 DEF ToSet
      <3> HIDE DEF S
      <3>5. chosen = <<app.units[i]>>
        BY <2>2, <3>4, KeepOne
      <3>6. vus = <<KeptUnit(app.units[i])>>
        BY <2>3, <3>1, <3>3
      <3> HIDE DEF chosen
      <3>7. vus = [n \in DOMAIN chosen |-> KeptUnit(chosen[n])]
        BY <3>5, <3>6
      <3> QED
        BY <3>7 DEF chosen, S
    <2> QED
      BY <2>5, <2>6
  <1> QED
    BY <1>1, IInvHolds, PTL

\* For any collation: optimize_substemmata finds no ancestor only if there is
\* none, and the passages that it names are those that no witness explains
\* (optimize_substemmata.cpp:258-293).
THEOREM DiagnosisExactHolds == Spec => []DiagnosisExact
  <1>1. IInv => DiagnosisExact
    BY DEF IInv
  <1> QED
    BY <1>1, IInvHolds, PTL

\* For any collation: the passages that enumerate_relationships names are those
\* of the relationship (enumerate_relationships.cpp:187-221).
THEOREM EnumeratedHolds == Spec => []Enumerated
  <1>1. IInv => Enumerated
    BY DEF IInv
  <1> QED
    BY <1>1, IInvHolds, PTL

\* For any collation of up to 50000 units: a filter below that of populate_db
\* excludes nobody (find_relatives.cpp:381-387).
THEOREM FilteredOnceHolds == Spec => []FilteredOnce
  <1>1. IInv => FilteredOnce
    BY DEF IInv
  <1> QED
    BY <1>1, IInvHolds, PTL
==============================================================================
