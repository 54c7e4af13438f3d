-------------------------- MODULE SpscCounters_proof --------------------------
(***************************************************************************)
(* Facts about counters that wrap at Word and are masked into a storage of *)
(* Capacity slots, for every capacity and every word it divides.           *)
(***************************************************************************)
EXTENDS SpscCounters, TLAPS

-----------------------------------------------------------------------------
(* Arithmetic modulo Word and modulo Capacity.                             *)

\* A quotient and a remainder exist ...
LEMMA Quotient ==
  ASSUME NEW c \in Int, c > 0, NEW a \in Int
  PROVE  /\ a % c \in 0 .. c - 1
         /\ \E q \in Int : a = q * c + (a % c)
OBVIOUS

\* ... and the remainder is the only one.
LEMMA Remainder ==
  ASSUME NEW c \in Int, c > 0, NEW a \in Int, NEW q \in Int, NEW r \in 0 .. c - 1,
         a = q * c + r
  PROVE  a % c = r
OBVIOUS

\* The word is a multiple of the capacity, and at least twice as large.
LEMMA WordFacts ==
  /\ Word \in Nat /\ Capacity \in Nat /\ Capacity > 0
  /\ Word >= 2 * Capacity
  /\ \E k \in Nat : Word = k * Capacity
<1>1. PICK k \in 2 .. Word : Word = k * Capacity
  BY CounterAssumption
<1>2. k \in Nat /\ k >= 2 /\ Capacity \in Nat \ {0} /\ Word \in Nat
  BY <1>1, CounterAssumption
<1>3. k * Capacity >= 2 * Capacity
  BY <1>2
<1> QED BY <1>1, <1>2, <1>3

\* The counters reach at least 0 and 1.
LEMMA SmallIndices == 0 \in Index /\ 1 \in Index
BY WordFacts DEF Index

\* Addition wraps at most once.
LEMMA PlusFacts ==
  ASSUME NEW i \in Index, NEW n \in Index
  PROVE  Plus(i, n) = IF i + n < Word THEN i + n ELSE i + n - Word
<1>1. Word \in Nat /\ Word > 0
  BY WordFacts
<1> QED BY <1>1 DEF Plus, Index

\* So does subtraction.
LEMMA DistanceFacts ==
  ASSUME NEW i \in Index, NEW j \in Index
  PROVE  Distance(i, j) = IF i >= j THEN i - j ELSE i - j + Word
<1>1. Word \in Nat /\ Word > 0
  BY WordFacts
<1> QED BY <1>1 DEF Distance, Index

\* Two numbers that are less than a capacity apart fall into different slots.
LEMMA NearSlotsDiffer ==
  ASSUME NEW c \in Int, c > 0, NEW a \in Int, NEW b \in Int, a < b, b - a < c
  PROVE  a % c # b % c
<1> SUFFICES ASSUME a % c = b % c PROVE FALSE
  OBVIOUS
<1>1. PICK p \in Int : a = p * c + (a % c)
  BY Quotient
<1>2. PICK q \in Int : b = q * c + (b % c)
  BY Quotient
<1>3. a % c \in Int
  BY Quotient
<1>4. b - a = q * c - p * c
  BY <1>1, <1>2, <1>3
<1>5. q * c - p * c = (q - p) * c
  OBVIOUS
<1>6. CASE q - p <= 0
  <2>1. (q - p) * c <= 0
    BY <1>6
  <2> QED BY <2>1, <1>4, <1>5
<1>7. CASE q - p >= 1
  <2>1. (q - p) * c >= c
    BY <1>7
  <2> QED BY <2>1, <1>4, <1>5
<1> QED BY <1>6, <1>7

\* A lap of the counters does not move a slot.
LEMMA SlotOfLap ==
  ASSUME NEW i \in Int
  PROVE  (i + Word) % Capacity = i % Capacity
<1>1. PICK k \in Nat : Word = k * Capacity
  BY WordFacts
<1>2. PICK q \in Int : i = q * Capacity + (i % Capacity)
  BY Quotient, WordFacts
<1>3. i % Capacity \in 0 .. Capacity - 1
  BY Quotient, WordFacts
<1>4. i + Word = (q + k) * Capacity + (i % Capacity)
  <2>1. q * Capacity + k * Capacity = (q + k) * Capacity
    BY WordFacts
  <2>2. q * Capacity \in Int /\ k * Capacity \in Int /\ i % Capacity \in Int
    BY WordFacts, <1>3
  <2> QED BY <2>1, <2>2, <1>1, <1>2
<1> QED BY <1>3, <1>4, Remainder, WordFacts

\* Indices whose distance is positive and below the capacity use different
\* slots.
LEMMA SlotsDiffer ==
  ASSUME NEW i \in Index, NEW j \in Index,
         Distance(i, j) > 0, Distance(i, j) < Capacity
  PROVE  Slot(i) # Slot(j)
<1>1. CASE i >= j
  <2>1. j < i /\ i - j < Capacity
    BY <1>1, DistanceFacts, WordFacts DEF Index
  <2>2. j % Capacity # i % Capacity
    BY <2>1, NearSlotsDiffer, WordFacts DEF Index
  <2> QED BY <2>2 DEF Slot
<1>2. CASE i < j
  <2>1. (i + Word) - j > 0 /\ (i + Word) - j < Capacity
    BY <1>2, DistanceFacts, WordFacts DEF Index
  <2>2. (i + Word) % Capacity # j % Capacity
    BY <2>1, NearSlotsDiffer, WordFacts DEF Index
  <2> QED BY <2>2, SlotOfLap DEF Slot, Index
<1> QED BY <1>1, <1>2, WordFacts DEF Index

\* Every index has a slot.
LEMMA SlotRange ==
  ASSUME NEW i \in Index
  PROVE  Slot(i) \in 0 .. Capacity - 1
BY WordFacts, Quotient DEF Slot, Index

\* A distance is a natural number below Word, and 0 only between equal indices.
LEMMA DistanceRange ==
  ASSUME NEW i \in Index, NEW j \in Index
  PROVE  /\ Distance(i, j) \in Nat
         /\ Distance(i, j) < Word
         /\ Distance(i, j) = 0 <=> i = j
BY DistanceFacts, WordFacts DEF Index

\* Distances add up while they stay below Word.
LEMMA DistancesAdd ==
  ASSUME NEW i \in Index, NEW j \in Index, NEW k \in Index,
         Distance(i, j) + Distance(j, k) < Word
  PROVE  Distance(i, k) = Distance(i, j) + Distance(j, k)
<1>1. Distance(i, j) = IF i >= j THEN i - j ELSE i - j + Word
  BY DistanceFacts
<1>2. Distance(j, k) = IF j >= k THEN j - k ELSE j - k + Word
  BY DistanceFacts
<1>3. Distance(i, k) = IF i >= k THEN i - k ELSE i - k + Word
  BY DistanceFacts
<1> QED BY <1>1, <1>2, <1>3, WordFacts DEF Index

\* A counter that moves on by n moves n away from those behind it ...
LEMMA AdvanceFar ==
  ASSUME NEW i \in Index, NEW j \in Index, NEW n \in Nat, Distance(i, j) + n < Word
  PROVE  /\ Plus(i, n) \in Index
         /\ Distance(Plus(i, n), j) = Distance(i, j) + n
<1>0. n \in Index
  BY DistanceRange, WordFacts DEF Index
<1>1. Plus(i, n) = IF i + n < Word THEN i + n ELSE i + n - Word
  BY <1>0, PlusFacts
<1>2. Plus(i, n) \in Index
  BY <1>0, <1>1, WordFacts DEF Index
<1>3. Distance(i, j) = IF i >= j THEN i - j ELSE i - j + Word
  BY DistanceFacts
<1>4. Distance(Plus(i, n), j) =
        IF Plus(i, n) >= j THEN Plus(i, n) - j ELSE Plus(i, n) - j + Word
  BY <1>2, DistanceFacts
<1> QED BY <1>0, <1>1, <1>2, <1>3, <1>4, WordFacts DEF Index

\* ... and n closer to those ahead of it.
LEMMA AdvanceNear ==
  ASSUME NEW i \in Index, NEW j \in Index, NEW n \in Nat, Distance(i, j) >= n
  PROVE  /\ Plus(j, n) \in Index
         /\ Distance(i, Plus(j, n)) = Distance(i, j) - n
<1>0. n \in Index
  BY DistanceRange, WordFacts DEF Index
<1>1. Plus(j, n) = IF j + n < Word THEN j + n ELSE j + n - Word
  BY <1>0, PlusFacts
<1>2. Plus(j, n) \in Index
  BY <1>0, <1>1, WordFacts DEF Index
<1>3. Distance(i, j) = IF i >= j THEN i - j ELSE i - j + Word
  BY DistanceFacts
<1>4. Distance(i, Plus(j, n)) =
        IF i >= Plus(j, n) THEN i - Plus(j, n) ELSE i - Plus(j, n) + Word
  BY <1>2, DistanceFacts
<1> QED BY <1>0, <1>1, <1>2, <1>3, <1>4, WordFacts DEF Index

\* What a thread may see, as numbers.
LEMMA VisibleFacts ==
  ASSUME NEW seen \in Index, NEW newest \in Index, NEW i \in Visible(seen, newest)
  PROVE  /\ i \in Index
         /\ Distance(newest, i) \in Nat /\ Distance(i, seen) \in Nat
         /\ Distance(newest, seen) = Distance(newest, i) + Distance(i, seen)
<1>1. PICK n \in 0 .. Distance(newest, seen) : i = Plus(seen, n)
  BY DEF Visible
<1>2. Distance(newest, seen) \in Index
  BY DistanceFacts, WordFacts DEF Index
<1>3. n \in Index
  BY <1>1, <1>2, WordFacts DEF Index
<1>4. i = IF seen + n < Word THEN seen + n ELSE seen + n - Word
  BY <1>1, <1>3, PlusFacts
<1>5. i \in Index
  BY <1>3, <1>4, WordFacts DEF Index
<1> QED BY <1>1, <1>3, <1>4, <1>5, DistanceFacts, WordFacts DEF Index

\* A sum of indices is an index.
LEMMA PlusIsIndex ==
  ASSUME NEW i \in Index, NEW n \in Index
  PROVE  Plus(i, n) \in Index
BY PlusFacts, WordFacts DEF Index

\* Adding 0 changes nothing.
LEMMA PlusZero ==
  ASSUME NEW i \in Index
  PROVE  Plus(i, 0) = i
BY PlusFacts, WordFacts DEF Index

\* Two advances are one of their sum.
LEMMA PlusPlus ==
  ASSUME NEW i \in Index, NEW m \in Nat, NEW n \in Nat, m + n < Word
  PROVE  Plus(Plus(i, m), n) = Plus(i, m + n)
<1>1. m \in Index /\ n \in Index /\ m + n \in Index
  BY WordFacts DEF Index
<1>2. Plus(i, m) = IF i + m < Word THEN i + m ELSE i + m - Word
  BY <1>1, PlusFacts
<1>3. Plus(i, m) \in Index
  BY <1>1, PlusIsIndex
<1>4. Plus(Plus(i, m), n) =
        IF Plus(i, m) + n < Word THEN Plus(i, m) + n ELSE Plus(i, m) + n - Word
  BY <1>1, <1>3, PlusFacts
<1>5. Plus(i, m + n) = IF i + (m + n) < Word THEN i + (m + n) ELSE i + (m + n) - Word
  BY <1>1, PlusFacts
<1> QED BY <1>1, <1>2, <1>4, <1>5, WordFacts DEF Index

\* An index and a distance lead back to where the distance was taken from.
LEMMA PlusDistance ==
  ASSUME NEW i \in Index, NEW j \in Index
  PROVE  Plus(j, Distance(i, j)) = i
<1>1. Distance(i, j) \in Index
  BY DistanceRange, WordFacts DEF Index
<1> QED BY <1>1, DistanceFacts, PlusFacts, WordFacts DEF Index

\* The slot n further on, with the wrap of the counter left aside.
LEMMA SlotPlus ==
  ASSUME NEW i \in Index, NEW n \in Index
  PROVE  Slot(Plus(i, n)) = (i + n) % Capacity
<1>1. CASE i + n < Word
  BY <1>1, PlusFacts DEF Slot
<1>2. CASE i + n >= Word
  <2>1. Plus(i, n) = i + n - Word
    BY <1>2, PlusFacts, WordFacts DEF Index
  <2>2. i + n - Word \in Int /\ (i + n - Word) + Word = i + n
    BY WordFacts DEF Index
  <2> QED BY <2>1, <2>2, SlotOfLap DEF Slot
<1> QED BY <1>1, <1>2, WordFacts DEF Index
=============================================================================
