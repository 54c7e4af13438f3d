-------------------------- MODULE Evaluation_proof --------------------------
(***************************************************************************)
(* The two programs that evaluate transcription models.                    *)
(*                                                                         *)
(* MAESTRO validation, for every number of test pieces, every limit and    *)
(* every number of runs, however often they are killed or lose the         *)
(* network: the selected pieces are spread evenly, what is said of the     *)
(* comparison is true, and a crash has one of four causes: damage to what  *)
(* is on the disk, the network, missing fixtures, or a basic_pitch that    *)
(* cannot be imported.                                                     *)
(*                                                                         *)
(* The harness, for every corpus, every estimate and every rewriting of    *)
(* the audio: the estimate is of the file as it was during the call, the   *)
(* notes of a pitch track are its runs, the metrics agree with each other, *)
(* and the oracle is perfect.                                              *)
(***************************************************************************)
EXTENDS MaestroValidation, Evaluation, TLAPS, FiniteSetTheorems, SequenceTheorems, WellFoundedInduction

\* A quotient rounded is within half of the quotient.
LEMMA RoundDivBounds ==
  ASSUME NEW a \in Nat, NEW b \in Nat \ {0}
  PROVE /\ RoundDiv(a, b) \in Nat
        /\ 2 * a - b <= 2 * (b * RoundDiv(a, b))
        /\ 2 * (b * RoundDiv(a, b)) <= 2 * a + b
<1> DEFINE q == a \div b
           r == a % b
<1>1. q \in Nat /\ r \in 0 .. b - 1 /\ a = b * q + r
  OBVIOUS
<1>2. q % 2 \in {0, 1}
  BY <1>1
<1> HIDE DEF q, r
<1>3. b * (q + 1) = b * q + b
  BY <1>1
<1>4. CASE 2 * r < b
  <2>1. RoundDiv(a, b) = q
    BY <1>4 DEF RoundDiv, q, r
  <2> QED
    BY <2>1, <1>1, <1>4
<1>5. CASE 2 * r > b
  <2>1. RoundDiv(a, b) = q + 1
    BY <1>5, <1>1 DEF RoundDiv, q, r
  <2> QED
    BY <2>1, <1>1, <1>3, <1>5
<1>6. CASE 2 * r = b
  <2>1. RoundDiv(a, b) = q + (q % 2)
    BY <1>6, <1>1 DEF RoundDiv, q, r
  <2>2. RoundDiv(a, b) = q \/ RoundDiv(a, b) = q + 1
    BY <2>1, <1>1, <1>2
  <2> QED
    BY <2>2, <1>1, <1>3, <1>6
<1> QED
  BY <1>1, <1>4, <1>5, <1>6

\* A multiple of the divisor is not rounded.
LEMMA RoundDivExact ==
  ASSUME NEW c \in Nat, NEW b \in Nat \ {0}
  PROVE RoundDiv(c * b, b) = c
<1>1. (c * b) \div b = c /\ (c * b) % b = 0
  OBVIOUS
<1> QED
  BY <1>1 DEF RoundDiv

\* A positive factor may be cancelled from an inequality.
LEMMA Cancel ==
  ASSUME NEW b \in Nat \ {0}, NEW x \in Int, NEW y \in Int, b * x < b * y
  PROVE x < y
<1>1. SUFFICES ASSUME y <= x PROVE FALSE
  OBVIOUS
<1>2. x - y \in Nat /\ b * (x - y) >= 0
  BY <1>1
<1>3. b * x = b * y + b * (x - y)
  OBVIOUS
<1>4. b * x \in Int /\ b * y \in Int /\ b * (x - y) \in Int
  OBVIOUS
<1> QED
  BY <1>2, <1>3, <1>4

\* Quotients more than one apart are not rounded to the same number.
LEMMA RoundDivGrows ==
  ASSUME NEW a \in Nat, NEW c \in Nat, NEW b \in Nat \ {0}, a + b < c
  PROVE RoundDiv(a, b) < RoundDiv(c, b)
<1> DEFINE x == RoundDiv(a, b)
           y == RoundDiv(c, b)
<1>1. x \in Nat /\ 2 * (b * x) <= 2 * a + b
  BY RoundDivBounds
<1>2. y \in Nat /\ 2 * c - b <= 2 * (b * y)
  BY RoundDivBounds
<1> HIDE DEF x, y
<1>3. b * x \in Int /\ b * y \in Int
  BY <1>1, <1>2
<1>4. b * x < b * y
  BY <1>1, <1>2, <1>3
<1>5. x < y
  BY <1>1, <1>2, <1>4, Cancel
<1> QED
  BY <1>5 DEF x, y

\* A dividend that grows by d, which b does not divide, moves the rounded quotient
\* by one of the two integers next to d / b.
LEMMA RoundDivStep ==
  ASSUME NEW a \in Nat, NEW d \in Nat, NEW b \in Nat \ {0}, d % b # 0
  PROVE RoundDiv(a + d, b) - RoundDiv(a, b) \in {d \div b, d \div b + 1}
<1> DEFINE x == RoundDiv(a, b)
           y == RoundDiv(a + d, b)
           q == d \div b
           r == d % b
<1>1. x \in Nat /\ 2 * a - b <= 2 * (b * x) /\ 2 * (b * x) <= 2 * a + b
  BY RoundDivBounds
<1>2. y \in Nat /\ 2 * (a + d) - b <= 2 * (b * y) /\ 2 * (b * y) <= 2 * (a + d) + b
  <2>1. a + d \in Nat
    OBVIOUS
  <2> QED
    BY <2>1, RoundDivBounds
<1>3. q \in Nat /\ r \in 1 .. b - 1 /\ d = b * q + r
  OBVIOUS
<1> HIDE DEF x, y, q, r
<1>4. b * x \in Int /\ b * y \in Int /\ b * q \in Int
  BY <1>1, <1>2, <1>3
<1>5. b * (x + q - 1) < b * y
  <2>1. b * (x + q - 1) = b * x + b * q - b
    BY <1>1, <1>3
  <2> QED
    BY <2>1, <1>1, <1>2, <1>3, <1>4
<1>6. b * y < b * (x + q + 2)
  <2>1. b * (x + q + 2) = b * x + b * q + 2 * b
    BY <1>1, <1>3
  <2> QED
    BY <2>1, <1>1, <1>2, <1>3, <1>4
<1>7. x + q - 1 < y
  BY <1>1, <1>2, <1>3, <1>5, Cancel
<1>8. y < x + q + 2
  BY <1>1, <1>2, <1>3, <1>6, Cancel
<1>9. y - x \in {q, q + 1}
  <2>1. x \in Nat /\ y \in Nat /\ q \in Nat
    BY <1>1, <1>2, <1>3
  <2>2. y = x + q \/ y = x + q + 1
    BY <2>1, <1>7, <1>8
  <2> QED
    BY <2>1, <2>2
<1> QED
  BY <1>9 DEF x, y, q

-----------------------------------------------------------------------------
\* The selection from more pieces than the limit: strictly ascending, within the
\* rows, with the first and the last, and in steps that differ by one at most.
LEMMA SpreadOfSelection ==
  ASSUME NEW rows \in Nat, NEW most \in Nat, 2 <= most, most < rows
  PROVE  LET picks == SubsetIndices(rows, most)  step == (rows - 1) \div (most - 1) IN
         /\ DOMAIN picks = 1 .. most
         /\ \A i, j \in 1 .. most : i < j => picks[i] < picks[j]
         /\ \A i \in 1 .. most : picks[i] \in 1 .. rows
         /\ picks[1] = 1 /\ picks[most] = rows
         /\ \A i \in 1 .. most - 1 :
              picks[i + 1] - picks[i] \in
                IF (rows - 1) % (most - 1) = 0 THEN {step} ELSE {step, step + 1}
<1> DEFINE b == most - 1
           d == rows - 1
           At(i) == RoundDiv((i - 1) * d, b) + 1
           picks == SubsetIndices(rows, most)
<1>1. picks = [i \in 1 .. most |-> At(i)]
  BY DEF SubsetIndices
<1>2. b \in Nat \ {0} /\ d \in Nat \ {0} /\ b < d
  OBVIOUS
<1>3. \A i \in 1 .. most : picks[i] = At(i)
  BY <1>1
<1>4. \A i \in 1 .. most : (i - 1) * d \in Nat
  BY <1>2
<1> HIDE DEF picks
<1>5. \A i, j \in 1 .. most : i < j => At(i) < At(j)
  <2> SUFFICES ASSUME NEW i \in 1 .. most, NEW j \in 1 .. most, i < j
               PROVE At(i) < At(j)
    OBVIOUS
  <2> DEFINE u == (i - 1) * d
             v == (j - 1) * d
  <2>1. u \in Nat /\ v \in Nat
    BY <1>4
  <2>2. v = u + (j - i) * d /\ (j - i) * d >= d
    <3>1. (j - i - 1) * d >= 0
      BY <1>2
    <3>2. (j - i) * d = (j - i - 1) * d + d
      BY <1>2
    <3>3. v = u + (j - i) * d
      BY <1>2
    <3> QED
      BY <3>1, <3>2, <3>3, <1>2
  <2> HIDE DEF u, v
  <2>3. u + b < v
    BY <2>1, <2>2, <1>2
  <2>4. RoundDiv(u, b) \in Nat /\ RoundDiv(v, b) \in Nat
    BY <2>1, <1>2, RoundDivBounds
  <2>5. RoundDiv(u, b) < RoundDiv(v, b)
    BY <2>1, <2>3, <1>2, RoundDivGrows
  <2>6. RoundDiv(u, b) + 1 < RoundDiv(v, b) + 1
    BY <2>4, <2>5
  <2> QED
    BY <2>6 DEF u, v
<1>6. At(1) = 1
  <2>1. RoundDiv(0 * b, b) = 0
    BY <1>2, RoundDivExact
  <2>2. 0 * b = 0 /\ (1 - 1) * d = 0
    BY <1>2
  <2> QED
    BY <2>1, <2>2
<1>7. At(most) = rows
  <2>1. RoundDiv(d * b, b) = d
    BY <1>2, RoundDivExact
  <2>2. (most - 1) * d = d * b
    BY <1>2
  <2>3. d + 1 = rows
    OBVIOUS
  <2> QED
    BY <2>1, <2>2, <2>3
<1>8. \A i \in 1 .. most : At(i) \in Nat
  <2> SUFFICES ASSUME NEW i \in 1 .. most PROVE At(i) \in Nat
    OBVIOUS
  <2>1. RoundDiv((i - 1) * d, b) \in Nat
    BY <1>2, <1>4, RoundDivBounds
  <2> QED
    BY <2>1
<1>9. \A i \in 1 .. most : At(i) \in 1 .. rows
  <2> SUFFICES ASSUME NEW i \in 1 .. most PROVE At(i) \in 1 .. rows
    OBVIOUS
  <2> HIDE DEF At
  <2>1. At(1) <= At(i)
    BY <1>5, <1>8
  <2>2. At(i) <= At(most)
    BY <1>5, <1>8
  <2> QED
    BY <2>1, <2>2, <1>6, <1>7, <1>8
<1>10. \A i \in 1 .. most - 1 :
         At(i + 1) - At(i) \in IF d % b = 0 THEN {d \div b} ELSE {d \div b, d \div b + 1}
  <2> SUFFICES ASSUME NEW i \in 1 .. most - 1
               PROVE  At(i + 1) - At(i) \in IF d % b = 0 THEN {d \div b} ELSE {d \div b, d \div b + 1}
    OBVIOUS
  <2> DEFINE u == (i - 1) * d
             q == d \div b
  <2>1. u \in Nat /\ i * d = u + d /\ (i + 1 - 1) * d = i * d
    BY <1>2
  <2>2. At(i) = RoundDiv(u, b) + 1 /\ At(i + 1) = RoundDiv(u + d, b) + 1
    BY <2>1
  <2>3. RoundDiv(u, b) \in Nat /\ RoundDiv(u + d, b) \in Nat
    <3>1. u + d \in Nat
      BY <2>1, <1>2
    <3> QED
      BY <3>1, <2>1, <1>2, RoundDivBounds
  <2>4. CASE d % b # 0
    <3>1. RoundDiv(u + d, b) - RoundDiv(u, b) \in {q, q + 1}
      BY <2>1, <2>4, <1>2, RoundDivStep
    <3> QED
      BY <3>1, <2>2, <2>3, <2>4
  <2>5. CASE d % b = 0
    <3>1. q \in Nat /\ d = q * b
      BY <2>5, <1>2
    <3> HIDE DEF q
    <3>2. u = ((i - 1) * q) * b /\ u + d = (i * q) * b
      BY <3>1, <1>2
    <3>3. (i - 1) * q \in Nat /\ i * q \in Nat
      BY <3>1
    <3>4. RoundDiv(u, b) = (i - 1) * q /\ RoundDiv(u + d, b) = i * q
      BY <3>2, <3>3, <1>2, RoundDivExact
    <3>5. i * q - (i - 1) * q = q
      BY <3>1
    <3>6. At(i + 1) - At(i) = q
      BY <3>3, <3>4, <3>5, <2>2
    <3> QED
      BY <3>6, <2>5 DEF q
  <2> QED
    BY <2>4, <2>5
<1> HIDE DEF At
<1>11. DOMAIN picks = 1 .. most
  BY <1>1
<1>12. \A i \in 1 .. most - 1 : picks[i + 1] = At(i + 1) /\ picks[i] = At(i)
  BY <1>3
<1>13. picks[1] = 1 /\ picks[most] = rows
  BY <1>3, <1>6, <1>7
<1> QED
  BY <1>3, <1>5, <1>9, <1>10, <1>11, <1>12, <1>13 DEF picks

Spread(rows, most) ==
  LET picks == SubsetIndices(rows, most) IN
  /\ \A i, j \in DOMAIN picks : i < j => picks[i] < picks[j]
  /\ \A i \in DOMAIN picks : picks[i] \in 1 .. rows
  /\ 2 <= most /\ most < rows =>
       /\ picks[1] = 1 /\ picks[most] = rows
       /\ \A i \in 1 .. most - 1 :
            LET step == (rows - 1) \div (most - 1) IN
            picks[i + 1] - picks[i] \in
              IF (rows - 1) % (most - 1) = 0 THEN {step} ELSE {step, step + 1}

\* So is every selection, that of all pieces and that of the middle one included.
LEMMA SelectionIsSpread ==
  ASSUME NEW rows \in Nat, NEW most \in Nat
  PROVE Spread(rows, most)
<1>1. CASE rows <= most
  <2>1. SubsetIndices(rows, most) = [i \in 1 .. rows |-> i]
    BY <1>1 DEF SubsetIndices
  <2> QED
    BY <1>1, <2>1 DEF Spread
<1>2. CASE most < rows /\ most <= 1
  <2> DEFINE middle == (rows - 1) \div 2 + 1
  <2>1. SubsetIndices(rows, most) = <<middle>>
    BY <1>2 DEF SubsetIndices
  <2>2. middle \in 1 .. rows
    BY <1>2
  <2> HIDE DEF middle
  <2>3. DOMAIN <<middle>> = {1} /\ <<middle>>[1] = middle
    OBVIOUS
  <2> QED
    BY <1>2, <2>1, <2>2, <2>3 DEF Spread
<1>3. CASE 2 <= most /\ most < rows
  <2> DEFINE picks == SubsetIndices(rows, most)
  <2>1. /\ DOMAIN picks = 1 .. most
        /\ \A i, j \in 1 .. most : i < j => picks[i] < picks[j]
        /\ \A i \in 1 .. most : picks[i] \in 1 .. rows
        /\ picks[1] = 1 /\ picks[most] = rows
    BY <1>3, SpreadOfSelection
  <2>2. \A i \in 1 .. most - 1 :
          picks[i + 1] - picks[i] \in
            IF (rows - 1) % (most - 1) = 0 THEN {(rows - 1) \div (most - 1)}
            ELSE {(rows - 1) \div (most - 1), (rows - 1) \div (most - 1) + 1}
    BY <1>3, SpreadOfSelection
  <2> HIDE DEF picks
  <2>3. Spread(rows, most) <=>
          /\ \A i, j \in DOMAIN picks : i < j => picks[i] < picks[j]
          /\ \A i \in DOMAIN picks : picks[i] \in 1 .. rows
          /\ 2 <= most /\ most < rows =>
               /\ picks[1] = 1 /\ picks[most] = rows
               /\ \A i \in 1 .. most - 1 :
                    picks[i + 1] - picks[i] \in
                      IF (rows - 1) % (most - 1) = 0 THEN {(rows - 1) \div (most - 1)}
                      ELSE {(rows - 1) \div (most - 1), (rows - 1) \div (most - 1) + 1}
    BY DEF Spread, picks
  <2> QED
    BY <2>1, <2>2, <2>3
<1> QED
  BY <1>1, <1>2, <1>3

-----------------------------------------------------------------------------
\* A set of natural numbers that is not empty has a least one: induction, in the form
\* of the least counterexample.
LEMMA LeastNumber ==
  ASSUME NEW T \in SUBSET Nat, T # {}
  PROVE  \E x \in T : \A y \in T : x <= y
<1>1. PICK x \in T : \A y \in T : ~(<<y, x>> \in OpToRel(<, Nat))
  BY NatLessThanWellFounded, WFMin
<1>2. \A y \in T : x <= y
  <2> TAKE y \in T
  <2>1. ~(<<y, x>> \in OpToRel(<, Nat))
    BY <1>1
  <2>2. y < x => <<y, x>> \in OpToRel(<, Nat)
    BY DEF OpToRel
  <2>3. ~(y < x)
    BY <2>1, <2>2, Zenon
  <2>4. x \in Nat /\ y \in Nat
    OBVIOUS
  <2> QED
    BY <2>3, <2>4
<1> QED
  BY <1>2

\* How many of the pieces come no later than x.
UpTo(pieces, x) == Cardinality({q \in pieces : q <= x})

\* From one number to the next it grows by one, if that is a piece.
LEMMA UpToGrows ==
  ASSUME NEW S, IsFiniteSet(S), \A q \in S : q \in Nat \ {0}
  PROVE  /\ \A x \in Nat : UpTo(S, x) \in Nat
         /\ UpTo(S, 0) = 0
         /\ \A x \in Nat : UpTo(S, x + 1) = IF x + 1 \in S THEN UpTo(S, x) + 1 ELSE UpTo(S, x)
<1>1. ASSUME NEW x PROVE IsFiniteSet({q \in S : q <= x}) /\ UpTo(S, x) \in Nat
  <2> DEFINE below == {q \in S : q <= x}
  <2>1. below \in SUBSET S
    OBVIOUS
  <2>2. UpTo(S, x) = Cardinality(below)
    BY DEF UpTo
  <2> HIDE DEF below
  <2>3. IsFiniteSet(below)
    BY <2>1, FS_Subset
  <2>4. Cardinality(below) \in Nat
    BY <2>3, FS_CardinalityType
  <2> QED
    BY <2>2, <2>3, <2>4 DEF below
<1>2. UpTo(S, 0) = 0
  <2>1. \A q \in S : ~(q <= 0)
    OBVIOUS
  <2>2. {q \in S : q <= 0} = {}
    BY <2>1
  <2> QED
    BY <2>2, FS_EmptySet DEF UpTo
<1>3. ASSUME NEW x \in Nat
      PROVE  UpTo(S, x + 1) = IF x + 1 \in S THEN UpTo(S, x) + 1 ELSE UpTo(S, x)
  <2> DEFINE below == {q \in S : q <= x}
             upto == {q \in S : q <= x + 1}
  <2>1. IsFiniteSet(below) /\ UpTo(S, x) = Cardinality(below) /\ UpTo(S, x + 1) = Cardinality(upto)
    BY <1>1 DEF UpTo
  <2>2. x + 1 \notin below
    OBVIOUS
  <2>3. \A q \in S : q <= x + 1 <=> (q <= x \/ q = x + 1)
    OBVIOUS
  <2>4. x + 1 \in S => upto = below \cup {x + 1}
    BY <2>3
  <2>5. x + 1 \notin S => upto = below
    BY <2>3
  <2> HIDE DEF below, upto
  <2>6. Cardinality(below \cup {x + 1}) = Cardinality(below) + 1
    BY <2>1, <2>2, FS_AddElement
  <2> QED
    BY <2>1, <2>4, <2>5, <2>6
<1> QED
  BY <1>1, <1>2, <1>3

\* There is a piece at each place among those listed, and it is Nth.
LEMMA NthIsListed ==
  ASSUME NEW m \in Nat, NEW S, S \subseteq 1 .. m, NEW k \in Nat \ {0}, k <= Cardinality(S)
  PROVE  Nth(S, k) \in S /\ UpTo(S, Nth(S, k)) = k
<1>1. IsFiniteSet(S)
  <2>1. IsFiniteSet(1 .. m)
    BY FS_Interval
  <2> QED
    BY <2>1, FS_Subset
<1>2. \A q \in S : q \in Nat \ {0} /\ q <= m
  OBVIOUS
<1>3. /\ \A x \in Nat : UpTo(S, x) \in Nat
      /\ UpTo(S, 0) = 0
      /\ \A x \in Nat : UpTo(S, x + 1) = IF x + 1 \in S THEN UpTo(S, x) + 1 ELSE UpTo(S, x)
  BY <1>1, <1>2, UpToGrows
<1>4. UpTo(S, m) >= k
  <2>1. {q \in S : q <= m} = S
    BY <1>2
  <2>2. UpTo(S, m) = Cardinality(S)
    BY <2>1 DEF UpTo
  <2> QED
    BY <2>2, <1>3
<1>5. PICK p \in Nat : UpTo(S, p) >= k /\ \A y \in Nat : UpTo(S, y) >= k => p <= y
  <2> DEFINE T == {x \in Nat : UpTo(S, x) >= k}
  <2>1. T \in SUBSET Nat /\ T # {}
    BY <1>4
  <2>2. \A y \in Nat : UpTo(S, y) >= k => y \in T
    OBVIOUS
  <2>3. \A x \in T : x \in Nat /\ UpTo(S, x) >= k
    OBVIOUS
  <2> HIDE DEF T
  <2>4. PICK x \in T : \A y \in T : x <= y
    BY <2>1, LeastNumber
  <2> QED
    BY <2>2, <2>3, <2>4
<1>6. p # 0
  BY <1>3, <1>5
<1>7. PICK x \in Nat : p = x + 1
  <2>1. p - 1 \in Nat /\ p = (p - 1) + 1
    BY <1>6
  <2> QED
    BY <2>1
<1>8. UpTo(S, x) \in Nat /\ ~(UpTo(S, x) >= k)
  BY <1>3, <1>5, <1>7
<1>9. p \in S /\ UpTo(S, p) = UpTo(S, x) + 1
  BY <1>3, <1>5, <1>7, <1>8
<1>10. UpTo(S, p) = k
  BY <1>5, <1>8, <1>9
<1>11. \E q \in S : Cardinality({r \in S : r <= q}) = k
  BY <1>9, <1>10 DEF UpTo
<1> QED
  BY <1>11 DEF Nth, UpTo

\* If all pieces are listed, the one at place k is k.
LEMMA NthOfAll ==
  ASSUME NEW m \in Nat, NEW k \in 1 .. m
  PROVE  Nth(1 .. m, k) = k
<1> DEFINE p == Nth(1 .. m, k)
<1>1. Cardinality(1 .. m) = m
  BY FS_Interval
<1>2. p \in 1 .. m /\ UpTo(1 .. m, p) = k
  BY <1>1, NthIsListed
<1> HIDE DEF p
<1>3. {q \in 1 .. m : q <= p} = 1 .. p
  BY <1>2
<1>4. Cardinality(1 .. p) = p
  BY <1>2, FS_Interval
<1> QED
  BY <1>2, <1>3, <1>4 DEF UpTo, p

\* How many pieces are selected.
Many(rows, most) == IF most >= rows THEN rows ELSE IF most <= 1 THEN 1 ELSE most

\* A selection has that many places.
LEMMA SelectionSize ==
  ASSUME NEW rows \in Nat, NEW most \in Nat
  PROVE  DOMAIN SubsetIndices(rows, most) = 1 .. Many(rows, most) /\ Many(rows, most) \in Nat
<1>1. CASE most >= rows
  BY <1>1 DEF SubsetIndices, Many
<1>2. CASE most < rows /\ most <= 1
  BY <1>2 DEF SubsetIndices, Many
<1>3. CASE most < rows /\ most > 1
  BY <1>3 DEF SubsetIndices, Many
<1> QED
  BY <1>1, <1>2, <1>3

\* What the program knows of the pieces.
Known == n \in Nat /\ limit \in Nat /\ listed \subseteq 1 .. n

\* How many pieces are selected, of those listed.
Selected == Len(subset)

\* The selected pieces are listed ones, and no two are the same.
LEMMA SubsetPieces ==
  ASSUME Known
  PROVE  /\ Cardinality(listed) \in Nat /\ IsFiniteSet(listed)
         /\ Selected = Many(Cardinality(listed), limit)
         /\ Selected \in Nat /\ DOMAIN subset = 1 .. Selected
         /\ \A i \in 1 .. Selected : subset[i] \in listed
         /\ \A i, j \in 1 .. Selected : i # j => subset[i] # subset[j]
         /\ Pieces = {subset[i] : i \in 1 .. Selected}
<1> DEFINE rows == Cardinality(listed)
           picks == SubsetIndices(rows, limit)
           size == Many(rows, limit)
<1>1. n \in Nat /\ limit \in Nat /\ listed \subseteq 1 .. n
  BY DEF Known
<1>2. IsFiniteSet(listed) /\ rows \in Nat
  <2>1. IsFiniteSet(1 .. n)
    BY <1>1, FS_Interval
  <2>2. IsFiniteSet(listed)
    BY <2>1, <1>1, FS_Subset
  <2> QED
    BY <2>2, FS_CardinalityType
<1>3. DOMAIN picks = 1 .. size /\ size \in Nat
  BY <1>1, <1>2, SelectionSize
<1>4. /\ \A i, j \in DOMAIN picks : i < j => picks[i] < picks[j]
      /\ \A i \in DOMAIN picks : picks[i] \in 1 .. rows
  BY <1>1, <1>2, SelectionIsSpread DEF Spread
<1>5. subset = [i \in 1 .. size |-> Nth(listed, picks[i])]
  BY <1>3 DEF subset
<1> HIDE DEF picks, size
<1>6. \A i \in 1 .. size : subset[i] \in listed /\ UpTo(listed, subset[i]) = picks[i]
  <2> TAKE i \in 1 .. size
  <2>1. picks[i] \in Nat \ {0} /\ picks[i] <= Cardinality(listed)
    BY <1>2, <1>3, <1>4
  <2>2. subset[i] = Nth(listed, picks[i])
    BY <1>5
  <2> QED
    BY <2>1, <2>2, <1>1, NthIsListed
<1>7. Len(subset) = size
  <2>1. subset \in Seq(listed)
    BY <1>3, <1>5, <1>6
  <2>2. DOMAIN subset = 1 .. size
    BY <1>5
  <2>3. DOMAIN subset = 1 .. Len(subset) /\ Len(subset) \in Nat
    BY <2>1
  <2> HIDE DEF rows
  <2> QED
    BY <2>2, <2>3, <1>3
<1>8. \A i, j \in 1 .. size : i # j => subset[i] # subset[j]
  <2> SUFFICES ASSUME NEW i \in 1 .. size, NEW j \in 1 .. size, i # j PROVE subset[i] # subset[j]
    OBVIOUS
  <2>1. picks[i] \in Int /\ picks[j] \in Int /\ (picks[i] < picks[j] \/ picks[j] < picks[i])
    BY <1>3, <1>4, <1>2
  <2>2. picks[i] # picks[j]
    BY <2>1
  <2> QED
    BY <2>2, <1>6
<1>9. DOMAIN subset = 1 .. size
  BY <1>5
<1>10. Pieces = {subset[i] : i \in 1 .. size}
  BY <1>9 DEF Pieces
<1> QED
  BY <1>2, <1>3, <1>6, <1>7, <1>8, <1>9, <1>10 DEF size, Selected

\* Of all test pieces as many are selected as were asked for.
LEMMA SubsetOfAll ==
  ASSUME Known, listed = 1 .. n
  PROVE  /\ Cardinality(Pieces) = IF limit >= n THEN n ELSE IF limit = 0 THEN 1 ELSE limit
         /\ IsFiniteSet(Pieces)
<1> DEFINE size == Selected
<1>1. n \in Nat /\ limit \in Nat
  BY DEF Known
<1>2. size = Many(n, limit) /\ size \in Nat
  <2>1. Cardinality(listed) = n
    BY <1>1, FS_Interval
  <2> QED
    BY <2>1, SubsetPieces
<1>3. /\ DOMAIN subset = 1 .. size /\ Pieces = {subset[i] : i \in 1 .. size}
      /\ \A i, j \in 1 .. size : i # j => subset[i] # subset[j]
  BY SubsetPieces
<1> HIDE DEF size
<1>4. IsFiniteSet(1 .. size) /\ Cardinality(1 .. size) = size
  BY <1>2, FS_Interval
<1>5. ExistsBijection(1 .. size, Pieces)
  <2> DEFINE f == [i \in 1 .. size |-> subset[i]]
  <2>1. \A i \in 1 .. size : f[i] = subset[i] /\ f[i] \in Pieces
    BY <1>3
  <2>2. \A t \in Pieces : \E i \in 1 .. size : f[i] = t
    BY <1>3, <2>1
  <2>3. f \in [1 .. size -> Pieces]
    BY <2>1
  <2>4. \A i, j \in 1 .. size : f[i] = f[j] => i = j
    BY <1>3, <2>1
  <2> HIDE DEF f
  <2>5. f \in Bijection(1 .. size, Pieces)
    BY <2>2, <2>3, <2>4 DEF Bijection, Injection, Surjection, IsInjective
  <2> QED
    BY <2>5 DEF ExistsBijection
<1>6. IsFiniteSet(Pieces) /\ Cardinality(Pieces) = size
  BY <1>4, <1>5, FS_Bijection
<1> QED
  BY <1>1, <1>2, <1>6 DEF Many

\* The subset changes only when the CSV file is read.
LEMMA SameSubset ==
  ASSUME listed' = listed, limit' = limit
  PROVE  subset' = subset /\ Selected' = Selected /\ Pieces' = Pieces
  BY DEF subset, Selected, Pieces, Nth

-----------------------------------------------------------------------------
\* What is known of a run holds at the start.
LEMMA KnownAtFirst == ASSUME Init PROVE Known
  BY MaestroAssumption DEF Init, Known

\* What is known of a run survives every step.
LEMMA KnownPreserved == ASSUME Known, [Next]_vars PROVE Known'
<1> USE DEF Known
<1>1. CASE LoadSubset
  BY <1>1 DEF LoadSubset, Step, given
<1>2. CASE RunAgain
  BY <1>2 DEF RunAgain, given
<1>3. CASE UNCHANGED vars
  BY <1>3 DEF vars, given, run
<1>4. CASE Calibrate \/ StartDownload \/ Download \/ OpenArchive \/ Extract \/ EnsureMidis
  BY <1>4 DEF Calibrate, StartDownload, Download, OpenArchive, Extract, EnsureMidis, Step, Fault,
              given, run
<1>5. CASE Reuse \/ FetchAudio \/ NotFound \/ HttpError \/ Unreachable
  BY <1>5 DEF Reuse, FetchAudio, NotFound, HttpError, Unreachable, Fetched, Fault, given, run
<1>6. CASE Decide \/ Compare \/ Kill
  BY <1>6 DEF Decide, Compare, Kill, Step, Fault, given, run
<1> QED
  BY <1>1, <1>2, <1>3, <1>4, <1>5, <1>6 DEF Next

\* The subset is spread evenly over the test pieces that the CSV file lists, and no
\* piece is scored twice: for every number of pieces, every limit and every number of
\* runs, kills and failures.
THEOREM SpreadSubset == Spec => []SubsetIsSpread
<1>1. ASSUME Known PROVE SubsetIsSpread
  <2>1. IsFiniteSet(listed)
    <3>1. n \in Nat /\ limit \in Nat /\ listed \subseteq 1 .. n
      BY <1>1 DEF Known
    <3>2. IsFiniteSet(1 .. n)
      BY <3>1, FS_Interval
    <3> QED
      BY <3>1, <3>2, FS_Subset
  <2>2. Cardinality(listed) \in Nat
    BY <2>1, FS_CardinalityType
  <2>3. Spread(Cardinality(listed), limit)
    BY <1>1, <2>2, SelectionIsSpread DEF Known
  <2> QED
    BY <2>3 DEF Spread, SubsetIsSpread
<1> QED
  BY <1>1, KnownAtFirst, KnownPreserved, PTL DEF Spec
-----------------------------------------------------------------------------
\* What each variable holds.
Steps == {"calibrate", "archive", "download", "extract", "subset", "midis", "audio", "compare"}
Ends == {"exit 0", "exit 1", "exit 2", "crash", "killed"}

Early == {"calibrate", "archive", "download", "extract", "subset", "midis"}

DiskTyped ==
  /\ zip \in {"none", "torn", "whole"}
  /\ members \in [1 .. n + 1 -> {"none", "torn", "whole"}]
  /\ audio \in [1 .. n -> {"none", "small", "torn", "whole"}]

StepTyped == pc \in Steps \cup Ends
CountTyped == csvAt \in 1 .. n + 1 /\ done \in Nat /\ missing \in Nat

MaestroTypes == Known /\ DiskTyped /\ StepTyped /\ CountTyped

\* How far a step is; what is said, counted and scored before the end and at it.
Progress ==
  /\ pc = "extract" => done <= n
  /\ pc \in {"audio", "compare"} => done <= Selected

SaidAtEnd == pc \in Steps => said = "nothing"

Tally == pc \in Early \cup {"compare"} \/ said = "validated" => missing = 0

Paired ==
  /\ pc \in Early \cup {"audio"} => pairs = {}
  /\ pairs \subseteq Pieces
  /\ said = "validated" => pairs # {}

Honest ==
  /\ pc = "compare" => installed # "none"
  /\ said = "validated" => installed = "whole"
  /\ pc = "exit 0" /\ required => said = "validated"

RunShape == Progress /\ SaidAtEnd /\ Tally /\ Paired /\ Honest

\* What is damaged on the disk was damaged by a fault.
NoKill == "kill" \notin faults
Clean == faults \cap {"kill", "small"} = {}

Whole == \A m \in 1 .. n + 1 : members[m] = "whole"

ZipExplained == zip = "torn" => pc = "download" \/ faults # {}

AudioExplained ==
  /\ NoKill => \A p \in 1 .. n : audio[p] # "torn"
  /\ Clean => \A p \in 1 .. n : audio[p] # "small"

Extracted ==
  /\ pc = "extract" => \A m \in 1 .. done : members[m] = "whole"
  /\ pc # "extract" => Whole \/ \A m \in 1 .. n + 1 : members[m] = "none"
  /\ pc \in {"subset", "midis", "audio", "compare"} \/ said = "validated" => Whole
  /\ pc \in {"midis", "audio", "compare"} \/ said = "validated" => listed = 1 .. n

MembersWhole == NoKill => Extracted

DiskExplained == ZipExplained /\ AudioExplained /\ MembersWhole

\* What the first pass over the audio counted as missing is missing, and what it went
\* through without counting is there; what the second pass does not score is small.
Present(i) == audio[subset[i]] # "none"
Absent(i) == audio[subset[i]] \in {"none", "small"}

SomeAbsent == \E i \in 1 .. Selected : Absent(i)

MissingAbsent == pc = "audio" /\ missing > 0 => \E i \in 1 .. done : Absent(i)
BlockedAbsent == said = "blocked" => installed = "none" \/ SomeAbsent

CountedPresent ==
  /\ pc = "audio" /\ missing = 0 => \A i \in 1 .. done : Present(i)
  /\ pc = "compare" \/ said = "validated" => \A i \in 1 .. Selected : Present(i)

PairedOrSmall(i) == subset[i] \in pairs \/ audio[subset[i]] = "small"

PairedAll ==
  /\ pc = "compare" => \A i \in 1 .. done : PairedOrSmall(i)
  /\ said = "validated" => \A i \in 1 .. Selected : PairedOrSmall(i)

AudioCounted == MissingAbsent /\ BlockedAbsent /\ CountedPresent /\ PairedAll

\* Why it crashed, and that a run that was doomed has got nowhere.
CrashFault ==
  /\ ~fixtures => pc \in {"calibrate", "crash", "killed"} /\ zip = "none"
  /\ pc = "crash" /\ faults = {} =>
       ~fixtures \/ (installed = "broken" /\ missing = 0 /\ pairs # {})

DoomedStuck ==
  doomed => /\ zip = "torn" /\ members[csvAt] = "none"
            /\ pc \in {"calibrate", "archive", "exit 1", "crash", "killed"}

MaestroInv == MaestroTypes /\ RunShape /\ DiskExplained /\ AudioCounted
              /\ CrashFault /\ DoomedStuck

\* The command line and the archive never change.
LEMMA GivenStays == ASSUME [Next]_vars PROVE UNCHANGED given
  BY DEF Next, vars, Calibrate, StartDownload, Download, OpenArchive, Extract, LoadSubset,
         EnsureMidis, Reuse, FetchAudio, NotFound, HttpError, Unreachable, Decide, Compare, Kill,
         RunAgain, Step, Fault, Fetched

\* The types of the files on the disk survive every step.
LEMMA DiskTypedStep == ASSUME DiskTyped, [Next]_vars PROVE DiskTyped'
<1>1. n' = n
  BY GivenStays DEF given
<1>2. CASE UNCHANGED disk
  BY <1>1, <1>2 DEF DiskTyped, disk
<1>3. CASE StartDownload \/ Download
  <2>1. zip' \in {zip, "torn", "whole"} /\ members' = members /\ audio' = audio
    BY <1>3 DEF StartDownload, Download
  <2> QED
    BY <2>1, <1>1 DEF DiskTyped
<1>4. CASE Extract
  <2>1. members' = [members EXCEPT ![done + 1] = "whole"] /\ zip' = zip /\ audio' = audio
    BY <1>4 DEF Extract
  <2> QED
    BY <2>1, <1>1 DEF DiskTyped
<1>5. CASE FetchAudio
  <2>1. PICK size \in {"small", "whole"} : audio' = [audio EXCEPT ![Piece] = size]
    BY <1>5 DEF FetchAudio
  <2>2. zip' = zip /\ members' = members
    BY <1>5 DEF FetchAudio
  <2> QED
    BY <2>1, <2>2, <1>1 DEF DiskTyped
<1>6. CASE Kill
  <2>1. \/ members' = members /\ audio' = audio
        \/ members' = [members EXCEPT ![done + 1] = "torn"] /\ audio' = audio
        \/ members' = members /\ \E size \in {"small", "torn"} : audio' = [audio EXCEPT ![Piece] = size]
    BY <1>6 DEF Kill
  <2>2. zip' = zip
    BY <1>6 DEF Kill
  <2> QED
    BY <2>1, <2>2, <1>1 DEF DiskTyped
<1>7. UNCHANGED disk \/ StartDownload \/ Download \/ Extract \/ FetchAudio \/ Kill
  BY DEF Next, vars, Calibrate, OpenArchive, LoadSubset, EnsureMidis, Reuse, NotFound, HttpError,
         Unreachable, Decide, Compare, RunAgain
<1> QED
  BY <1>2, <1>3, <1>4, <1>5, <1>6, <1>7

\* Every step leads to a step.
LEMMA StepTypedStep == ASSUME StepTyped, [Next]_vars PROVE StepTyped'
<1> USE DEF StepTyped, Steps, Ends
<1>1. CASE Calibrate \/ StartDownload \/ Download \/ OpenArchive \/ Extract \/ LoadSubset \/ EnsureMidis
  BY <1>1 DEF Calibrate, StartDownload, Download, OpenArchive, Extract, LoadSubset, EnsureMidis,
     Step, Fault
<1>2. CASE Reuse \/ FetchAudio \/ NotFound \/ HttpError \/ Unreachable
  BY <1>2 DEF Reuse, FetchAudio, NotFound, HttpError, Unreachable, Fetched, Fault
<1>3. CASE Decide \/ Compare \/ Kill \/ RunAgain \/ UNCHANGED vars
  BY <1>3 DEF Decide, Compare, Kill, RunAgain, vars, Step, Fault
<1> QED
  BY <1>1, <1>2, <1>3 DEF Next

\* How the counters move in a step.
LEMMA CountersMove ==
  ASSUME [Next]_vars
  PROVE  done' \in {done, done + 1, 0} /\ missing' \in {missing, missing + 0, missing + 1, 0}
<1>1. CASE Calibrate \/ StartDownload \/ Download \/ OpenArchive \/ Extract \/ LoadSubset \/ EnsureMidis
  BY <1>1 DEF Calibrate, StartDownload, Download, OpenArchive, Extract, LoadSubset, EnsureMidis,
     Step, Fault, run
<1>2. CASE Reuse \/ FetchAudio \/ NotFound \/ HttpError \/ Unreachable
  BY <1>2 DEF Reuse, FetchAudio, NotFound, HttpError, Unreachable, Fetched, Fault, run
<1>3. CASE Decide \/ Compare \/ Kill \/ RunAgain \/ UNCHANGED vars
  BY <1>3 DEF Decide, Compare, Kill, RunAgain, vars, Step, Fault, run
<1> QED
  BY <1>1, <1>2, <1>3 DEF Next

\* So do the types of the counters.
LEMMA CountTypedStep == ASSUME CountTyped, [Next]_vars PROVE CountTyped'
<1>1. n' = n /\ csvAt' = csvAt
  BY GivenStays DEF given
<1>2. done' \in {done, done + 1, 0} /\ missing' \in {missing, missing + 0, missing + 1, 0}
  BY CountersMove
<1> QED
  BY <1>1, <1>2 DEF CountTyped

\* So do the types.
LEMMA MaestroTypesStep == ASSUME MaestroTypes, [Next]_vars PROVE MaestroTypes'
  BY KnownPreserved, DiskTypedStep, StepTypedStep, CountTypedStep DEF MaestroTypes

\* The subset stays until the CSV file is read again, or the program is run again.
LEMMA SubsetKept ==
  ASSUME [Next]_vars, ~LoadSubset, ~RunAgain
  PROVE  /\ n' = n /\ limit' = limit /\ listed' = listed
         /\ subset' = subset /\ Selected' = Selected /\ Pieces' = Pieces
<1>1. n' = n /\ limit' = limit
  BY GivenStays DEF given
<1>2. listed' = listed
  BY DEF Next, vars, Calibrate, StartDownload, Download, OpenArchive, Extract, EnsureMidis,
         Reuse, FetchAudio, NotFound, HttpError, Unreachable, Decide, Compare, Kill, Fetched, run
<1> QED
  BY <1>1, <1>2, SameSubset

\* A number of pieces is selected.
LEMMA SelectedType == Known => Selected \in Nat
  BY SubsetPieces

\* The piece that is fetched is a selected one.
LEMMA PieceSelected ==
  ASSUME MaestroTypes, Fetching
  PROVE  done + 1 \in 1 .. Selected /\ Piece = subset[done + 1] /\ Piece \in Pieces /\ Piece \in listed
<1>1. done \in Nat /\ Known
  BY DEF MaestroTypes, CountTyped
<1>2. /\ Selected \in Nat /\ Pieces = {subset[i] : i \in 1 .. Selected}
      /\ \A i \in 1 .. Selected : subset[i] \in listed
  BY <1>1, SubsetPieces
<1>3. done < Selected
  BY DEF Fetching, Selected
<1>4. done + 1 \in 1 .. Selected
  BY <1>1, <1>2, <1>3
<1> QED
  BY <1>2, <1>4 DEF Piece

\* A step that reads or fetches a piece, or counts it, is one of five.
Handle == Reuse \/ FetchAudio \/ NotFound \/ HttpError

\* How a piece is counted: it is the next one, and the step is not over.
LEMMA HandleMoves ==
  ASSUME Handle
  PROVE  /\ Fetching /\ pc' = pc /\ said' = said
         /\ done' \in {done, done + 1}
         /\ pc = "audio" => pairs' = pairs
         /\ pc = "compare" => missing' = missing /\ pairs' \in {pairs, pairs \cup {Piece}}
  BY DEF Handle, Reuse, FetchAudio, NotFound, HttpError, Fetched, run, Fetching

\* No step goes past what there is to be done.
LEMMA ProgressStep == ASSUME MaestroTypes, Progress, [Next]_vars PROVE Progress'
<1>1. n' = n /\ n \in Nat /\ done \in Nat
  BY GivenStays DEF given, MaestroTypes, Known, CountTyped
<1>2. Known'
  BY KnownPreserved DEF MaestroTypes
<1>3. Selected \in Nat /\ Selected' \in Nat
  <2>1. Selected \in Nat
    BY SubsetPieces DEF MaestroTypes
  <2>2. Known' => (Selected \in Nat)'
    BY SelectedType, PTL
  <2>3. Selected' \in Nat
    BY <2>2, <1>2
  <2> QED
    BY <2>1, <2>3
<1>4. CASE done' = 0
  BY <1>4, <1>1, <1>3 DEF Progress
<1>5. CASE Handle
  <2>1. Fetching /\ pc' = pc /\ done' \in {done, done + 1} /\ Selected' = Selected
    <3>1. ~LoadSubset /\ ~RunAgain
      BY <1>5, HandleMoves DEF Fetching, LoadSubset, RunAgain, Ended
    <3> QED
      BY <3>1, <1>5, HandleMoves, SubsetKept
  <2>2. done < Selected /\ pc \in {"audio", "compare"}
    BY <2>1 DEF Fetching, Selected
  <2> QED
    BY <2>1, <2>2, <1>1, <1>3 DEF Progress
<1>6. CASE Extract
  <2>1. pc = "extract" /\ (done' = 0 \/ (done # n /\ done' = done + 1 /\ pc' = pc))
    BY <1>6 DEF Extract, Step
  <2> QED
    BY <2>1, <1>4, <1>1 DEF Progress
<1>7. CASE Unreachable \/ Kill \/ (StartDownload \/ Download)
  <2>1. pc' \in {"crash", "killed"} \/ done' = 0
    BY <1>7 DEF Unreachable, Kill, StartDownload, Download, Fault, Step
  <2> QED
    BY <2>1, <1>4 DEF Progress
<1>8. CASE Calibrate \/ OpenArchive \/ LoadSubset \/ EnsureMidis \/ Decide \/ Compare \/ RunAgain
  <2>1. done' = 0
    BY <1>8 DEF Calibrate, OpenArchive, LoadSubset, EnsureMidis, Decide, Compare, RunAgain, Step
  <2> QED
    BY <2>1, <1>4
<1>9. CASE UNCHANGED vars
  <2>1. pc' = pc /\ done' = done /\ Selected' = Selected
    BY <1>9, SameSubset DEF vars, given, run
  <2> QED
    BY <2>1, <1>1 DEF Progress
<1> QED
  BY <1>5, <1>6, <1>7, <1>8, <1>9 DEF Next, Handle

\* Before the comparison nothing is said; the tally is empty until the audio is fetched.
LEMMA EarlyMoves ==
  ASSUME Calibrate \/ StartDownload \/ Download \/ OpenArchive \/ Extract \/ EnsureMidis
  PROVE  /\ pc \in Early /\ pc' \in Early \cup {"audio", "exit 1", "crash"}
         /\ missing' = missing /\ pairs' = pairs /\ said' = said
  BY DEF Calibrate, StartDownload, Download, OpenArchive, Extract, EnsureMidis, Step, Fault, run, Early

\* What the CSV file says, or a new start, begins the tally anew.
LEMMA FreshMoves ==
  ASSUME LoadSubset \/ RunAgain, MaestroTypes, RunShape
  PROVE  missing' = 0 /\ pairs' = {} /\ said' = "nothing" /\ pc' \in {"midis", "crash", "calibrate"}
<1>1. CASE RunAgain
  BY <1>1 DEF RunAgain
<1>2. CASE LoadSubset
  <2>1. pc = "subset" /\ missing' = missing /\ pairs' = pairs /\ said' = said /\ pc' \in {"midis", "crash"}
    BY <1>2 DEF LoadSubset, Step
  <2>2. missing = 0
    BY <2>1 DEF RunShape, Tally, Early
  <2>3. pairs = {}
    BY <2>1 DEF RunShape, Paired, Early
  <2>4. said = "nothing"
    BY <2>1 DEF RunShape, SaidAtEnd, Steps
  <2> QED
    BY <2>1, <2>2, <2>3, <2>4
<1> QED
  BY <1>1, <1>2

\* A kill or a lost network ends the run, and changes nothing that is counted.
LEMMA BreakMoves ==
  ASSUME Unreachable \/ Kill, MaestroTypes
  PROVE  /\ pc \in Steps /\ pc' \in {"crash", "killed"}
         /\ missing' = missing /\ pairs' = pairs /\ said' = said
<1>1. pc' \in {"crash", "killed"} /\ missing' = missing /\ pairs' = pairs /\ said' = said
  BY DEF Unreachable, Kill, Fault, run
<1>2. pc \in Steps
  <2>1. pc \in Steps \cup Ends
    BY DEF MaestroTypes, StepTyped
  <2> QED
    BY <2>1 DEF Unreachable, Kill, Fetching, Ended, Ends, Steps
<1> QED
  BY <1>1, <1>2

\* Nothing is said before the end.
LEMMA SaidAtEndStep == ASSUME MaestroTypes, RunShape, [Next]_vars PROVE SaidAtEnd'
<1>1. pc \in Steps => said = "nothing"
  BY DEF RunShape, SaidAtEnd
<1>2. CASE Calibrate \/ StartDownload \/ Download \/ OpenArchive \/ Extract \/ EnsureMidis
  BY <1>1, <1>2, EarlyMoves DEF SaidAtEnd, Steps, Early
<1>3. CASE LoadSubset \/ RunAgain
  BY <1>3, FreshMoves DEF SaidAtEnd
<1>4. CASE Handle
  BY <1>1, <1>4, HandleMoves DEF SaidAtEnd
<1>5. CASE Unreachable \/ Kill
  BY <1>5, BreakMoves DEF SaidAtEnd, Steps
<1>6. CASE Decide \/ Compare
  <2>1. pc \in Steps /\ (said' = said \/ pc' \notin Steps)
    BY <1>6 DEF Decide, Compare, Step, Steps
  <2> QED
    BY <2>1, <1>1 DEF SaidAtEnd
<1>7. CASE UNCHANGED vars
  BY <1>1, <1>7 DEF SaidAtEnd, vars, run
<1> QED
  BY <1>2, <1>3, <1>4, <1>5, <1>6, <1>7 DEF Next, Handle

\* What is missing at the comparison, and when VALIDATED is said, is nothing.
LEMMA TallyStep == ASSUME MaestroTypes, RunShape, [Next]_vars PROVE Tally'
<1>1. (pc \in Early \cup {"compare"} \/ said = "validated") => missing = 0
  BY DEF RunShape, Tally
<1>2. pc \in Steps => said = "nothing"
  BY DEF RunShape, SaidAtEnd
<1>3. CASE Calibrate \/ StartDownload \/ Download \/ OpenArchive \/ Extract \/ EnsureMidis
  BY <1>1, <1>3, EarlyMoves DEF Tally
<1>4. CASE LoadSubset \/ RunAgain
  BY <1>4, FreshMoves DEF Tally
<1>5. CASE Handle
  <2>1. pc \in {"audio", "compare"} /\ said # "validated"
    BY <1>5, <1>2, HandleMoves DEF Fetching, Steps
  <2> QED
    BY <2>1, <1>1, <1>5, HandleMoves DEF Tally, Early
<1>6. CASE Unreachable \/ Kill
  BY <1>6, <1>2, BreakMoves DEF Tally, Early
<1>7. CASE Decide
  <2>1. pc = "audio" /\ missing' = missing
    BY <1>7 DEF Decide
  <2>2. (pc' \in {"exit 0", "exit 2"} /\ said' = "blocked") \/ (~(missing > 0) /\ said' = said)
    BY <1>7 DEF Decide, Step
  <2>3. missing \in Nat
    BY DEF MaestroTypes, CountTyped
  <2>4. ~(missing > 0) => missing = 0
    BY <2>3
  <2>5. said # "validated"
    BY <2>1, <1>2 DEF Steps
  <2> QED
    BY <2>1, <2>2, <2>4, <2>5 DEF Tally, Early
<1>8. CASE Compare
  <2>1. pc = "compare" /\ missing' = missing
    BY <1>8 DEF Compare
  <2> QED
    BY <2>1, <1>1 DEF Tally
<1>9. CASE UNCHANGED vars
  BY <1>1, <1>9 DEF Tally, vars, run
<1> QED
  BY <1>3, <1>4, <1>5, <1>6, <1>7, <1>8, <1>9 DEF Next, Handle

\* What is to be scored has been selected, and VALIDATED is not said of nothing.
LEMMA PairedStep == ASSUME MaestroTypes, RunShape, [Next]_vars PROVE Paired'
<1>1. /\ pc \in Early \cup {"audio"} => pairs = {}
      /\ pairs \subseteq Pieces
      /\ said = "validated" => pairs # {}
  BY DEF RunShape, Paired
<1>2. pc \in Steps => said = "nothing"
  BY DEF RunShape, SaidAtEnd
<1>3. CASE LoadSubset \/ RunAgain
  BY <1>3, FreshMoves DEF Paired
<1>4. ASSUME ~LoadSubset, ~RunAgain PROVE Paired'
  <2>1. Pieces' = Pieces
    BY <1>4, SubsetKept
  <2>2. CASE Calibrate \/ StartDownload \/ Download \/ OpenArchive \/ Extract \/ EnsureMidis
    BY <2>1, <2>2, <1>1, EarlyMoves DEF Paired
  <2>3. CASE Handle
    <3>1. Piece \in Pieces /\ pc \in {"audio", "compare"}
      BY <2>3, HandleMoves, PieceSelected DEF Fetching
    <3>2. said # "validated"
      BY <3>1, <1>2 DEF Steps
    <3> QED
      BY <3>1, <3>2, <2>1, <2>3, <1>1, HandleMoves DEF Paired, Early
  <2>4. CASE Unreachable \/ Kill
    BY <2>1, <2>4, <1>1, <1>2, BreakMoves DEF Paired, Early
  <2>5. CASE Decide
    <3>1. pc = "audio" /\ pairs' = pairs /\ said' \in {said, "blocked"}
          /\ pc' \in {"exit 0", "exit 2", "compare"}
      BY <2>5 DEF Decide, Step
    <3> QED
      BY <3>1, <2>1, <1>1, <1>2 DEF Paired, Early, Steps
  <2>6. CASE Compare
    <3>1. pc = "compare" /\ pairs' = pairs /\ pc' \in {"exit 0", "exit 1", "crash"}
      BY <2>6 DEF Compare, Step
    <3>2. said' = "validated" => pairs # {}
      BY <2>6, <1>1 DEF Compare
    <3> QED
      BY <3>1, <3>2, <2>1, <1>1 DEF Paired, Early
  <2>7. CASE UNCHANGED vars
    BY <2>1, <2>7, <1>1 DEF Paired, vars, run
  <2> QED
    BY <1>4, <2>2, <2>3, <2>4, <2>5, <2>6, <2>7 DEF Next, Handle
<1> QED
  BY <1>3, <1>4

\* It compares only with Basic Pitch installed, and a required comparison was made.
LEMMA HonestStep == ASSUME MaestroTypes, RunShape, [Next]_vars PROVE Honest'
<1>1. /\ pc = "compare" => installed # "none"
      /\ said = "validated" => installed = "whole"
      /\ pc = "exit 0" /\ required => said = "validated"
  BY DEF RunShape, Honest
<1>2. installed' = installed /\ required' = required
  BY GivenStays DEF given
<1>3. pc \in Steps => said = "nothing"
  BY DEF RunShape, SaidAtEnd
<1>4. CASE Calibrate \/ StartDownload \/ Download \/ OpenArchive \/ Extract \/ EnsureMidis
  <2>1. said' # "validated" /\ pc' \notin {"compare", "exit 0"}
    BY <1>4, <1>3, EarlyMoves DEF Early, Steps
  <2> QED
    BY <2>1 DEF Honest
<1>5. CASE LoadSubset \/ RunAgain
  <2>1. said' # "validated" /\ pc' \notin {"compare", "exit 0"}
    BY <1>5, FreshMoves
  <2> QED
    BY <2>1 DEF Honest
<1>6. CASE Handle
  BY <1>6, <1>1, <1>2, HandleMoves DEF Honest
<1>7. CASE Unreachable \/ Kill
  <2>1. said' # "validated" /\ pc' \notin {"compare", "exit 0"}
    BY <1>7, <1>3, BreakMoves
  <2> QED
    BY <2>1 DEF Honest
<1>8. CASE Decide
  <2>1. \/ said' = "blocked" /\ pc' = IF required THEN "exit 2" ELSE "exit 0"
        \/ said' = said /\ pc' = "compare" /\ installed # "none"
    BY <1>8 DEF Decide, Step
  <2>2. said # "validated"
    BY <1>8, <1>3 DEF Decide, Steps
  <2>3. CASE said' = "blocked" /\ pc' = IF required THEN "exit 2" ELSE "exit 0"
    BY <2>3, <1>2 DEF Honest
  <2>4. CASE said' = said /\ pc' = "compare" /\ installed # "none"
    BY <2>2, <2>4, <1>2 DEF Honest
  <2> QED
    BY <2>1, <2>3, <2>4
<1>9. CASE Compare
  <2>1. pc = "compare" /\ said # "validated"
    BY <1>9, <1>3 DEF Compare, Steps
  <2>2. \/ pc' = "exit 0" /\ said' = "validated" /\ installed = "whole"
        \/ pc' = "exit 1" /\ said' = "outside"
        \/ pc' = "crash" /\ said' = said
    BY <1>9 DEF Compare, Step
  <2> QED
    BY <2>1, <2>2, <1>1, <1>2 DEF Honest
<1>10. CASE UNCHANGED vars
  BY <1>10, <1>1, <1>2 DEF Honest, vars, run
<1> QED
  BY <1>4, <1>5, <1>6, <1>7, <1>8, <1>9, <1>10 DEF Next, Handle

\* The shape of a run survives every step.
LEMMA RunShapeStep == ASSUME MaestroTypes, RunShape, [Next]_vars PROVE RunShape'
  BY ProgressStep, SaidAtEndStep, TallyStep, PairedStep, HonestStep DEF RunShape

-----------------------------------------------------------------------------
\* A fault is never forgotten.
LEMMA FaultsStay ==
  ASSUME [Next]_vars
  PROVE  faults \subseteq faults' /\ (NoKill' => NoKill) /\ (Clean' => Clean) /\ (Clean => NoKill)
<1>1. faults \subseteq faults'
  <2>1. CASE Calibrate \/ StartDownload \/ Download \/ OpenArchive \/ Extract \/ LoadSubset \/ EnsureMidis
    BY <2>1 DEF Calibrate, StartDownload, Download, OpenArchive, Extract, LoadSubset, EnsureMidis,
       Step, Fault, ghost
  <2>2. CASE Reuse \/ FetchAudio \/ NotFound \/ HttpError \/ Unreachable
    BY <2>2 DEF Reuse, FetchAudio, NotFound, HttpError, Unreachable, Fetched, Fault
  <2>3. CASE Decide \/ Compare \/ Kill \/ RunAgain \/ UNCHANGED vars
    BY <2>3 DEF Decide, Compare, Kill, RunAgain, vars, Step, Fault, ghost
  <2> QED
    BY <2>1, <2>2, <2>3 DEF Next
<1> QED
  BY <1>1 DEF NoKill, Clean

\* A torn archive is being downloaded, or was left by a fault.
LEMMA ZipStep == ASSUME ZipExplained, [Next]_vars PROVE ZipExplained'
<1>1. faults \subseteq faults'
  BY FaultsStay
<1>2. CASE StartDownload
  BY <1>2, <1>1 DEF StartDownload, Step, Fault, ZipExplained
<1>3. CASE Download
  BY <1>3, <1>1 DEF Download, Step, Fault, ZipExplained
<1>4. CASE Kill
  <2>1. faults' # {}
    BY <1>4 DEF Kill, Fault
  <2> QED
    BY <2>1 DEF ZipExplained
<1>5. CASE UNCHANGED zip /\ pc # "download"
  BY <1>5, <1>1 DEF ZipExplained
<1>6. CASE UNCHANGED vars
  BY <1>6, <1>1 DEF ZipExplained, vars, disk
<1>7. \/ StartDownload \/ Download \/ Kill \/ UNCHANGED vars
      \/ UNCHANGED zip /\ pc # "download"
  BY DEF Next, Calibrate, OpenArchive, Extract, LoadSubset, EnsureMidis, Reuse, FetchAudio,
         NotFound, HttpError, Unreachable, Fetching, Decide, Compare, RunAgain, Ended, disk
<1> QED
  BY <1>2, <1>3, <1>4, <1>5, <1>6, <1>7

\* No audio is torn without a kill, nor small without a kill or a small answer.
LEMMA AudioStep == ASSUME DiskTyped, AudioExplained, [Next]_vars PROVE AudioExplained'
<1>1. n' = n /\ (Clean' => Clean) /\ (NoKill' => NoKill)
  BY GivenStays, FaultsStay DEF given
<1>2. CASE FetchAudio
  <2>1. PICK size \in {"small", "whole"} :
          /\ audio' = [audio EXCEPT ![Piece] = size]
          /\ faults' = IF size = "small" THEN faults \cup {"small"} ELSE faults
    BY <1>2 DEF FetchAudio
  <2>2. CASE size = "small"
    BY <2>1, <2>2, <1>1 DEF AudioExplained, Clean, DiskTyped
  <2>3. CASE size = "whole"
    BY <2>1, <2>3, <1>1 DEF AudioExplained, DiskTyped
  <2> QED
    BY <2>2, <2>3
<1>3. CASE Kill
  BY <1>3 DEF Kill, Fault, AudioExplained, Clean, NoKill
<1>4. CASE UNCHANGED audio
  BY <1>1, <1>4 DEF AudioExplained
<1>5. FetchAudio \/ Kill \/ UNCHANGED audio
  BY DEF Next, vars, Calibrate, StartDownload, Download, OpenArchive, Extract, LoadSubset, EnsureMidis,
         Reuse, NotFound, HttpError, Unreachable, Decide, Compare, RunAgain, disk
<1> QED
  BY <1>2, <1>3, <1>4, <1>5

\* Without a kill, the archive is extracted as a whole, or has not been, and all its test
\* pieces are listed.
LEMMA MembersStep ==
  ASSUME MaestroTypes, RunShape, MembersWhole, [Next]_vars
  PROVE  MembersWhole'
<1>1. SUFFICES ASSUME NoKill' PROVE Extracted'
  BY DEF MembersWhole
<1>2. NoKill /\ n' = n /\ n \in Nat /\ csvAt' = csvAt /\ csvAt \in 1 .. n + 1 /\ ~Kill
  BY <1>1, FaultsStay, GivenStays DEF given, MaestroTypes, Known, CountTyped, Kill, Fault, NoKill
<1>3. Extracted /\ members \in [1 .. n + 1 -> {"none", "torn", "whole"}]
  BY <1>2 DEF MembersWhole, MaestroTypes, DiskTyped
<1>4. pc \in Steps => said # "validated"
  BY DEF RunShape, SaidAtEnd
<1>5. CASE Extract
  <2>1. /\ pc = "extract" /\ said' = said /\ members' = [members EXCEPT ![done + 1] = "whole"]
        /\ (done = n /\ pc' = "subset") \/ (done # n /\ pc' = "extract" /\ done' = done + 1)
    BY <1>5 DEF Extract, Step, run
  <2>2. done \in Nat /\ done <= n
    BY <2>1 DEF MaestroTypes, CountTyped, RunShape, Progress
  <2>3. \A m \in 1 .. done : members[m] = "whole"
    BY <2>1, <1>3 DEF Extracted
  <2>4. \A m \in 1 .. done + 1 : members'[m] = "whole"
    <3> TAKE m \in 1 .. done + 1
    <3>1. m \in 1 .. n + 1 /\ (m = done + 1 \/ m \in 1 .. done)
      BY <2>2, <1>2
    <3> QED
      BY <3>1, <2>1, <2>3, <1>3
  <2>5. said' # "validated"
    BY <2>1, <1>4 DEF Steps
  <2>6. CASE done = n /\ pc' = "subset"
    <3>1. Whole'
      BY <2>4, <2>6, <1>2 DEF Whole
    <3> QED
      BY <2>5, <2>6, <3>1 DEF Extracted
  <2>7. CASE done # n /\ pc' = "extract" /\ done' = done + 1
    BY <2>4, <2>5, <2>7 DEF Extracted
  <2> QED
    BY <2>1, <2>6, <2>7
<1>6. CASE UNCHANGED members
  <2>1. Whole' <=> Whole
    BY <1>2, <1>6 DEF Whole
  <2>2. (\A m \in 1 .. n' + 1 : members'[m] = "none") <=> (\A m \in 1 .. n + 1 : members[m] = "none")
    BY <1>2, <1>6
  <2>3. CASE OpenArchive
    <3>1. /\ pc = "archive" /\ done' = 0 /\ said' = said
          /\ pc' = IF members[csvAt] # "none" THEN "subset" ELSE IF zip = "torn" THEN "crash" ELSE "extract"
      BY <2>3 DEF OpenArchive, Step, run
    <3>2. members[csvAt] # "none" => Whole
      BY <3>1, <1>2, <1>3 DEF Extracted
    <3>3. said' # "validated"
      BY <3>1, <1>4 DEF Steps
    <3>4. Whole \/ \A m \in 1 .. n + 1 : members[m] = "none"
      BY <3>1, <1>3 DEF Extracted
    <3> QED
      BY <3>1, <3>2, <3>3, <3>4, <2>1, <2>2 DEF Extracted
  <2>4. CASE LoadSubset
    <3>1. pc = "subset" /\ said' = said
      BY <2>4 DEF LoadSubset
    <3>2. Whole /\ said' # "validated"
      BY <3>1, <1>3, <1>4 DEF Extracted, Steps
    <3>3. members[csvAt] # "torn"
      BY <3>2, <1>2 DEF Whole
    <3>4. pc' = "midis" /\ listed' = 1 .. n
      BY <3>3, <2>4 DEF LoadSubset, Step
    <3> QED
      BY <3>2, <3>4, <2>1, <1>2 DEF Extracted
  <2>5. CASE RunAgain
    <3>1. pc # "extract" /\ pc' = "calibrate" /\ said' = "nothing"
      BY <2>5 DEF RunAgain, Ended
    <3> QED
      BY <3>1, <2>1, <2>2, <1>3 DEF Extracted
  <2>6. ASSUME ~OpenArchive, ~LoadSubset, ~RunAgain, ~Extract PROVE Extracted'
    <3>1. listed' = listed
      BY <2>6, SubsetKept
    <3>2. /\ pc = "extract" => pc' = "extract" /\ done' = done
          /\ pc' = "extract" => pc = "extract"
          /\ pc' \in {"subset", "midis", "audio", "compare"} \/ said' = "validated" =>
               pc \in {"subset", "midis", "audio", "compare"} \/ said = "validated"
          /\ pc' \in {"midis", "audio", "compare"} \/ said' = "validated" =>
               pc \in {"midis", "audio", "compare"} \/ said = "validated"
      <4>1. CASE Calibrate \/ StartDownload \/ Download \/ EnsureMidis
        BY <4>1 DEF Calibrate, StartDownload, Download, EnsureMidis, Step, Fault, run
      <4>2. CASE Handle
        BY <4>2, HandleMoves DEF Fetching
      <4>3. CASE Unreachable
        BY <4>3 DEF Unreachable, Fetching, Fault, run
      <4>4. CASE Decide \/ Compare
        BY <4>4 DEF Decide, Compare, Step
      <4>5. CASE UNCHANGED vars
        BY <4>5 DEF vars, run
      <4> QED
        BY <2>6, <1>2, <4>1, <4>2, <4>3, <4>4, <4>5 DEF Next, Handle
    <3> QED
      BY <3>1, <3>2, <2>1, <2>2, <1>2, <1>3, <1>6 DEF Extracted
  <2>7. CASE Extract
    BY <2>7, <1>5
  <2> QED
    BY <2>3, <2>4, <2>5, <2>6, <2>7
<1>7. Extract \/ UNCHANGED members
  BY <1>2 DEF Next, vars, Calibrate, StartDownload, Download, OpenArchive, LoadSubset, EnsureMidis,
         Reuse, FetchAudio, NotFound, HttpError, Unreachable, Decide, Compare, RunAgain, disk
<1> QED
  BY <1>5, <1>6, <1>7

\* Counting a piece touches no other piece, and says of it what is on the disk.
LEMMA HandleCounts ==
  ASSUME MaestroTypes, Handle
  PROVE  /\ done \in Nat /\ missing \in Nat /\ Selected \in Nat /\ done + 1 \in 1 .. Selected
         /\ \A i \in 1 .. Selected : i # done + 1 => audio'[subset[i]] = audio[subset[i]]
         /\ pc = "audio" =>
              \/ done' = done + 1 /\ missing' = missing /\ (OnDisk \/ audio'[Piece] \in {"small", "whole"})
              \/ done' = done + 1 /\ missing' = missing + 1 /\ ~OnDisk /\ audio' = audio
              \/ done' = done /\ missing' = missing /\ audio' = audio
         /\ audio'[Piece] = audio[Piece] \/ ~OnDisk
         /\ audio'[Piece] \in {audio[Piece], "small", "whole"}
<1>1. /\ done + 1 \in 1 .. Selected /\ Piece = subset[done + 1] /\ Piece \in listed
      /\ Fetching /\ pc' = pc
  BY HandleMoves, PieceSelected
<1>2. /\ done \in Nat /\ missing \in Nat /\ Known /\ n \in Nat /\ listed \subseteq 1 .. n
      /\ audio \in [1 .. n -> {"none", "small", "torn", "whole"}]
  BY DEF MaestroTypes, CountTyped, Known, DiskTyped
<1>3. /\ Selected \in Nat
      /\ \A i \in 1 .. Selected : subset[i] \in listed
      /\ \A i, j \in 1 .. Selected : i # j => subset[i] # subset[j]
  BY <1>2, SubsetPieces
<1>4. audio' = audio \/ (FetchAudio /\ \E size \in {"small", "whole"} : audio' = [audio EXCEPT ![Piece] = size])
  BY DEF Handle, Reuse, FetchAudio, NotFound, HttpError, disk
<1>5. \A i \in 1 .. Selected : i # done + 1 => audio'[subset[i]] = audio[subset[i]]
  <2> TAKE i \in 1 .. Selected
  <2>1. HAVE i # done + 1
  <2>2. subset[i] # Piece /\ subset[i] \in 1 .. n
    BY <2>1, <1>1, <1>2, <1>3
  <2> QED
    BY <2>2, <1>2, <1>4
<1>6. FetchAudio => audio'[Piece] \in {"small", "whole"}
  <2>1. Piece \in 1 .. n
    BY <1>1, <1>2
  <2> QED
    BY <2>1, <1>2 DEF FetchAudio
<1>7. audio'[Piece] = audio[Piece] \/ ~OnDisk
  BY <1>4 DEF FetchAudio
<1>8. ASSUME pc = "audio"
      PROVE  \/ done' = done + 1 /\ missing' = missing + 0 /\ (OnDisk \/ audio'[Piece] \in {"small", "whole"})
             \/ done' = done + 1 /\ missing' = missing + 1 /\ ~OnDisk /\ audio' = audio
             \/ done' = done /\ missing' = missing /\ audio' = audio
  <2>1. CASE Reuse
    BY <2>1, <1>8 DEF Reuse, Fetched
  <2>2. CASE FetchAudio
    BY <2>2, <1>6, <1>8 DEF FetchAudio, Fetched
  <2>3. CASE NotFound
    BY <2>3, <1>8 DEF NotFound, Fetched, disk, run
  <2>4. CASE HttpError
    BY <2>4, <1>8 DEF HttpError, Fetched, disk
  <2> QED
    BY <2>1, <2>2, <2>3, <2>4 DEF Handle
<1>9. missing + 0 = missing
  BY <1>2
<1>10. audio'[Piece] \in {audio[Piece], "small", "whole"}
  BY <1>4, <1>6
<1> QED
  BY <1>1, <1>2, <1>3, <1>5, <1>7, <1>8, <1>9, <1>10

\* What is taken as it is, is there; what is not, is absent.
LEMMA OnDiskIs ==
  ASSUME MaestroTypes, Fetching
  PROVE  /\ OnDisk => Present(done + 1)
         /\ ~OnDisk => Absent(done + 1)
         /\ Present(done + 1) => OnDisk \/ audio[subset[done + 1]] = "small"
<1>1. Piece = subset[done + 1] /\ Piece \in listed
  BY PieceSelected
<1>2. Piece \in 1 .. n
  BY <1>1 DEF MaestroTypes, Known
<1>3. audio[Piece] \in {"none", "small", "torn", "whole"}
  BY <1>2 DEF MaestroTypes, DiskTyped
<1> HIDE DEF Piece
<1> QED
  BY <1>1, <1>3 DEF OnDisk, Present, Absent

\* Where the audio is not fetched, none is counted.
LEMMA NotCounting ==
  ASSUME [Next]_vars, MaestroTypes, RunShape, ~Handle, ~Decide, ~Compare, ~UNCHANGED vars
  PROVE  /\ said' \notin {"blocked", "validated"} /\ pc' # "compare"
         /\ pc' = "audio" => done' = 0 /\ missing' = 0
<1>1. pc \in Steps => said = "nothing"
  BY DEF RunShape, SaidAtEnd
<1>2. CASE LoadSubset \/ RunAgain
  BY <1>2, FreshMoves
<1>3. CASE Unreachable \/ Kill
  BY <1>3, <1>1, BreakMoves
<1>4. CASE Calibrate \/ StartDownload \/ Download \/ OpenArchive \/ Extract \/ EnsureMidis
  <2>1. pc \in Early /\ said' = "nothing" /\ pc' # "compare" /\ missing' = missing
    BY <1>4, <1>1, EarlyMoves DEF Early, Steps
  <2>2. missing = 0
    BY <2>1 DEF RunShape, Tally
  <2>3. pc' = "audio" => done' = 0
    BY <1>4 DEF Calibrate, StartDownload, Download, OpenArchive, Extract, EnsureMidis, Step, Fault
  <2> QED
    BY <2>1, <2>2, <2>3
<1> QED
  BY <1>2, <1>3, <1>4 DEF Next, Handle

\* If a piece is missing, one that has been looked for is absent.
LEMMA MissingAbsentStep ==
  ASSUME MaestroTypes, RunShape, MissingAbsent, [Next]_vars
  PROVE  MissingAbsent'
<1>1. CASE Handle
  <2>1. SUFFICES ASSUME pc' = "audio", missing' > 0 PROVE \E i \in 1 .. done' : Absent(i)'
    BY DEF MissingAbsent
  <2>2. pc = "audio" /\ Fetching
    BY <1>1, <2>1, HandleMoves
  <2>3. subset' = subset
    BY <2>2, <1>1, SubsetKept DEF LoadSubset, RunAgain, Ended
  <2>4. /\ done \in Nat /\ missing \in Nat /\ Selected \in Nat /\ done + 1 \in 1 .. Selected
        /\ \A i \in 1 .. Selected : i # done + 1 => audio'[subset[i]] = audio[subset[i]]
        /\ \/ done' = done + 1 /\ missing' = missing
           \/ done' = done + 1 /\ missing' = missing + 1 /\ ~OnDisk /\ audio' = audio
           \/ done' = done /\ missing' = missing
    BY <1>1, <2>2, HandleCounts
  <2>5. CASE missing > 0
    <3>1. PICK i \in 1 .. done : Absent(i)
      BY <2>2, <2>5 DEF MissingAbsent
    <3>2. i \in 1 .. Selected /\ i # done + 1 /\ i \in 1 .. done'
      BY <2>4
    <3> QED
      BY <2>3, <2>4, <3>1, <3>2 DEF Absent
  <2>6. CASE missing = 0
    <3>1. done' = done + 1 /\ ~OnDisk /\ audio' = audio
      BY <2>1, <2>4, <2>6
    <3>2. Absent(done + 1)
      BY <2>2, <3>1, OnDiskIs
    <3>3. done + 1 \in 1 .. done'
      BY <2>4, <3>1
    <3> QED
      BY <2>3, <3>1, <3>2, <3>3 DEF Absent
  <2> QED
    BY <2>4, <2>5, <2>6
<1>2. CASE Decide \/ Compare
  BY <1>2 DEF Decide, Compare, Step, MissingAbsent
<1>3. CASE UNCHANGED vars
  <2>1. UNCHANGED <<pc, missing, done, audio>> /\ subset' = subset
    BY <1>3, SameSubset DEF vars, given, disk, run
  <2> QED
    BY <2>1 DEF MissingAbsent, Absent
<1>4. CASE ~Handle /\ ~Decide /\ ~Compare /\ ~UNCHANGED vars
  <2>1. pc' = "audio" => missing' = 0
    BY <1>4, NotCounting
  <2> QED
    BY <2>1 DEF MissingAbsent
<1> QED
  BY <1>1, <1>2, <1>3, <1>4

\* The subset stays in every step that counts, decides or compares, and when nothing happens.
LEMMA CountingKeeps ==
  ASSUME Handle \/ Decide \/ Compare \/ UNCHANGED vars
  PROVE  subset' = subset /\ Selected' = Selected /\ Pieces' = Pieces
<1>1. limit' = limit /\ listed' = listed
  BY DEF Handle, Reuse, FetchAudio, NotFound, HttpError, Fetched, Decide, Compare, Step, given, run, vars
<1> QED
  BY <1>1, SameSubset

\* That the comparison is blocked is said for a reason.
LEMMA BlockedAbsentStep ==
  ASSUME MaestroTypes, RunShape, MissingAbsent, BlockedAbsent, [Next]_vars
  PROVE  BlockedAbsent'
<1>1. installed' = installed
  BY GivenStays DEF given
<1>2. pc \in Steps => said = "nothing"
  BY DEF RunShape, SaidAtEnd
<1>3. CASE Handle
  BY <1>2, <1>3, HandleMoves DEF BlockedAbsent, Fetching, Steps
<1>4. CASE Decide
  <2>1. pc = "audio" /\ done = Selected /\ audio' = audio
    BY <1>4 DEF Decide, disk, Selected
  <2>2. subset' = subset /\ Selected' = Selected
    BY <1>4, CountingKeeps
  <2>3. missing > 0 => SomeAbsent
    BY <2>1 DEF MissingAbsent, SomeAbsent
  <2>4. SomeAbsent' <=> SomeAbsent
    BY <2>1, <2>2 DEF SomeAbsent, Absent
  <2>5. said' = "blocked" => installed = "none" \/ missing > 0
    <3>1. said # "blocked"
      BY <2>1, <1>2 DEF Steps
    <3> QED
      BY <3>1, <1>4 DEF Decide
  <2> QED
    BY <2>3, <2>4, <2>5, <1>1 DEF BlockedAbsent
<1>5. CASE Compare
  BY <1>2, <1>5 DEF Compare, Steps, BlockedAbsent
<1>6. CASE UNCHANGED vars
  <2>1. said' = said /\ audio' = audio /\ subset' = subset /\ Selected' = Selected
    BY <1>6, CountingKeeps DEF vars, run, disk
  <2>2. SomeAbsent' <=> SomeAbsent
    BY <2>1 DEF SomeAbsent, Absent
  <2> QED
    BY <2>1, <2>2, <1>1 DEF BlockedAbsent
<1>7. CASE ~Handle /\ ~Decide /\ ~Compare /\ ~UNCHANGED vars
  <2>1. said' # "blocked"
    BY <1>7, NotCounting
  <2> QED
    BY <2>1 DEF BlockedAbsent
<1> QED
  BY <1>3, <1>4, <1>5, <1>6, <1>7

\* What has been gone through without a miss is there.
LEMMA CountedPresentStep ==
  ASSUME MaestroTypes, RunShape, CountedPresent, [Next]_vars
  PROVE  CountedPresent'
<1>1. SUFFICES /\ pc' = "audio" /\ missing' = 0 => \A i \in 1 .. done' : Present(i)'
               /\ pc' = "compare" \/ said' = "validated" => \A i \in 1 .. Selected' : Present(i)'
  BY DEF CountedPresent
<1>3. /\ pc = "audio" /\ missing = 0 => \A i \in 1 .. done : Present(i)
      /\ pc = "compare" \/ said = "validated" => \A i \in 1 .. Selected : Present(i)
  BY DEF CountedPresent
<1>4. pc \in Steps => said = "nothing"
  BY DEF RunShape, SaidAtEnd
<1>5. CASE Handle
  <2>1. pc' = pc /\ pc \in {"audio", "compare"} /\ said' # "validated" /\ Fetching
    BY <1>4, <1>5, HandleMoves DEF Fetching, Steps
  <2>2. subset' = subset /\ Selected' = Selected
    BY <1>5, CountingKeeps
  <2>3. /\ done \in Nat /\ missing \in Nat /\ Selected \in Nat /\ done + 1 \in 1 .. Selected
        /\ \A i \in 1 .. Selected : i # done + 1 => audio'[subset[i]] = audio[subset[i]]
        /\ audio'[Piece] = audio[Piece] \/ ~OnDisk
    BY <1>5, HandleCounts
  <2>4. Piece = subset[done + 1]
    BY <2>1, PieceSelected
  <2>5. CASE pc = "compare"
    <3>1. audio'[Piece] \in {audio[Piece], "small", "whole"}
      BY <1>5, HandleCounts
    <3>2. \A i \in 1 .. Selected : audio[subset[i]] # "none" => audio'[subset[i]] # "none"
      BY <3>1, <2>3, <2>4
    <3> QED
      BY <3>2, <2>1, <2>2, <2>5, <1>3 DEF Present
  <2>6. CASE pc = "audio"
    <3>1. SUFFICES ASSUME missing' = 0 PROVE \A i \in 1 .. done' : Present(i)'
      BY <2>1, <2>6
    <3>2. \/ done' = done + 1 /\ missing' = missing /\ (OnDisk \/ audio'[Piece] \in {"small", "whole"})
          \/ done' = done + 1 /\ missing' = missing + 1 /\ ~OnDisk /\ audio' = audio
          \/ done' = done /\ missing' = missing /\ audio' = audio
      BY <1>5, <2>6, HandleCounts
    <3>3. missing = 0
      BY <3>1, <3>2, <2>3
    <3>4. \A i \in 1 .. done : Present(i)'
      <4> TAKE i \in 1 .. done
      <4>1. i \in 1 .. Selected /\ i # done + 1
        BY <2>3
      <4>2. Present(i)
        BY <3>3, <2>6, <1>3
      <4> QED
        BY <4>1, <4>2, <2>2, <2>3 DEF Present
    <3>5. CASE done' = done
      BY <3>4, <3>5
    <3>6. CASE done' = done + 1
      <4>1. OnDisk \/ audio'[Piece] \in {"small", "whole"}
        BY <3>1, <3>2, <3>6, <2>3
      <4>2. audio'[Piece] # "none"
        <5>1. CASE OnDisk
          BY <5>1, <2>1, <2>3, <2>4, OnDiskIs DEF Present
        <5>2. CASE ~OnDisk
          BY <4>1, <5>2
        <5> QED
          BY <5>1, <5>2
      <4> QED
        BY <3>4, <3>6, <4>2, <2>2, <2>3, <2>4 DEF Present
    <3> QED
      BY <3>2, <3>5, <3>6
  <2> QED
    BY <2>1, <2>5, <2>6
<1>6. CASE Decide \/ Compare
  <2>1. subset' = subset /\ Selected' = Selected /\ audio' = audio
    BY <1>6, CountingKeeps DEF Decide, Compare, disk
  <2>2. pc' = "compare" \/ said' = "validated" => \A i \in 1 .. Selected : Present(i)
    <3>1. CASE Decide
      <4>1. pc = "audio" /\ done = Selected /\ said # "validated"
        BY <3>1, <1>4 DEF Decide, Selected, Steps
      <4>2. pc' = "compare" \/ said' = "validated" => ~(missing > 0)
        BY <3>1, <4>1 DEF Decide, Step
      <4>3. ~(missing > 0) => missing = 0
        BY DEF MaestroTypes, CountTyped
      <4> QED
        BY <4>1, <4>2, <4>3, <1>3
    <3>2. CASE Compare
      BY <3>2, <1>3 DEF Compare
    <3> QED
      BY <1>6, <3>1, <3>2
  <2>3. pc' # "audio"
    BY <1>6 DEF Decide, Compare, Step
  <2> QED
    BY <2>1, <2>2, <2>3 DEF Present
<1>7. CASE UNCHANGED vars
  <2>1. UNCHANGED <<pc, said, missing, done, audio>> /\ subset' = subset /\ Selected' = Selected
    BY <1>7, CountingKeeps DEF vars, disk, run
  <2> QED
    BY <2>1, <1>3 DEF Present
<1>8. CASE ~Handle /\ ~Decide /\ ~Compare /\ ~UNCHANGED vars
  <2>1. said' # "validated" /\ pc' # "compare" /\ (pc' = "audio" => done' = 0)
    BY <1>8, NotCounting
  <2> QED
    BY <2>1
<1> QED
  BY <1>5, <1>6, <1>7, <1>8

\* The second pass scores every piece that it goes through, or its file is small.
LEMMA PairedAllStep ==
  ASSUME MaestroTypes, RunShape, CountedPresent, PairedAll, [Next]_vars
  PROVE  PairedAll'
<1>1. SUFFICES /\ pc' = "compare" => \A i \in 1 .. done' : PairedOrSmall(i)'
               /\ said' = "validated" => \A i \in 1 .. Selected' : PairedOrSmall(i)'
  BY DEF PairedAll
<1>3. /\ pc = "compare" => \A i \in 1 .. done : PairedOrSmall(i)
      /\ said = "validated" => \A i \in 1 .. Selected : PairedOrSmall(i)
  BY DEF PairedAll
<1>4. pc \in Steps => said = "nothing"
  BY DEF RunShape, SaidAtEnd
<1>5. CASE Handle
  <2>1. pc' = pc /\ said' # "validated" /\ Fetching
    BY <1>4, <1>5, HandleMoves DEF Fetching, Steps
  <2>2. SUFFICES ASSUME pc = "compare" PROVE \A i \in 1 .. done' : PairedOrSmall(i)'
    BY <2>1
  <2>3. /\ done \in Nat /\ Selected \in Nat /\ done + 1 \in 1 .. Selected /\ subset' = subset
        /\ \A i \in 1 .. Selected : i # done + 1 => audio'[subset[i]] = audio[subset[i]]
    BY <1>5, HandleCounts, CountingKeeps
  <2>4. Piece = subset[done + 1]
    BY <2>1, PieceSelected
  <2>5. OnDisk \/ audio[Piece] = "small"
    <3>1. Present(done + 1)
      BY <2>2, <2>3 DEF CountedPresent
    <3> QED
      BY <3>1, <2>1, <2>4, OnDiskIs
  <2>6. /\ done' \in {done, done + 1} /\ pairs \subseteq pairs'
        /\ done' = done + 1 => Piece \in pairs' \/ (audio' = audio /\ ~OnDisk)
    BY <1>5, <2>2, <2>3 DEF Handle, Reuse, FetchAudio, NotFound, HttpError, Fetched, disk, run
  <2>7. \A i \in 1 .. done : PairedOrSmall(i)'
    <3> TAKE i \in 1 .. done
    <3>1. i \in 1 .. Selected /\ i # done + 1
      BY <2>3
    <3>2. PairedOrSmall(i)
      BY <1>3, <2>2
    <3> QED
      BY <3>1, <3>2, <2>3, <2>6 DEF PairedOrSmall
  <2>8. CASE done' = done
    BY <2>7, <2>8
  <2>9. CASE done' = done + 1
    <3>1. subset'[done + 1] \in pairs' \/ audio'[subset'[done + 1]] = "small"
      <4>1. subset'[done + 1] = Piece
        BY <2>3, <2>4
      <4>2. Piece \in pairs' \/ audio'[Piece] = "small"
        BY <2>5, <2>6, <2>9
      <4> QED
        BY <4>1, <4>2
    <3>2. TAKE i \in 1 .. done'
    <3>3. CASE i = done + 1
      BY <3>1, <3>3 DEF PairedOrSmall
    <3>4. CASE i # done + 1
      <4>1. i \in 1 .. done
        BY <2>3, <2>9, <3>4
      <4> QED
        BY <4>1, <2>7
    <3> QED
      BY <3>3, <3>4
  <2> QED
    BY <2>6, <2>8, <2>9
<1>6. CASE Decide
  <2>1. /\ said' \in {said, "blocked"} /\ pc = "audio"
        /\ pc' = "compare" => done' = 0
    BY <1>6 DEF Decide, Step
  <2> QED
    BY <2>1, <1>4 DEF Steps
<1>7. CASE Compare
  <2>1. pc = "compare" /\ done = Selected /\ pairs' = pairs /\ audio' = audio /\ pc' # "compare"
    BY <1>7 DEF Compare, Step, Selected, disk
  <2>2. subset' = subset /\ Selected' = Selected
    BY <1>7, CountingKeeps
  <2> QED
    BY <2>1, <2>2, <1>3 DEF PairedOrSmall
<1>8. CASE UNCHANGED vars
  <2>1. UNCHANGED <<pc, said, done, pairs, audio>> /\ subset' = subset /\ Selected' = Selected
    BY <1>8, CountingKeeps DEF vars, run, disk
  <2> QED
    BY <2>1, <1>3 DEF PairedOrSmall
<1>9. CASE ~Handle /\ ~Decide /\ ~Compare /\ ~UNCHANGED vars
  BY <1>9, NotCounting
<1> QED
  BY <1>5, <1>6, <1>7, <1>8, <1>9

\* Without the fixtures no run gets anywhere; with them, a fault precedes every crash,
\* unless basic_pitch cannot be imported when there is something to score.
LEMMA CrashFaultStep ==
  ASSUME MaestroTypes, RunShape, DiskExplained, CountedPresent, CrashFault, [Next]_vars
  PROVE  CrashFault'
<1>1. faults \subseteq faults'
  BY FaultsStay
<1>0. fixtures' = fixtures /\ installed' = installed
  BY GivenStays DEF given
<1>a. ~fixtures' => pc' \in {"calibrate", "crash", "killed"} /\ zip' = "none"
  <2> SUFFICES ASSUME ~fixtures PROVE pc' \in {"calibrate", "crash", "killed"} /\ zip' = "none"
    BY <1>0
  <2>1. pc \in {"calibrate", "crash", "killed"} /\ zip = "none"
    BY DEF CrashFault
  <2>2. Calibrate \/ Kill \/ RunAgain \/ UNCHANGED vars
    BY <2>1 DEF Next, StartDownload, Download, OpenArchive, Extract, LoadSubset, EnsureMidis, Reuse,
                FetchAudio, NotFound, HttpError, Unreachable, Fetching, Decide, Compare
  <2> QED
    BY <2>1, <2>2 DEF Calibrate, Kill, RunAgain, vars, Step, Fault, disk
<1>b. SUFFICES ASSUME pc' = "crash", faults' = {}, fixtures
               PROVE  installed = "broken" /\ missing' = 0 /\ pairs' # {}
  BY <1>0, <1>a DEF CrashFault
<1>2. faults = {}
  BY <1>1, <1>b
<1>3. NoKill /\ Clean /\ Extracted
  BY <1>2 DEF NoKill, Clean, DiskExplained, MembersWhole
<1>4. /\ n \in Nat /\ csvAt \in 1 .. n + 1 /\ listed \subseteq 1 .. n
      /\ \A p \in 1 .. n : MidiAt(p) \in 1 .. n + 1
  BY DEF MaestroTypes, Known, CountTyped, MidiAt
<1>5. ~StartDownload /\ ~Download /\ ~Unreachable
  <2>1. StartDownload \/ Download \/ Unreachable => faults' = faults \cup {"network"}
    BY <1>b DEF StartDownload, Download, Unreachable, Fault, Step
  <2> QED
    BY <2>1, <1>b
<1>6. ~OpenArchive
  <2> SUFFICES ASSUME OpenArchive PROVE FALSE
    OBVIOUS
  <2>1. pc = "archive" /\ zip = "torn"
    BY <1>b DEF OpenArchive, Step
  <2> QED
    BY <2>1, <1>2 DEF DiskExplained, ZipExplained
<1>7. ~LoadSubset
  <2> SUFFICES ASSUME LoadSubset PROVE FALSE
    OBVIOUS
  <2>1. pc = "subset" /\ members[csvAt] = "torn"
    BY <1>b DEF LoadSubset, Step
  <2> QED
    BY <2>1, <1>3, <1>4 DEF Extracted, Whole
<1>8. \A p \in Pieces : p \in 1 .. n
  <2>1. Pieces = {subset[i] : i \in 1 .. Selected} /\ \A i \in 1 .. Selected : subset[i] \in listed
    BY SubsetPieces DEF MaestroTypes
  <2> QED
    BY <2>1, <1>4
<1>9. ~EnsureMidis
  <2> SUFFICES ASSUME EnsureMidis PROVE FALSE
    OBVIOUS
  <2>1. pc = "midis" /\ \E p \in Pieces : members[MidiAt(p)] = "none"
    BY <1>b DEF EnsureMidis, Step
  <2> QED
    BY <2>1, <1>3, <1>4, <1>8 DEF Extracted, Whole
<1>10. CASE Compare
  <2>1. /\ pc = "compare" /\ missing' = missing /\ pairs' = pairs
        /\ (pairs # {} /\ installed = "broken") \/ \E p \in pairs : Damaged(p)
    BY <1>10, <1>b DEF Compare, Step
  <2>2. pairs \subseteq Pieces /\ missing = 0
    BY <2>1 DEF RunShape, Paired, Tally
  <2>3. \A p \in Pieces : ~Damaged(p)
    <3> TAKE p \in Pieces
    <3>1. members[MidiAt(p)] = "whole"
      BY <2>1, <1>3, <1>4, <1>8 DEF Extracted, Whole
    <3>2. audio[p] # "none"
      <4>1. Pieces = {subset[i] : i \in 1 .. Selected}
        BY SubsetPieces DEF MaestroTypes
      <4>2. \A i \in 1 .. Selected : Present(i)
        BY <2>1 DEF CountedPresent
      <4> QED
        BY <4>1, <4>2 DEF Present
    <3>3. audio[p] \in {"none", "small", "torn", "whole"} /\ audio[p] # "torn" /\ audio[p] # "small"
      BY <1>3, <1>8 DEF DiskExplained, AudioExplained, MaestroTypes, DiskTyped
    <3> QED
      BY <3>1, <3>2, <3>3 DEF Damaged
  <2> QED
    BY <2>1, <2>2, <2>3
<1>11. ~Handle
  <2>1. Handle => pc' = pc /\ pc # "crash"
    BY HandleMoves DEF Fetching
  <2> QED
    BY <2>1, <1>b
<1>12. CASE UNCHANGED vars
  BY <1>12, <1>b, <1>2 DEF vars, run, CrashFault
<1>13. ~Calibrate /\ ~Extract /\ ~Decide /\ ~Kill /\ ~RunAgain
  BY <1>b DEF Calibrate, Extract, Decide, Kill, RunAgain, Step, Fault
<1> QED
  BY <1>5, <1>6, <1>7, <1>9, <1>10, <1>11, <1>12, <1>13 DEF Next, Handle

\* A doomed run gets no further than the archive.
LEMMA DoomedStuckStep == ASSUME DoomedStuck, [Next]_vars PROVE DoomedStuck'
<1>1. CASE RunAgain
  <2>1. /\ doomed' <=> zip = "torn" /\ members[csvAt] = "none"
        /\ zip' = zip /\ members' = members /\ csvAt' = csvAt /\ pc' = "calibrate"
    BY <1>1 DEF RunAgain, given, disk
  <2> QED
    BY <2>1 DEF DoomedStuck
<1>2. CASE ~doomed
  <2>1. RunAgain \/ doomed' = doomed
    BY DEF Next, vars, Calibrate, StartDownload, Download, OpenArchive, Extract, LoadSubset, EnsureMidis,
           Reuse, FetchAudio, NotFound, HttpError, Unreachable, Decide, Compare, Kill, Step, Fault,
           Fetched, ghost
  <2> QED
    BY <2>1, <1>1, <1>2 DEF DoomedStuck
<1>3. CASE doomed
  <2>1. /\ zip = "torn" /\ members[csvAt] = "none"
        /\ pc \in {"calibrate", "archive", "exit 1", "crash", "killed"}
    BY <1>3 DEF DoomedStuck
  <2>2. csvAt' = csvAt
    BY GivenStays DEF given
  <2>3. CASE Calibrate
    BY <2>1, <2>2, <2>3 DEF Calibrate, Step, disk, DoomedStuck
  <2>4. CASE OpenArchive
    BY <2>1, <2>2, <2>4 DEF OpenArchive, Step, disk, DoomedStuck
  <2>5. CASE Kill
    <3>1. zip' = zip /\ members' = members /\ pc' = "killed"
      BY <2>1, <2>5 DEF Kill, Fault, Fetching
    <3> QED
      BY <3>1, <2>1, <2>2 DEF DoomedStuck
  <2>6. CASE UNCHANGED vars
    BY <2>1, <2>2, <2>6 DEF vars, disk, DoomedStuck
  <2>7. Calibrate \/ OpenArchive \/ Kill \/ RunAgain \/ UNCHANGED vars
    BY <2>1 DEF Next, StartDownload, Download, Extract, LoadSubset, EnsureMidis, Reuse, FetchAudio,
                NotFound, HttpError, Unreachable, Fetching, Decide, Compare
  <2> QED
    BY <1>1, <2>3, <2>4, <2>5, <2>6, <2>7
<1> QED
  BY <1>2, <1>3

-----------------------------------------------------------------------------
\* The invariant holds at the start.
LEMMA MaestroInvAtFirst == ASSUME Init PROVE MaestroInv
<1>1. Known /\ n \in Nat
  BY KnownAtFirst DEF Known
<1>2. pc = "calibrate" /\ done = 0 /\ missing = 0 /\ pairs = {} /\ said = "nothing"
  BY DEF Init
<1>3. zip = "none" /\ faults = {} /\ csvAt \in 1 .. n + 1
  BY DEF Init
<1>4. members = [m \in 1 .. n + 1 |-> "none"] /\ audio = [p \in 1 .. n |-> "none"]
  BY DEF Init
<1>5. DiskTyped /\ StepTyped /\ CountTyped
  BY <1>1, <1>2, <1>3, <1>4 DEF DiskTyped, StepTyped, CountTyped, Steps
<1>6. Progress /\ SaidAtEnd /\ Tally /\ Paired
  BY <1>2 DEF Progress, SaidAtEnd, Tally, Paired
<1>7. Honest /\ BlockedAbsent
  BY <1>2 DEF Honest, BlockedAbsent
<1>8. ZipExplained /\ AudioExplained
  BY <1>1, <1>3, <1>4 DEF ZipExplained, AudioExplained
<1>9. Extracted
  BY <1>1, <1>2, <1>4 DEF Extracted
<1>10. MissingAbsent /\ CountedPresent /\ PairedAll
  BY <1>2 DEF MissingAbsent, CountedPresent, PairedAll
<1>11. CrashFault
  BY <1>2, <1>3 DEF CrashFault
<1>12. DoomedStuck
  BY DEF Init, DoomedStuck
<1> QED
  BY <1>1, <1>5, <1>6, <1>7, <1>8, <1>9, <1>10, <1>11, <1>12
     DEF MaestroInv, MaestroTypes, RunShape, DiskExplained, MembersWhole, AudioCounted

\* The invariant survives every step.
LEMMA MaestroInvStep == ASSUME MaestroInv, [Next]_vars PROVE MaestroInv'
<1>1. /\ MaestroTypes /\ RunShape /\ DiskExplained /\ MissingAbsent /\ BlockedAbsent /\ CountedPresent
      /\ PairedAll /\ CrashFault /\ DoomedStuck
  BY DEF MaestroInv, AudioCounted
<1>2. ZipExplained /\ AudioExplained /\ MembersWhole /\ DiskTyped
  BY <1>1 DEF DiskExplained, MaestroTypes
<1>3. MaestroTypes' /\ RunShape'
  BY <1>1, MaestroTypesStep, RunShapeStep
<1>4. DiskExplained'
  BY <1>1, <1>2, ZipStep, AudioStep, MembersStep DEF DiskExplained
<1>5. AudioCounted'
  BY <1>1, <1>2, MissingAbsentStep, BlockedAbsentStep, CountedPresentStep, PairedAllStep DEF AudioCounted
<1>6. CrashFault' /\ DoomedStuck'
  BY <1>1, CrashFaultStep, DoomedStuckStep
<1> QED
  BY <1>3, <1>4, <1>5, <1>6 DEF MaestroInv

\* The inductive invariant: the types, how far the run is, what damaged the disk, what the
\* passes over the audio counted, and why a run crashed.
THEOREM MaestroInvariant == Spec => []MaestroInv
<1>1. Init => MaestroInv
  BY MaestroInvAtFirst
<1>2. MaestroInv /\ [Next]_vars => MaestroInv'
  BY MaestroInvStep
<1> QED
  BY <1>1, <1>2, PTL DEF Spec

\* validate_maestro crashes only after a kill, a network failure or a small answer, or for
\* want of the fixtures or of a basic_pitch that can be imported, and then where it says;
\* and it never gets over a torn archive: for any number of pieces and of runs.
THEOREM MaestroCrashHasCause == Spec => []CrashHasCause
<1>1. MaestroInv => CrashHasCause
  <2> SUFFICES ASSUME MaestroInv PROVE CrashHasCause
    OBVIOUS
  <2>1. CrashFault /\ DoomedStuck
    BY DEF MaestroInv
  <2>2. pc = "crash" /\ faults = {} =>
          (~fixtures /\ zip = "none") \/ (installed = "broken" /\ missing = 0 /\ pairs # {})
    BY <2>1 DEF CrashFault
  <2>3. doomed => /\ ~(pc \in {"download", "extract", "subset", "midis", "audio", "compare", "exit 0", "exit 2"})
                  /\ zip = "torn"
    BY <2>1 DEF DoomedStuck
  <2> QED
    BY <2>2, <2>3 DEF CrashHasCause
<1> QED
  BY <1>1, MaestroInvariant, PTL

\* The exit code is honest, BLOCKED is said only if something is missing, and VALIDATED
\* is said of pieces each of which is scored whole, unless a kill or a small answer for it
\* left something else on the disk: for any number of pieces, limit and runs.
THEOREM MaestroValidatedOnAll == Spec => []ValidatedOnAll
<1>1. ASSUME MaestroInv PROVE ValidatedOnAll
  <2>1. MaestroTypes /\ RunShape /\ AudioExplained /\ MembersWhole /\ BlockedAbsent /\ CountedPresent /\ PairedAll
    BY <1>1 DEF MaestroInv, DiskExplained, AudioCounted
  <2>2. Pieces = {subset[i] : i \in 1 .. Selected} /\ \A i \in 1 .. Selected : subset[i] \in listed
    BY <2>1, SubsetPieces DEF MaestroTypes
  <2>3. (pc = "exit 0" /\ required) => said = "validated"
    BY <2>1 DEF RunShape, Honest
  <2>4. said = "blocked" => installed = "none" \/ \E p \in Pieces : audio[p] \in {"none", "small"}
    <3>1. SomeAbsent => \E p \in Pieces : audio[p] \in {"none", "small"}
      BY <2>2 DEF SomeAbsent, Absent
    <3> QED
      BY <3>1, <2>1 DEF BlockedAbsent
  <2>5. said = "validated" => installed = "whole" /\ missing = 0 /\ pairs # {} /\ pairs \subseteq Pieces
    BY <2>1 DEF RunShape, Honest, Tally, Paired
  <2>6. ASSUME said = "validated", NEW p \in Pieces
        PROVE  /\ p \in pairs \/ audio[p] = "small"
               /\ \/ p \in pairs /\ ~Damaged(p)
                  \/ "kill" \in faults
                  \/ "small" \in faults /\ audio[p] = "small"
    <3>1. p \in pairs \/ audio[p] = "small"
      BY <2>1, <2>2, <2>6 DEF PairedAll, PairedOrSmall
    <3>2. audio[p] # "none"
      BY <2>1, <2>2, <2>6 DEF CountedPresent, Present
    <3>3. p \in 1 .. n /\ audio[p] \in {"none", "small", "torn", "whole"}
      BY <2>1, <2>2 DEF MaestroTypes, Known, DiskTyped
    <3>4. SUFFICES ASSUME NoKill, ~("small" \in faults /\ audio[p] = "small")
                   PROVE  p \in pairs /\ ~Damaged(p)
      BY <3>1 DEF NoKill
    <3>5. audio[p] # "small"
      <4>1. "small" \notin faults => Clean
        BY <3>4 DEF Clean, NoKill
      <4> QED
        BY <4>1, <3>3, <3>4, <2>1 DEF AudioExplained
    <3>6. audio[p] = "whole"
      BY <3>2, <3>3, <3>4, <3>5, <2>1 DEF AudioExplained
    <3>7. members[MidiAt(p)] = "whole"
      <4>1. n \in Nat /\ csvAt \in 1 .. n + 1
        BY <2>1 DEF MaestroTypes, Known, CountTyped
      <4>2. MidiAt(p) \in 1 .. n + 1
        BY <3>3, <4>1 DEF MidiAt
      <4>3. Whole
        BY <2>1, <2>6, <3>4 DEF MembersWhole, Extracted
      <4> QED
        BY <4>2, <4>3 DEF Whole
    <3> QED
      BY <3>1, <3>5, <3>6, <3>7 DEF Damaged
  <2>7. ASSUME said = "validated", "kill" \notin faults, limit > 0
        PROVE  Cardinality(Pieces) = IF limit >= n THEN n ELSE limit
    <3>1. listed = 1 .. n
      BY <2>1, <2>7 DEF MembersWhole, Extracted, NoKill
    <3>2. Cardinality(Pieces) = IF limit >= n THEN n ELSE IF limit = 0 THEN 1 ELSE limit
      BY <3>1, <2>1, SubsetOfAll DEF MaestroTypes
    <3> QED
      BY <3>2, <2>7
  <2> QED
    BY <2>3, <2>4, <2>5, <2>6, <2>7 DEF ValidatedOnAll
<1> QED
  BY <1>1, MaestroInvariant, PTL

\* So does a set of natural numbers with a bound have a greatest.
LEMMA GreatestNumber ==
  ASSUME NEW T \in SUBSET Nat, T # {}, NEW m \in Nat, \A x \in T : x <= m
  PROVE  \E x \in T : \A y \in T : y <= x
<1> DEFINE U == {m - x : x \in T}
<1>1. U \in SUBSET Nat /\ U # {}
  <2>1. \A x \in T : m - x \in Nat
    <3> TAKE x \in T
    <3>1. x \in Nat /\ x <= m
      OBVIOUS
    <3> QED BY <3>1
  <2>2. PICK x \in T : TRUE
    OBVIOUS
  <2>3. m - x \in U
    BY <2>2
  <2> QED BY <2>1, <2>3
<1>2. PICK u \in U : \A v \in U : u <= v
  <2> HIDE DEF U
  <2> QED BY <1>1, LeastNumber
<1>3. PICK x \in T : u = m - x
  OBVIOUS
<1>4. \A y \in T : m - x <= m - y
  BY <1>2, <1>3
<1>5. \A y \in T : y <= x
  BY <1>4
<1> QED BY <1>5

\* The least of a set of numbers is in it, and below all of it.
LEMMA MinFacts ==
  ASSUME NEW T \in SUBSET Nat, T # {}
  PROVE  Min(T) \in T /\ \A x \in T : Min(T) <= x
BY LeastNumber DEF Min

\* The greatest of a bounded set of numbers is in it, and above all of it.
LEMMA MaxFacts ==
  ASSUME NEW T \in SUBSET Nat, T # {}, NEW m \in Nat, \A x \in T : x <= m
  PROVE  Max(T) \in T /\ \A x \in T : x <= Max(T)
<1>1. \E x \in T : \A y \in T : x >= y
  <2>1. PICK x \in T : \A y \in T : y <= x
    BY GreatestNumber
  <2>2. \A y \in T : x >= y
    BY <2>1
  <2> QED BY <2>2
<1>2. Max(T) \in T /\ \A y \in T : Max(T) >= y
  BY <1>1 DEF Max
<1>3. \A x \in T : x \in Nat /\ Max(T) \in Nat
  BY <1>2
<1> QED BY <1>2, <1>3

\* The distance of two times.
LEMMA ApartFacts ==
  ASSUME NEW a \in Int, NEW b \in Int
  PROVE  /\ Apart(a, b) = IF a >= b THEN a - b ELSE b - a
         /\ Apart(a, b) \in Nat
         /\ \A t \in Nat : Apart(a, b) <= t <=> Within(a, b, t)
<1> DEFINE D == {a - b, b - a}
<1>1. \E x \in D : \A y \in D : x >= y
  <2>1. CASE a >= b
    BY <2>1
  <2>2. CASE a < b
    BY <2>2
  <2> QED BY <2>1, <2>2
<1>2. Max(D) \in D /\ \A y \in D : Max(D) >= y
  <2> HIDE DEF D
  <2> QED BY <1>1 DEF Max
<1>3. Apart(a, b) = IF a >= b THEN a - b ELSE b - a
  BY <1>2 DEF Apart
<1> QED BY <1>3 DEF Within

-----------------------------------------------------------------------------
\* np.argsort lists each index once, by ascending keys and, where keys are equal, by
\* ascending indices: as many indices have a rank as there are ranks.
LEMMA ArgsortFacts ==
  ASSUME NEW D \in SUBSET Nat, IsFiniteSet(D), NEW keys \in [D -> Int]
  PROVE  /\ argsort(keys) \in [1 .. Cardinality(D) -> D]
         /\ \A i \in D : \E k \in 1 .. Cardinality(D) : argsort(keys)[k] = i
         /\ \A j, k \in 1 .. Cardinality(D) : j < k =>
              \/ keys[argsort(keys)[j]] < keys[argsort(keys)[k]]
              \/ /\ keys[argsort(keys)[j]] = keys[argsort(keys)[k]]
                 /\ argsort(keys)[j] < argsort(keys)[k]
<1> DEFINE m == Cardinality(D)
           Before(i, j) == keys[i] < keys[j] \/ (keys[i] = keys[j] /\ i <= j)
           Upto(i) == {j \in D : Before(j, i)}
           rank == [i \in D |-> Cardinality(Upto(i))]
<1>0. m \in Nat
  BY FS_CardinalityType
<1>1. \A i, j \in D : Before(i, j) \/ Before(j, i)
  BY DEF Before
<1>2. \A i, j, k \in D : Before(i, j) /\ Before(j, k) => Before(i, k)
  BY DEF Before
<1>3. \A i, j \in D : Before(i, j) /\ Before(j, i) => i = j
  BY DEF Before
<1>4. \A i \in D : Before(i, i)
  BY DEF Before
<1> HIDE DEF Before
<1>5. \A i \in D : IsFiniteSet(Upto(i)) /\ Cardinality(Upto(i)) \in 1 .. m
  <2> TAKE i \in D
  <2>1. Upto(i) \in SUBSET D /\ i \in Upto(i)
    BY <1>4
  <2> HIDE DEF Upto
  <2>2. IsFiniteSet(Upto(i)) /\ Cardinality(Upto(i)) <= m
    BY <2>1, FS_Subset
  <2>3. Cardinality(Upto(i)) # 0 /\ Cardinality(Upto(i)) \in Nat
    BY <2>1, <2>2, FS_EmptySet, FS_CardinalityType
  <2> QED BY <1>0, <2>2, <2>3
<1>6. ASSUME NEW i \in D, NEW j \in D, Before(i, j), i # j PROVE rank[i] < rank[j]
  <2>1. Upto(i) \in SUBSET Upto(j)
    BY <1>2, <1>6
  <2>2. j \in Upto(j) /\ j \notin Upto(i)
    BY <1>3, <1>4, <1>6
  <2>3. IsFiniteSet(Upto(j))
    BY <1>5
  <2> HIDE DEF Upto
  <2>4. Cardinality(Upto(i)) <= Cardinality(Upto(j)) /\ Cardinality(Upto(i)) # Cardinality(Upto(j))
    BY <2>1, <2>2, <2>3, FS_Subset
  <2> QED BY <1>5, <2>4
<1>7. rank \in [D -> 1 .. m]
  BY <1>5
<1> HIDE DEF rank
<1>8. rank \in Injection(D, 1 .. m)
  <2> SUFFICES ASSUME NEW i \in D, NEW j \in D, rank[i] = rank[j] PROVE i = j
    BY <1>7 DEF Injection, IsInjective
  <2>1. rank[i] \in 1 .. m
    BY <1>7
  <2> QED BY <1>1, <1>6, <2>1
<1>9. rank \in Surjection(D, 1 .. m)
  <2>1. IsFiniteSet(1 .. m) /\ Cardinality(1 .. m) = m
    BY <1>0, FS_Interval
  <2> QED BY <1>8, <2>1, FS_Injection
<1>10. argsort(keys) = [k \in 1 .. m |-> CHOOSE i \in D : rank[i] = k]
  <2>1. DOMAIN keys = D
    OBVIOUS
  <2>2. \A i \in D : rank[i] = Cardinality({j \in D : keys[j] < keys[i] \/ (keys[j] = keys[i] /\ j <= i)})
    BY DEF rank, Upto, Before
  <2>3. argsort(keys) = [k \in 1 .. m |-> CHOOSE i \in D :
          Cardinality({j \in D : keys[j] < keys[i] \/ (keys[j] = keys[i] /\ j <= i)}) = k]
    BY <2>1 DEF argsort
  <2> HIDE DEF m
  <2>4. ASSUME NEW k PROVE
          (CHOOSE i \in D : Cardinality({j \in D : keys[j] < keys[i] \/ (keys[j] = keys[i] /\ j <= i)}) = k)
            = CHOOSE i \in D : rank[i] = k
    BY <2>2
  <2> QED BY <2>3, <2>4, Zenon
<1>11. ASSUME NEW k \in 1 .. m PROVE argsort(keys)[k] \in D /\ rank[argsort(keys)[k]] = k
  <2>1. \E i \in D : rank[i] = k
    BY <1>9 DEF Surjection
  <2>2. argsort(keys)[k] = CHOOSE i \in D : rank[i] = k
    BY <1>10
  <2> QED BY <2>1, <2>2
<1>12. argsort(keys) \in [1 .. m -> D]
  BY <1>10, <1>11
<1>13. ASSUME NEW i \in D PROVE \E k \in 1 .. m : argsort(keys)[k] = i
  <2>1. rank[i] \in 1 .. m /\ argsort(keys)[rank[i]] \in D /\ rank[argsort(keys)[rank[i]]] = rank[i]
    BY <1>7, <1>11
  <2>2. argsort(keys)[rank[i]] = i
    BY <1>8, <2>1 DEF Injection, IsInjective
  <2> QED BY <2>1, <2>2
<1>14. ASSUME NEW j \in 1 .. m, NEW k \in 1 .. m, j < k
       PROVE  LET p == argsort(keys)[j]  q == argsort(keys)[k]
              IN  keys[p] < keys[q] \/ (keys[p] = keys[q] /\ p < q)
  <2> DEFINE p == argsort(keys)[j]
             q == argsort(keys)[k]
  <2>1. p \in D /\ q \in D /\ rank[p] = j /\ rank[q] = k
    BY <1>11
  <2> HIDE DEF p, q
  <2>2. p # q /\ j \in Nat /\ k \in Nat
    BY <1>14, <2>1
  <2>3. ~Before(q, p)
    BY <1>6, <1>14, <2>1, <2>2
  <2>4. Before(p, q)
    BY <1>1, <2>1, <2>3
  <2>5. p \in Nat /\ q \in Nat
    BY <2>1
  <2>6. keys[p] < keys[q] \/ (keys[p] = keys[q] /\ p < q)
    BY <2>2, <2>4, <2>5 DEF Before
  <2> QED BY <2>6 DEF p, q
<1> QED BY <1>12, <1>13, <1>14

\* Sorting keeps the keys and puts them in order.
LEMMA AscendingFacts ==
  ASSUME NEW D \in SUBSET Nat, IsFiniteSet(D), NEW keys \in [D -> Int]
  PROVE  /\ Ascending(keys) \in [1 .. Cardinality(D) -> Int]
         /\ \A k \in 1 .. Cardinality(D) : \E i \in D : Ascending(keys)[k] = keys[i]
         /\ \A j, k \in 1 .. Cardinality(D) : j <= k => Ascending(keys)[j] <= Ascending(keys)[k]
<1> DEFINE m == Cardinality(D)
           order == argsort(keys)
<1>1. /\ order \in [1 .. m -> D]
      /\ \A j, k \in 1 .. m : j < k =>
           \/ keys[order[j]] < keys[order[k]]
           \/ keys[order[j]] = keys[order[k]] /\ order[j] < order[k]
  BY ArgsortFacts
<1>2. Ascending(keys) = [k \in 1 .. m |-> keys[order[k]]]
  BY <1>1 DEF Ascending
<1> HIDE DEF order
<1>3. m \in Nat
  BY FS_CardinalityType
<1> HIDE DEF m
<1>4. \A k \in 1 .. m : Ascending(keys)[k] = keys[order[k]] /\ order[k] \in D /\ keys[order[k]] \in Int
  BY <1>1, <1>2
<1>5. \A j, k \in 1 .. m : j <= k => j = k \/ j < k
  BY <1>3
<1>6. \A j, k \in 1 .. m : j <= k => Ascending(keys)[j] <= Ascending(keys)[k]
  BY <1>1, <1>4, <1>5
<1> QED BY <1>2, <1>4, <1>6 DEF m

-----------------------------------------------------------------------------
\* Two frames that may be of one run.
Joined(f0, i, j) == f0[i] # Unvoiced /\ f0[j] # Unvoiced /\ Joins(f0, i, j)

Tracks == Seq(Int \cup {Unvoiced, NaN})

\* Notes as they are before round() has raised on a pitch that is no number.
TrackNotes == Seq([on : Int, off : Int, pitch : Int \cup {NaN}])

\* A run holds the frames that join its first and ends before one that does not.
LEMMA RunEndFacts ==
  ASSUME NEW f0 \in Tracks, NEW i \in 1 .. Len(f0), f0[i] # Unvoiced
  PROVE  /\ run_end(f0, i) \in i + 1 .. Len(f0) + 1
         /\ \A j \in i .. run_end(f0, i) - 1 : Joined(f0, i, j)
         /\ run_end(f0, i) <= Len(f0) => ~Joined(f0, i, run_end(f0, i))
<1> DEFINE T == {Len(f0) + 1} \cup {j \in i + 1 .. Len(f0) : f0[j] = Unvoiced \/ ~Joins(f0, i, j)}
           e == run_end(f0, i)
<1>1. Len(f0) \in Nat /\ DOMAIN f0 = 1 .. Len(f0)
  BY DEF Tracks
<1>2. T \in SUBSET Nat /\ T # {} /\ T \subseteq i + 1 .. Len(f0) + 1
  BY <1>1
<1>3. e \in T /\ \A x \in T : e <= x
  <2> HIDE DEF T
  <2>1. Min(T) \in T /\ \A x \in T : Min(T) <= x
    BY <1>2, MinFacts
  <2>2. e = Min(T)
    BY DEF T, run_end
  <2> QED BY <2>1, <2>2
<1> HIDE DEF e
<1>4. \A j \in 1 .. Len(f0) : f0[j] # Unvoiced => f0[j] \in Int \cup {NaN}
  BY <1>1 DEF Tracks
<1>5. \A j \in 1 .. Len(f0) : Joined(f0, i, j) <=> f0[j] # Unvoiced /\ Joins(f0, i, j)
  BY DEF Joined
<1>6. e \in i + 1 .. Len(f0) + 1
  BY <1>2, <1>3
<1>7. ASSUME NEW j \in i .. e - 1 PROVE Joined(f0, i, j)
  <2>1. j \in 1 .. Len(f0) /\ (j = i \/ j \in i + 1 .. Len(f0))
    BY <1>1, <1>6
  <2>2. CASE j = i
    <3>1. (f0[i] \in Int \/ f0[i] = NaN) /\ midi_tolerance \in Nat
      BY <1>4, TrackAssumption
    <3> QED BY <2>2, <3>1 DEF Joined, Joins
  <2>3. CASE j \in i + 1 .. Len(f0)
    <3>1. j \notin T
      BY <1>1, <1>3, <1>6
    <3> QED BY <1>5, <2>1, <2>3, <3>1
  <2> QED BY <2>1, <2>2, <2>3
<1>8. e <= Len(f0) => ~Joined(f0, i, e)
  <2> SUFFICES ASSUME e <= Len(f0) PROVE ~Joined(f0, i, e)
    OBVIOUS
  <2>1. e # Len(f0) + 1 /\ e \in 1 .. Len(f0)
    BY <1>1, <1>6
  <2>2. f0[e] = Unvoiced \/ ~Joins(f0, i, e)
    BY <1>3, <2>1
  <2> QED BY <1>5, <2>1, <2>2
<1> QED BY <1>6, <1>7, <1>8 DEF e

\* The pitch of a run is between those of two of its frames, up to the rounding.
LEMMA MedianFacts ==
  ASSUME NEW m \in Nat \ {0}, NEW frames \in [1 .. m -> Int]
  PROVE  /\ MedianPitch(frames) \in Int
         /\ \E i, j \in 1 .. m :
              frames[i] - 2 <= 4 * MedianPitch(frames) /\ 4 * MedianPitch(frames) <= frames[j] + 2
<1> DEFINE sorted == Ascending(frames)
           a == (m + 1) \div 2
           b == m \div 2 + 1
<1>1. a \in 1 .. m /\ b \in 1 .. m /\ a <= b
  OBVIOUS
<1>2. /\ sorted \in [1 .. m -> Int]
      /\ \A k \in 1 .. m : \E i \in 1 .. m : sorted[k] = frames[i]
      /\ \A j, k \in 1 .. m : j <= k => sorted[j] <= sorted[k]
  <2>1. IsFiniteSet(1 .. m) /\ Cardinality(1 .. m) = m /\ 1 .. m \in SUBSET Nat
    BY FS_Interval
  <2>2. /\ Ascending(frames) \in [1 .. Cardinality(1 .. m) -> Int]
        /\ \A k \in 1 .. Cardinality(1 .. m) : \E i \in 1 .. m : Ascending(frames)[k] = frames[i]
        /\ \A j, k \in 1 .. Cardinality(1 .. m) : j <= k => Ascending(frames)[j] <= Ascending(frames)[k]
    <3> HIDE DEF sorted
    <3> QED BY <2>1, AscendingFacts
  <2> QED BY <2>1, <2>2
<1>3. Len(frames) = m
  BY LenProperties
<1> HIDE DEF sorted
<1>4. MedianPitch(frames) = RoundDiv(sorted[a] + sorted[b], 8)
  <2>1. NaN \notin ToSet(frames)
    BY <1>3, TrackAssumption DEF ToSet
  <2> QED BY <1>3, <2>1 DEF MedianPitch, sorted
<1> HIDE DEF a, b
<1>5. sorted[a] \in Int /\ sorted[b] \in Int /\ sorted[a] <= sorted[b]
  BY <1>1, <1>2
<1> DEFINE x == sorted[a] + sorted[b]
           p == RoundDiv(x, 8)
<1>6. x \in Int
  BY <1>5
<1>7. p \in Int /\ x - 4 <= 8 * p /\ 8 * p <= x + 4
  <2> HIDE DEF x
  <2> QED BY <1>6 DEF RoundDiv
<1> HIDE DEF p
<1>8. sorted[a] - 2 <= 4 * p /\ 4 * p <= sorted[b] + 2
  BY <1>5, <1>7
<1>9. PICK i \in 1 .. m : sorted[a] = frames[i]
  BY <1>1, <1>2
<1>10. PICK j \in 1 .. m : sorted[b] = frames[j]
  BY <1>1, <1>2
<1> QED BY <1>4, <1>7, <1>8, <1>9, <1>10 DEF p

\* What the loop of _pitch_track_to_notes makes of a run.
RunNote(f0, i) ==
  IF run_end(f0, i) - i < min_note THEN <<>>
  ELSE <<[on |-> i - 1, off |-> run_end(f0, i) - 1, pitch |-> MedianPitch(SubSeq(f0, i, run_end(f0, i) - 1))]>>

\* The recursion of PitchTrackToNotes, from frame m to the end.
IsNotesFrom(g, f0, m) ==
  g = [i \in m .. Len(f0) + 1 |->
         IF i > Len(f0) THEN <<>>
         ELSE IF f0[i] = Unvoiced THEN g[i + 1]
         ELSE RunNote(f0, i) \o g[run_end(f0, i)]]

\* Notes that are known from frame m + 1 on can be told from frame m on.
LEMMA ExtendNotesFrom ==
  ASSUME NEW f0 \in Tracks, NEW m \in 1 .. Len(f0), NEW g, IsNotesFrom(g, f0, m + 1)
  PROVE  \E h : IsNotesFrom(h, f0, m)
<1> DEFINE b == IF f0[m] = Unvoiced THEN g[m + 1] ELSE RunNote(f0, m) \o g[run_end(f0, m)]
           h == [i \in m .. Len(f0) + 1 |-> IF i = m THEN b ELSE g[i]]
           Turn(f, i) == IF i > Len(f0) THEN <<>>
                         ELSE IF f0[i] = Unvoiced THEN f[i + 1]
                         ELSE RunNote(f0, i) \o f[run_end(f0, i)]
<1>1. Len(f0) \in Nat
  BY DEF Tracks
<1>2. \A i \in m + 1 .. Len(f0) + 1 : h[i] = g[i]
  BY <1>1
<1>3. h[m] = b
  BY <1>1
<1>4. \A i \in m + 1 .. Len(f0) + 1 : g[i] = Turn(g, i)
  BY DEF IsNotesFrom
<1>5. ASSUME NEW i \in m .. Len(f0) + 1 PROVE Turn(g, i) = Turn(h, i)
  <2> SUFFICES ASSUME i \in 1 .. Len(f0) PROVE Turn(g, i) = Turn(h, i)
    BY <1>1
  <2>1. i + 1 \in m + 1 .. Len(f0) + 1
    BY <1>1
  <2>2. f0[i] # Unvoiced => run_end(f0, i) \in m + 1 .. Len(f0) + 1
    <3> HAVE f0[i] # Unvoiced
    <3>1. run_end(f0, i) \in i + 1 .. Len(f0) + 1
      BY RunEndFacts
    <3> QED BY <1>1, <3>1
  <2> HIDE DEF h
  <2> QED BY <1>2, <2>1, <2>2
<1>6. ASSUME NEW i \in m .. Len(f0) + 1 PROVE h[i] = Turn(h, i)
  <2>1. CASE i = m
    <3>1. b = Turn(g, m)
      BY <1>1
    <3> HIDE DEF h, b, Turn
    <3> QED BY <2>1, <3>1, <1>3, <1>5
  <2>2. CASE i # m
    <3>1. i \in m + 1 .. Len(f0) + 1
      BY <2>2, <1>1
    <3> HIDE DEF h, Turn
    <3> QED BY <3>1, <1>2, <1>4, <1>5
  <2> QED BY <2>1, <2>2
<1>7. DOMAIN h = m .. Len(f0) + 1 /\ h = [i \in DOMAIN h |-> h[i]]
  OBVIOUS
<1>8. h = [i \in m .. Len(f0) + 1 |-> Turn(h, i)]
  <2> HIDE DEF h, Turn
  <2> QED BY <1>6, <1>7
<1>9. IsNotesFrom(h, f0, m)
  <2> HIDE DEF h
  <2> QED BY <1>8 DEF IsNotesFrom
<1> QED BY <1>9

\* The recursion over the frames of a track is that of a function.
LEMMA NotesFromExist ==
  ASSUME NEW f0 \in Tracks
  PROVE  \E g : IsNotesFrom(g, f0, 1)
<1> DEFINE L == Len(f0)
           Stuck == {k \in 0 .. L : ~\E g : IsNotesFrom(g, f0, L + 1 - k)}
<1>1. L \in Nat
  BY DEF Tracks
<1> SUFFICES ASSUME Stuck # {} PROVE FALSE
  <2>1. L \in 0 .. L /\ L + 1 - L = 1
    BY <1>1
  <2> QED BY <2>1
<1>2. PICK k \in Stuck : \A x \in Stuck : k <= x
  <2>1. Stuck \in SUBSET Nat
    BY <1>1
  <2> HIDE DEF Stuck
  <2> QED BY <2>1, LeastNumber
<1>3. CASE k = 0
  <2> DEFINE h == [i \in L + 1 .. L + 1 |-> <<>>]
  <2>1. \A i \in L + 1 .. L + 1 : i > L
    BY <1>1
  <2>2. IsNotesFrom(h, f0, L + 1)
    BY <2>1 DEF IsNotesFrom
  <2>3. L + 1 - k = L + 1
    BY <1>1, <1>3
  <2> QED BY <1>2, <2>2, <2>3
<1>4. CASE k # 0
  <2>1. k - 1 \in 0 .. L /\ k - 1 \notin Stuck /\ L + 1 - (k - 1) = (L + 1 - k) + 1 /\ L + 1 - k \in 1 .. L
    BY <1>1, <1>2, <1>4
  <2>2. PICK g : IsNotesFrom(g, f0, (L + 1 - k) + 1)
    BY <2>1
  <2>3. \E h : IsNotesFrom(h, f0, L + 1 - k)
    BY <2>1, <2>2, ExtendNotesFrom
  <2> QED BY <1>2, <2>3
<1> QED BY <1>3, <1>4

\* The notes are those of the recursion.
LEMMA NotesFromRecursion ==
  ASSUME NEW f0 \in Tracks
  PROVE  \E g : IsNotesFrom(g, f0, 1) /\ PitchTrackToNotes(f0) = g[1]
<1> DEFINE R == CHOOSE g : IsNotesFrom(g, f0, 1)
<1>1. IsNotesFrom(R, f0, 1)
  BY NotesFromExist
<1>2. PitchTrackToNotes(f0) = R[1]
  BY DEF PitchTrackToNotes, IsNotesFrom, RunNote
<1> QED BY <1>1, <1>2

\* What NotesAreRuns says of a note by itself, and of its frames if it has a pitch.
GoodNote(f0, note) ==
  LET from == note.on + 1  to == note.off + 1 IN
  /\ note \in [on : Int, off : Int, pitch : Int \cup {NaN}]
  /\ 1 <= from /\ from + min_note <= to /\ to <= Len(f0) + 1
  /\ \A i \in from .. to - 1 : Joined(f0, from, i)
  /\ to <= Len(f0) => ~Joined(f0, from, to)
  /\ note.pitch # NaN =>
       /\ \A i \in from .. to - 1 : f0[i] # NaN
       /\ \E i, j \in from .. to - 1 : f0[i] - 2 <= 4 * note.pitch /\ 4 * note.pitch <= f0[j] + 2

\* The notes from frame m on are good, in order and disjoint.
GoodNotes(f0, notes, m) ==
  /\ notes \in TrackNotes
  /\ \A k \in DOMAIN notes :
       /\ GoodNote(f0, notes[k]) /\ m <= notes[k].on + 1
       /\ k > 1 => notes[k - 1].off <= notes[k].on

\* A run that starts at m and is long enough is the first of them, and a pitch that
\* holds still for long after m is heard.
HeardFrom(f0, notes, m) ==
  /\ \A j \in m .. Len(f0) :
       j - m + 1 >= min_note /\ (\A k \in m .. j : Joined(f0, m, k))
         => notes # <<>> /\ notes[1].on + 1 = m
  /\ \A i, j \in m .. Len(f0) :
       j - i + 1 >= 2 * min_note - 2 /\ j >= i /\ (\A k, l \in i .. j : Joined(f0, k, l))
         => \E k \in DOMAIN notes : notes[k].on + 1 <= j /\ notes[k].off >= i

\* Two lists of the notes of a track, one after the other.
LEMMA ConcatTrackNotes ==
  ASSUME NEW a \in TrackNotes, NEW b \in TrackNotes
  PROVE  /\ a \o b \in TrackNotes /\ Len(a \o b) = Len(a) + Len(b)
         /\ \A k \in 1 .. Len(a) + Len(b) : (a \o b)[k] = IF k <= Len(a) THEN a[k] ELSE b[k - Len(a)]
<1> DEFINE S == [on : Int, off : Int, pitch : Int \cup {NaN}]
<1>1. a \in Seq(S) /\ b \in Seq(S)
  BY DEF TrackNotes
<1> HIDE DEF S
<1>2. /\ a \o b \in Seq(S) /\ Len(a \o b) = Len(a) + Len(b)
      /\ \A k \in 1 .. Len(a) + Len(b) : (a \o b)[k] = IF k <= Len(a) THEN a[k] ELSE b[k - Len(a)]
  BY <1>1, ConcatProperties
<1> QED BY <1>2 DEF TrackNotes, S

\* The note of a run that is long enough.
LEMMA RunNoteGood ==
  ASSUME NEW f0 \in Tracks, NEW m \in 1 .. Len(f0), f0[m] # Unvoiced,
         run_end(f0, m) - m >= min_note
  PROVE  /\ RunNote(f0, m) \in TrackNotes /\ Len(RunNote(f0, m)) = 1
         /\ GoodNote(f0, RunNote(f0, m)[1])
         /\ RunNote(f0, m)[1].on = m - 1 /\ RunNote(f0, m)[1].off = run_end(f0, m) - 1
<1> DEFINE e == run_end(f0, m)
           frames == SubSeq(f0, m, e - 1)
           note == [on |-> m - 1, off |-> e - 1, pitch |-> MedianPitch(frames)]
<1>1. Len(f0) \in Nat /\ min_note \in Nat \ {0}
  BY TrackAssumption DEF Tracks
<1>2. e \in m + 1 .. Len(f0) + 1 /\ (\A j \in m .. e - 1 : Joined(f0, m, j))
      /\ (e <= Len(f0) => ~Joined(f0, m, e))
  BY RunEndFacts
<1> HIDE DEF e
<1>3. \A j \in m .. e - 1 : f0[j] \in Int \cup {NaN}
  <2> TAKE j \in m .. e - 1
  <2>1. j \in 1 .. Len(f0) /\ f0[j] # Unvoiced
    BY <1>1, <1>2 DEF Joined
  <2> QED BY <2>1 DEF Tracks
<1>4. /\ frames \in Seq(Int \cup {NaN}) /\ Len(frames) = e - m
      /\ \A k \in 1 .. e - m : frames[k] = f0[m + k - 1]
  <2>1. m \in Int /\ e - 1 \in Int /\ m <= e - 1 /\ (e - 1) - m + 1 = e - m
    BY <1>1, <1>2
  <2> QED BY <1>3, <2>1, SubSeqProperties
<1>5. e - m \in Nat \ {0} /\ frames \in [1 .. e - m -> Int \cup {NaN}]
  <2>1. e - m \in Nat \ {0}
    BY <1>1, <1>2
  <2>2. frames \in [1 .. Len(frames) -> Int \cup {NaN}]
    <3> HIDE DEF frames
    <3> QED BY <1>4, LenProperties
  <2>3. Len(frames) = e - m
    BY <1>4
  <2> HIDE DEF frames
  <2> QED BY <2>1, <2>2, <2>3
<1> HIDE DEF frames
<1>6. \/ MedianPitch(frames) = NaN
      \/ /\ MedianPitch(frames) \in Int /\ \A k \in 1 .. e - m : frames[k] # NaN
         /\ \E i, j \in 1 .. e - m :
              frames[i] - 2 <= 4 * MedianPitch(frames) /\ 4 * MedianPitch(frames) <= frames[j] + 2
  <2>1. CASE NaN \in ToSet(frames)
    BY <2>1 DEF MedianPitch
  <2>2. CASE NaN \notin ToSet(frames)
    <3>1. \A k \in 1 .. e - m : frames[k] # NaN
      BY <1>4, <2>2 DEF ToSet
    <3>2. frames \in [1 .. e - m -> Int]
      BY <1>5, <3>1
    <3> QED BY <1>5, <3>1, <3>2, MedianFacts
  <2> QED BY <2>1, <2>2
<1>7. MedianPitch(frames) # NaN =>
        /\ \A k \in m .. e - 1 : f0[k] # NaN
        /\ \E i, j \in m .. e - 1 :
             f0[i] - 2 <= 4 * MedianPitch(frames) /\ 4 * MedianPitch(frames) <= f0[j] + 2
  <2> HAVE MedianPitch(frames) # NaN
  <2>1. PICK i \in 1 .. e - m, j \in 1 .. e - m :
          frames[i] - 2 <= 4 * MedianPitch(frames) /\ 4 * MedianPitch(frames) <= frames[j] + 2
    BY <1>6
  <2>4. ASSUME NEW k \in m .. e - 1 PROVE f0[k] # NaN
    <3>1. k - m + 1 \in 1 .. e - m /\ m + (k - m + 1) - 1 = k
      BY <1>1, <1>2
    <3>2. frames[k - m + 1] # NaN /\ frames[k - m + 1] = f0[m + (k - m + 1) - 1]
      BY <1>4, <1>6, <3>1
    <3> QED BY <3>1, <3>2
  <2>2. m + i - 1 \in m .. e - 1 /\ m + j - 1 \in m .. e - 1
    BY <1>1, <1>2
  <2>3. frames[i] = f0[m + i - 1] /\ frames[j] = f0[m + j - 1]
    BY <1>4
  <2> QED BY <2>1, <2>2, <2>3, <2>4
<1>8. RunNote(f0, m) = <<note>>
  BY <1>1, <1>2 DEF RunNote, e, frames
<1>9. note \in [on : Int, off : Int, pitch : Int \cup {NaN}] /\ note.on = m - 1 /\ note.off = e - 1
      /\ note.pitch = MedianPitch(frames)
  BY <1>1, <1>2, <1>6
<1> HIDE DEF note
<1>10. note.on + 1 = m /\ note.off + 1 = e /\ m + min_note <= e
  BY <1>1, <1>2, <1>9 DEF e
<1>11. GoodNote(f0, note)
  BY <1>1, <1>2, <1>7, <1>9, <1>10 DEF GoodNote
<1> QED BY <1>8, <1>9, <1>11 DEF e, TrackNotes

\* A frame without a pitch starts no note.
LEMMA UnvoicedStep ==
  ASSUME NEW f0 \in Tracks, NEW m \in 1 .. Len(f0), f0[m] = Unvoiced,
         NEW notes, GoodNotes(f0, notes, m + 1), HeardFrom(f0, notes, m + 1)
  PROVE  GoodNotes(f0, notes, m) /\ HeardFrom(f0, notes, m)
<1>1. Len(f0) \in Nat /\ min_note \in Nat \ {0}
  BY TrackAssumption DEF Tracks
<1>2. GoodNotes(f0, notes, m)
  <2>1. \A k \in DOMAIN notes : notes[k].on \in Int
    BY DEF GoodNotes, GoodNote
  <2> QED BY <1>1, <2>1 DEF GoodNotes
<1>3. \A k \in 1 .. Len(f0) : ~Joined(f0, m, k)
  BY DEF Joined
<1>4. ASSUME NEW i \in m .. Len(f0), NEW j \in m .. Len(f0), j >= i,
             \A k, l \in i .. j : Joined(f0, k, l)
      PROVE  i \in m + 1 .. Len(f0) /\ j \in m + 1 .. Len(f0)
  <2>1. Joined(f0, i, i)
    BY <1>1, <1>4
  <2>2. i # m
    BY <2>1, <1>3
  <2> QED BY <1>1, <1>4, <2>2
<1>5. \A j \in m .. Len(f0) : ~\A k \in m .. j : Joined(f0, m, k)
  BY <1>1, <1>3
<1> QED BY <1>2, <1>4, <1>5 DEF HeardFrom

\* A run before the rest keeps the notes good ...
LEMMA RunStepGood ==
  ASSUME NEW f0 \in Tracks, NEW m \in 1 .. Len(f0), f0[m] # Unvoiced,
         NEW notes, GoodNotes(f0, notes, run_end(f0, m))
  PROVE  GoodNotes(f0, RunNote(f0, m) \o notes, m)
<1> DEFINE e == run_end(f0, m)
           all == RunNote(f0, m) \o notes
<1>1. Len(f0) \in Nat /\ min_note \in Nat \ {0} /\ e \in m + 1 .. Len(f0) + 1
  BY TrackAssumption, RunEndFacts DEF Tracks
<1>2. notes \in TrackNotes /\ DOMAIN notes = 1 .. Len(notes) /\ Len(notes) \in Nat
      /\ \A k \in DOMAIN notes : /\ GoodNote(f0, notes[k]) /\ e <= notes[k].on + 1
                                 /\ notes[k].on \in Int
                                 /\ k > 1 => notes[k - 1].off <= notes[k].on
  <2>1. /\ notes \in TrackNotes
        /\ \A k \in DOMAIN notes : /\ GoodNote(f0, notes[k]) /\ e <= notes[k].on + 1
                                   /\ k > 1 => notes[k - 1].off <= notes[k].on
    BY DEF GoodNotes
  <2>2. \A k \in DOMAIN notes : notes[k].on \in Int
    BY <2>1 DEF GoodNote
  <2> QED BY <2>1, <2>2 DEF TrackNotes
<1>3. CASE e - m < min_note
  <2>1. RunNote(f0, m) = <<>>
    BY <1>3 DEF RunNote
  <2>2. all = notes
    BY <1>2, <2>1, ConcatEmptySeq DEF TrackNotes
  <2> HIDE DEF all, e
  <2>3. GoodNotes(f0, notes, m)
    BY <1>1, <1>2 DEF GoodNotes
  <2> QED BY <2>2, <2>3 DEF all
<1>4. CASE e - m >= min_note
  <2> DEFINE r == RunNote(f0, m)
  <2>1. /\ r \in TrackNotes /\ Len(r) = 1 /\ GoodNote(f0, r[1])
        /\ r[1].on = m - 1 /\ r[1].off = e - 1
    BY <1>4, RunNoteGood
  <2> HIDE DEF r, e
  <2>2. /\ r \o notes \in TrackNotes /\ Len(r \o notes) = 1 + Len(notes)
        /\ \A k \in 1 .. 1 + Len(notes) : (r \o notes)[k] = IF k <= 1 THEN r[k] ELSE notes[k - 1]
    <3>1. /\ r \o notes \in TrackNotes /\ Len(r \o notes) = Len(r) + Len(notes)
          /\ \A k \in 1 .. Len(r) + Len(notes) :
               (r \o notes)[k] = IF k <= Len(r) THEN r[k] ELSE notes[k - Len(r)]
      BY <1>2, <2>1, ConcatTrackNotes
    <3> QED BY <2>1, <3>1
  <2>3. all = r \o notes
    BY DEF r
  <2> HIDE DEF all
  <2>4. DOMAIN all = 1 .. 1 + Len(notes)
    BY <2>2, <2>3 DEF TrackNotes
  <2>5. ASSUME NEW k \in DOMAIN all
        PROVE  GoodNote(f0, all[k]) /\ m <= all[k].on + 1 /\ (k > 1 => all[k - 1].off <= all[k].on)
    <3>1. CASE k = 1
      <4>1. all[k] = r[1]
        BY <2>2, <2>3, <2>4, <3>1
      <4> QED BY <2>1, <3>1, <4>1
    <3>2. CASE k # 1
      <4>1. k - 1 \in DOMAIN notes /\ all[k] = notes[k - 1]
        BY <1>2, <2>2, <2>3, <2>4, <3>2
      <4>2. k - 1 > 1 => all[k - 1] = notes[(k - 1) - 1]
        BY <1>2, <2>2, <2>3, <2>4, <4>1
      <4>3. k - 1 = 1 => all[k - 1] = r[1]
        BY <1>2, <2>2, <2>3, <2>4
      <4>4. GoodNote(f0, all[k]) /\ e <= all[k].on + 1 /\ all[k].on \in Int
        BY <1>2, <4>1
      <4>5. all[k - 1].off <= all[k].on
        <5>1. CASE k - 1 > 1
          BY <1>2, <4>1, <4>2, <5>1
        <5>2. CASE k - 1 = 1
          BY <1>1, <2>1, <4>3, <4>4, <5>2
        <5>3. k - 1 > 1 \/ k - 1 = 1
          BY <1>2, <2>4, <3>2
        <5> QED BY <5>1, <5>2, <5>3
      <4> QED BY <1>1, <4>4, <4>5
    <3> QED BY <3>1, <3>2
  <2> QED BY <2>2, <2>3, <2>5 DEF GoodNotes, all
<1> QED BY <1>1, <1>3, <1>4

\* ... and still loses nothing that holds for long.
LEMMA RunStepHeard ==
  ASSUME NEW f0 \in Tracks, NEW m \in 1 .. Len(f0), f0[m] # Unvoiced,
         NEW notes, GoodNotes(f0, notes, run_end(f0, m)), HeardFrom(f0, notes, run_end(f0, m))
  PROVE  HeardFrom(f0, RunNote(f0, m) \o notes, m)
<1> DEFINE e == run_end(f0, m)
           all == RunNote(f0, m) \o notes
<1>1. Len(f0) \in Nat /\ min_note \in Nat \ {0} /\ e \in m + 1 .. Len(f0) + 1
      /\ (e <= Len(f0) => ~Joined(f0, m, e))
  BY TrackAssumption, RunEndFacts DEF Tracks
<1>2. /\ notes \in TrackNotes /\ DOMAIN notes = 1 .. Len(notes) /\ Len(notes) \in Nat
      /\ \A k \in DOMAIN notes : GoodNote(f0, notes[k])
  BY DEF GoodNotes, TrackNotes
<1>3. ASSUME NEW j \in m .. Len(f0), \A k \in m .. j : Joined(f0, m, k) PROVE j < e
  BY <1>1, <1>3
<1>4. CASE e - m < min_note
  <2>1. RunNote(f0, m) = <<>>
    BY <1>4 DEF RunNote
  <2>2. all = notes
    BY <1>2, <2>1, ConcatEmptySeq DEF TrackNotes
  <2> HIDE DEF all, e
  <2>3. ASSUME NEW j \in m .. Len(f0), j - m + 1 >= min_note, \A k \in m .. j : Joined(f0, m, k)
        PROVE  FALSE
    BY <1>1, <1>3, <1>4, <2>3
  <2>4. ASSUME NEW i \in m .. Len(f0), NEW j \in m .. Len(f0), j - i + 1 >= 2 * min_note - 2, j >= i,
               \A k, l \in i .. j : Joined(f0, k, l)
        PROVE  \E k \in DOMAIN notes : notes[k].on + 1 <= j /\ notes[k].off >= i
    <3>1. CASE e <= i
      <4>1. i \in e .. Len(f0) /\ j \in e .. Len(f0)
        BY <1>1, <2>4, <3>1
      <4> QED BY <2>4, <4>1 DEF HeardFrom, e
    <3>2. CASE i < e
      <4>1. i # m
        <5> SUFFICES ASSUME i = m PROVE FALSE
          OBVIOUS
        <5>1. \A k \in m .. j : Joined(f0, m, k)
          BY <1>1, <2>4
        <5>2. j < e
          BY <1>3, <5>1
        <5> QED BY <1>1, <1>4, <2>4, <5>2
      <4>2. e <= j /\ j - e + 1 >= min_note /\ e \in i .. j /\ j \in e .. Len(f0)
        BY <1>1, <1>4, <2>4, <3>2, <4>1
      <4>3. \A k \in e .. j : Joined(f0, e, k)
        BY <1>1, <2>4, <4>2
      <4>4. notes # <<>> /\ notes[1].on + 1 = e
        BY <4>2, <4>3 DEF HeardFrom, e
      <4>5. 1 \in DOMAIN notes
        BY <1>2, <4>4 DEF TrackNotes
      <4>6. notes[1].on + 1 + min_note <= notes[1].off + 1 /\ notes[1].off \in Int
        BY <1>2, <4>5 DEF GoodNote
      <4> QED BY <1>1, <2>4, <3>2, <4>2, <4>4, <4>5, <4>6
    <3> QED BY <1>1, <3>1, <3>2
  <2>5. HeardFrom(f0, notes, m)
    BY <2>3, <2>4 DEF HeardFrom
  <2> QED BY <2>2, <2>5 DEF all
<1>5. CASE e - m >= min_note
  <2> DEFINE r == RunNote(f0, m)
  <2>1. /\ r \in TrackNotes /\ Len(r) = 1 /\ GoodNote(f0, r[1])
        /\ r[1].on = m - 1 /\ r[1].off = e - 1
    BY <1>5, RunNoteGood
  <2> HIDE DEF r, e
  <2>2. /\ r \o notes \in TrackNotes /\ Len(r \o notes) = 1 + Len(notes)
        /\ \A k \in 1 .. 1 + Len(notes) : (r \o notes)[k] = IF k <= 1 THEN r[k] ELSE notes[k - 1]
    <3>1. /\ r \o notes \in TrackNotes /\ Len(r \o notes) = Len(r) + Len(notes)
          /\ \A k \in 1 .. Len(r) + Len(notes) :
               (r \o notes)[k] = IF k <= Len(r) THEN r[k] ELSE notes[k - Len(r)]
      BY <1>2, <2>1, ConcatTrackNotes
    <3> QED BY <2>1, <3>1
  <2>3. all = r \o notes
    BY DEF r
  <2> HIDE DEF all
  <2>4. DOMAIN all = 1 .. 1 + Len(notes)
    BY <2>2, <2>3 DEF TrackNotes
  <2>5. all # <<>> /\ 1 \in DOMAIN all /\ all[1].on = m - 1 /\ all[1].off = e - 1
    <3>1. Len(all) # 0 /\ 1 \in 1 .. 1 + Len(notes)
      BY <1>2, <2>2, <2>3
    <3> QED BY <2>1, <2>2, <2>3, <2>4, <3>1
  <2>6. ASSUME NEW i \in m .. Len(f0), NEW j \in m .. Len(f0), j - i + 1 >= 2 * min_note - 2, j >= i,
               \A k, l \in i .. j : Joined(f0, k, l)
        PROVE  \E k \in DOMAIN all : all[k].on + 1 <= j /\ all[k].off >= i
    <3>1. CASE e <= i
      <4>1. i \in e .. Len(f0) /\ j \in e .. Len(f0)
        BY <1>1, <2>6, <3>1
      <4>2. PICK k \in DOMAIN notes : notes[k].on + 1 <= j /\ notes[k].off >= i
        BY <2>6, <4>1 DEF HeardFrom, e
      <4>3. k + 1 \in DOMAIN all /\ all[k + 1] = notes[k]
        BY <1>2, <2>2, <2>3, <2>4
      <4> QED BY <4>2, <4>3
    <3>2. CASE i < e
      BY <1>1, <2>5, <3>2
    <3> QED BY <1>1, <3>1, <3>2
  <2>7. HeardFrom(f0, all, m)
    BY <2>5, <2>6 DEF HeardFrom
  <2> QED BY <2>7 DEF all
<1> QED BY <1>1, <1>4, <1>5

\* All of it holds from every frame on, by induction from the last.
LEMMA TrackNotesFacts ==
  ASSUME NEW f0 \in Tracks
  PROVE  GoodNotes(f0, PitchTrackToNotes(f0), 1) /\ HeardFrom(f0, PitchTrackToNotes(f0), 1)
<1> DEFINE L == Len(f0)
<1>1. L \in Nat
  BY DEF Tracks
<1>2. PICK g : IsNotesFrom(g, f0, 1) /\ PitchTrackToNotes(f0) = g[1]
  BY NotesFromRecursion
<1> DEFINE Fine(m) == GoodNotes(f0, g[m], m) /\ HeardFrom(f0, g[m], m)
           Wrong == {k \in 0 .. L : ~Fine(L + 1 - k)}
<1> SUFFICES ASSUME Wrong # {} PROVE FALSE
  <2>1. L \in 0 .. L /\ L + 1 - L = 1
    BY <1>1
  <2> QED BY <1>2, <2>1
<1>3. PICK k \in Wrong : \A x \in Wrong : k <= x
  <2>1. Wrong \in SUBSET Nat
    BY <1>1
  <2> HIDE DEF Wrong
  <2> QED BY <2>1, LeastNumber
<1> DEFINE m == L + 1 - k
<1>4. m \in 1 .. L + 1 /\ ~Fine(m)
  BY <1>1, <1>3
<1>5. g[m] = IF m > L THEN <<>>
             ELSE IF f0[m] = Unvoiced THEN g[m + 1]
             ELSE RunNote(f0, m) \o g[run_end(f0, m)]
  BY <1>2, <1>4 DEF IsNotesFrom
<1>6. \A x \in m + 1 .. L + 1 : Fine(x)
  <2> TAKE x \in m + 1 .. L + 1
  <2>1. L + 1 - x \in 0 .. L /\ L + 1 - x < k /\ L + 1 - (L + 1 - x) = x /\ k \in Nat
    BY <1>1, <1>3
  <2>2. L + 1 - x \notin Wrong
    BY <1>3, <2>1
  <2> QED BY <2>1, <2>2
<1> HIDE DEF m
<1>7. CASE m = L + 1
  <2>1. g[m] = <<>>
    BY <1>1, <1>5, <1>7
  <2>2. GoodNotes(f0, <<>>, m) /\ HeardFrom(f0, <<>>, m)
    BY <1>1, <1>7 DEF GoodNotes, HeardFrom, TrackNotes
  <2> QED BY <1>4, <2>1, <2>2
<1>8. CASE m # L + 1
  <2>1. m \in 1 .. Len(f0)
    BY <1>1, <1>4, <1>8
  <2>2. CASE f0[m] = Unvoiced
    <3>1. g[m] = g[m + 1] /\ m + 1 \in m + 1 .. L + 1
      BY <1>1, <1>5, <2>1, <2>2
    <3>2. Fine(m + 1)
      BY <1>6, <3>1
    <3>3. Fine(m)
      BY <2>1, <2>2, <3>1, <3>2, UnvoicedStep
    <3> QED BY <1>4, <3>3
  <2>3. CASE f0[m] # Unvoiced
    <3>1. g[m] = RunNote(f0, m) \o g[run_end(f0, m)] /\ run_end(f0, m) \in m + 1 .. L + 1
      BY <1>1, <1>5, <2>1, <2>3, RunEndFacts
    <3>2. Fine(run_end(f0, m))
      BY <1>6, <3>1
    <3>3. Fine(m)
      BY <2>1, <2>3, <3>1, <3>2, RunStepGood, RunStepHeard
    <3> QED BY <1>4, <3>3
  <2> QED BY <2>2, <2>3
<1> QED BY <1>7, <1>8

-----------------------------------------------------------------------------
\* Where a run of the harness can be, and what it holds there.
InCall == phase \in {"key", "read", "detect", "score"}

HarnessTypes ==
  /\ setting \in Settings
  /\ files \in [DOMAIN setting.takes -> [mtime : Nat, take : Takes]]
  /\ at \in Nat \ {0}
  /\ held \subseteq Takes

\* The pair's file holds a take that it has held since the call.
PresentIsHeld == InCall => at <= Len(setting.corpus) /\ files[Audio].take \in held

\* A cache entry is of an mtime the file had, and of its present content if it has it still.
CacheIsOfItsTime ==
  /\ DOMAIN cache \subseteq (DOMAIN files) \X Nat
  /\ \A k \in DOMAIN cache :
       /\ k[2] <= files[k[1]].mtime
       /\ k[2] = files[k[1]].mtime => cache[k] = files[k[1]].take.notes

\* The key that a miss was looked up with is of the pair's file, and what was read after
\* it is what the file holds, unless its mtime has moved on.
KeyIsOfItsTime ==
  /\ phase = "key" => Wrapper = "engine-yin"
  /\ Wrapper = "engine-yin" /\ phase \in {"read", "detect"} =>
    /\ key \in (DOMAIN files) \X Nat /\ key[1] = Audio /\ key[2] <= files[Audio].mtime
    /\ phase = "detect" /\ key[2] = files[Audio].mtime => heard = files[Audio].take

HeardWasHeld == phase = "detect" => heard \in held

\* The estimate of a pitch track is that of the take that was heard, and round() has
\* raised on none of its pitches.
TrackIsOfHeard ==
  phase = "score" /\ Wrapper = "pyin-baseline" =>
    /\ heard \in held
    /\ est = PitchTrackToNotes(IF setting.ready THEN heard.pyin ELSE YinTrack(heard.yin))
    /\ \A k \in DOMAIN est : est[k].pitch # NaN

CurrentInv ==
  /\ HarnessTypes /\ PresentIsHeld /\ CacheIsOfItsTime /\ KeyIsOfItsTime
  /\ HeardWasHeld /\ TrackIsOfHeard /\ EstimateIsCurrent

\* The audio of the pair that is being evaluated is one of the files.
LEMMA AudioIsAFile ==
  ASSUME setting \in Settings, at \in Nat \ {0}, at <= Len(setting.corpus)
  PROVE  /\ setting.corpus[at] \in [audio : DOMAIN setting.takes, midi : Seq(Notes)]
         /\ Audio \in DOMAIN setting.takes
<1>1. setting.corpus \in Seq([audio : DOMAIN setting.takes, midi : Seq(Notes)])
  BY EvaluationAssumption
<1> DEFINE corpus == setting.corpus
           Pairs == [audio : DOMAIN setting.takes, midi : Seq(Notes)]
<1>2. corpus[at] \in Pairs
  <2>1. corpus \in Seq(Pairs) /\ at \in 1 .. Len(corpus)
    <3>1. Len(corpus) \in Nat
      BY <1>1
    <3> QED BY <1>1, <3>1
  <2> HIDE DEF corpus, Pairs
  <2> QED BY <2>1
<1>3. corpus[at].audio \in DOMAIN setting.takes
  <2> HIDE DEF corpus
  <2> QED BY <1>2
<1> QED BY <1>2, <1>3 DEF Audio

\* A run starts with no call and an empty cache.
LEMMA CurrentInit == EvaluationInit => CurrentInv
<1> SUFFICES ASSUME EvaluationInit PROVE CurrentInv
  OBVIOUS
<1> USE DEF EvaluationInit
<1>1. setting.takes \in [DOMAIN setting.takes -> Takes]
  BY EvaluationAssumption
<1>2. HarnessTypes
  BY <1>1 DEF HarnessTypes
<1>3. PresentIsHeld /\ KeyIsOfItsTime /\ HeardWasHeld /\ TrackIsOfHeard /\ EstimateIsCurrent
  BY DEF PresentIsHeld, InCall, KeyIsOfItsTime, HeardWasHeld, TrackIsOfHeard, EstimateIsCurrent
<1>4. CacheIsOfItsTime
  BY DEF CacheIsOfItsTime
<1> QED BY <1>2, <1>3, <1>4 DEF CurrentInv

\* Each step of a call, and each rewriting of a file, keeps the cache of its time.
LEMMA CurrentStep == CurrentInv /\ [EvaluationNext]_evaluationVars => CurrentInv'
<1> SUFFICES ASSUME CurrentInv, [EvaluationNext]_evaluationVars PROVE CurrentInv'
  OBVIOUS
<1>a. HarnessTypes /\ PresentIsHeld /\ CacheIsOfItsTime /\ KeyIsOfItsTime
        /\ HeardWasHeld /\ TrackIsOfHeard /\ EstimateIsCurrent
  BY DEF CurrentInv
<1>1. CASE Construct
  <2>1. HarnessTypes' /\ CacheIsOfItsTime'
    BY <1>1, <1>a DEF Construct, HarnessTypes, CacheIsOfItsTime
  <2>2. phase' \in {"raised", "call"}
    BY <1>1 DEF Construct
  <2> QED BY <2>1, <2>2 DEF CurrentInv, PresentIsHeld, InCall, KeyIsOfItsTime, HeardWasHeld,
                            TrackIsOfHeard, EstimateIsCurrent
<1>2. CASE Call
  <2>1. HarnessTypes' /\ CacheIsOfItsTime'
    <3>1. files[Audio].take \in Takes
      BY <1>2, <1>a, AudioIsAFile DEF Call, HarnessTypes
    <3> QED BY <1>2, <1>a, <3>1 DEF Call, HarnessTypes, CacheIsOfItsTime
  <2>2. PresentIsHeld'
    BY <1>2 DEF Call, PresentIsHeld, Audio
  <2>3. Wrapper \in Wrappers
    BY <1>a, EvaluationAssumption DEF HarnessTypes, Wrapper
  <2>4. \/ Wrapper = "ground-truth" /\ phase' = "score"
        \/ Wrapper = "engine-yin" /\ phase' = "key"
        \/ phase' = "raised"
        \/ Wrapper # "engine-yin" /\ phase' = "read"
    BY <1>2 DEF Call
  <2>5. Wrapper' = Wrapper
    BY <1>2 DEF Call, Wrapper
  <2>6. EstimateIsCurrent' /\ TrackIsOfHeard' /\ HeardWasHeld' /\ KeyIsOfItsTime'
    BY <2>4, <2>5 DEF EstimateIsCurrent, TrackIsOfHeard, HeardWasHeld, KeyIsOfItsTime
  <2> QED BY <2>1, <2>2, <2>6 DEF CurrentInv
<1>3. CASE Lookup
  <2>1. HarnessTypes' /\ CacheIsOfItsTime' /\ PresentIsHeld'
    BY <1>3, <1>a DEF Lookup, HarnessTypes, CacheIsOfItsTime, PresentIsHeld, InCall, Audio
  <2>2. Audio \in DOMAIN files /\ files[Audio].mtime \in Nat /\ files[Audio].take \in held
    BY <1>3, <1>a, AudioIsAFile DEF Lookup, HarnessTypes, PresentIsHeld, InCall
  <2>3. /\ key' = <<Audio, files[Audio].mtime>> /\ Audio' = Audio /\ Wrapper' = Wrapper
        /\ files' = files /\ held' = held /\ phase' \in {"read", "score"}
        /\ phase' = "score" => key' \in DOMAIN cache /\ est' = cache[key']
    BY <1>3 DEF Lookup, _cache_key, Wrapper, Audio
  <2>4. Wrapper = "engine-yin"
    BY <1>3, <1>a DEF Lookup, KeyIsOfItsTime
  <2>5. KeyIsOfItsTime'
    BY <2>2, <2>3, <2>4 DEF KeyIsOfItsTime
  <2>6. phase' = "score" => est' = files[Audio].take.notes
    BY <1>a, <2>3 DEF CacheIsOfItsTime
  <2>7. EstimateIsCurrent' /\ TrackIsOfHeard' /\ HeardWasHeld'
    BY <2>2, <2>3, <2>4, <2>6 DEF EstimateIsCurrent, TrackIsOfHeard, HeardWasHeld
  <2> QED BY <2>1, <2>5, <2>7 DEF CurrentInv
<1>4. CASE ReadAudio
  <2>1. HarnessTypes' /\ CacheIsOfItsTime' /\ PresentIsHeld'
    BY <1>4, <1>a DEF ReadAudio, HarnessTypes, CacheIsOfItsTime, PresentIsHeld, InCall, Audio
  <2>2. files[Audio].take \in held
    BY <1>4, <1>a DEF ReadAudio, PresentIsHeld, InCall
  <2>3. /\ heard' = files[Audio].take /\ Audio' = Audio /\ Wrapper' = Wrapper
        /\ files' = files /\ held' = held /\ key' = key /\ phase' = "detect"
    BY <1>4 DEF ReadAudio, Wrapper, Audio
  <2>4. KeyIsOfItsTime'
    BY <1>4, <1>a, <2>3 DEF KeyIsOfItsTime, ReadAudio
  <2>5. EstimateIsCurrent' /\ TrackIsOfHeard' /\ HeardWasHeld'
    BY <2>2, <2>3 DEF EstimateIsCurrent, TrackIsOfHeard, HeardWasHeld
  <2> QED BY <2>1, <2>4, <2>5 DEF CurrentInv
<1>5. CASE RunYinCli
  <2>1. HarnessTypes' /\ PresentIsHeld'
    BY <1>5, <1>a DEF RunYinCli, HarnessTypes, PresentIsHeld, InCall, Audio
  <2>2. /\ Audio' = Audio /\ Wrapper' = Wrapper /\ Wrapper = "engine-yin"
        /\ files' = files /\ held' = held /\ phase' \in {"score", "raised"}
        /\ phase' = "score" => est' = heard.notes
        /\ \/ cache' = cache
           \/ cache' = [k \in DOMAIN cache \cup {key} |-> IF k = key THEN heard.notes ELSE cache[k]]
    BY <1>5 DEF RunYinCli, Wrapper, Audio
  <2>3. heard \in held
    BY <1>5, <1>a DEF RunYinCli, HeardWasHeld
  <2>4. /\ key \in (DOMAIN files) \X Nat /\ key[1] = Audio /\ key[2] <= files[Audio].mtime
        /\ key[2] = files[Audio].mtime => heard = files[Audio].take
    BY <1>5, <1>a, <2>2 DEF RunYinCli, KeyIsOfItsTime
  <2>5. CacheIsOfItsTime'
    BY <1>a, <2>2, <2>4 DEF CacheIsOfItsTime
  <2>6. KeyIsOfItsTime' /\ EstimateIsCurrent' /\ TrackIsOfHeard' /\ HeardWasHeld'
    BY <2>2, <2>3 DEF EstimateIsCurrent, TrackIsOfHeard, HeardWasHeld, KeyIsOfItsTime
  <2> QED BY <2>1, <2>5, <2>6 DEF CurrentInv
<1>6. CASE TrackPitch
  <2>1. HarnessTypes' /\ PresentIsHeld' /\ CacheIsOfItsTime'
    BY <1>6, <1>a DEF TrackPitch, HarnessTypes, PresentIsHeld, InCall, Audio, CacheIsOfItsTime
  <2>2. /\ Wrapper' = Wrapper /\ Wrapper = "pyin-baseline" /\ setting' = setting
        /\ held' = held /\ heard' = heard /\ phase' \in {"score", "raised"}
        /\ phase' = "score" =>
             /\ est' = PitchTrackToNotes(IF setting.ready THEN heard.pyin ELSE YinTrack(heard.yin))
             /\ ~RoundRaises(IF setting.ready THEN heard.pyin ELSE YinTrack(heard.yin))
    BY <1>6 DEF TrackPitch, Wrapper
  <2>5. phase' = "score" => \A k \in DOMAIN est' : est'[k].pitch # NaN
    BY <2>2 DEF RoundRaises
  <2>3. heard \in held
    BY <1>6, <1>a DEF TrackPitch, HeardWasHeld
  <2>4. KeyIsOfItsTime' /\ EstimateIsCurrent' /\ TrackIsOfHeard' /\ HeardWasHeld'
    BY <2>2, <2>3, <2>5 DEF EstimateIsCurrent, TrackIsOfHeard, HeardWasHeld, KeyIsOfItsTime
  <2> QED BY <2>1, <2>4 DEF CurrentInv
<1>7. CASE PredictBasicPitch
  <2>1. HarnessTypes' /\ PresentIsHeld' /\ CacheIsOfItsTime'
    BY <1>7, <1>a DEF PredictBasicPitch, HarnessTypes, PresentIsHeld, InCall, Audio, CacheIsOfItsTime
  <2>2. /\ Wrapper' = Wrapper /\ Wrapper = "basic-pitch"
        /\ held' = held /\ phase' = "score" /\ est' = heard.notes
    BY <1>7 DEF PredictBasicPitch, Wrapper
  <2>3. heard \in held
    BY <1>7, <1>a DEF PredictBasicPitch, HeardWasHeld
  <2>4. KeyIsOfItsTime' /\ EstimateIsCurrent' /\ TrackIsOfHeard' /\ HeardWasHeld'
    BY <2>2, <2>3 DEF EstimateIsCurrent, TrackIsOfHeard, HeardWasHeld, KeyIsOfItsTime
  <2> QED BY <2>1, <2>4 DEF CurrentInv
<1>8. CASE Score
  <2>1. HarnessTypes' /\ CacheIsOfItsTime'
    BY <1>8, <1>a DEF Score, HarnessTypes, CacheIsOfItsTime
  <2>2. phase' \in {"raised", "call"}
    BY <1>8 DEF Score
  <2> QED BY <2>1, <2>2 DEF CurrentInv, PresentIsHeld, InCall, KeyIsOfItsTime, HeardWasHeld,
                            TrackIsOfHeard, EstimateIsCurrent
<1>9. CASE Finish
  <2>1. HarnessTypes' /\ CacheIsOfItsTime'
    BY <1>9, <1>a DEF Finish, HarnessTypes, CacheIsOfItsTime
  <2>2. phase' = "done"
    BY <1>9 DEF Finish
  <2> QED BY <2>1, <2>2 DEF CurrentInv, PresentIsHeld, InCall, KeyIsOfItsTime, HeardWasHeld,
                            TrackIsOfHeard, EstimateIsCurrent
<1>10. CASE Rewrite
  <2>1. PICK a \in DOMAIN files, take \in Retakes :
          /\ files' = [files EXCEPT ![a] = [mtime |-> @.mtime + 1, take |-> take]]
          /\ held' = IF at <= Len(setting.corpus) /\ a = Audio THEN held \cup {take} ELSE held
    BY <1>10 DEF Rewrite
  <2>2. /\ setting' = setting /\ cache' = cache /\ phase' = phase /\ at' = at /\ key' = key
        /\ heard' = heard /\ ref' = ref /\ est' = est /\ Audio' = Audio /\ Wrapper' = Wrapper
    BY <1>10 DEF Rewrite, Audio, Wrapper
  <2>3. take \in Takes
    BY EvaluationAssumption
  <2>4. /\ DOMAIN files' = DOMAIN files
        /\ files'[a] = [mtime |-> files[a].mtime + 1, take |-> take]
        /\ \A f \in DOMAIN files : f # a => files'[f] = files[f]
        /\ \A f \in DOMAIN files : files[f].mtime \in Nat
    BY <1>a, <2>1 DEF HarnessTypes
  <2>5. HarnessTypes'
    BY <1>a, <2>1, <2>2, <2>3 DEF HarnessTypes
  <2>6. held \subseteq held'
    BY <2>1
  <2>7. PresentIsHeld'
    BY <1>a, <2>1, <2>2, <2>4, AudioIsAFile DEF PresentIsHeld, InCall, HarnessTypes
  <2>8. CacheIsOfItsTime'
    BY <1>a, <2>2, <2>4 DEF CacheIsOfItsTime
  <2>9. KeyIsOfItsTime'
    BY <1>a, <2>2, <2>4 DEF KeyIsOfItsTime
  <2>10. EstimateIsCurrent' /\ TrackIsOfHeard' /\ HeardWasHeld'
    BY <1>a, <2>2, <2>6 DEF EstimateIsCurrent, TrackIsOfHeard, HeardWasHeld
  <2> QED BY <2>5, <2>7, <2>8, <2>9, <2>10 DEF CurrentInv
<1>11. CASE UNCHANGED evaluationVars
  BY <1>11, <1>a DEF evaluationVars, CurrentInv, HarnessTypes, PresentIsHeld, InCall, Audio, Wrapper,
    CacheIsOfItsTime, KeyIsOfItsTime, HeardWasHeld, TrackIsOfHeard, EstimateIsCurrent
<1> QED BY <1>1, <1>2, <1>3, <1>4, <1>5, <1>6, <1>7, <1>8, <1>9, <1>10, <1>11 DEF EvaluationNext

\* The inductive invariant of the cache: whatever rewrites the audio during the calls, an
\* entry is of the content its file had at the mtime in its key, and a call that looked an
\* mtime up and read the file after it reads what that mtime stands for, or a later take.
THEOREM CurrentHolds == EvaluationSpec => []CurrentInv
BY CurrentInit, CurrentStep, PTL DEF EvaluationSpec

\* The estimate that is scored is of a take that the pair's file held during the call,
\* cached (_yin_cache) or heard anew, however often and whenever files are rewritten.
THEOREM EstimateAlwaysCurrent == EvaluationSpec => []EstimateIsCurrent
<1>1. CurrentInv => EstimateIsCurrent
  BY DEF CurrentInv
<1> QED BY CurrentHolds, <1>1, PTL

\* The notes of a pitch track, as the loop over its frames finds them, are disjoint runs
\* of frames that are close, and a pitch that holds still for long is among them.
THEOREM NotesAlwaysRuns == EvaluationSpec => []NotesAreRuns
<1>1. CurrentInv => NotesAreRuns
  <2> SUFFICES ASSUME CurrentInv, phase = "score", Wrapper = "pyin-baseline" PROVE NotesAreRuns
    BY DEF NotesAreRuns
  <2> DEFINE f0 == IF setting.ready THEN heard.pyin ELSE YinTrack(heard.yin)
  <2>1. heard \in Takes /\ est = PitchTrackToNotes(f0) /\ \A k \in DOMAIN est : est[k].pitch # NaN
    BY DEF CurrentInv, HarnessTypes, TrackIsOfHeard
  <2>2. f0 \in Tracks
    <3>1. heard.pyin \in Tracks
      BY <2>1 DEF Takes, Tracks
    <3>2. YinTrack(heard.yin) \in Tracks
      <4> DEFINE S == [pitch : Int, curve : Seq(Int)]
                 frames == heard.yin
      <4>1. frames \in Seq(S)
        BY <2>1 DEF Takes
      <4>2. \A frame \in S : frame.pitch \in Int
        OBVIOUS
      <4> HIDE DEF frames, S
      <4>3. Len(frames) \in Nat /\ DOMAIN frames = 1 .. Len(frames) /\ \A i \in DOMAIN frames : frames[i] \in S
        BY <4>1
      <4>4. YinTrack(frames) \in [1 .. Len(frames) -> Int \cup {Unvoiced, NaN}]
        BY <4>2, <4>3 DEF YinTrack
      <4>5. YinTrack(frames) \in Tracks
        BY <4>3, <4>4 DEF Tracks
      <4> QED BY <4>5 DEF frames
    <3> QED BY <3>1, <3>2
  <2> DEFINE Close(i, j) == {f0[i], f0[j]} \subseteq Int /\ Within(f0[i], f0[j], midi_tolerance)
  <2> HIDE DEF f0
  <2>3. GoodNotes(f0, est, 1) /\ HeardFrom(f0, est, 1)
    BY <2>1, <2>2, TrackNotesFacts
  <2>4. DOMAIN f0 = 1 .. Len(f0) /\ Len(f0) \in Nat /\ \A i \in DOMAIN f0 : f0[i] \in Int \cup {Unvoiced, NaN}
    BY <2>2 DEF Tracks
  <2>7. ASSUME NEW i \in DOMAIN f0, NEW j \in DOMAIN f0
        PROVE  /\ Close(i, j) => Joined(f0, i, j)
               /\ Joined(f0, i, j) /\ f0[i] # NaN /\ f0[j] # NaN => Close(i, j)
    BY <2>4, TrackAssumption DEF Joined, Joins, Within
  <2>5. ASSUME NEW k \in DOMAIN est
        PROVE  LET on == est[k].on + 1  off == est[k].off + 1 IN
               /\ off - on >= min_note /\ k > 1 => est[k - 1].off <= est[k].on
               /\ \A i \in on .. off - 1 : Close(on, i)
               /\ off <= Len(f0) => ~Close(on, off)
               /\ \E i, j \in on .. off - 1 : f0[i] - 2 <= 4 * est[k].pitch /\ 4 * est[k].pitch <= f0[j] + 2
    <3>1. GoodNote(f0, est[k]) /\ (k > 1 => est[k - 1].off <= est[k].on)
      BY <2>3 DEF GoodNotes
    <3>2. est[k].on + 1 + min_note <= est[k].off + 1 /\ est[k].on \in Int /\ est[k].off \in Int /\ min_note \in Nat
      BY <3>1, TrackAssumption DEF GoodNote
    <3>3. est[k].off + 1 - (est[k].on + 1) >= min_note
      BY <3>2
    <3>4. est[k].pitch # NaN
      BY <2>1
    <3> DEFINE on == est[k].on + 1
               off == est[k].off + 1
    <3>5. /\ on \in Int /\ off \in Int /\ 1 <= on /\ on < off /\ off <= Len(f0) + 1
          /\ \A i \in on .. off - 1 : Joined(f0, on, i) /\ f0[i] # NaN
          /\ off <= Len(f0) => ~Joined(f0, on, off)
          /\ \E i, j \in on .. off - 1 : f0[i] - 2 <= 4 * est[k].pitch /\ 4 * est[k].pitch <= f0[j] + 2
      <4>1. 1 <= est[k].on + 1 /\ est[k].off + 1 <= Len(f0) + 1 /\ min_note \in Nat \ {0}
        BY <3>1, TrackAssumption DEF GoodNote
      <4>2. on \in Int /\ off \in Int /\ 1 <= on /\ on < off /\ off <= Len(f0) + 1
        BY <4>1, <3>2, <2>4
      <4> QED BY <4>2, <3>1, <3>4 DEF GoodNote
    <3> HIDE DEF on, off
    <3>6. on \in DOMAIN f0 /\ on \in on .. off - 1
      BY <3>5, <2>4
    <3>7. \A i \in on .. off - 1 : Close(on, i)
      <4> TAKE i \in on .. off - 1
      <4>1. i \in DOMAIN f0
        BY <3>5, <2>4
      <4> QED BY <4>1, <3>5, <3>6, <2>7
    <3>8. off <= Len(f0) => ~Close(on, off)
      <4> HAVE off <= Len(f0)
      <4>1. off \in DOMAIN f0
        BY <3>5, <2>4
      <4> QED BY <4>1, <3>5, <3>6, <2>7
    <3> HIDE DEF Close
    <3> QED BY <3>1, <3>3, <3>5, <3>7, <3>8 DEF on, off
  <2>6. ASSUME NEW i \in DOMAIN f0, NEW j \in DOMAIN f0,
               j - i + 1 >= 2 * min_note - 2, j >= i, \A k, l \in i .. j : Close(k, l)
        PROVE  \E k \in DOMAIN est : est[k].on + 1 <= j /\ est[k].off >= i
    <3>1. \A k, l \in i .. j : Joined(f0, k, l)
      <4> TAKE k, l \in i .. j
      <4>1. k \in DOMAIN f0 /\ l \in DOMAIN f0
        BY <2>4
      <4> QED BY <4>1, <2>6, <2>7
    <3> QED BY <2>3, <2>4, <2>6, <3>1 DEF HeardFrom
  <2> HIDE DEF Close
  <2> QED BY <2>5, <2>6 DEF NotesAreRuns, f0, Close
<1> QED BY CurrentHolds, <1>1, PTL

-----------------------------------------------------------------------------
\* The community modules' fold, over a finite set D: pick says which element of a set
\* goes last, and turn what it does to the value of the others.
IsFold(iter, D, pick, turn, base) ==
  iter = [s \in SUBSET D |-> IF s = {} THEN base ELSE turn[<<iter[s \ {pick[s]}], pick[s]>>]]

\* It exists, by induction over the size of the sets.
LEMMA FoldExists ==
  ASSUME NEW D, IsFiniteSet(D), NEW Typ, NEW base \in Typ,
         NEW pick, \A s \in SUBSET D : s # {} => pick[s] \in s,
         NEW turn \in [Typ \X D -> Typ]
  PROVE  \E iter \in [SUBSET D -> Typ] : IsFold(iter, D, pick, turn, base)
<1> DEFINE Upto(k) == {s \in SUBSET D : Cardinality(s) <= k}
           Turn(g, s) == IF s = {} THEN base ELSE turn[<<g[s \ {pick[s]}], pick[s]>>]
           IsPart(g, k) == g \in [Upto(k) -> Typ] /\ \A s \in Upto(k) : g[s] = Turn(g, s)
           Stuck == {k \in Nat : ~\E g : IsPart(g, k)}
<1>1. \A s \in SUBSET D : IsFiniteSet(s) /\ Cardinality(s) \in Nat
  BY FS_Subset, FS_CardinalityType
<1>2. \A s \in SUBSET D : s # {} =>
        /\ pick[s] \in D /\ s \ {pick[s]} \in SUBSET D
        /\ Cardinality(s \ {pick[s]}) = Cardinality(s) - 1
  BY <1>1, FS_RemoveElement
<1>3. Stuck = {}
  <2> SUFFICES ASSUME Stuck # {} PROVE FALSE
    OBVIOUS
  <2>1. PICK k \in Stuck : \A x \in Stuck : k <= x
    <3>1. Stuck \in SUBSET Nat
      OBVIOUS
    <3> HIDE DEF Stuck
    <3> QED BY <3>1, LeastNumber
  <2>2. CASE k = 0
    <3> DEFINE g == [s \in Upto(0) |-> base]
    <3>1. \A s \in Upto(0) : s = {}
      BY <1>1, FS_EmptySet
    <3>2. IsPart(g, 0)
      BY <3>1
    <3> QED BY <2>1, <2>2, <3>2
  <2>3. CASE k # 0
    <3>1. k - 1 \in Nat /\ k - 1 \notin Stuck
      <4>1. k \in Nat
        OBVIOUS
      <4> HIDE DEF Stuck
      <4> QED BY <2>1, <2>3, <4>1
    <3>2. PICK g : IsPart(g, k - 1)
      BY <3>1
    <3> DEFINE h == [s \in Upto(k) |-> IF Cardinality(s) = k THEN Turn(g, s) ELSE g[s]]
    <3>3. \A s \in Upto(k) : Cardinality(s) # k => s \in Upto(k - 1)
      BY <1>1, <2>1, <2>3
    <3>4. \A s \in Upto(k) : s # {} => s \ {pick[s]} \in Upto(k - 1)
      BY <1>1, <1>2, <2>1, <2>3
    <3>5. \A s \in Upto(k - 1) : s \in Upto(k) /\ Cardinality(s) # k
      BY <1>1, <2>1, <2>3
    <3> HIDE DEF Upto
    <3>6. \A s \in Upto(k - 1) : h[s] = g[s] /\ g[s] \in Typ /\ g[s] = Turn(g, s)
      BY <3>2, <3>5
    <3>7. ASSUME NEW s \in Upto(k) PROVE Turn(h, s) = Turn(g, s) /\ Turn(g, s) \in Typ
      <4>1. CASE s = {}
        BY <4>1
      <4>2. CASE s # {}
        <5>1. s \ {pick[s]} \in Upto(k - 1) /\ pick[s] \in D
          BY <1>2, <3>4, <4>2 DEF Upto
        <5>2. h[s \ {pick[s]}] = g[s \ {pick[s]}] /\ g[s \ {pick[s]}] \in Typ
          BY <3>6, <5>1
        <5> HIDE DEF h
        <5> QED BY <4>2, <5>1, <5>2
      <4> QED BY <4>1, <4>2
    <3>8. ASSUME NEW s \in Upto(k) PROVE h[s] = Turn(g, s)
      <4>1. CASE Cardinality(s) = k
        BY <4>1
      <4>2. CASE Cardinality(s) # k
        BY <4>2, <3>3, <3>6
      <4> QED BY <4>1, <4>2
    <3>9. h \in [Upto(k) -> Typ]
      <4>1. h = [s \in Upto(k) |-> h[s]]
        OBVIOUS
      <4>2. \A s \in Upto(k) : h[s] \in Typ
        <5> HIDE DEF h, Turn
        <5> QED BY <3>7, <3>8
      <4> HIDE DEF h
      <4> QED BY <4>1, <4>2
    <3>10. \A s \in Upto(k) : h[s] = Turn(h, s)
      <4> HIDE DEF h, Turn
      <4> QED BY <3>7, <3>8
    <3> HIDE DEF h
    <3>11. IsPart(h, k)
      BY <3>9, <3>10
    <3> QED BY <2>1, <3>11
  <2> QED BY <2>2, <2>3
<1>4. Cardinality(D) \in Nat /\ Upto(Cardinality(D)) = SUBSET D
  BY <1>1, FS_Subset, FS_CardinalityType
<1>5. PICK g : IsPart(g, Cardinality(D))
  BY <1>3, <1>4
<1>6. g \in [SUBSET D -> Typ] /\ \A s \in SUBSET D : g[s] = Turn(g, s)
  BY <1>4, <1>5
<1>7. g = [s \in SUBSET D |-> Turn(g, s)]
  <2> HIDE DEF Turn
  <2> QED BY <1>6
<1> QED BY <1>6, <1>7 DEF IsFold

-----------------------------------------------------------------------------
\* The parts of a sum, in the order in which SumFunction adds them.
Picked(s) == CHOOSE x \in s : TRUE

IsParts(iter, f, D) ==
  /\ SumFunction(f) = iter[D] /\ iter[{}] = 0
  /\ \A s \in SUBSET D : s # {} =>
       Picked(s) \in s /\ iter[s] = f[Picked(s)] + iter[s \ {Picked(s)}]

\* The sum of a finite set of terms is taken one term after the other.
LEMMA SumParts ==
  ASSUME NEW D, IsFiniteSet(D), NEW f \in [D -> Int]
  PROVE  \E iter : IsParts(iter, f, D)
<1> DEFINE IsSum(g) == g = [s \in SUBSET D |-> IF s = {} THEN 0
                              ELSE LET x == CHOOSE x \in s : TRUE IN f[x] + g[s \ {x}]]
           turn == [p \in Int \X D |-> f[p[2]] + p[1]]
           pick == [s \in SUBSET D |-> Picked(s)]
<1>1. \A s : s # {} => Picked(s) \in s
  BY DEF Picked
<1>2. turn \in [Int \X D -> Int]
  OBVIOUS
<1>3. \A s \in SUBSET D : s # {} => pick[s] \in s
  BY <1>1
<1>4. PICK g \in [SUBSET D -> Int] : IsFold(g, D, pick, turn, 0)
  <2>1. 0 \in Int
    OBVIOUS
  <2> HIDE DEF turn, pick, IsSum
  <2>2. \E g \in [SUBSET D -> Int] : IsFold(g, D, pick, turn, 0)
    BY <1>2, <1>3, <2>1, FoldExists, Zenon
  <2> QED BY <2>2
<1>5. IsSum(g)
  <2>1. ASSUME NEW s \in SUBSET D, s # {}
        PROVE  turn[<<g[s \ {pick[s]}], pick[s]>>] = f[Picked(s)] + g[s \ {Picked(s)}]
    <3>1. pick[s] = Picked(s) /\ Picked(s) \in D /\ g[s \ {Picked(s)}] \in Int
      BY <1>1, <1>4, <2>1
    <3> QED BY <3>1
  <2>2. g = [s \in SUBSET D |-> IF s = {} THEN 0 ELSE turn[<<g[s \ {pick[s]}], pick[s]>>]]
    BY <1>4 DEF IsFold
  <2> HIDE DEF turn, pick
  <2>3. g = [s \in SUBSET D |-> IF s = {} THEN 0 ELSE f[Picked(s)] + g[s \ {Picked(s)}]]
    BY <2>1, <2>2
  <2> QED BY <2>3 DEF Picked
<1> DEFINE R == CHOOSE h : IsSum(h)
<1>6. IsSum(R)
  BY <1>5
<1>7. SumFunction(f) = R[D]
  <2>1. DOMAIN f = D
    OBVIOUS
  <2> QED BY <2>1 DEF SumFunction, SumFunctionOnSet, FoldFunctionOnSet, MapThenFoldSet
<1> HIDE DEF R
<1>8. R = [s \in SUBSET D |-> IF s = {} THEN 0 ELSE f[Picked(s)] + R[s \ {Picked(s)}]]
  BY <1>6 DEF Picked
<1>9. R[{}] = 0 /\ \A s \in SUBSET D : s # {} => R[s] = f[Picked(s)] + R[s \ {Picked(s)}]
  BY <1>8
<1> QED BY <1>1, <1>7, <1>9 DEF IsParts

\* Of the sets that are wrong in some way, one has only right ones right below it.
LEMMA SmallestSet ==
  ASSUME NEW D, IsFiniteSet(D), NEW Bad \in SUBSET (SUBSET D), Bad # {}
  PROVE  \E s \in Bad : \A x \in s : s \ {x} \notin Bad
<1>1. \A s \in SUBSET D : IsFiniteSet(s) /\ Cardinality(s) \in Nat
  BY FS_Subset, FS_CardinalityType
<1> DEFINE T == {Cardinality(s) : s \in Bad}
<1>2. T \in SUBSET Nat /\ T # {}
  BY <1>1
<1>3. PICK k \in T : \A j \in T : k <= j
  <2> HIDE DEF T
  <2> QED BY <1>2, LeastNumber
<1>4. PICK s \in Bad : k = Cardinality(s)
  BY <1>3
<1>5. ASSUME NEW x \in s, s \ {x} \in Bad PROVE FALSE
  <2>1. Cardinality(s \ {x}) = Cardinality(s) - 1
    BY <1>1, FS_RemoveElement
  <2>2. k <= Cardinality(s \ {x}) /\ Cardinality(s) \in Nat
    BY <1>1, <1>3, <1>5
  <2> QED BY <1>4, <2>1, <2>2
<1> QED BY <1>5

\* A sum of integers is one; if none of them is negative, nor is it, and it is only
\* zero if they all are.
LEMMA SumPositive ==
  ASSUME NEW D, IsFiniteSet(D), NEW f \in [D -> Int]
  PROVE  /\ SumFunction(f) \in Int
         /\ (\A x \in D : f[x] >= 0) => /\ SumFunction(f) >= 0
                                        /\ (\E x \in D : f[x] > 0) => SumFunction(f) > 0
<1>1. PICK iter : IsParts(iter, f, D)
  BY SumParts
<1> DEFINE Right(s) == /\ iter[s] \in Int
                       /\ (\A x \in s : f[x] >= 0) => iter[s] >= 0 /\ ((\E x \in s : f[x] > 0) => iter[s] > 0)
           Bad == {s \in SUBSET D : ~Right(s)}
<1>2. Bad = {}
  <2> SUFFICES ASSUME Bad # {} PROVE FALSE
    OBVIOUS
  <2>1. PICK s \in Bad : \A x \in s : s \ {x} \notin Bad
    <3>1. Bad \in SUBSET (SUBSET D)
      OBVIOUS
    <3> HIDE DEF Bad
    <3> QED BY <3>1, SmallestSet
  <2>2. s \in SUBSET D /\ ~Right(s)
    OBVIOUS
  <2>3. s # {}
    <3>1. Right({})
      BY <1>1 DEF IsParts
    <3> QED BY <2>2, <3>1
  <2> DEFINE p == Picked(s)
  <2>4. p \in s /\ iter[s] = f[p] + iter[s \ {p}] /\ f[p] \in Int
    BY <1>1, <2>2, <2>3 DEF IsParts
  <2>5. Right(s \ {p})
    BY <2>1, <2>2, <2>4
  <2> HIDE DEF p
  <2>6. ASSUME \A x \in s : f[x] >= 0, NEW x \in s, f[x] > 0 PROVE iter[s] > 0
    BY <2>4, <2>5, <2>6
  <2>7. (\A x \in s : f[x] >= 0) => iter[s] >= 0
    BY <2>4, <2>5
  <2>8. iter[s] \in Int
    BY <2>4, <2>5
  <2> QED BY <2>2, <2>6, <2>7, <2>8
<1>3. Right(D)
  BY <1>2
<1> QED BY <1>1, <1>3 DEF IsParts

\* A function that is a combination of two others.
IsCombination(h, D, a, f, b, g) == \A x \in D : h[x] = a * f[x] + b * g[x]

\* Sums are linear.
LEMMA SumLinear ==
  ASSUME NEW D, IsFiniteSet(D), NEW f \in [D -> Int], NEW g \in [D -> Int], NEW h \in [D -> Int],
         NEW a \in Int, NEW b \in Int, IsCombination(h, D, a, f, b, g)
  PROVE  SumFunction(h) = a * SumFunction(f) + b * SumFunction(g)
<1>1. PICK F : IsParts(F, f, D)
  BY SumParts
<1>2. PICK G : IsParts(G, g, D)
  BY SumParts
<1>3. PICK H : IsParts(H, h, D)
  BY SumParts
<1> DEFINE Right(s) == F[s] \in Int /\ G[s] \in Int /\ H[s] = a * F[s] + b * G[s]
           Bad == {s \in SUBSET D : ~Right(s)}
<1>4. Bad = {}
  <2> SUFFICES ASSUME Bad # {} PROVE FALSE
    OBVIOUS
  <2>1. PICK s \in Bad : \A x \in s : s \ {x} \notin Bad
    <3>1. Bad \in SUBSET (SUBSET D)
      OBVIOUS
    <3> HIDE DEF Bad
    <3> QED BY <3>1, SmallestSet
  <2>2. s \in SUBSET D /\ ~Right(s)
    OBVIOUS
  <2>3. s # {}
    <3>1. F[{}] = 0 /\ G[{}] = 0 /\ H[{}] = 0
      BY <1>1, <1>2, <1>3 DEF IsParts
    <3>2. Right({})
      BY <3>1
    <3> QED BY <2>2, <3>2
  <2> DEFINE p == Picked(s)
             t == s \ {p}
  <2>4. /\ p \in s /\ F[s] = f[p] + F[t] /\ G[s] = g[p] + G[t] /\ H[s] = h[p] + H[t]
        /\ f[p] \in Int /\ g[p] \in Int /\ h[p] = a * f[p] + b * g[p]
    BY <1>1, <1>2, <1>3, <2>2, <2>3 DEF IsParts, IsCombination
  <2>5. Right(t)
    BY <2>1, <2>2, <2>4
  <2> HIDE DEF p, t
  <2>6. a * (f[p] + F[t]) = a * f[p] + a * F[t] /\ b * (g[p] + G[t]) = b * g[p] + b * G[t]
    BY <2>4, <2>5
  <2>7. a * f[p] \in Int /\ a * F[t] \in Int /\ b * g[p] \in Int /\ b * G[t] \in Int
    BY <2>4, <2>5
  <2>8. H[s] = a * F[s] + b * G[s]
    BY <2>4, <2>5, <2>6, <2>7
  <2> QED BY <2>2, <2>4, <2>5, <2>8
<1>5. Right(D)
  BY <1>4
<1> QED BY <1>1, <1>2, <1>3, <1>5 DEF IsParts

-----------------------------------------------------------------------------
\* The largest matching of finitely many pairs.
LEMMA MatchSizeFacts ==
  ASSUME NEW edges, IsFiniteSet(edges)
  PROVE  /\ MatchSize(edges) \in Nat
         /\ \E m \in SUBSET edges : IsMatching(m) /\ Cardinality(m) = MatchSize(edges)
         /\ \A m \in SUBSET edges : IsMatching(m) => Cardinality(m) <= MatchSize(edges)
<1> DEFINE Matchings == {s \in SUBSET edges : IsMatching(s)}
           T == {Cardinality(m) : m \in Matchings}
<1>1. \A m \in SUBSET edges : IsFiniteSet(m) /\ Cardinality(m) \in Nat /\ Cardinality(m) <= Cardinality(edges)
  BY FS_Subset, FS_CardinalityType
<1>2. Cardinality(edges) \in Nat
  BY FS_CardinalityType
<1>3. T \in SUBSET Nat /\ \A k \in T : k <= Cardinality(edges)
  BY <1>1
<1>4. {} \in Matchings
  BY DEF IsMatching
<1>5. T # {}
  <2>1. Cardinality({}) \in T
    BY <1>4
  <2> QED BY <2>1
<1>6. Max(T) \in T /\ \A k \in T : k <= Max(T)
  <2> HIDE DEF T
  <2> QED BY <1>2, <1>3, <1>5, MaxFacts
<1>7. MatchSize(edges) = Max(T)
  BY DEF MatchSize
<1> QED BY <1>3, <1>6, <1>7

\* A matching uses each note of either side at most once.
LEMMA MatchingSides ==
  ASSUME NEW A, NEW B, IsFiniteSet(A), IsFiniteSet(B), NEW m \in SUBSET (A \X B), IsMatching(m)
  PROVE  /\ IsFiniteSet(m) /\ Cardinality(m) \in Nat
         /\ Cardinality({p[1] : p \in m}) = Cardinality(m)
         /\ Cardinality(m) <= Cardinality(A) /\ Cardinality(m) <= Cardinality(B)
<1>1. IsFiniteSet(m) /\ Cardinality(m) \in Nat
  BY FS_Product, FS_Subset, FS_CardinalityType
<1> DEFINE S == {p[1] : p \in m}
           f == [p \in m |-> p[1]]
           h == [p \in m |-> p[2]]
<1>2. f \in Bijection(m, S)
  <2>1. f \in [m -> S] /\ \A p, q \in m : f[p] = f[q] => p = q
    BY DEF IsMatching
  <2>2. \A x \in S : \E p \in m : f[p] = x
    OBVIOUS
  <2> HIDE DEF f, S
  <2> QED BY <2>1, <2>2 DEF Bijection, Injection, Surjection, IsInjective
<1>3. Cardinality(S) = Cardinality(m)
  <2> HIDE DEF f, S
  <2> QED BY <1>1, <1>2, FS_Bijection DEF ExistsBijection
<1>4. S \in SUBSET A
  OBVIOUS
<1>5. Cardinality(m) <= Cardinality(A)
  <2> HIDE DEF S
  <2> QED BY <1>3, <1>4, FS_Subset
<1>6. h \in Injection(m, B)
  <2>1. h \in [m -> B] /\ \A p, q \in m : h[p] = h[q] => p = q
    BY DEF IsMatching
  <2> HIDE DEF h
  <2> QED BY <2>1 DEF Injection, IsInjective
<1>7. Cardinality(m) <= Cardinality(B)
  <2> HIDE DEF h
  <2> QED BY <1>6, FS_Injection
<1> QED BY <1>1, <1>3, <1>5, <1>7

-----------------------------------------------------------------------------
\* FoldLeft: the elements go in the order of their indices.
IsLeftFold(iter, m, turn, base) ==
  iter = [s \in SUBSET (1 .. m) |-> IF s = {} THEN base ELSE turn[<<iter[s \ {Max(s)}], Max(s)>>]]

\* A fold over the first m numbers, from the left, is that of a function.
LEMMA LeftFoldExists ==
  ASSUME NEW m \in Nat, NEW Typ, NEW base \in Typ, NEW turn \in [Typ \X (1 .. m) -> Typ]
  PROVE  \E iter \in [SUBSET (1 .. m) -> Typ] : IsLeftFold(iter, m, turn, base)
<1> DEFINE pick == [s \in SUBSET (1 .. m) |-> Max(s)]
<1>1. \A s \in SUBSET (1 .. m) : s # {} => pick[s] \in s
  <2> SUFFICES ASSUME NEW s \in SUBSET (1 .. m), s # {} PROVE Max(s) \in s
    OBVIOUS
  <2>1. s \in SUBSET Nat /\ \A x \in s : x <= m
    OBVIOUS
  <2> QED BY <2>1, MaxFacts
<1>2. IsFiniteSet(1 .. m)
  BY FS_Interval
<1>3. PICK iter \in [SUBSET (1 .. m) -> Typ] : IsFold(iter, 1 .. m, pick, turn, base)
  <2> HIDE DEF pick
  <2> QED BY <1>1, <1>2, FoldExists
<1>4. iter = [s \in SUBSET (1 .. m) |->
                IF s = {} THEN base ELSE turn[<<iter[s \ {pick[s]}], pick[s]>>]]
  BY <1>3 DEF IsFold
<1>5. \A s \in SUBSET (1 .. m) : pick[s] = Max(s)
  OBVIOUS
<1> HIDE DEF pick
<1> QED BY <1>4, <1>5 DEF IsLeftFold

\* The last of the first k numbers is k, and the others are the first k - 1.
LEMMA PrefixFacts ==
  ASSUME NEW m \in Nat, NEW k \in 1 .. m
  PROVE  /\ 1 .. k \in SUBSET (1 .. m) /\ 1 .. k # {}
         /\ Max(1 .. k) = k /\ (1 .. k) \ {k} = 1 .. k - 1
<1>1. 1 .. k \in SUBSET Nat /\ 1 .. k # {} /\ (\A x \in 1 .. k : x <= k) /\ k \in 1 .. k
  OBVIOUS
<1>2. Max(1 .. k) \in 1 .. k /\ k <= Max(1 .. k)
  BY <1>1, MaxFacts
<1>3. Max(1 .. k) = k
  BY <1>2
<1>4. (1 .. k) \ {k} = 1 .. k - 1
  OBVIOUS
<1>5. 1 .. k \in SUBSET (1 .. m)
  OBVIOUS
<1> QED BY <1>1, <1>3, <1>4, <1>5

-----------------------------------------------------------------------------
\* What octave_error_counts does with an estimated note.
OctaveTurn(rs, es, found, e) ==
  LET Distance(r) == Apart(rs[r].on, es[e].on)
      candidates == {r \in Free(rs, found.used) :
        /\ rs[r].pitch % 12 = es[e].pitch % 12 /\ Distance(r) <= onset_tol}
  IN IF candidates = {} THEN found
     ELSE LET closest == CHOOSE r \in candidates : \A s \in candidates :
                Distance(r) < Distance(s) \/ (Distance(r) = Distance(s) /\ r <= s)
          IN [used |-> found.used \cup {closest}, matched |-> found.matched + 1,
              errors |-> found.errors +
                (IF Within(es[e].pitch, rs[closest].pitch, 11) THEN 0 ELSE 1)]

OctaveTyp(rs) == [used : SUBSET (DOMAIN rs), matched : Nat, errors : Nat]

\* The closest of the candidates, the first of those as close.
LEMMA ClosestExists ==
  ASSUME NEW T \in SUBSET Nat, T # {}, NEW dist \in [T -> Nat]
  PROVE  \E r \in T : \A s \in T : dist[r] < dist[s] \/ (dist[r] = dist[s] /\ r <= s)
<1> DEFINE R == {dist[r] : r \in T}
<1>1. R \in SUBSET Nat /\ R # {}
  OBVIOUS
<1>2. PICK d \in R : \A x \in R : d <= x
  <2> HIDE DEF R
  <2> QED BY <1>1, LeastNumber
<1> DEFINE C == {r \in T : dist[r] = d}
<1>3. C \in SUBSET Nat /\ C # {}
  BY <1>2
<1>4. PICK r \in C : \A s \in C : r <= s
  <2> HIDE DEF C
  <2> QED BY <1>3, LeastNumber
<1>5. r \in T /\ dist[r] = d /\ \A s \in T : dist[s] = d => r <= s
  BY <1>4
<1>6. ASSUME NEW s \in T PROVE dist[r] < dist[s] \/ (dist[r] = dist[s] /\ r <= s)
  <2>1. d <= dist[s] /\ d \in Nat /\ dist[s] \in Nat
    BY <1>1, <1>2
  <2> QED BY <1>5, <2>1
<1> QED BY <1>5, <1>6

\* Notes that are only known to be notes.
LEMMA NoteFacts ==
  ASSUME NEW notes \in Notes
  PROVE  /\ Len(notes) \in Nat /\ DOMAIN notes = 1 .. Len(notes)
         /\ IsFiniteSet(DOMAIN notes) /\ Cardinality(DOMAIN notes) = Len(notes)
         /\ \A i \in DOMAIN notes : notes[i].on \in Int /\ notes[i].off \in Int /\ notes[i].pitch \in Int
         /\ onsets(notes) \in [1 .. Len(notes) -> Int]
         /\ \A i \in DOMAIN notes : onsets(notes)[i] = notes[i].on
<1> DEFINE S == [on : Int, off : Int, pitch : Int]
<1>1. notes \in Seq(S)
  BY DEF Notes
<1>2. \A note \in S : note.on \in Int /\ note.off \in Int /\ note.pitch \in Int
  OBVIOUS
<1> HIDE DEF S
<1>3. Len(notes) \in Nat /\ DOMAIN notes = 1 .. Len(notes) /\ \A i \in DOMAIN notes : notes[i] \in S
  BY <1>1
<1>4. IsFiniteSet(1 .. Len(notes)) /\ Cardinality(1 .. Len(notes)) = Len(notes)
  BY <1>3, FS_Interval
<1>5. onsets(notes) = [i \in DOMAIN notes |-> notes[i].on]
  BY DEF onsets
<1>6. onsets(notes) \in [1 .. Len(notes) -> Int]
  BY <1>2, <1>3, <1>5
<1> QED BY <1>2, <1>3, <1>4, <1>5, <1>6

\* The order in which notes are gone through.
LEMMA OrderFacts ==
  ASSUME NEW notes \in Notes
  PROVE  LET order == argsort(onsets(notes)) IN
         /\ order \in [1 .. Len(notes) -> DOMAIN notes]
         /\ \A i \in DOMAIN notes : \E k \in 1 .. Len(notes) : order[k] = i
         /\ \A j, k \in 1 .. Len(notes) : j < k =>
              \/ notes[order[j]].on < notes[order[k]].on
              \/ notes[order[j]].on = notes[order[k]].on /\ order[j] < order[k]
<1> DEFINE keys == onsets(notes)
           order == argsort(keys)
           D == DOMAIN notes
<1>1. /\ D \in SUBSET Nat /\ IsFiniteSet(D) /\ Cardinality(D) = Len(notes) /\ D = 1 .. Len(notes)
      /\ keys \in [D -> Int] /\ \A i \in D : keys[i] = notes[i].on
  BY NoteFacts
<1>2. /\ order \in [1 .. Cardinality(D) -> D]
      /\ \A i \in D : \E k \in 1 .. Cardinality(D) : order[k] = i
      /\ \A j, k \in 1 .. Cardinality(D) : j < k =>
            \/ keys[order[j]] < keys[order[k]]
            \/ keys[order[j]] = keys[order[k]] /\ order[j] < order[k]
  <2> HIDE DEF D, keys
  <2> QED BY <1>1, ArgsortFacts
<1> HIDE DEF keys, order
<1>3. \A k \in 1 .. Len(notes) : keys[order[k]] = notes[order[k]].on
  BY <1>1, <1>2
<1> HIDE DEF D
<1>4. order \in [1 .. Len(notes) -> D] /\ \A i \in D : \E k \in 1 .. Len(notes) : order[k] = i
  BY <1>1, <1>2
<1>5. ASSUME NEW j \in 1 .. Len(notes), NEW k \in 1 .. Len(notes), j < k
      PROVE  \/ notes[order[j]].on < notes[order[k]].on
             \/ notes[order[j]].on = notes[order[k]].on /\ order[j] < order[k]
  <2>1. \/ keys[order[j]] < keys[order[k]]
        \/ keys[order[j]] = keys[order[k]] /\ order[j] < order[k]
    BY <1>1, <1>2, <1>5
  <2> QED BY <1>3, <2>1
<1> QED BY <1>4, <1>5 DEF order, keys, D

\* A note is matched with one of the candidates, or left alone.
LEMMA OctaveTurnFacts ==
  ASSUME NEW rs \in Notes, NEW es \in Notes, NEW found \in OctaveTyp(rs), NEW e \in DOMAIN es
  PROVE  LET next == OctaveTurn(rs, es, found, e)
             Fits(r) == /\ r \in DOMAIN rs /\ r \notin found.used
                        /\ rs[r].pitch % 12 = es[e].pitch % 12 /\ Apart(rs[r].on, es[e].on) <= onset_tol
         IN \/ next = found /\ ~\E r : Fits(r)
            \/ \E r \in DOMAIN rs :
                 /\ Fits(r)
                 /\ \A s : Fits(s) => \/ Apart(rs[r].on, es[e].on) < Apart(rs[s].on, es[e].on)
                                      \/ Apart(rs[r].on, es[e].on) = Apart(rs[s].on, es[e].on) /\ r <= s
                 /\ next = [used |-> found.used \cup {r}, matched |-> found.matched + 1,
                            errors |-> found.errors + (IF Within(es[e].pitch, rs[r].pitch, 11) THEN 0 ELSE 1)]
<1> DEFINE Distance(r) == Apart(rs[r].on, es[e].on)
           cands == {r \in Free(rs, found.used) :
                       rs[r].pitch % 12 = es[e].pitch % 12 /\ Distance(r) <= onset_tol}
           Fits(r) == /\ r \in DOMAIN rs /\ r \notin found.used
                      /\ rs[r].pitch % 12 = es[e].pitch % 12 /\ Distance(r) <= onset_tol
           dist == [r \in cands |-> Distance(r)]
           closest == CHOOSE r \in cands : \A s \in cands :
                        Distance(r) < Distance(s) \/ (Distance(r) = Distance(s) /\ r <= s)
<1>1. \A r : r \in cands <=> Fits(r)
  BY DEF Free
<1>2. cands \in SUBSET Nat /\ dist \in [cands -> Nat]
  <2>1. DOMAIN rs \in SUBSET Nat /\ cands \in SUBSET (DOMAIN rs)
    BY NoteFacts DEF Free
  <2>2. \A r \in DOMAIN rs : Distance(r) \in Nat
    BY NoteFacts, ApartFacts
  <2> HIDE DEF Distance, cands
  <2> QED BY <2>1, <2>2
<1>3. CASE cands = {}
  <2>1. OctaveTurn(rs, es, found, e) = found
    BY <1>3 DEF OctaveTurn
  <2> HIDE DEF cands
  <2> QED BY <1>1, <1>3, <2>1
<1>4. CASE cands # {}
  <2>1. \E r \in cands : \A s \in cands : dist[r] < dist[s] \/ (dist[r] = dist[s] /\ r <= s)
    <3> HIDE DEF cands, dist
    <3> QED BY <1>2, <1>4, ClosestExists
  <2>2. \E r \in cands : \A s \in cands : Distance(r) < Distance(s) \/ (Distance(r) = Distance(s) /\ r <= s)
    <3> HIDE DEF cands, Distance
    <3> QED BY <2>1
  <2>3. closest \in cands /\ \A s \in cands :
          Distance(closest) < Distance(s) \/ (Distance(closest) = Distance(s) /\ closest <= s)
    <3> HIDE DEF cands, Distance
    <3> QED BY <2>2
  <2>4. OctaveTurn(rs, es, found, e) =
          [used |-> found.used \cup {closest}, matched |-> found.matched + 1,
           errors |-> found.errors + (IF Within(es[e].pitch, rs[closest].pitch, 11) THEN 0 ELSE 1)]
    BY <1>4 DEF OctaveTurn
  <2>5. Fits(closest) /\ \A s : Fits(s) =>
          Distance(closest) < Distance(s) \/ (Distance(closest) = Distance(s) /\ closest <= s)
    <3> HIDE DEF cands, closest, Distance
    <3> QED BY <1>1, <2>3
  <2> HIDE DEF closest, cands
  <2> QED BY <2>4, <2>5
<1> QED BY <1>3, <1>4

\* What has been found after each estimate, in the order of their onsets.
LEMMA OctaveFold ==
  ASSUME NEW rs \in Notes, NEW es \in Notes
  PROVE  \E g : /\ octave_error_counts(rs, es) = g[Len(es)]
                /\ g[0] = [used |-> {}, matched |-> 0, errors |-> 0]
                /\ \A k \in 1 .. Len(es) : g[k] = OctaveTurn(rs, es, g[k - 1], argsort(onsets(es))[k])
<1> DEFINE m == Len(es)
           order == argsort(onsets(es))
           base == [used |-> {}, matched |-> 0, errors |-> 0]
           Typ == OctaveTyp(rs)
           turn == [p \in Typ \X (1 .. m) |-> OctaveTurn(rs, es, p[1], order[p[2]])]
           IsIt(g) == g = [s \in SUBSET (1 .. m) |->
                             IF s = {} THEN base ELSE OctaveTurn(rs, es, g[s \ {Max(s)}], order[Max(s)])]
<1>1. m \in Nat /\ order \in [1 .. m -> DOMAIN es]
  BY NoteFacts, OrderFacts
<1> HIDE DEF order
<1>2. base \in Typ
  BY DEF OctaveTyp
<1>3. \A found \in Typ : \A e \in DOMAIN es : OctaveTurn(rs, es, found, e) \in Typ
  <2> TAKE found \in Typ
  <2> TAKE e \in DOMAIN es
  <2>1. CASE OctaveTurn(rs, es, found, e) = found
    BY <2>1
  <2>2. CASE \E r \in DOMAIN rs : OctaveTurn(rs, es, found, e) =
               [used |-> found.used \cup {r}, matched |-> found.matched + 1,
                errors |-> found.errors + (IF Within(es[e].pitch, rs[r].pitch, 11) THEN 0 ELSE 1)]
    BY <2>2 DEF OctaveTyp
  <2> QED BY <2>1, <2>2, OctaveTurnFacts
<1>4. turn \in [Typ \X (1 .. m) -> Typ]
  <2> HIDE DEF Typ, m
  <2> QED BY <1>1, <1>3
<1>5. PICK h \in [SUBSET (1 .. m) -> Typ] :
        IsLeftFold(h, m, turn, base)
  <2> HIDE DEF turn, Typ, base, m, IsIt
  <2>1. \E h \in [SUBSET (1 .. m) -> Typ] : IsLeftFold(h, m, turn, base)
    BY <1>1, <1>2, <1>4, LeftFoldExists, Zenon
  <2> QED BY <2>1
<1>6. IsIt(h)
  <2>1. ASSUME NEW s \in SUBSET (1 .. m), s # {}
        PROVE  turn[<<h[s \ {Max(s)}], Max(s)>>] = OctaveTurn(rs, es, h[s \ {Max(s)}], order[Max(s)])
    <3>1. Max(s) \in 1 .. m
      <4>1. s \in SUBSET Nat /\ \A x \in s : x <= m
        BY <1>1
      <4> QED BY <1>1, <2>1, <4>1, MaxFacts
    <3>2. h[s \ {Max(s)}] \in Typ
      OBVIOUS
    <3> HIDE DEF Typ, m
    <3> QED BY <3>1, <3>2
  <2> HIDE DEF turn, base, m
  <2> QED BY <1>5, <2>1 DEF IsLeftFold
<1> DEFINE R == CHOOSE g : IsIt(g)
<1>7. IsIt(R)
  BY <1>6
<1>8. octave_error_counts(rs, es) = R[1 .. m]
  <2>1. DOMAIN order = 1 .. m
    BY <1>1
  <2> QED BY <2>1 DEF octave_error_counts, FoldLeft, MapThenFoldSet, OctaveTurn, order
<1> HIDE DEF R
<1> DEFINE g == [k \in 0 .. m |-> R[1 .. k]]
<1>9. g[0] = base
  <2>1. 1 .. 0 = {} /\ 0 \in 0 .. m
    BY <1>1
  <2> QED BY <1>7, <2>1
<1>10. ASSUME NEW k \in 1 .. m PROVE g[k] = OctaveTurn(rs, es, g[k - 1], order[k])
  <2>1. /\ 1 .. k \in SUBSET (1 .. m) /\ 1 .. k # {}
        /\ Max(1 .. k) = k /\ (1 .. k) \ {k} = 1 .. k - 1
    BY <1>1, PrefixFacts
  <2>2. R[1 .. k] = OctaveTurn(rs, es, R[1 .. k - 1], order[k])
    <3> HIDE DEF m, base
    <3> QED BY <1>7, <2>1
  <2>3. k \in 0 .. m /\ k - 1 \in 0 .. m
    BY <1>1
  <2> QED BY <2>2, <2>3
<1>11. m \in 0 .. m /\ g[m] = R[1 .. m]
  BY <1>1
<1> QED BY <1>8, <1>9, <1>10, <1>11 DEF order

\* Hits are near in time, and if the tolerance is less than a semitone, a note and an
\* estimate that hit have the same pitch.
LEMMA HitFacts ==
  ASSUME NEW rs \in Notes, NEW es \in Notes, NEW cents \in Nat
  PROVE  /\ Hits(rs, es, cents) \in SUBSET Near(rs, es)
         /\ Near(rs, es) \in SUBSET ((DOMAIN rs) \X (DOMAIN es))
         /\ IsFiniteSet(Near(rs, es)) /\ IsFiniteSet(Hits(rs, es, cents))
         /\ \A p \in Near(rs, es) : Apart(rs[p[1]].on, es[p[2]].on) <= onset_tol
         /\ cents < 100 => \A p \in Hits(rs, es, cents) : rs[p[1]].pitch = es[p[2]].pitch
<1>1. Near(rs, es) \in SUBSET ((DOMAIN rs) \X (DOMAIN es))
  BY DEF Near
<1>2. Hits(rs, es, cents) \in SUBSET Near(rs, es)
  BY DEF Near, Hits
<1>3. IsFiniteSet((DOMAIN rs) \X (DOMAIN es))
  BY NoteFacts, FS_Product
<1>4. IsFiniteSet(Near(rs, es))
  BY <1>1, <1>3, FS_Subset
<1>5. IsFiniteSet(Hits(rs, es, cents))
  BY <1>2, <1>4, FS_Subset
<1>6. ASSUME cents < 100, NEW p \in Hits(rs, es, cents) PROVE rs[p[1]].pitch = es[p[2]].pitch
  <2>1. /\ p[1] \in DOMAIN rs /\ p[2] \in DOMAIN es
        /\ Within(100 * rs[p[1]].pitch, 100 * es[p[2]].pitch, cents)
    BY DEF Hits
  <2>2. rs[p[1]].pitch \in Int /\ es[p[2]].pitch \in Int
    BY <2>1, NoteFacts
  <2> QED BY <1>6, <2>1, <2>2 DEF Within
<1>7. ASSUME NEW p \in Near(rs, es) PROVE Apart(rs[p[1]].on, es[p[2]].on) <= onset_tol
  <2>1. p[1] \in DOMAIN rs /\ p[2] \in DOMAIN es /\ Within(rs[p[1]].on, es[p[2]].on, onset_tol)
    BY DEF Near
  <2>2. rs[p[1]].on \in Int /\ es[p[2]].on \in Int /\ onset_tol \in Nat
    BY <2>1, NoteFacts, MetricAssumption
  <2> QED BY <2>1, <2>2, ApartFacts
<1> QED BY <1>1, <1>2, <1>4, <1>5, <1>6, <1>7

\* With a tolerance of less than a semitone, the hits are those without any.
LEMMA SemitoneHits ==
  ASSUME NEW rs \in Notes, NEW es \in Notes, NEW cents \in Nat, cents < 100
  PROVE  Hits(rs, es, cents) = Hits(rs, es, 0)
<1>1. ASSUME NEW r \in DOMAIN rs, NEW e \in DOMAIN es
      PROVE  Within(100 * rs[r].pitch, 100 * es[e].pitch, cents)
               <=> Within(100 * rs[r].pitch, 100 * es[e].pitch, 0)
  <2>1. rs[r].pitch \in Int /\ es[e].pitch \in Int
    BY NoteFacts
  <2> QED BY <2>1 DEF Within
<1> QED BY <1>1 DEF Hits

\* What has been matched after k estimates, and the estimates E that were: of a hit that
\* the estimates so far could make, one of the two is taken.
OctaveInv(rs, es, found, k) ==
  LET order == argsort(onsets(es)) IN
  /\ found \in OctaveTyp(rs)
  /\ Cardinality(found.used) = found.matched /\ found.errors <= found.matched
  /\ \E E \in SUBSET {order[j] : j \in 1 .. k} :
       /\ Cardinality(E) = found.matched
       /\ \A p \in Hits(rs, es, 0) : p[2] \in {order[j] : j \in 1 .. k} => p[1] \in found.used \/ p[2] \in E

\* A further estimate is matched with a note, or leaves its hits to be matched by others.
LEMMA OctaveStep ==
  ASSUME NEW rs \in Notes, NEW es \in Notes, NEW k \in 1 .. Len(es), NEW found, OctaveInv(rs, es, found, k - 1)
  PROVE  OctaveInv(rs, es, OctaveTurn(rs, es, found, argsort(onsets(es))[k]), k)
<1> DEFINE order == argsort(onsets(es))
           e == order[k]
           next == OctaveTurn(rs, es, found, e)
           Gone(j) == {order[i] : i \in 1 .. j}
           Fits(r) == /\ r \in DOMAIN rs /\ r \notin found.used
                      /\ rs[r].pitch % 12 = es[e].pitch % 12 /\ Apart(rs[r].on, es[e].on) <= onset_tol
<1>1. Len(es) \in Nat /\ order \in [1 .. Len(es) -> DOMAIN es] /\ e \in DOMAIN es
      /\ \A i, j \in 1 .. Len(es) : i < j => order[i] # order[j]
  <2>1. \A i, j \in 1 .. Len(es) : i < j =>
          \/ es[order[i]].on < es[order[j]].on
          \/ es[order[i]].on = es[order[j]].on /\ order[i] < order[j]
    BY OrderFacts
  <2>2. Len(es) \in Nat /\ order \in [1 .. Len(es) -> DOMAIN es]
    BY NoteFacts, OrderFacts
  <2>3. \A i \in 1 .. Len(es) : es[order[i]].on \in Int /\ order[i] \in Nat
    BY <2>2, NoteFacts
  <2> HIDE DEF order
  <2>4. ASSUME NEW i \in 1 .. Len(es), NEW j \in 1 .. Len(es), i < j PROVE order[i] # order[j]
    <3> SUFFICES ASSUME order[i] = order[j] PROVE FALSE
      OBVIOUS
    <3>1. es[order[i]].on = es[order[j]].on /\ es[order[i]].on \in Int /\ order[i] \in Nat
      BY <2>3
    <3> QED BY <2>1, <2>4, <3>1
  <2> QED BY <2>2, <2>4
<1> HIDE DEF order
<1>2. Gone(k) = Gone(k - 1) \cup {e} /\ e \notin Gone(k - 1)
  <2>1. \A i \in 1 .. k : i \in 1 .. k - 1 \/ i = k
    BY <1>1
  <2>2. \A i \in 1 .. k - 1 : i \in 1 .. k /\ i \in 1 .. Len(es) /\ i < k
    BY <1>1
  <2>3. k \in 1 .. k
    OBVIOUS
  <2> QED BY <1>1, <2>1, <2>2, <2>3
<1>3. /\ found \in OctaveTyp(rs) /\ Cardinality(found.used) = found.matched
      /\ found.errors <= found.matched
  BY DEF OctaveInv
<1>4. PICK E \in SUBSET Gone(k - 1) :
        /\ Cardinality(E) = found.matched
        /\ \A p \in Hits(rs, es, 0) : p[2] \in Gone(k - 1) => p[1] \in found.used \/ p[2] \in E
  BY DEF OctaveInv, order
<1>5. /\ found.used \in SUBSET (DOMAIN rs) /\ found.matched \in Nat /\ found.errors \in Nat
  BY <1>3 DEF OctaveTyp
<1>6. IsFiniteSet(found.used) /\ IsFiniteSet(E)
  <2>1. Gone(k - 1) \in SUBSET (DOMAIN es)
    BY <1>1
  <2>2. E \in SUBSET (DOMAIN es)
    BY <2>1
  <2> QED BY <1>5, <2>2, NoteFacts, FS_Subset
<1>7. \A p \in Hits(rs, es, 0) : p[2] = e /\ p[1] \notin found.used => Fits(p[1])
  <2> TAKE p \in Hits(rs, es, 0)
  <2>1. p \in Near(rs, es) /\ p[1] \in DOMAIN rs /\ rs[p[1]].pitch = es[p[2]].pitch
    BY HitFacts
  <2> QED BY <2>1, HitFacts
<1> HIDE DEF Gone, e
<1>8. CASE next = found /\ ~\E r : Fits(r)
  <2>1. E \in SUBSET Gone(k)
    BY <1>2
  <2>2. \A p \in Hits(rs, es, 0) : p[2] \in Gone(k) => p[1] \in next.used \/ p[2] \in E
    BY <1>2, <1>4, <1>7, <1>8
  <2> HIDE DEF Fits, next
  <2>3. OctaveInv(rs, es, next, k)
    BY <1>3, <1>4, <1>8, <2>1, <2>2 DEF OctaveInv, Gone, order
  <2> QED BY <2>3 DEF next, e, order
<1>9. CASE \E r \in DOMAIN rs : Fits(r) /\
             next = [used |-> found.used \cup {r}, matched |-> found.matched + 1,
                     errors |-> found.errors + (IF Within(es[e].pitch, rs[r].pitch, 11) THEN 0 ELSE 1)]
  <2>1. PICK r \in DOMAIN rs : Fits(r) /\
             next = [used |-> found.used \cup {r}, matched |-> found.matched + 1,
                     errors |-> found.errors + (IF Within(es[e].pitch, rs[r].pitch, 11) THEN 0 ELSE 1)]
    BY <1>9
  <2>2. r \notin found.used
    BY <2>1
  <2> HIDE DEF Fits, next
  <2>3. /\ next.used = found.used \cup {r} /\ next.matched = found.matched + 1
        /\ next.errors \in Nat /\ next.errors <= next.matched /\ next \in OctaveTyp(rs)
    <3>1. next.used \in SUBSET (DOMAIN rs) /\ next.errors \in {found.errors, found.errors + 1}
      BY <1>5, <2>1
    <3> QED BY <1>3, <1>5, <2>1, <3>1 DEF OctaveTyp
  <2>4. Cardinality(next.used) = next.matched
    BY <1>3, <1>6, <2>2, <2>3, FS_AddElement
  <2> DEFINE F == E \cup {e}
  <2>5. F \in SUBSET Gone(k) /\ Cardinality(F) = next.matched
    <3>1. e \notin E
      BY <1>2
    <3> QED BY <1>2, <1>4, <1>6, <2>3, <3>1, FS_AddElement
  <2>6. \A p \in Hits(rs, es, 0) : p[2] \in Gone(k) => p[1] \in next.used \/ p[2] \in F
    BY <1>2, <1>4, <2>3
  <2>7. OctaveInv(rs, es, next, k)
    BY <2>3, <2>4, <2>5, <2>6 DEF OctaveInv, Gone, order
  <2> QED BY <2>7 DEF next, e, order
<1>10. \/ next = found /\ ~\E r : Fits(r)
       \/ \E r \in DOMAIN rs : Fits(r) /\
             next = [used |-> found.used \cup {r}, matched |-> found.matched + 1,
                     errors |-> found.errors + (IF Within(es[e].pitch, rs[r].pitch, 11) THEN 0 ELSE 1)]
  BY <1>1, <1>3, OctaveTurnFacts
<1> QED BY <1>8, <1>9, <1>10

\* What octave_error_counts finds: each note is taken once, and of each hit one of the
\* notes, so that it misses at most half of those of a largest matching.
LEMMA OctaveBounds ==
  ASSUME NEW rs \in Notes, NEW es \in Notes
  PROVE  LET octave == octave_error_counts(rs, es) IN
         /\ octave.matched \in Nat /\ octave.errors \in Nat /\ octave.errors <= octave.matched
         /\ octave.matched <= Len(rs) /\ octave.matched <= Len(es)
         /\ MatchSize(Hits(rs, es, 0)) <= 2 * octave.matched
<1> DEFINE order == argsort(onsets(es))
           L == Len(es)
<1>1. L \in Nat
  BY NoteFacts
<1>2. PICK g : /\ octave_error_counts(rs, es) = g[L]
               /\ g[0] = [used |-> {}, matched |-> 0, errors |-> 0]
               /\ \A k \in 1 .. L : g[k] = OctaveTurn(rs, es, g[k - 1], order[k])
  BY OctaveFold
<1> DEFINE Bad == {k \in 0 .. L : ~OctaveInv(rs, es, g[k], k)}
<1>3. Bad = {}
  <2> SUFFICES ASSUME Bad # {} PROVE FALSE
    OBVIOUS
  <2>1. PICK k \in Bad : \A x \in Bad : k <= x
    <3>1. Bad \in SUBSET Nat
      BY <1>1
    <3> HIDE DEF Bad
    <3> QED BY <3>1, LeastNumber
  <2>2. CASE k = 0
    <3>1. {} \in SUBSET {order[j] : j \in 1 .. 0} /\ Cardinality({}) = 0 /\ {order[j] : j \in 1 .. 0} = {}
      BY FS_EmptySet
    <3>2. g[0] \in OctaveTyp(rs)
      BY <1>2 DEF OctaveTyp
    <3>3. OctaveInv(rs, es, g[0], 0)
      BY <1>2, <3>1, <3>2 DEF OctaveInv
    <3> QED BY <2>1, <2>2, <3>3
  <2>3. CASE k # 0
    <3>1. k \in 1 .. L /\ k - 1 \in 0 .. L /\ k - 1 \notin Bad
      BY <1>1, <2>1, <2>3
    <3>2. OctaveInv(rs, es, g[k - 1], k - 1)
      BY <3>1
    <3>3. OctaveInv(rs, es, g[k], k)
      BY <1>2, <3>1, <3>2, OctaveStep
    <3> QED BY <2>1, <3>3
  <2> QED BY <2>2, <2>3
<1> DEFINE octave == octave_error_counts(rs, es)
<1>4. OctaveInv(rs, es, octave, L)
  <2>1. L \in 0 .. L
    BY <1>1
  <2> QED BY <1>2, <1>3, <2>1
<1> HIDE DEF octave
<1>5. /\ octave.used \in SUBSET (DOMAIN rs) /\ octave.matched \in Nat /\ octave.errors \in Nat
      /\ Cardinality(octave.used) = octave.matched /\ octave.errors <= octave.matched
  BY <1>4 DEF OctaveInv, OctaveTyp
<1>6. {order[j] : j \in 1 .. L} = DOMAIN es
  <2>1. order \in [1 .. L -> DOMAIN es] /\ \A i \in DOMAIN es : \E k \in 1 .. L : order[k] = i
    BY OrderFacts
  <2> HIDE DEF order, L
  <2> QED BY <2>1
<1>7. PICK E \in SUBSET (DOMAIN es) :
        /\ Cardinality(E) = octave.matched
        /\ \A p \in Hits(rs, es, 0) : p[1] \in octave.used \/ p[2] \in E
  <2>1. \A p \in Hits(rs, es, 0) : p[2] \in DOMAIN es
    BY HitFacts
  <2>2. PICK E \in SUBSET {order[j] : j \in 1 .. L} :
        /\ Cardinality(E) = octave.matched
        /\ \A p \in Hits(rs, es, 0) : p[2] \in {order[j] : j \in 1 .. L} => p[1] \in octave.used \/ p[2] \in E
    BY <1>4 DEF OctaveInv
  <2> HIDE DEF order
  <2> QED BY <1>6, <2>1, <2>2
<1>8. IsFiniteSet(octave.used) /\ IsFiniteSet(E) /\ octave.matched <= Len(rs) /\ octave.matched <= Len(es)
  BY <1>5, <1>7, NoteFacts, FS_Subset
<1>9. PICK m \in SUBSET Hits(rs, es, 0) : IsMatching(m) /\ Cardinality(m) = MatchSize(Hits(rs, es, 0))
  BY HitFacts, MatchSizeFacts
<1> DEFINE u == {p \in m : p[1] \in octave.used}
           v == {p \in m : p[1] \notin octave.used}
<1>10. Cardinality(u) \in Nat /\ Cardinality(v) \in Nat /\ Cardinality(m) <= Cardinality(u) + Cardinality(v)
  <2>1. IsFiniteSet(m)
    BY HitFacts, FS_Subset
  <2>2. u \in SUBSET m /\ v \in SUBSET m /\ m = u \cup v /\ u \cap v = {}
    OBVIOUS
  <2> HIDE DEF u, v
  <2>3. IsFiniteSet(u) /\ IsFiniteSet(v)
    BY <2>1, <2>2, FS_Subset
  <2>4. Cardinality(m) = Cardinality(u) + Cardinality(v) - Cardinality(u \cap v) /\ Cardinality(u \cap v) = 0
    BY <2>2, <2>3, FS_Union, FS_EmptySet
  <2> QED BY <2>3, <2>4, FS_CardinalityType
<1>11. \A p \in m : p \in (DOMAIN rs) \X (DOMAIN es) /\ (p[1] \in octave.used \/ p[2] \in E)
  BY <1>7, HitFacts
<1>12. Cardinality(u) <= octave.matched
  <2>1. u \in SUBSET (octave.used \X (DOMAIN es)) /\ IsMatching(u)
    <3>1. u \in SUBSET (octave.used \X (DOMAIN es))
      BY <1>11
    <3> QED BY <1>9, <3>1 DEF IsMatching
  <2> HIDE DEF u
  <2>2. Cardinality(u) <= Cardinality(octave.used)
    BY <1>8, <2>1, MatchingSides, NoteFacts
  <2> QED BY <1>5, <2>2
<1>13. Cardinality(v) <= octave.matched
  <2>1. v \in SUBSET ((DOMAIN rs) \X E) /\ IsMatching(v)
    <3>1. v \in SUBSET ((DOMAIN rs) \X E)
      BY <1>11
    <3> QED BY <1>9, <3>1 DEF IsMatching
  <2> HIDE DEF v
  <2>2. Cardinality(v) <= Cardinality(E)
    BY <1>8, <2>1, MatchingSides, NoteFacts
  <2> QED BY <1>7, <2>2
<1>14. MatchSize(Hits(rs, es, 0)) <= 2 * octave.matched
  <2> HIDE DEF u, v
  <2>1. Cardinality(m) \in Nat
    BY <1>9, HitFacts, MatchSizeFacts
  <2> QED BY <1>5, <1>9, <1>10, <1>12, <1>13, <2>1
<1> QED BY <1>5, <1>8, <1>14 DEF octave

-----------------------------------------------------------------------------
\* What the first of mir_eval's matchings does with an estimated onset.
FreeTurn(rs, es, edges, e) ==
  LET free == {r \in DOMAIN rs : /\ Within(rs[r].on, es[e].on, onset_tol)
                                 /\ \A p \in edges : p[1] # r}
  IN IF free = {} THEN edges ELSE edges \cup {<<Min(free), e>>}

\* An estimate is given the first note that is near and still free, if there is one.
LEMMA FreeTurnFacts ==
  ASSUME NEW rs \in Notes, NEW es \in Notes, NEW edges, NEW e \in DOMAIN es
  PROVE  LET IsFree(r) == /\ r \in DOMAIN rs /\ Within(rs[r].on, es[e].on, onset_tol)
                          /\ \A p \in edges : p[1] # r
             next == FreeTurn(rs, es, edges, e)
         IN \/ next = edges /\ ~\E r : IsFree(r)
            \/ \E r \in DOMAIN rs : /\ IsFree(r) /\ next = edges \cup {<<r, e>>}
                                    /\ \A s : IsFree(s) => r <= s
<1> DEFINE free == {r \in DOMAIN rs : /\ Within(rs[r].on, es[e].on, onset_tol)
                                      /\ \A p \in edges : p[1] # r}
           next == FreeTurn(rs, es, edges, e)
<1>1. next = IF free = {} THEN edges ELSE edges \cup {<<Min(free), e>>}
  BY DEF FreeTurn
<1>2. free # {} => Min(free) \in free /\ \A r \in free : Min(free) <= r
  <2>1. free \in SUBSET Nat
    <3>1. DOMAIN rs \in SUBSET Nat
      BY NoteFacts
    <3> QED BY <3>1
  <2> HIDE DEF free
  <2> QED BY <2>1, MinFacts
<1> DEFINE least == Min(free)
<1>3. CASE free = {}
  <2> HIDE DEF next
  <2> QED BY <1>1, <1>3 DEF next
<1>4. CASE free # {}
  <2>1. least \in free /\ next = edges \cup {<<least, e>>} /\ \A r \in free : least <= r
    BY <1>1, <1>2, <1>4
  <2> HIDE DEF next, least
  <2> QED BY <2>1 DEF next
<1> QED BY <1>3, <1>4

\* The loop of the matching of onsets, one estimate after the other.
LEMMA FirstFreeFold ==
  ASSUME NEW rs \in Notes, NEW es \in Notes
  PROVE  \E g : /\ FirstFree(rs, es) = g[Len(es)] /\ g[0] = {}
                /\ \A k \in 1 .. Len(es) : g[k] = FreeTurn(rs, es, g[k - 1], k)
<1> DEFINE m == Len(es)
           Typ == SUBSET ((DOMAIN rs) \X (DOMAIN es))
           turn == [p \in Typ \X (1 .. m) |-> FreeTurn(rs, es, p[1], p[2])]
           idx == [e \in DOMAIN es |-> e]
           IsIt(g) == g = [s \in SUBSET (1 .. m) |->
                             IF s = {} THEN {} ELSE FreeTurn(rs, es, g[s \ {Max(s)}], idx[Max(s)])]
<1>1. m \in Nat /\ DOMAIN es = 1 .. m
  BY NoteFacts
<1>2. {} \in Typ
  OBVIOUS
<1>3. ASSUME NEW edges \in Typ, NEW e \in 1 .. m PROVE FreeTurn(rs, es, edges, e) \in Typ
  <2>1. CASE FreeTurn(rs, es, edges, e) = edges
    BY <2>1
  <2>2. CASE \E r \in DOMAIN rs : FreeTurn(rs, es, edges, e) = edges \cup {<<r, e>>}
    BY <1>1, <2>2
  <2>3. e \in DOMAIN es
    BY <1>1
  <2> QED BY <2>1, <2>2, <2>3, FreeTurnFacts
<1>4. turn \in [Typ \X (1 .. m) -> Typ]
  <2> HIDE DEF Typ, m
  <2> QED BY <1>3
<1>5. PICK h \in [SUBSET (1 .. m) -> Typ] : IsLeftFold(h, m, turn, {})
  <2> HIDE DEF turn, Typ, m, IsIt
  <2>1. \E h \in [SUBSET (1 .. m) -> Typ] : IsLeftFold(h, m, turn, {})
    BY <1>1, <1>2, <1>4, LeftFoldExists, Zenon
  <2> QED BY <2>1
<1>6. \A s \in SUBSET (1 .. m) : s # {} => Max(s) \in 1 .. m /\ idx[Max(s)] = Max(s)
  <2> SUFFICES ASSUME NEW s \in SUBSET (1 .. m), s # {} PROVE Max(s) \in 1 .. m
    BY <1>1
  <2>1. s \in SUBSET Nat /\ \A x \in s : x <= m
    BY <1>1
  <2> QED BY <1>1, <2>1, MaxFacts
<1>7. IsIt(h)
  <2>1. ASSUME NEW s \in SUBSET (1 .. m), s # {}
        PROVE  turn[<<h[s \ {Max(s)}], Max(s)>>]
                 = FreeTurn(rs, es, h[s \ {Max(s)}], idx[Max(s)])
    <3>1. h[s \ {Max(s)}] \in Typ
      OBVIOUS
    <3> HIDE DEF Typ, m
    <3> QED BY <1>6, <2>1, <3>1
  <2> HIDE DEF turn, m
  <2> QED BY <1>5, <2>1 DEF IsLeftFold
<1> DEFINE R == CHOOSE g : IsIt(g)
<1>8. IsIt(R)
  BY <1>7
<1>9. FirstFree(rs, es) = R[1 .. m]
  <2>1. DOMAIN [e \in DOMAIN es |-> e] = 1 .. m
    BY <1>1
  <2> QED BY <2>1 DEF FirstFree, FoldLeft, MapThenFoldSet, FreeTurn
<1> HIDE DEF R
<1> DEFINE g == [k \in 0 .. m |-> R[1 .. k]]
<1>10. g[0] = {}
  <2>1. 1 .. 0 = {} /\ 0 \in 0 .. m
    BY <1>1
  <2> QED BY <1>8, <2>1
<1>11. ASSUME NEW k \in 1 .. m PROVE g[k] = FreeTurn(rs, es, g[k - 1], k)
  <2>1. /\ 1 .. k \in SUBSET (1 .. m) /\ 1 .. k # {}
        /\ Max(1 .. k) = k /\ (1 .. k) \ {k} = 1 .. k - 1
    BY <1>1, PrefixFacts
  <2>2. idx[k] = k
    BY <1>1
  <2>3. R[1 .. k] = FreeTurn(rs, es, R[1 .. k - 1], k)
    <3> HIDE DEF m, idx
    <3> QED BY <1>8, <2>1, <2>2
  <2>4. k \in 0 .. m /\ k - 1 \in 0 .. m
    BY <1>1
  <2> QED BY <2>3, <2>4
<1>12. m \in 0 .. m /\ g[m] = R[1 .. m]
  BY <1>1
<1> QED BY <1>9, <1>10, <1>11, <1>12

\* The first matching is one of onsets that are near.
LEMMA FirstFreeMatches ==
  ASSUME NEW rs \in Notes, NEW es \in Notes
  PROVE  FirstFree(rs, es) \in SUBSET Near(rs, es) /\ IsMatching(FirstFree(rs, es))
<1> DEFINE L == Len(es)
<1>1. L \in Nat /\ DOMAIN es = 1 .. L
  BY NoteFacts
<1>2. PICK g : /\ FirstFree(rs, es) = g[L] /\ g[0] = {}
               /\ \A k \in 1 .. L : g[k] = FreeTurn(rs, es, g[k - 1], k)
  BY FirstFreeFold
<1> DEFINE Right(k) == g[k] \in SUBSET Near(rs, es) /\ IsMatching(g[k]) /\ \A p \in g[k] : p[2] <= k
           Bad == {k \in 0 .. L : ~Right(k)}
<1>3. Bad = {}
  <2> SUFFICES ASSUME Bad # {} PROVE FALSE
    OBVIOUS
  <2>1. PICK k \in Bad : \A x \in Bad : k <= x
    <3>1. Bad \in SUBSET Nat
      BY <1>1
    <3> HIDE DEF Bad
    <3> QED BY <3>1, LeastNumber
  <2>2. CASE k = 0
    <3>1. Right(0)
      BY <1>2 DEF IsMatching
    <3> QED BY <2>1, <2>2, <3>1
  <2>3. CASE k # 0
    <3>1. k \in 1 .. L /\ k - 1 \in 0 .. L /\ k - 1 \notin Bad
      BY <1>1, <2>1, <2>3
    <3>2. Right(k - 1) /\ g[k] = FreeTurn(rs, es, g[k - 1], k)
      BY <1>2, <3>1
    <3> DEFINE old == g[k - 1]
    <3>3. \A p \in old : p[2] <= k - 1 /\ p[2] \in 1 .. L
      BY <1>1, <3>2, HitFacts
    <3>4. CASE g[k] = old
      <4>1. \A p \in old : p[2] <= k
        BY <3>1, <3>3
      <4> HIDE DEF Bad
      <4>2. Right(k)
        BY <3>2, <3>4, <4>1
      <4> QED BY <2>1, <4>2 DEF Bad
    <3>5. CASE \E r \in DOMAIN rs : /\ Within(rs[r].on, es[k].on, onset_tol) /\ (\A p \in old : p[1] # r)
                                    /\ g[k] = old \cup {<<r, k>>}
      <4>1. PICK r \in DOMAIN rs : /\ Within(rs[r].on, es[k].on, onset_tol) /\ (\A p \in old : p[1] # r)
                                   /\ g[k] = old \cup {<<r, k>>}
        BY <3>5
      <4>2. <<r, k>> \in Near(rs, es)
        BY <1>1, <3>1, <4>1 DEF Near
      <4>3. \A p \in old : p[2] # k
        BY <3>1, <3>3
      <4> HIDE DEF old, Bad
      <4>4. \A p \in g[k] : p \in old \/ (p[1] = r /\ p[2] = k /\ p = <<r, k>>)
        BY <4>1
      <4>5. IsMatching(old) /\ old \in SUBSET Near(rs, es)
        BY <3>2 DEF old
      <4>6. IsMatching(g[k])
        <5> SUFFICES ASSUME NEW d \in g[k], NEW e \in g[k], d # e PROVE d[1] # e[1] /\ d[2] # e[2]
          BY DEF IsMatching
        <5> QED BY <4>1, <4>3, <4>4, <4>5 DEF IsMatching
      <4>7. g[k] \in SUBSET Near(rs, es)
        BY <4>1, <4>2, <4>5
      <4>8. \A p \in g[k] : p[2] <= k
        BY <3>1, <3>3, <4>4 DEF old
      <4>9. Right(k)
        BY <4>6, <4>7, <4>8
      <4> QED BY <2>1, <4>9 DEF Bad
    <3>6. k \in DOMAIN es
      BY <1>1, <3>1
    <3> HIDE DEF Bad
    <3> QED BY <3>2, <3>4, <3>5, <3>6, FreeTurnFacts
  <2> QED BY <2>2, <2>3
<1>4. L \in 0 .. L
  BY <1>1
<1>5. Right(L)
  BY <1>3, <1>4
<1> QED BY <1>2, <1>5

\* mir_eval's matching is a largest one.
LEMMA EventsMatched ==
  ASSUME NEW rs \in Notes, NEW es \in Notes
  PROVE  LET edges == match_events(rs, es) IN
         edges \in SUBSET Near(rs, es) /\ IsMatching(edges) /\ Cardinality(edges) = MatchSize(Near(rs, es))
<1> DEFINE near == Near(rs, es)
           first == FirstFree(rs, es)
           Largest(s) == IsMatching(s) /\ Cardinality(s) = MatchSize(near)
<1>1. \E s \in SUBSET near : Largest(s)
  BY HitFacts, MatchSizeFacts
<1>2. first \in SUBSET near /\ IsMatching(first)
  BY FirstFreeMatches
<1>3. match_events(rs, es) = IF Cardinality(first) = MatchSize(near) THEN first ELSE CHOOSE s \in SUBSET near : Largest(s)
  BY DEF match_events
<1> HIDE DEF near, first
<1>4. (CHOOSE s \in SUBSET near : Largest(s)) \in SUBSET near /\ Largest(CHOOSE s \in SUBSET near : Largest(s))
  <2> HIDE DEF Largest
  <2> QED BY <1>1
<1> QED BY <1>2, <1>3, <1>4 DEF near

\* The errors are as many as the matched onsets, in order and within the tolerance.
LEMMA ErrorFacts ==
  ASSUME NEW rs \in Notes, NEW es \in Notes
  PROVE  LET errors == onset_errors(rs, es)  m == MatchSize(Near(rs, es)) IN
         /\ m \in Nat /\ errors \in [1 .. m -> 0 .. onset_tol] /\ Len(errors) = m
         /\ \A j, k \in 1 .. m : j <= k => errors[j] <= errors[k]
         /\ \A k \in 1 .. m : \E p \in match_events(rs, es) : errors[k] = Apart(rs[p[1]].on, es[p[2]].on)
<1> DEFINE edges == match_events(rs, es)
           m == MatchSize(Near(rs, es))
           D == {p[1] : p \in edges}
           Partner(r) == (CHOOSE p \in edges : p[1] = r)[2]
           keys == [r \in D |-> Apart(rs[r].on, es[Partner(r)].on)]
           errors == onset_errors(rs, es)
<1>1. edges \in SUBSET Near(rs, es) /\ IsMatching(edges) /\ Cardinality(edges) = m /\ m \in Nat
  BY EventsMatched, HitFacts, MatchSizeFacts
<1> HIDE DEF edges, m
<1>2. /\ D \in SUBSET (DOMAIN rs) /\ D \in SUBSET Nat /\ IsFiniteSet(D) /\ Cardinality(D) = m
  <2>1. D \in SUBSET (DOMAIN rs) /\ edges \in SUBSET ((DOMAIN rs) \X (DOMAIN es))
    BY <1>1, HitFacts
  <2>2. Cardinality(D) = m
    BY <1>1, <2>1, MatchingSides, NoteFacts
  <2> HIDE DEF D
  <2>3. D \in SUBSET Nat /\ IsFiniteSet(D)
    BY <2>1, NoteFacts, FS_Subset
  <2> QED BY <2>1, <2>2, <2>3
<1>3. ASSUME NEW r \in D
      PROVE  keys[r] \in 0 .. onset_tol /\ \E p \in edges : keys[r] = Apart(rs[p[1]].on, es[p[2]].on)
  <2> DEFINE p == CHOOSE p \in edges : p[1] = r
  <2>1. p \in edges /\ p[1] = r
    OBVIOUS
  <2>2. keys[r] = Apart(rs[p[1]].on, es[p[2]].on)
    BY <2>1
  <2> HIDE DEF p, keys
  <2>3. Apart(rs[p[1]].on, es[p[2]].on) \in Nat /\ Apart(rs[p[1]].on, es[p[2]].on) <= onset_tol
    <3>1. p \in Near(rs, es) /\ p[1] \in DOMAIN rs /\ p[2] \in DOMAIN es
      BY <1>1, <2>1, HitFacts
    <3> QED BY <3>1, HitFacts, NoteFacts, ApartFacts
  <2> QED BY <2>1, <2>2, <2>3, MetricAssumption
<1>4. keys \in [D -> Int]
  <2>1. \A r \in D : keys[r] \in Int
    <3> HIDE DEF keys, D
    <3> QED BY <1>3
  <2>2. keys = [r \in D |-> keys[r]]
    OBVIOUS
  <2> HIDE DEF keys, D
  <2> QED BY <2>1, <2>2
<1>5. errors = Ascending(keys)
  BY DEF onset_errors, edges
<1> HIDE DEF keys, D, errors
<1>6. /\ errors \in [1 .. m -> Int]
      /\ \A k \in 1 .. m : \E r \in D : errors[k] = keys[r]
      /\ \A j, k \in 1 .. m : j <= k => errors[j] <= errors[k]
  <2>1. /\ Ascending(keys) \in [1 .. Cardinality(D) -> Int]
        /\ \A k \in 1 .. Cardinality(D) : \E r \in D : Ascending(keys)[k] = keys[r]
        /\ \A j, k \in 1 .. Cardinality(D) : j <= k => Ascending(keys)[j] <= Ascending(keys)[k]
    BY <1>2, <1>4, AscendingFacts
  <2> QED BY <1>2, <1>5, <2>1
<1>7. errors \in [1 .. m -> 0 .. onset_tol]
  BY <1>3, <1>6
<1>8. Len(errors) = m
  BY <1>1, <1>6, LenProperties
<1>9. \A k \in 1 .. m : \E p \in edges : errors[k] = Apart(rs[p[1]].on, es[p[2]].on)
  BY <1>3, <1>6
<1> QED BY <1>1, <1>6, <1>7, <1>8, <1>9 DEF errors, m, edges

-----------------------------------------------------------------------------
\* The ranks on both sides of percentile q of m errors, and how far it is between them.
LowRank(m, q) == (q * (m - 1)) \div 100 + 1

HighRank(m, q) == IF LowRank(m, q) < m THEN LowRank(m, q) + 1 ELSE m

RankRest(m, q) == (q * (m - 1)) % 100

LEMMA Interpolation ==
  ASSUME NEW l \in Nat, NEW u \in Nat, l <= u, NEW a \in 0 .. 99, NEW b \in a .. 99
  PROVE  /\ 100 * l + a * (u - l) \in Int
         /\ 100 * l <= 100 * l + a * (u - l) /\ 100 * l + a * (u - l) <= 100 * u
         /\ 100 * l + a * (u - l) <= 100 * l + b * (u - l)
<1> DEFINE d == u - l
<1>1. d \in Nat /\ 100 * d = 100 * u - 100 * l
  OBVIOUS
<1> HIDE DEF d
<1>2. /\ a * d \in Nat /\ b * d \in Nat /\ (100 - a) * d \in Nat /\ (b - a) * d \in Nat
      /\ (100 - a) * d = 100 * d - a * d /\ (b - a) * d = b * d - a * d
  BY <1>1
<1>3. a * d <= 100 * d /\ a * d <= b * d
  BY <1>1, <1>2
<1> DEFINE v == a * d
           w == b * d
<1>4. v \in Nat /\ w \in Nat /\ v <= 100 * d /\ v <= w
  BY <1>2, <1>3
<1> HIDE DEF v, w
<1>5. 100 * l + v \in Int /\ 100 * l <= 100 * l + v /\ 100 * l + v <= 100 * u /\ 100 * l + v <= 100 * l + w
  BY <1>1, <1>4
<1> QED BY <1>5 DEF v, w, d

IsBetween(x, m, t, q, low, up, rest) ==
  /\ low \in 1 .. m /\ up \in 1 .. m /\ rest \in 0 .. 99
  /\ x[low] \in Nat /\ x[up] \in Nat /\ x[low] <= x[up] /\ x[up] <= t
  /\ percentile(x, q) = 100 * x[low] + rest * (x[up] - x[low])

\* A percentile is between the two errors that its rank is between.
LEMMA PercentileBetween ==
  ASSUME NEW m \in Nat \ {0}, NEW t \in Nat, NEW x \in [1 .. m -> 0 .. t], Len(x) = m,
         \A j, k \in 1 .. m : j <= k => x[j] <= x[k], NEW q \in 0 .. 99
  PROVE  IsBetween(x, m, t, q, LowRank(m, q), HighRank(m, q), RankRest(m, q))
<1> DEFINE rank == q * (m - 1)
           low == rank \div 100 + 1
           up == IF low < m THEN low + 1 ELSE m
           d == x[up] - x[low]
           rest == rank % 100
<1>1. rank \in Nat /\ rank <= 99 * (m - 1)
  <2>1. m - 1 \in Nat /\ q \in Nat /\ q <= 99
    OBVIOUS
  <2>2. \A a, b \in Nat : a <= 99 => a * b <= 99 * b /\ a * b \in Nat
    <3> SUFFICES ASSUME NEW a \in Nat, NEW b \in Nat, a <= 99 PROVE a * b <= 99 * b /\ a * b \in Nat
      OBVIOUS
    <3>1. (99 - a) * b \in Nat
      OBVIOUS
    <3>2. (99 - a) * b = 99 * b - a * b
      OBVIOUS
    <3>3. a * b \in Nat
      OBVIOUS
    <3> QED BY <3>1, <3>2, <3>3
  <2> QED BY <2>1, <2>2
<1>2. low \in 1 .. m /\ rest \in 0 .. 99
  <2> HIDE DEF rank
  <2> QED BY <1>1
<1>3. up \in 1 .. m /\ low <= up
  <2> HIDE DEF low
  <2> QED BY <1>2
<1>4. Min({low + 1, m}) = up
  <2> HIDE DEF low
  <2>1. {low + 1, m} \in SUBSET Nat
    BY <1>2
  <2>2. Min({low + 1, m}) \in {low + 1, m} /\ Min({low + 1, m}) <= low + 1 /\ Min({low + 1, m}) <= m
    BY <2>1, MinFacts
  <2> QED BY <1>2, <2>2
<1>5. x[low] \in Nat /\ x[up] \in Nat /\ x[low] <= x[up]
  <2> HIDE DEF low, up
  <2> QED BY <1>2, <1>3
<1>7. percentile(x, q) = 100 * x[low] + rest * d
  <2>1. x # <<>>
    OBVIOUS
  <2> QED BY <1>4, <2>1 DEF percentile
<1>8. x[up] <= t
  <2> HIDE DEF low, up
  <2> QED BY <1>3
<1> HIDE DEF low, up, rest, rank
<1>9. IsBetween(x, m, t, q, low, up, rest)
  BY <1>2, <1>3, <1>5, <1>7, <1>8 DEF IsBetween
<1> QED BY <1>9 DEF low, up, rest, rank, LowRank, HighRank, RankRest

\* Percentiles are in order, and no more than the greatest error can be.
LEMMA PercentileFacts ==
  ASSUME NEW m \in Nat, NEW t \in Nat, NEW x \in [1 .. m -> 0 .. t], Len(x) = m,
         \A j, k \in 1 .. m : j <= k => x[j] <= x[k], NEW p \in 0 .. 99, NEW q \in p .. 99
  PROVE  /\ percentile(x, p) <= percentile(x, q) /\ percentile(x, q) <= 100 * t
         /\ (\A k \in 1 .. m : x[k] = 0) => percentile(x, q) = 0
<1>1. CASE m = 0
  <2>1. x = <<>>
    BY <1>1
  <2>2. percentile(x, p) = 0 /\ percentile(x, q) = 0
    BY <2>1 DEF percentile
  <2> QED BY <2>2
<1>2. CASE m # 0
  <2> DEFINE lp == LowRank(m, p)
             lq == LowRank(m, q)
             up == HighRank(m, p)
             uq == HighRank(m, q)
             a == RankRest(m, p)
             b == RankRest(m, q)
             xlp == x[lp]
             xup == x[up]
             xlq == x[lq]
             xuq == x[uq]
  <2>1. p \in 0 .. 99 /\ q \in 0 .. 99 /\ p <= q /\ m \in Nat \ {0}
    BY <1>2
  <2>2. IsBetween(x, m, t, p, lp, up, a)
    BY <2>1, PercentileBetween
  <2>3. IsBetween(x, m, t, q, lq, uq, b)
    BY <2>1, PercentileBetween
  <2>4. p * (m - 1) \in Nat /\ q * (m - 1) \in Nat /\ p * (m - 1) <= q * (m - 1)
    <3>1. m - 1 \in Nat /\ q - p \in Nat /\ p \in Nat
      BY <1>2
    <3>2. (q - p) * (m - 1) \in Nat /\ (q - p) * (m - 1) = q * (m - 1) - p * (m - 1)
      BY <3>1
    <3>3. p * (m - 1) \in Nat /\ q * (m - 1) \in Nat
      BY <3>1
    <3> QED BY <3>2, <3>3
  <2>5. lp <= lq /\ (lp = lq => a <= b /\ up = uq) /\ (lp < lq => up = lp + 1)
    <3>1. lp <= lq /\ (lp = lq => a <= b)
      BY <2>4 DEF LowRank, RankRest
    <3>2. lp = lq => up = uq
      BY DEF HighRank
    <3>3. lp < lq => up = lp + 1
      <4> HIDE DEF lp, lq
      <4>1. lp < lq => lp < m
        BY <2>2, <2>3 DEF IsBetween
      <4> QED BY <4>1 DEF HighRank, lp
    <3> QED BY <3>1, <3>2, <3>3
  <2>6. /\ xlp \in Nat /\ xup \in Nat /\ xlp <= xup /\ a \in 0 .. 99
        /\ percentile(x, p) = 100 * xlp + a * (xup - xlp)
    BY <2>2 DEF IsBetween
  <2>7. /\ xlq \in Nat /\ xuq \in Nat /\ xlq <= xuq /\ xuq <= t /\ b \in 0 .. 99
        /\ percentile(x, q) = 100 * xlq + b * (xuq - xlq)
    BY <2>3 DEF IsBetween
  <2>8. (lp = lq => xlp = xlq /\ xup = xuq) /\ (lp < lq => xup <= xlq)
    <3>1. lp = lq => xlp = xlq /\ xup = xuq
      BY <2>5
    <3>2. lp \in 1 .. m /\ up \in 1 .. m /\ lq \in 1 .. m
      BY <2>2, <2>3 DEF IsBetween
    <3> HIDE DEF lp, lq, up
    <3>3. lp < lq => up <= lq
      BY <2>5, <3>2
    <3> QED BY <3>1, <3>2, <3>3
  <2>9. lp = lq \/ lp < lq
    <3>1. lp \in Int /\ lq \in Int
      BY <2>2, <2>3 DEF IsBetween
    <3> HIDE DEF lp, lq
    <3> QED BY <2>5, <3>1
  <2>10. (\A k \in 1 .. m : x[k] = 0) => xlq = 0 /\ xuq = 0
    BY <2>3 DEF IsBetween
  <2> HIDE DEF xlp, xlq, xup, xuq, a, b, lp, lq
  <2>11. percentile(x, p) <= percentile(x, q)
    <3>1. CASE lp = lq
      <4>1. b \in a .. 99
        BY <2>5, <2>6, <2>7, <3>1
      <4>2. percentile(x, q) = 100 * xlp + b * (xup - xlp)
        BY <2>7, <2>8, <3>1
      <4>3. 100 * xlp + a * (xup - xlp) <= 100 * xlp + b * (xup - xlp)
        BY <2>6, <4>1, Interpolation
      <4> QED BY <2>6, <4>2, <4>3
    <3>2. CASE lp < lq
      <4>1. 100 * xlp + a * (xup - xlp) <= 100 * xup /\ 100 * xlp + a * (xup - xlp) \in Int
        <5>1. a \in a .. 99
          BY <2>6
        <5> QED BY <2>6, <5>1, Interpolation
      <4>2. 100 * xlq <= 100 * xlq + b * (xuq - xlq) /\ 100 * xlq + b * (xuq - xlq) \in Int
        <5>1. b \in b .. 99
          BY <2>7
        <5> QED BY <2>7, <5>1, Interpolation
      <4>3. 100 * xup <= 100 * xlq
        BY <2>6, <2>7, <2>8, <3>2
      <4> DEFINE y == 100 * xlp + a * (xup - xlp)
                 z == 100 * xlq + b * (xuq - xlq)
      <4>4. y \in Int /\ z \in Int /\ y <= 100 * xup /\ 100 * xlq <= z
        BY <4>1, <4>2
      <4> HIDE DEF y, z
      <4>5. y <= z
        BY <2>6, <2>7, <4>3, <4>4
      <4> QED BY <2>6, <2>7, <4>5 DEF y, z
    <3> QED BY <2>9, <3>1, <3>2
  <2>12. percentile(x, q) <= 100 * t
    <3>1. 100 * xlq + b * (xuq - xlq) <= 100 * xuq /\ 100 * xlq + b * (xuq - xlq) \in Int
      <4>1. b \in b .. 99
        BY <2>7
      <4> QED BY <2>7, <4>1, Interpolation
    <3> DEFINE z == 100 * xlq + b * (xuq - xlq)
    <3>2. z \in Int /\ z <= 100 * xuq
      BY <3>1
    <3> HIDE DEF z
    <3>3. z <= 100 * t
      BY <2>7, <3>2
    <3> QED BY <2>7, <3>3 DEF z
  <2>13. (\A k \in 1 .. m : x[k] = 0) => percentile(x, q) = 0
    BY <2>7, <2>10
  <2> QED BY <2>11, <2>12, <2>13
<1> QED BY <1>1, <1>2

-----------------------------------------------------------------------------
\* The pairs of a row, of the rows in C, and one of its elements.
Cells(rows, C) == {cell \in C \X Int : cell[2] \in rows[cell[1]]}

\* As many rows of the same size have that size times their number of cells.
LEMMA EqualRows ==
  ASSUME NEW rows, NEW size \in Nat, NEW C, IsFiniteSet(C),
         \A c \in C : rows[c] \in SUBSET Int /\ IsFiniteSet(rows[c]) /\ Cardinality(rows[c]) = size
  PROVE  IsFiniteSet(Cells(rows, C)) /\ Cardinality(Cells(rows, C)) = size * Cardinality(C)
<1> DEFINE Right(s) == IsFiniteSet(Cells(rows, s)) /\ Cardinality(Cells(rows, s)) = size * Cardinality(s)
           Bad == {s \in SUBSET C : ~Right(s)}
<1>1. Bad = {}
  <2> SUFFICES ASSUME Bad # {} PROVE FALSE
    OBVIOUS
  <2>1. PICK s \in Bad : \A x \in s : s \ {x} \notin Bad
    <3>1. Bad \in SUBSET (SUBSET C)
      OBVIOUS
    <3> HIDE DEF Bad
    <3> QED BY <3>1, SmallestSet
  <2>2. s \in SUBSET C /\ ~Right(s)
    OBVIOUS
  <2>3. s # {}
    <3>1. Cells(rows, {}) = {}
      BY DEF Cells
    <3>2. Cardinality({}) = 0 /\ IsFiniteSet({}) /\ size * 0 = 0
      BY FS_EmptySet
    <3>3. Right({})
      BY <3>1, <3>2
    <3> QED BY <2>2, <3>3
  <2>4. PICK c \in s : TRUE
    BY <2>3
  <2> DEFINE t == s \ {c}
             row == {c} \X rows[c]
  <2>5. Right(t)
    BY <2>1, <2>2, <2>4
  <2>6. IsFiniteSet(s) /\ Cardinality(s) = Cardinality(t) + 1 /\ Cardinality(t) \in Nat
    <3>1. IsFiniteSet(s) /\ Cardinality(s) \in Nat
      BY <2>2, FS_Subset, FS_CardinalityType
    <3>2. IsFiniteSet(t) /\ Cardinality(t) = Cardinality(s) - 1
      BY <3>1, <2>4, FS_RemoveElement
    <3>3. Cardinality(t) \in Nat
      BY <3>2, FS_CardinalityType
    <3> QED BY <3>1, <3>2, <3>3
  <2>7. rows[c] \in SUBSET Int /\ IsFiniteSet(rows[c]) /\ Cardinality(rows[c]) = size
    BY <2>2, <2>4
  <2>8. IsFiniteSet(row) /\ Cardinality(row) = size
    <3>1. IsFiniteSet({c}) /\ Cardinality({c}) = 1
      BY FS_Singleton
    <3>2. IsFiniteSet(row) /\ Cardinality(row) = Cardinality({c}) * Cardinality(rows[c])
      BY <2>7, <3>1, FS_Product
    <3> QED BY <2>7, <3>1, <3>2
  <2>9. Cells(rows, s) = Cells(rows, t) \cup row /\ Cells(rows, t) \cap row = {}
    BY <2>4, <2>7 DEF Cells
  <2> HIDE DEF t, row
  <2>10. IsFiniteSet(Cells(rows, s)) /\
         Cardinality(Cells(rows, s)) = Cardinality(Cells(rows, t)) + Cardinality(row) - Cardinality({})
    BY <2>5, <2>8, <2>9, FS_Union
  <2>11. Cardinality(Cells(rows, s)) = size * Cardinality(t) + size
    <3>1. size * Cardinality(t) \in Nat
      BY <2>6
    <3> QED BY <2>5, <2>8, <2>10, <3>1, FS_EmptySet
  <2>12. size * Cardinality(s) = size * Cardinality(t) + size
    BY <2>6
  <2> QED BY <2>2, <2>10, <2>11, <2>12
<1>2. Right(C)
  BY <1>1
<1> QED BY <1>2

\* Summed by their sizes, the rows have as many elements as they have cells.
LEMMA CellsBySize ==
  ASSUME NEW rows, NEW C, IsFiniteSet(C), \A c \in C : rows[c] \in SUBSET Int /\ IsFiniteSet(rows[c])
  PROVE  LET sizes == {Cardinality(rows[c]) : c \in C}
         IN  SumFunction([size \in sizes |-> size * Cardinality({c \in C : Cardinality(rows[c]) = size})])
               = Cardinality(Cells(rows, C))
<1> DEFINE sizes == {Cardinality(rows[c]) : c \in C}
           Of(size) == {c \in C : Cardinality(rows[c]) = size}
           f == [size \in sizes |-> size * Cardinality(Of(size))]
           Some(s) == {c \in C : Cardinality(rows[c]) \in s}
           Right(iter, s) == /\ IsFiniteSet(Cells(rows, Some(s)))
                             /\ iter[s] = Cardinality(Cells(rows, Some(s)))
<1>1. \A size \in sizes : size \in Nat
  BY FS_CardinalityType
<1>2. IsFiniteSet(sizes)
  <2> DEFINE g == [c \in C |-> Cardinality(rows[c])]
  <2>1. g \in [C -> sizes] /\ \A y \in sizes : \E x \in C : g[x] = y
    OBVIOUS
  <2> HIDE DEF g, sizes
  <2>2. g \in Surjection(C, sizes)
    BY <2>1 DEF Surjection
  <2> QED BY <2>2, FS_Surjection
<1>3. \A size \in sizes : /\ IsFiniteSet(Of(size)) /\ Cardinality(Of(size)) \in Nat
                          /\ IsFiniteSet(Cells(rows, Of(size)))
                          /\ Cardinality(Cells(rows, Of(size))) = size * Cardinality(Of(size))
  <2> TAKE size \in sizes
  <2>1. IsFiniteSet(Of(size)) /\ Cardinality(Of(size)) \in Nat
    <3>1. Of(size) \in SUBSET C
      OBVIOUS
    <3> HIDE DEF Of
    <3> QED BY <3>1, FS_Subset, FS_CardinalityType
  <2>2. \A c \in Of(size) : rows[c] \in SUBSET Int /\ IsFiniteSet(rows[c]) /\ Cardinality(rows[c]) = size
    OBVIOUS
  <2>3. size \in Nat
    BY <1>1
  <2> HIDE DEF Of, sizes
  <2> QED BY <2>1, <2>2, <2>3, EqualRows
<1>4. f \in [sizes -> Int]
  <2> HIDE DEF Of, sizes
  <2> QED BY <1>1, <1>3
<1>5. PICK iter : IsParts(iter, f, sizes)
  <2> HIDE DEF f, sizes
  <2> QED BY <1>2, <1>4, SumParts
<1> DEFINE Bad == {s \in SUBSET sizes : ~Right(iter, s)}
<1>6. Bad = {}
  <2> SUFFICES ASSUME Bad # {} PROVE FALSE
    OBVIOUS
  <2>1. PICK s \in Bad : \A x \in s : s \ {x} \notin Bad
    <3>1. Bad \in SUBSET (SUBSET sizes)
      OBVIOUS
    <3> HIDE DEF Bad, sizes
    <3> QED BY <1>2, <3>1, SmallestSet
  <2>2. s \in SUBSET sizes /\ ~Right(iter, s)
    OBVIOUS
  <2>3. s # {}
    <3>1. Some({}) = {} /\ Cells(rows, {}) = {}
      BY DEF Cells
    <3>2. Right(iter, {})
      BY <1>5, <3>1, FS_EmptySet DEF IsParts
    <3> QED BY <2>2, <3>2
  <2> DEFINE x == Picked(s)
             t == s \ {x}
  <2>4. x \in s /\ x \in sizes /\ iter[s] = f[x] + iter[t]
    <3> HIDE DEF f, sizes
    <3> QED BY <1>5, <2>2, <2>3 DEF IsParts
  <2>5. Right(iter, t)
    <3>1. t \in SUBSET sizes /\ t \notin Bad
      BY <2>1, <2>2, <2>4
    <3> HIDE DEF sizes, t, Right
    <3> QED BY <3>1
  <2>6. f[x] = Cardinality(Cells(rows, Of(x)))
    BY <1>3, <2>4
  <2> HIDE DEF x
  <2>7. Cells(rows, Some(s)) = Cells(rows, Some(t)) \cup Cells(rows, Of(x))
    BY <2>4 DEF Cells
  <2>8. Cells(rows, Some(t)) \cap Cells(rows, Of(x)) = {}
    BY DEF Cells
  <2> DEFINE u == Cells(rows, Some(t))
             v == Cells(rows, Of(x))
  <2>9. IsFiniteSet(u) /\ IsFiniteSet(v) /\ iter[t] = Cardinality(u) /\ f[x] = Cardinality(v)
    BY <1>3, <2>4, <2>5, <2>6
  <2>10. Cells(rows, Some(s)) = u \cup v /\ u \cap v = {}
    BY <2>7, <2>8
  <2> HIDE DEF u, v, f, t, Some, sizes, Bad
  <2>11. /\ IsFiniteSet(u \cup v) /\ Cardinality(u \cup v) = Cardinality(u) + Cardinality(v) - Cardinality({})
         /\ Cardinality(u) \in Nat /\ Cardinality(v) \in Nat /\ Cardinality({}) = 0
    BY <2>9, <2>10, FS_Union, FS_EmptySet, FS_CardinalityType
  <2>12. iter[s] = Cardinality(u \cup v)
    BY <2>4, <2>9, <2>11
  <2> QED BY <2>2, <2>10, <2>11, <2>12
<1>7. Right(iter, sizes)
  BY <1>6
<1>8. Some(sizes) = C
  OBVIOUS
<1>9. SumFunction(f) = iter[sizes]
  <2> HIDE DEF f, sizes
  <2> QED BY <1>5 DEF IsParts
<1> HIDE DEF f, Some, sizes
<1>10. SumFunction(f) = Cardinality(Cells(rows, C))
  BY <1>7, <1>8, <1>9
<1> QED BY <1>10 DEF f, sizes

-----------------------------------------------------------------------------
\* What _cluster_reference_chords does with a note.
ClusterTurn(rs, chords, i) ==
  IF chords # <<>> /\ rs[i].on - Last(chords).on <= chord_cluster_tol
  THEN [chords EXCEPT ![Len(chords)].pitches = @ \cup {rs[i].pitch}]
  ELSE Append(chords, [on |-> rs[i].on, pitches |-> {rs[i].pitch}])

Chord == [on : Int, pitches : SUBSET Int]

\* It joins the last chord, or starts one.
LEMMA ClusterTurnFacts ==
  ASSUME NEW rs \in Notes, NEW chords \in Seq(Chord), NEW i \in DOMAIN rs
  PROVE  LET next == ClusterTurn(rs, chords, i)  many == Len(chords) IN
         /\ next \in Seq(Chord) /\ many \in Nat
         /\ \/ /\ many # 0 /\ rs[i].on - chords[many].on <= chord_cluster_tol /\ Len(next) = many
               /\ next[many].on = chords[many].on
               /\ next[many].pitches = chords[many].pitches \cup {rs[i].pitch}
               /\ \A c \in 1 .. many : c # many => next[c] = chords[c]
            \/ /\ Len(next) = many + 1
               /\ next[many + 1].on = rs[i].on /\ next[many + 1].pitches = {rs[i].pitch}
               /\ \A c \in 1 .. many : next[c] = chords[c]
<1> DEFINE next == ClusterTurn(rs, chords, i)
           many == Len(chords)
           pitch == rs[i].pitch
<1>1. many \in Nat /\ rs[i].on \in Int /\ rs[i].pitch \in Int
  BY NoteFacts
<1>2. \A c \in 1 .. many : chords[c] \in Chord
  OBVIOUS
<1>3. CASE chords # <<>> /\ rs[i].on - Last(chords).on <= chord_cluster_tol
  <2> DEFINE b == [chords[many] EXCEPT !.pitches = @ \cup {pitch}]
  <2>1. many \in 1 .. many /\ many # 0 /\ Last(chords) = chords[many]
    <3>1. many # 0
      BY <1>3
    <3> QED BY <1>1, <3>1 DEF Last
  <2>2. chords[many] \in Chord
    BY <1>2, <2>1
  <2>3. b \in Chord /\ b.on = chords[many].on /\ b.pitches = chords[many].pitches \cup {pitch}
    <3> HIDE DEF many
    <3> QED BY <1>1, <2>2 DEF Chord
  <2>4. next = [chords EXCEPT ![many] = b]
    BY <1>3 DEF ClusterTurn
  <2> HIDE DEF b, next, many
  <2>5. next \in Seq(Chord) /\ Len(next) = many
    BY <2>1, <2>3, <2>4 DEF many
  <2>6. next[many] = b /\ \A c \in 1 .. many : c # many => next[c] = chords[c]
    BY <1>1, <2>1, <2>4 DEF many
  <2>7. rs[i].on - chords[many].on <= chord_cluster_tol
    BY <1>3, <2>1
  <2> QED BY <1>1, <2>1, <2>3, <2>5, <2>6, <2>7 DEF next, many
<1>4. CASE ~(chords # <<>> /\ rs[i].on - Last(chords).on <= chord_cluster_tol)
  <2> DEFINE b == [on |-> rs[i].on, pitches |-> {pitch}]
  <2>1. next = Append(chords, b)
    BY <1>4 DEF ClusterTurn
  <2>2. b \in Chord /\ b.on = rs[i].on /\ b.pitches = {pitch}
    BY <1>1 DEF Chord
  <2> HIDE DEF b, next
  <2>3. /\ next \in Seq(Chord) /\ Len(next) = many + 1 /\ next[many + 1] = b
        /\ \A c \in 1 .. many : next[c] = chords[c]
    BY <2>1, <2>2, AppendProperties
  <2> QED BY <1>1, <2>2, <2>3 DEF next
<1> QED BY <1>3, <1>4

\* The loop that clusters the notes of the reference, one note after the other.
LEMMA ClusterFold ==
  ASSUME NEW rs \in Notes
  PROVE  \E g : /\ _cluster_reference_chords(rs) = g[Len(rs)] /\ g[0] = <<>>
                /\ \A k \in 1 .. Len(rs) : g[k] = ClusterTurn(rs, g[k - 1], argsort(onsets(rs))[k])
<1> DEFINE m == Len(rs)
           order == argsort(onsets(rs))
           Typ == Seq(Chord)
           turn == [p \in Typ \X (1 .. m) |-> ClusterTurn(rs, p[1], order[p[2]])]
           IsIt(g) == g = [s \in SUBSET (1 .. m) |->
                             IF s = {} THEN <<>> ELSE ClusterTurn(rs, g[s \ {Max(s)}], order[Max(s)])]
<1>1. m \in Nat /\ order \in [1 .. m -> DOMAIN rs]
  BY NoteFacts, OrderFacts
<1> HIDE DEF order
<1>2. <<>> \in Typ
  OBVIOUS
<1>3. \A chords \in Typ : \A i \in DOMAIN rs : ClusterTurn(rs, chords, i) \in Typ
  BY ClusterTurnFacts
<1>4. turn \in [Typ \X (1 .. m) -> Typ]
  <2> HIDE DEF Typ, m
  <2> QED BY <1>1, <1>3
<1>5. PICK h \in [SUBSET (1 .. m) -> Typ] : IsLeftFold(h, m, turn, <<>>)
  <2> HIDE DEF turn, Typ, m, IsIt
  <2>1. \E h \in [SUBSET (1 .. m) -> Typ] : IsLeftFold(h, m, turn, <<>>)
    BY <1>1, <1>2, <1>4, LeftFoldExists, Zenon
  <2> QED BY <2>1
<1>6. IsIt(h)
  <2>1. ASSUME NEW s \in SUBSET (1 .. m), s # {}
        PROVE  turn[<<h[s \ {Max(s)}], Max(s)>>] = ClusterTurn(rs, h[s \ {Max(s)}], order[Max(s)])
    <3>1. Max(s) \in 1 .. m
      <4>1. s \in SUBSET Nat /\ \A x \in s : x <= m
        BY <1>1
      <4> QED BY <1>1, <2>1, <4>1, MaxFacts
    <3>2. h[s \ {Max(s)}] \in Typ
      OBVIOUS
    <3> HIDE DEF Typ, m
    <3> QED BY <3>1, <3>2
  <2> HIDE DEF turn, m
  <2> QED BY <1>5, <2>1 DEF IsLeftFold
<1> DEFINE R == CHOOSE g : IsIt(g)
<1>7. IsIt(R)
  BY <1>6
<1>8. _cluster_reference_chords(rs) = R[1 .. m]
  <2>1. DOMAIN order = 1 .. m
    BY <1>1
  <2> QED BY <2>1 DEF _cluster_reference_chords, FoldLeft, MapThenFoldSet, ClusterTurn, order
<1> HIDE DEF R
<1> DEFINE g == [k \in 0 .. m |-> R[1 .. k]]
<1>9. g[0] = <<>>
  <2>1. 1 .. 0 = {} /\ 0 \in 0 .. m
    BY <1>1
  <2> QED BY <1>7, <2>1
<1>10. ASSUME NEW k \in 1 .. m PROVE g[k] = ClusterTurn(rs, g[k - 1], order[k])
  <2>1. /\ 1 .. k \in SUBSET (1 .. m) /\ 1 .. k # {}
        /\ Max(1 .. k) = k /\ (1 .. k) \ {k} = 1 .. k - 1
    BY <1>1, PrefixFacts
  <2>2. R[1 .. k] = ClusterTurn(rs, R[1 .. k - 1], order[k])
    <3> HIDE DEF m
    <3> QED BY <1>7, <2>1
  <2>3. k \in 0 .. m /\ k - 1 \in 0 .. m
    BY <1>1
  <2> QED BY <2>2, <2>3
<1>11. m \in 0 .. m /\ g[m] = R[1 .. m]
  BY <1>1
<1> QED BY <1>8, <1>9, <1>10, <1>11 DEF order

-----------------------------------------------------------------------------
\* The pairs of a chord and one of its pitches.
ChordCells(chords) == Cells([c \in DOMAIN chords |-> chords[c].pitches], DOMAIN chords)

\* The chords of the first k notes, in the order of their onsets: one pair for each note
\* at most, the pitches of these notes and no others, and none far from its chord's onset.
ClusterInv(rs, chords, k) ==
  LET order == argsort(onsets(rs)) IN
  /\ chords \in Seq(Chord)
  /\ IsFiniteSet(ChordCells(chords)) /\ Cardinality(ChordCells(chords)) <= k
  /\ {cell[2] : cell \in ChordCells(chords)} = {rs[order[j]].pitch : j \in 1 .. k}
  /\ \A c \in DOMAIN chords :
       /\ \E j \in 1 .. k : chords[c].on = rs[order[j]].on
       /\ \A pitch \in chords[c].pitches : \E j \in 1 .. k :
            /\ rs[order[j]].pitch = pitch
            /\ rs[order[j]].on - chords[c].on \in 0 .. chord_cluster_tol

\* A further note joins the last chord, or opens the next one.
LEMMA ClusterStep ==
  ASSUME NEW rs \in Notes, NEW k \in 1 .. Len(rs), NEW chords, ClusterInv(rs, chords, k - 1)
  PROVE  ClusterInv(rs, ClusterTurn(rs, chords, argsort(onsets(rs))[k]), k)
<1> DEFINE order == argsort(onsets(rs))
           i == order[k]
           pitch == rs[i].pitch
           next == ClusterTurn(rs, chords, i)
           many == Len(chords)
           Gone(j) == {rs[order[l]].pitch : l \in 1 .. j}
<1>1. /\ Len(rs) \in Nat /\ order \in [1 .. Len(rs) -> DOMAIN rs]
      /\ \A j \in 1 .. k - 1 : rs[order[j]].on <= rs[i].on
  <2>1. Len(rs) \in Nat /\ order \in [1 .. Len(rs) -> DOMAIN rs]
    BY NoteFacts, OrderFacts
  <2>2. ASSUME NEW j \in 1 .. k - 1 PROVE rs[order[j]].on <= rs[order[k]].on
    <3>1. j \in 1 .. Len(rs) /\ j < k
      BY <2>1
    <3>2. rs[order[j]].on < rs[order[k]].on \/ rs[order[j]].on = rs[order[k]].on
      BY <3>1, OrderFacts
    <3>3. order[j] \in DOMAIN rs /\ order[k] \in DOMAIN rs
      BY <2>1, <3>1
    <3>4. rs[order[j]].on \in Int /\ rs[order[k]].on \in Int
      BY <3>3, NoteFacts
    <3> HIDE DEF order
    <3> QED BY <3>2, <3>4
  <2> QED BY <2>1, <2>2
<1>2. i \in DOMAIN rs /\ rs[i].on \in Int /\ pitch \in Int /\ k \in Nat /\ k - 1 \in Nat
  BY <1>1, NoteFacts
<1>3. /\ chords \in Seq(Chord) /\ IsFiniteSet(ChordCells(chords)) /\ Cardinality(ChordCells(chords)) <= k - 1
      /\ {cell[2] : cell \in ChordCells(chords)} = Gone(k - 1)
      /\ \A c \in DOMAIN chords :
           /\ \E j \in 1 .. k - 1 : chords[c].on = rs[order[j]].on
           /\ \A p \in chords[c].pitches : \E j \in 1 .. k - 1 :
                rs[order[j]].pitch = p /\ rs[order[j]].on - chords[c].on \in 0 .. chord_cluster_tol
  BY DEF ClusterInv
<1> DEFINE After == /\ \E x : ChordCells(next) = ChordCells(chords) \cup {<<x, pitch>>}
                    /\ \A c \in DOMAIN next :
                         /\ \E j \in 1 .. k : next[c].on = rs[order[j]].on
                         /\ \A p \in next[c].pitches : \E j \in 1 .. k :
                              rs[order[j]].pitch = p /\ rs[order[j]].on - next[c].on \in 0 .. chord_cluster_tol
           Meets == /\ many # 0 /\ rs[i].on - chords[many].on <= chord_cluster_tol /\ Len(next) = many
                    /\ next[many].on = chords[many].on
                    /\ next[many].pitches = chords[many].pitches \cup {pitch}
                    /\ \A c \in 1 .. many : c # many => next[c] = chords[c]
           Opens == /\ Len(next) = many + 1
                     /\ next[many + 1].on = rs[i].on /\ next[many + 1].pitches = {pitch}
                     /\ \A c \in 1 .. many : next[c] = chords[c]
<1>4. next \in Seq(Chord) /\ many \in Nat /\ (Meets \/ Opens)
  <2> HIDE DEF order, i
  <2>1. i \in DOMAIN rs /\ chords \in Seq(Chord)
    BY <1>2, <1>3
  <2> QED BY <2>1, ClusterTurnFacts
<1>5. Gone(k) = Gone(k - 1) \cup {pitch}
  <2>1. 1 .. k = (1 .. k - 1) \cup {k}
    BY <1>1
  <2> QED BY <2>1
<1>6. k \in 1 .. k /\ rs[order[k]].pitch = pitch /\ rs[order[k]].on = rs[i].on
  BY <1>2
<1>7. \A c \in DOMAIN chords : chords[c].on \in Int /\ chords[c].pitches \in SUBSET Int
  <2>1. \A c \in DOMAIN chords : chords[c] \in Chord
    BY <1>3
  <2> QED BY <2>1 DEF Chord
<1> HIDE DEF order, i, pitch, next, many, Gone
<1>8. DOMAIN chords = 1 .. many /\ DOMAIN next = 1 .. Len(next)
  BY <1>3, <1>4 DEF many
<1> DEFINE after == Len(next)
<1>9. \A cell : cell \in ChordCells(next) <=>
        cell \in (1 .. after) \X Int /\ cell[2] \in next[cell[1]].pitches
  BY <1>8 DEF ChordCells, Cells
<1>10. \A cell : cell \in ChordCells(chords) <=>
         cell \in (1 .. many) \X Int /\ cell[2] \in chords[cell[1]].pitches
  BY <1>8 DEF ChordCells, Cells
<1>11. ASSUME Meets PROVE After
  <2>1. after = many /\ many \in 1 .. many /\ 1 .. after = 1 .. many
    BY <1>4, <1>11
  <2>2. next[many].pitches = chords[many].pitches \cup {pitch} /\ \A c \in 1 .. many : c # many => next[c] = chords[c]
    BY <1>11
  <2> HIDE DEF after, Meets, Opens
  <2>3. ChordCells(next) = ChordCells(chords) \cup {<<many, pitch>>}
    <3>1. ASSUME NEW cell PROVE cell \in ChordCells(next) <=> cell \in ChordCells(chords) \/ cell = <<many, pitch>>
      <4>1. CASE cell \in (1 .. many) \X Int
        <5>1. cell[1] \in 1 .. many /\ cell = <<cell[1], cell[2]>> /\ cell[2] \in Int
          BY <4>1
        <5>2. CASE cell[1] = many
          <6>1. cell \in ChordCells(next) <=> cell[2] \in chords[many].pitches \cup {pitch}
            BY <1>9, <2>1, <2>2, <4>1, <5>2
          <6>2. cell \in ChordCells(chords) <=> cell[2] \in chords[many].pitches
            BY <1>10, <4>1, <5>2
          <6>3. cell = <<many, pitch>> <=> cell[2] = pitch
            BY <5>1, <5>2
          <6> QED BY <6>1, <6>2, <6>3
        <5>3. CASE cell[1] # many
          <6>1. next[cell[1]] = chords[cell[1]]
            BY <2>2, <5>1, <5>3
          <6>2. cell \in ChordCells(next) <=> cell[2] \in next[cell[1]].pitches
            BY <1>9, <2>1, <4>1
          <6>3. cell \in ChordCells(chords) <=> cell[2] \in chords[cell[1]].pitches
            BY <1>10, <4>1
          <6>4. cell # <<many, pitch>>
            BY <5>3
          <6> QED BY <6>1, <6>2, <6>3, <6>4
        <5> QED BY <5>2, <5>3
      <4>2. CASE cell \notin (1 .. many) \X Int
        <5>1. <<many, pitch>> \in (1 .. many) \X Int
          BY <1>2, <2>1
        <5>2. cell \notin ChordCells(next) /\ cell \notin ChordCells(chords) /\ cell # <<many, pitch>>
          BY <1>9, <1>10, <2>1, <4>2, <5>1
        <5> QED BY <5>2
      <4> QED BY <4>1, <4>2
    <3> QED BY <3>1
  <2>4. ASSUME NEW c \in DOMAIN next
        PROVE /\ \E j \in 1 .. k : next[c].on = rs[order[j]].on
              /\ \A p \in next[c].pitches : \E j \in 1 .. k :
                   rs[order[j]].pitch = p /\ rs[order[j]].on - next[c].on \in 0 .. chord_cluster_tol
    <3>1. \A j \in 1 .. k - 1 : j \in 1 .. k
      BY <1>2
    <3>2. c \in 1 .. many /\ c \in DOMAIN chords
      BY <1>8, <2>1 DEF after
    <3>3. CASE c # many
      <4>1. next[c] = chords[c]
        BY <2>2, <3>2, <3>3
      <4>2. \E j \in 1 .. k : chords[c].on = rs[order[j]].on
        BY <1>3, <3>1, <3>2
      <4>3. ASSUME NEW p \in chords[c].pitches
            PROVE \E j \in 1 .. k :
                   rs[order[j]].pitch = p /\ rs[order[j]].on - chords[c].on \in 0 .. chord_cluster_tol
        BY <1>3, <3>1, <3>2
      <4> QED BY <4>1, <4>2, <4>3
    <3>4. CASE c = many
      <4>1. next[c].on = chords[c].on /\ next[c].pitches = chords[c].pitches \cup {pitch}
        BY <1>11, <3>4 DEF Meets
      <4>2. PICK l \in 1 .. k - 1 : chords[c].on = rs[order[l]].on
        BY <1>3, <3>2
      <4>3. chords[c].on <= rs[i].on /\ chords[c].on \in Int
        BY <1>1, <1>7, <3>2, <4>2
      <4>4. rs[i].on - chords[c].on <= chord_cluster_tol
        BY <1>11, <3>4 DEF Meets
      <4>5. rs[order[k]].on - next[c].on \in 0 .. chord_cluster_tol
        BY <1>2, <1>6, <4>1, <4>3, <4>4, MetricAssumption
      <4>6. ASSUME NEW p \in chords[c].pitches
            PROVE \E j \in 1 .. k :
                   rs[order[j]].pitch = p /\ rs[order[j]].on - next[c].on \in 0 .. chord_cluster_tol
        BY <1>3, <3>1, <3>2, <4>1
      <4>7. \E j \in 1 .. k : next[c].on = rs[order[j]].on
        BY <3>1, <4>1, <4>2
      <4>8. ASSUME NEW p \in next[c].pitches, p \notin chords[c].pitches
            PROVE \E j \in 1 .. k :
                   rs[order[j]].pitch = p /\ rs[order[j]].on - next[c].on \in 0 .. chord_cluster_tol
        <5>1. p = pitch
          BY <4>1, <4>8
        <5> QED BY <1>6, <4>5, <5>1
      <4> QED BY <4>6, <4>7, <4>8
    <3> QED BY <3>3, <3>4
  <2> QED BY <2>3, <2>4
<1>12. ASSUME Opens PROVE After
  <2>1. after = many + 1 /\ 1 .. after = (1 .. many) \cup {many + 1} /\ many + 1 \notin 1 .. many
    BY <1>4, <1>12
  <2>2. /\ next[many + 1].on = rs[i].on /\ next[many + 1].pitches = {pitch}
        /\ \A c \in 1 .. many : next[c] = chords[c]
    BY <1>12
  <2> HIDE DEF after, Meets, Opens
  <2>3. ChordCells(next) = ChordCells(chords) \cup {<<many + 1, pitch>>}
    <3>1. ASSUME NEW cell PROVE cell \in ChordCells(next) <=> cell \in ChordCells(chords) \/ cell = <<many + 1, pitch>>
      <4>1. CASE cell \in (1 .. many) \X Int
        <5>1. cell[1] \in 1 .. many
          BY <4>1
        <5>2. next[cell[1]] = chords[cell[1]] /\ cell # <<many + 1, pitch>>
          BY <2>1, <2>2, <5>1
        <5>3. cell \in ChordCells(next) <=> cell[2] \in next[cell[1]].pitches
          BY <1>9, <2>1, <4>1
        <5>4. cell \in ChordCells(chords) <=> cell[2] \in chords[cell[1]].pitches
          BY <1>10, <4>1
        <5> QED BY <5>2, <5>3, <5>4
      <4>2. CASE cell \notin (1 .. many) \X Int
        <5>1. cell \notin ChordCells(chords)
          BY <1>10, <4>2
        <5>2. ASSUME cell \in ChordCells(next) PROVE cell = <<many + 1, pitch>>
          <6>1. cell \in (1 .. after) \X Int /\ cell[2] \in next[cell[1]].pitches
            BY <1>9, <5>2
          <6>2. cell[1] = many + 1 /\ cell = <<cell[1], cell[2]>>
            BY <2>1, <4>2, <6>1
          <6> QED BY <2>2, <6>1, <6>2
        <5>3. <<many + 1, pitch>> \in ChordCells(next)
          BY <1>2, <1>9, <2>1, <2>2
        <5> QED BY <5>1, <5>2, <5>3
      <4> QED BY <4>1, <4>2
    <3> QED BY <3>1
  <2>4. ASSUME NEW c \in DOMAIN next
        PROVE /\ \E j \in 1 .. k : next[c].on = rs[order[j]].on
              /\ \A p \in next[c].pitches : \E j \in 1 .. k :
                   rs[order[j]].pitch = p /\ rs[order[j]].on - next[c].on \in 0 .. chord_cluster_tol
    <3>1. \A j \in 1 .. k - 1 : j \in 1 .. k
      BY <1>2
    <3>2. CASE c \in 1 .. many
      <4>1. next[c] = chords[c] /\ c \in DOMAIN chords
        BY <1>8, <2>2, <3>2
      <4>2. \E j \in 1 .. k : chords[c].on = rs[order[j]].on
        BY <1>3, <3>1, <4>1
      <4>3. ASSUME NEW p \in chords[c].pitches
            PROVE \E j \in 1 .. k :
                   rs[order[j]].pitch = p /\ rs[order[j]].on - chords[c].on \in 0 .. chord_cluster_tol
        BY <1>3, <3>1, <4>1
      <4> QED BY <4>1, <4>2, <4>3
    <3>3. CASE c = many + 1
      <4>1. next[c].on = rs[order[k]].on /\ next[c].pitches = {pitch}
        BY <1>6, <2>2, <3>3
      <4>2. rs[order[k]].on - next[c].on \in 0 .. chord_cluster_tol
        BY <1>2, <1>6, <4>1, MetricAssumption
      <4> QED BY <1>6, <4>1, <4>2
    <3>4. c \in 1 .. many \/ c = many + 1
      BY <1>8, <2>1 DEF after
    <3> QED BY <3>2, <3>3, <3>4
  <2> QED BY <2>3, <2>4
<1> HIDE DEF Meets, Opens
<1>13. PICK x : ChordCells(next) = ChordCells(chords) \cup {<<x, pitch>>}
  BY <1>4, <1>11, <1>12
<1>14. IsFiniteSet(ChordCells(next)) /\ Cardinality(ChordCells(next)) <= k
  <2>1. Cardinality(ChordCells(chords)) \in Nat
    BY <1>3, FS_CardinalityType
  <2> DEFINE cells == ChordCells(chords)
             cell == <<x, pitch>>
  <2>a. IsFiniteSet(cells) /\ Cardinality(cells) \in Nat /\ ChordCells(next) = cells \cup {cell}
    BY <1>3, <1>13, <2>1
  <2>2. /\ IsFiniteSet(ChordCells(next))
        /\ \/ Cardinality(ChordCells(next)) = Cardinality(ChordCells(chords))
           \/ Cardinality(ChordCells(next)) = Cardinality(ChordCells(chords)) + 1
    <3> HIDE DEF cells, cell
    <3>1. IsFiniteSet(cells \cup {cell}) /\ (Cardinality(cells \cup {cell}) = Cardinality(cells) \/ Cardinality(cells \cup {cell}) = Cardinality(cells) + 1)
      BY <2>a, FS_AddElement
    <3> QED BY <2>a, <3>1 DEF cells
  <2>3. Cardinality(ChordCells(chords)) <= k - 1
    BY <1>3
  <2> DEFINE before == Cardinality(ChordCells(chords))
             now == Cardinality(ChordCells(next))
  <2>4. now = before \/ now = before + 1
    BY <2>2
  <2>5. before \in Nat /\ before <= k - 1
    BY <2>1, <2>3
  <2> HIDE DEF before, now
  <2>6. now <= k
    BY <1>2, <2>4, <2>5
  <2> QED BY <2>2, <2>6 DEF now
<1>15. {cell[2] : cell \in ChordCells(next)} = Gone(k)
  <2>1. <<x, pitch>>[2] = pitch
    OBVIOUS
  <2>2. {cell[2] : cell \in ChordCells(next)} = {cell[2] : cell \in ChordCells(chords)} \cup {pitch}
    BY <1>13, <2>1
  <2> QED BY <1>3, <1>5, <2>2
<1>16. \A c \in DOMAIN next :
         /\ \E j \in 1 .. k : next[c].on = rs[order[j]].on
         /\ \A p \in next[c].pitches : \E j \in 1 .. k :
              rs[order[j]].pitch = p /\ rs[order[j]].on - next[c].on \in 0 .. chord_cluster_tol
  BY <1>4, <1>11, <1>12
<1>17. ClusterInv(rs, next, k)
  BY <1>4, <1>14, <1>15, <1>16 DEF ClusterInv, order, Gone
<1> QED BY <1>17 DEF next, i, order

\* The chords of all notes.
LEMMA ClusterFacts ==
  ASSUME NEW rs \in Notes
  PROVE  ClusterInv(rs, _cluster_reference_chords(rs), Len(rs))
<1> DEFINE m == Len(rs)
           order == argsort(onsets(rs))
<1>1. m \in Nat
  BY NoteFacts
<1>2. PICK g : /\ _cluster_reference_chords(rs) = g[m] /\ g[0] = <<>>
               /\ \A k \in 1 .. m : g[k] = ClusterTurn(rs, g[k - 1], order[k])
  BY ClusterFold
<1>3. ClusterInv(rs, g[0], 0)
  <2>1. ChordCells(<<>>) = {}
    BY DEF ChordCells, Cells
  <2>2. <<>> \in Seq(Chord) /\ IsFiniteSet({}) /\ Cardinality({}) = 0 /\ 1 .. 0 = {} /\ DOMAIN <<>> = {}
    BY FS_EmptySet
  <2> QED BY <1>2, <2>1, <2>2 DEF ClusterInv
<1> DEFINE Bad == {k \in 0 .. m : ~ClusterInv(rs, g[k], k)}
<1>4. Bad = {}
  <2> SUFFICES ASSUME Bad # {} PROVE FALSE
    OBVIOUS
  <2>1. PICK k \in Bad : \A j \in Bad : k <= j
    <3>1. Bad \in SUBSET Nat
      BY <1>1
    <3> HIDE DEF Bad
    <3> QED BY <3>1, LeastNumber
  <2>2. k \in 1 .. m /\ k - 1 \in 0 .. m /\ k - 1 \in Nat
    BY <1>1, <1>3
  <2>3. ClusterInv(rs, g[k - 1], k - 1)
    BY <1>1, <2>1, <2>2
  <2>4. ClusterInv(rs, ClusterTurn(rs, g[k - 1], order[k]), k)
    BY <2>2, <2>3, ClusterStep
  <2>5. ClusterInv(rs, g[k], k)
    BY <1>2, <2>2, <2>4
  <2> QED BY <2>5
<1>5. m \in 0 .. m
  BY <1>1
<1> QED BY <1>2, <1>4, <1>5

\* The chords that are counted hold each pitch that the notes have, and no more pitches
\* than there are notes.
LEMMA ChordFacts ==
  ASSUME NEW rs \in Notes, NEW es \in Notes
  PROVE  LET chords == chord_recall_counts(rs, es)
             sum == SumFunction([size \in DOMAIN chords |-> size * chords[size].total])
         IN  sum <= Len(rs) /\ Cardinality({rs[i].pitch : i \in DOMAIN rs}) <= sum
<1> DEFINE chords == _cluster_reference_chords(rs)
           counts == chord_recall_counts(rs, es)
           order == argsort(onsets(rs))
           m == Len(rs)
           rows == [c \in DOMAIN chords |-> chords[c].pitches]
           C == DOMAIN chords
           cells == ChordCells(chords)
           pitches == {rs[i].pitch : i \in DOMAIN rs}
<1>1. /\ chords \in Seq(Chord) /\ IsFiniteSet(cells) /\ Cardinality(cells) <= m
      /\ {cell[2] : cell \in cells} = {rs[order[j]].pitch : j \in 1 .. m}
  <2>1. ClusterInv(rs, chords, m)
    BY ClusterFacts
  <2> HIDE DEF chords, m
  <2> QED BY <2>1 DEF ClusterInv
<1>2. {cell[2] : cell \in cells} = pitches
  <2>1. /\ order \in [1 .. m -> DOMAIN rs]
        /\ \A i \in DOMAIN rs : \E k \in 1 .. m : order[k] = i
    BY OrderFacts
  <2> HIDE DEF order, m, cells
  <2>2. \A j \in 1 .. m : rs[order[j]].pitch \in pitches
    BY <2>1
  <2>3. \A i \in DOMAIN rs : \E j \in 1 .. m : rs[order[j]].pitch = rs[i].pitch
    BY <2>1
  <2>4. {rs[order[j]].pitch : j \in 1 .. m} = pitches
    BY <2>2, <2>3
  <2> QED BY <1>1, <2>4
<1> HIDE DEF chords, counts, order
<1>3. IsFiniteSet(C)
  <2>1. C = 1 .. Len(chords) /\ Len(chords) \in Nat
    BY <1>1
  <2> QED BY <2>1, FS_Interval
<1>4. \A c \in C : rows[c] = chords[c].pitches /\ rows[c] \in SUBSET Int
  <2>1. \A c \in C : chords[c] \in Chord
    BY <1>1
  <2> QED BY <2>1 DEF Chord
<1>5. \A c \in C : IsFiniteSet(rows[c])
  <2> TAKE c \in C
  <2> DEFINE row == {cell \in cells : cell[1] = c}
             f == [cell \in row |-> cell[2]]
  <2>1. IsFiniteSet(row)
    <3>1. row \in SUBSET cells
      OBVIOUS
    <3> HIDE DEF row, cells
    <3> QED BY <1>1, <3>1, FS_Subset
  <2>2. \A cell \in row : cell[2] \in rows[c]
    BY DEF ChordCells, Cells
  <2>3. \A pitch \in rows[c] : <<c, pitch>> \in row
    BY <1>4 DEF ChordCells, Cells
  <2> HIDE DEF row, rows, cells
  <2>4. f \in [row -> rows[c]] /\ \A y \in rows[c] : \E x \in row : f[x] = y
    <3>1. \A y \in rows[c] : <<c, y>> \in row /\ f[<<c, y>>] = y
      BY <2>3
    <3> QED BY <2>2, <3>1
  <2> HIDE DEF f
  <2>5. f \in Surjection(row, rows[c])
    BY <2>4 DEF Surjection
  <2> QED BY <2>1, <2>5, FS_Surjection
<1> DEFINE sizes == {Cardinality(rows[c]) : c \in C}
           sum == SumFunction([size \in sizes |-> size * Cardinality({c \in C : Cardinality(rows[c]) = size})])
<1>6. sum = Cardinality(cells)
  <2> HIDE DEF rows, C
  <2>1. sum = Cardinality(Cells(rows, C))
    BY <1>3, <1>4, <1>5, CellsBySize
  <2> QED BY <2>1 DEF ChordCells, rows, C
<1>7. SumFunction([size \in DOMAIN counts |-> size * counts[size].total]) = sum
  <2>1. DOMAIN counts = sizes
    BY DEF counts, chord_recall_counts, chords
  <2>2. \A size \in sizes : counts[size].total = Cardinality({c \in C : Cardinality(rows[c]) = size})
    <3> TAKE size \in sizes
    <3>1. {c \in C : Cardinality(rows[c]) = size} = {c \in C : Cardinality(chords[c].pitches) = size}
      OBVIOUS
    <3>2. size \in {Cardinality(chords[c].pitches) : c \in DOMAIN chords}
      OBVIOUS
    <3>3. counts[size].total = Cardinality({c \in C : Cardinality(chords[c].pitches) = size})
      <4> HIDE DEF sizes
      <4> QED BY <3>2 DEF counts, chord_recall_counts, chords
    <3> QED BY <3>1, <3>3
  <2> HIDE DEF sizes, C, rows
  <2> QED BY <2>1, <2>2
<1>8. Cardinality(pitches) <= Cardinality(cells)
  <2> DEFINE f == [cell \in cells |-> cell[2]]
  <2>1. f \in [cells -> pitches] /\ \A y \in pitches : \E x \in cells : f[x] = y
    <3> HIDE DEF cells, pitches
    <3>1. \A y \in pitches : \E x \in cells : x[2] = y
      BY <1>2
    <3>2. \A x \in cells : x[2] \in pitches
      BY <1>2
    <3> QED BY <3>1, <3>2
  <2> HIDE DEF f, cells, pitches
  <2>2. f \in Surjection(cells, pitches)
    BY <2>1 DEF Surjection
  <2> QED BY <1>1, <2>2, FS_Surjection
<1> HIDE DEF sum, cells, pitches, m
<1>9. SumFunction([size \in DOMAIN counts |-> size * counts[size].total]) <= m
      /\ Cardinality(pitches) <= SumFunction([size \in DOMAIN counts |-> size * counts[size].total])
  BY <1>1, <1>6, <1>7, <1>8
<1> QED BY <1>9 DEF counts, m, pitches

-----------------------------------------------------------------------------
\* Two lists of notes, one after the other.
LEMMA ConcatNotes ==
  ASSUME NEW a \in Notes, NEW b \in Notes
  PROVE  /\ a \o b \in Notes /\ Len(a \o b) = Len(a) + Len(b)
         /\ \A k \in 1 .. Len(a) + Len(b) : (a \o b)[k] = IF k <= Len(a) THEN a[k] ELSE b[k - Len(a)]
<1> DEFINE S == [on : Int, off : Int, pitch : Int]
<1>1. a \in Seq(S) /\ b \in Seq(S)
  BY DEF Notes
<1> HIDE DEF S
<1>2. /\ a \o b \in Seq(S) /\ Len(a \o b) = Len(a) + Len(b)
      /\ \A k \in 1 .. Len(a) + Len(b) : (a \o b)[k] = IF k <= Len(a) THEN a[k] ELSE b[k - Len(a)]
  BY <1>1, ConcatProperties
<1> QED BY <1>2 DEF Notes, S

\* The first k instruments of a file, their notes one after the other.
IsFlat(g, midi, k) == g = [i \in 1 .. k |-> IF i = 1 THEN midi[i] ELSE g[i - 1] \o midi[i]]

\* One more instrument of a file, its notes after those of the others.
LEMMA ExtendFlat ==
  ASSUME NEW midi, NEW k \in Nat, NEW g, IsFlat(g, midi, k)
  PROVE  \E h : IsFlat(h, midi, k + 1)
<1> DEFINE b == IF k = 0 THEN midi[k + 1] ELSE g[k] \o midi[k + 1]
           h == [i \in 1 .. k + 1 |-> IF i = k + 1 THEN b ELSE g[i]]
           Turn(f, i) == IF i = 1 THEN midi[i] ELSE f[i - 1] \o midi[i]
<1>1. \A i \in 1 .. k : h[i] = g[i] /\ g[i] = Turn(g, i)
  <2> TAKE i \in 1 .. k
  <2>1. i \in 1 .. k + 1 /\ i # k + 1
    OBVIOUS
  <2>2. g[i] = Turn(g, i)
    BY DEF IsFlat
  <2> QED BY <2>1, <2>2
<1>2. h[k + 1] = b
  OBVIOUS
<1>3. ASSUME NEW i \in 1 .. k + 1 PROVE Turn(g, i) = Turn(h, i)
  <2> SUFFICES ASSUME i # 1 PROVE Turn(g, i) = Turn(h, i)
    OBVIOUS
  <2>1. i - 1 \in 1 .. k
    OBVIOUS
  <2> HIDE DEF h
  <2> QED BY <1>1, <2>1
<1>4. ASSUME NEW i \in 1 .. k + 1 PROVE h[i] = Turn(h, i)
  <2>1. CASE i = k + 1
    <3>1. b = Turn(g, k + 1)
      OBVIOUS
    <3> HIDE DEF h, b, Turn
    <3> QED BY <1>2, <1>3, <2>1, <3>1
  <2>2. CASE i # k + 1
    <3>1. i \in 1 .. k
      BY <2>2
    <3> HIDE DEF h, Turn
    <3> QED BY <1>1, <1>3, <3>1
  <2> QED BY <2>1, <2>2
<1>5. DOMAIN h = 1 .. k + 1 /\ h = [i \in DOMAIN h |-> h[i]]
  OBVIOUS
<1>6. h = [i \in 1 .. k + 1 |-> Turn(h, i)]
  <2> HIDE DEF h, Turn
  <2> QED BY <1>4, <1>5
<1>7. IsFlat(h, midi, k + 1)
  <2> HIDE DEF h
  <2> QED BY <1>6 DEF IsFlat
<1> QED BY <1>7

\* The notes of any number of instruments can be put one after the other.
LEMMA FlatExists ==
  ASSUME NEW midi, NEW m \in Nat
  PROVE  \E g : IsFlat(g, midi, m)
<1> DEFINE Stuck == {k \in Nat : ~\E g : IsFlat(g, midi, k)}
<1> SUFFICES ASSUME Stuck # {} PROVE FALSE
  OBVIOUS
<1>1. PICK k \in Stuck : \A x \in Stuck : k <= x
  <2>1. Stuck \in SUBSET Nat
    OBVIOUS
  <2> HIDE DEF Stuck
  <2> QED BY <2>1, LeastNumber
<1>2. CASE k = 0
  <2> DEFINE h == [i \in 1 .. 0 |-> <<>>]
  <2>1. IsFlat(h, midi, 0)
    BY DEF IsFlat
  <2> QED BY <1>1, <1>2, <2>1
<1>3. CASE k # 0
  <2>1. k - 1 \in Nat /\ k - 1 \notin Stuck /\ (k - 1) + 1 = k
    BY <1>1, <1>3
  <2>2. PICK g : IsFlat(g, midi, k - 1)
    BY <2>1
  <2>3. \E h : IsFlat(h, midi, (k - 1) + 1)
    BY <2>1, <2>2, ExtendFlat
  <2> QED BY <1>1, <2>1, <2>3
<1> QED BY <1>2, <1>3

\* The notes of a MIDI file are notes.
LEMMA MidiNotes ==
  ASSUME NEW midi \in Seq(Notes)
  PROVE  load_midi_notes(midi) \in Notes
<1> DEFINE L == Len(midi)
           rows == FlattenSeq(midi)
           R == CHOOSE g : IsFlat(g, midi, L)
<1>1. L \in Nat /\ \A i \in 1 .. L : midi[i] \in Notes
  <2> HIDE DEF Notes
  <2> QED OBVIOUS
<1>2. IsFlat(R, midi, L)
  <2>1. \E g : IsFlat(g, midi, L)
    BY <1>1, FlatExists
  <2> HIDE DEF L
  <2> QED BY <2>1
<1>3. rows = IF L = 0 THEN midi ELSE R[L]
  BY DEF FlattenSeq, IsFlat
<1> HIDE DEF R
<1>4. \A i \in 1 .. L : R[i] = IF i = 1 THEN midi[i] ELSE R[i - 1] \o midi[i]
  BY <1>2 DEF IsFlat
<1> DEFINE Bad == {i \in 1 .. L : R[i] \notin Notes}
<1>5. Bad = {}
  <2> SUFFICES ASSUME Bad # {} PROVE FALSE
    OBVIOUS
  <2>1. PICK i \in Bad : \A j \in Bad : i <= j
    <3>1. Bad \in SUBSET Nat
      BY <1>1
    <3> HIDE DEF Bad
    <3> QED BY <3>1, LeastNumber
  <2>2. i \in 1 .. L /\ R[i] \notin Notes
    OBVIOUS
  <2>3. i # 1
    BY <1>1, <1>4, <2>2
  <2>4. i - 1 \in 1 .. L /\ i - 1 \notin Bad
    BY <1>1, <2>1, <2>2, <2>3
  <2>5. R[i - 1] \in Notes /\ midi[i] \in Notes
    BY <1>1, <2>2, <2>4
  <2>6. R[i - 1] \o midi[i] \in Notes
    BY <2>5, ConcatNotes
  <2> QED BY <1>4, <2>2, <2>3, <2>6
<1> HIDE DEF L, rows
<1>6. rows \in Notes
  <2>1. CASE L = 0
    <3>1. midi = <<>>
      BY <2>1 DEF L
    <3>2. <<>> \in Notes
      BY DEF Notes
    <3> QED BY <1>3, <2>1, <3>1, <3>2
  <2>2. CASE L # 0
    <3>1. L \in 1 .. L
      BY <1>1, <2>2
    <3> QED BY <1>3, <1>5, <2>2, <3>1
  <2> QED BY <2>1, <2>2
<1> DEFINE order == argsort(onsets(rows))
           Row == [on : Int, off : Int, pitch : Int]
           notes == [k \in DOMAIN rows |-> rows[order[k]]]
<1>7. order \in [1 .. Len(rows) -> DOMAIN rows] /\ DOMAIN rows = 1 .. Len(rows) /\ Len(rows) \in Nat
  <2>1. DOMAIN rows = 1 .. Len(rows) /\ Len(rows) \in Nat
    BY <1>6, NoteFacts
  <2>2. order \in [1 .. Len(rows) -> DOMAIN rows]
    BY <1>6, OrderFacts
  <2> QED BY <2>1, <2>2
<1>8. \A i \in DOMAIN rows : rows[i] \in Row
  <2>1. rows \in Seq(Row)
    BY <1>6 DEF Notes
  <2> HIDE DEF Row
  <2> QED BY <2>1
<1>9. notes \in [1 .. Len(rows) -> Row]
  <2> HIDE DEF order, Row
  <2> QED BY <1>7, <1>8
<1>10. notes \in Seq(Row)
  <2> HIDE DEF notes, Row
  <2> QED BY <1>7, <1>9
<1> QED BY <1>10 DEF load_midi_notes, Notes, rows

-----------------------------------------------------------------------------
\* The metrics of one pair.
RawOf(rs, es, cents) ==
  [counts |-> note_confusion_counts(rs, es, cents), onset_errors |-> onset_errors(rs, es),
   chords |-> chord_recall_counts(rs, es), octave |-> octave_error_counts(rs, es),
   ref |-> rs, est |-> es]

\* The hits that are counted are at most the notes, the estimates, and the matched onsets.
LEMMA CountFacts ==
  ASSUME NEW rs \in Notes, NEW es \in Notes, NEW cents \in Nat
  PROVE  LET tp == MatchSize(Hits(rs, es, cents)) IN
         /\ tp \in Nat /\ tp <= Len(rs) /\ tp <= Len(es) /\ tp <= MatchSize(Near(rs, es))
<1> DEFINE tp == MatchSize(Hits(rs, es, cents))
<1>1. /\ Hits(rs, es, cents) \in SUBSET Near(rs, es) /\ IsFiniteSet(Hits(rs, es, cents)) /\ IsFiniteSet(Near(rs, es))
      /\ Near(rs, es) \in SUBSET ((DOMAIN rs) \X (DOMAIN es))
  BY HitFacts
<1>2. tp \in Nat
  BY <1>1, MatchSizeFacts
<1>3. PICK edges \in SUBSET Hits(rs, es, cents) : IsMatching(edges) /\ Cardinality(edges) = tp
  <2> HIDE DEF tp
  <2>1. \E edges \in SUBSET Hits(rs, es, cents) : IsMatching(edges) /\ Cardinality(edges) = MatchSize(Hits(rs, es, cents))
    BY <1>1, MatchSizeFacts
  <2> QED BY <2>1 DEF tp
<1>4. edges \in SUBSET Near(rs, es) /\ edges \in SUBSET ((DOMAIN rs) \X (DOMAIN es))
  BY <1>1
<1> HIDE DEF tp
<1>5. Cardinality(edges) <= MatchSize(Near(rs, es))
  BY <1>1, <1>3, <1>4, MatchSizeFacts
<1>6. Cardinality(edges) <= Cardinality(DOMAIN rs) /\ Cardinality(edges) <= Cardinality(DOMAIN es)
  <2>1. IsFiniteSet(DOMAIN rs) /\ IsFiniteSet(DOMAIN es)
    BY NoteFacts
  <2> QED BY <1>3, <1>4, <2>1, MatchingSides
<1>7. Cardinality(DOMAIN rs) = Len(rs) /\ Cardinality(DOMAIN es) = Len(es)
  BY NoteFacts
<1>8. tp <= Len(rs) /\ tp <= Len(es) /\ tp <= MatchSize(Near(rs, es))
  BY <1>3, <1>5, <1>6, <1>7
<1> QED BY <1>2, <1>8 DEF tp

\* The metrics of a pair agree.
LEMMA PairAgrees ==
  ASSUME NEW rs \in Notes, NEW es \in Notes, NEW cents \in Nat
  PROVE  LET raw == RawOf(rs, es, cents)  errors == raw.onset_errors  sizes == DOMAIN raw.chords IN
         /\ cents < 100 => raw.counts.tp <= 2 * raw.octave.matched
         /\ raw.counts.tp <= Len(errors)
         /\ raw.octave.matched <= Min({Len(raw.ref), Len(raw.est)})
         /\ raw.octave.errors <= raw.octave.matched
         /\ percentile(errors, 50) <= percentile(errors, 95)
         /\ percentile(errors, 95) <= percentile(errors, 99)
         /\ percentile(errors, 99) <= 100 * onset_tol
         /\ SumFunction([size \in sizes |-> size * raw.chords[size].total]) <= Len(raw.ref)
         /\ SumFunction([size \in sizes |-> size * raw.chords[size].total]) >=
              Cardinality({raw.ref[i].pitch : i \in DOMAIN raw.ref})
<1> DEFINE errors == onset_errors(rs, es)
           octave == octave_error_counts(rs, es)
           chords == chord_recall_counts(rs, es)
           tp == MatchSize(Hits(rs, es, cents))
           near == MatchSize(Near(rs, es))
           sum == SumFunction([size \in DOMAIN chords |-> size * chords[size].total])
           pitches == {rs[i].pitch : i \in DOMAIN rs}
<1>1. /\ RawOf(rs, es, cents).onset_errors = errors /\ RawOf(rs, es, cents).octave = octave
      /\ RawOf(rs, es, cents).chords = chords /\ RawOf(rs, es, cents).ref = rs /\ RawOf(rs, es, cents).est = es
      /\ RawOf(rs, es, cents).counts.tp = tp
  BY DEF RawOf, note_confusion_counts
<1>2. tp <= near /\ Len(rs) \in Nat /\ Len(es) \in Nat
  BY CountFacts, NoteFacts
<1>3. /\ octave.matched \in Nat /\ octave.errors <= octave.matched
      /\ octave.matched <= Len(rs) /\ octave.matched <= Len(es)
      /\ cents < 100 => tp <= 2 * octave.matched
  BY OctaveBounds, SemitoneHits
<1>4. /\ near \in Nat /\ errors \in [1 .. near -> 0 .. onset_tol] /\ Len(errors) = near
      /\ \A j, k \in 1 .. near : j <= k => errors[j] <= errors[k]
  BY ErrorFacts
<1>5. sum <= Len(rs) /\ Cardinality(pitches) <= sum
  BY ChordFacts
<1> HIDE DEF errors, octave, chords, tp, near
<1>6. octave.matched <= Min({Len(rs), Len(es)})
  <2>1. Min({Len(rs), Len(es)}) \in {Len(rs), Len(es)}
    <3>1. {Len(rs), Len(es)} \in SUBSET Nat /\ {Len(rs), Len(es)} # {}
      BY <1>2
    <3> QED BY <3>1, MinFacts
  <2> QED BY <1>3, <2>1
<1>7. /\ percentile(errors, 50) <= percentile(errors, 95)
      /\ percentile(errors, 95) <= percentile(errors, 99)
      /\ percentile(errors, 99) <= 100 * onset_tol
  <2>1. onset_tol \in Nat /\ 50 \in 0 .. 99 /\ 95 \in 0 .. 99 /\ 95 \in 50 .. 99 /\ 99 \in 95 .. 99
    BY MetricAssumption
  <2>2. percentile(errors, 50) <= percentile(errors, 95)
    BY <1>4, <2>1, PercentileFacts
  <2>3. percentile(errors, 95) <= percentile(errors, 99) /\ percentile(errors, 99) <= 100 * onset_tol
    BY <1>4, <2>1, PercentileFacts
  <2> QED BY <2>2, <2>3
<1> DEFINE raw == RawOf(rs, es, cents)
<1> HIDE DEF sum, pitches
<1>8. /\ sum = SumFunction([size \in DOMAIN raw.chords |-> size * raw.chords[size].total])
      /\ pitches = {raw.ref[i].pitch : i \in DOMAIN raw.ref}
  <2> HIDE DEF raw
  <2>1. raw.chords = chords /\ raw.ref = rs
    BY <1>1 DEF raw
  <2> QED BY <2>1 DEF sum, pitches
<1>9. Cardinality(pitches) <= Len(rs) => (sum >= Cardinality(pitches) <=> Cardinality(pitches) <= sum)
  OBVIOUS
<1> HIDE DEF raw
<1>10. /\ raw.onset_errors = errors /\ raw.octave = octave /\ raw.counts.tp = tp
       /\ Len(raw.ref) = Len(rs) /\ Len(raw.est) = Len(es)
  BY <1>1 DEF raw
<1>11. /\ cents < 100 => raw.counts.tp <= 2 * raw.octave.matched
       /\ raw.counts.tp <= Len(raw.onset_errors)
       /\ raw.octave.matched <= Min({Len(raw.ref), Len(raw.est)})
       /\ raw.octave.errors <= raw.octave.matched
       /\ percentile(raw.onset_errors, 50) <= percentile(raw.onset_errors, 95)
       /\ percentile(raw.onset_errors, 95) <= percentile(raw.onset_errors, 99)
       /\ percentile(raw.onset_errors, 99) <= 100 * onset_tol
  BY <1>2, <1>3, <1>4, <1>6, <1>7, <1>10
<1>12. /\ SumFunction([size \in DOMAIN raw.chords |-> size * raw.chords[size].total]) <= Len(raw.ref)
       /\ SumFunction([size \in DOMAIN raw.chords |-> size * raw.chords[size].total]) >=
            Cardinality({raw.ref[i].pitch : i \in DOMAIN raw.ref})
  <2>1. sum <= Len(raw.ref) /\ sum >= Cardinality(pitches)
    BY <1>5, <1>10
  <2> QED BY <1>8, <2>1
<1> QED BY <1>11, <1>12 DEF raw

-----------------------------------------------------------------------------
\* A quotient of sums is between the least and the greatest of the quotients summed.
LEMMA MeanBetween ==
  ASSUME NEW D, IsFiniteSet(D), NEW f \in [D -> Int], NEW w \in [D -> Int], NEW I \in SUBSET D, I # {},
         \A x \in D \ I : f[x] = 0 /\ w[x] = 0
  PROVE  /\ \E x \in I : f[x] * SumFunction(w) <= SumFunction(f) * w[x]
         /\ \E x \in I : SumFunction(f) * w[x] <= f[x] * SumFunction(w)
<1> DEFINE A == SumFunction(f)
           B == SumFunction(w)
           h == [x \in D |-> B * f[x] + (-A) * w[x]]
           l == [x \in D |-> A * w[x] + (-B) * f[x]]
<1>1. A \in Int /\ B \in Int
  BY SumPositive
<1> HIDE DEF A, B
<1>2. \A x \in D : f[x] \in Int /\ w[x] \in Int
  OBVIOUS
<1>3. \A a, b, c, d \in Int : a * b + (-c) * d \in Int
  OBVIOUS
<1>4. h \in [D -> Int] /\ l \in [D -> Int]
  BY <1>1, <1>2, <1>3
<1>5. -A \in Int /\ -B \in Int
  BY <1>1
<1>6. SumFunction(h) = B * A + (-A) * B
  <2>1. \A x \in D : h[x] = B * f[x] + (-A) * w[x]
    OBVIOUS
  <2> HIDE DEF h
  <2>2. SumFunction(h) = B * SumFunction(f) + (-A) * SumFunction(w)
    <3> DEFINE minus == -A
    <3>1. minus \in Int /\ IsCombination(h, D, B, f, minus, w)
      BY <1>5, <2>1 DEF IsCombination
    <3> HIDE DEF minus
    <3>2. SumFunction(h) = B * SumFunction(f) + minus * SumFunction(w)
      BY <1>1, <1>4, <3>1, SumLinear
    <3> QED BY <3>2 DEF minus
  <2> QED BY <2>2 DEF A, B
<1>7. SumFunction(l) = A * B + (-B) * A
  <2>1. \A x \in D : l[x] = A * w[x] + (-B) * f[x]
    OBVIOUS
  <2> HIDE DEF l
  <2>2. SumFunction(l) = A * SumFunction(w) + (-B) * SumFunction(f)
    <3> DEFINE minus == -B
    <3>1. minus \in Int /\ IsCombination(l, D, A, w, minus, f)
      BY <1>5, <2>1 DEF IsCombination
    <3> HIDE DEF minus
    <3>2. SumFunction(l) = A * SumFunction(w) + minus * SumFunction(f)
      BY <1>1, <1>4, <3>1, SumLinear
    <3> QED BY <3>2 DEF minus
  <2> QED BY <2>2 DEF A, B
<1>8. SumFunction(h) = 0 /\ SumFunction(l) = 0
  <2>1. \A a, b \in Int : a * b + (-b) * a = 0
    OBVIOUS
  <2> QED BY <1>1, <1>6, <1>7, <2>1
<1>9. PICK y \in I : TRUE
  OBVIOUS
<1>10. \E x \in I : f[x] * B <= A * w[x]
  <2> SUFFICES ASSUME \A x \in I : ~(f[x] * B <= A * w[x]) PROVE FALSE
    OBVIOUS
  <2>1. \A x \in I : h[x] > 0
    <3> TAKE x \in I
    <3>1. x \in D /\ f[x] \in Int /\ w[x] \in Int /\ ~(f[x] * B <= A * w[x])
      OBVIOUS
    <3>2. \A a, b, c, d \in Int : ~(a * b <= c * d) => b * a + (-c) * d > 0
      OBVIOUS
    <3> QED BY <1>1, <3>1, <3>2
  <2>2. \A x \in D \ I : h[x] = 0
    <3> TAKE x \in D \ I
    <3>1. f[x] = 0 /\ w[x] = 0 /\ B * 0 + (-A) * 0 = 0
      BY <1>1
    <3> QED BY <3>1
  <2>3. (\A x \in D : h[x] >= 0) /\ y \in D /\ h[y] > 0
    <3> HIDE DEF h
    <3>1. \A x \in D : h[x] \in Int
      BY <1>4
    <3> QED BY <2>1, <2>2, <1>9, <3>1
  <2> HIDE DEF h
  <2>4. SumFunction(h) > 0
    BY <1>4, <2>3, SumPositive
  <2> QED BY <1>8, <2>4
<1>11. \E x \in I : A * w[x] <= f[x] * B
  <2> SUFFICES ASSUME \A x \in I : ~(A * w[x] <= f[x] * B) PROVE FALSE
    OBVIOUS
  <2>1. \A x \in I : l[x] > 0
    <3> TAKE x \in I
    <3>1. x \in D /\ f[x] \in Int /\ w[x] \in Int /\ ~(A * w[x] <= f[x] * B)
      OBVIOUS
    <3>2. \A a, b, c, d \in Int : ~(c * d <= a * b) => c * d + (-b) * a > 0
      OBVIOUS
    <3> QED BY <1>1, <3>1, <3>2
  <2>2. \A x \in D \ I : l[x] = 0
    <3> TAKE x \in D \ I
    <3>1. f[x] = 0 /\ w[x] = 0 /\ A * 0 + (-B) * 0 = 0
      BY <1>1
    <3> QED BY <3>1
  <2>3. (\A x \in D : l[x] >= 0) /\ y \in D /\ l[y] > 0
    <3> HIDE DEF l
    <3>1. \A x \in D : l[x] \in Int
      BY <1>4
    <3> QED BY <2>1, <2>2, <1>9, <3>1
  <2> HIDE DEF l
  <2>4. SumFunction(l) > 0
    BY <1>4, <2>3, SumPositive
  <2> QED BY <1>8, <2>4
<1> QED BY <1>10, <1>11 DEF A, B

-----------------------------------------------------------------------------
\* What was scored, and is being scored: note arrays of the reference and the estimate.
NoteArrays == {notes \in Notes : IsNoteArray(notes)}

RawsAt(cents) == {RawOf(rs, es, cents) : rs \in NoteArrays, es \in NoteArrays}

ScoredInv ==
  /\ InCall => ref \in Notes
  /\ phase = "score" => est \in Notes
  /\ raws \in Seq(RawsAt(setting.cents))

\* The notes of a take, and those of its pitch track.
LEMMA TakeNotes ==
  ASSUME NEW take \in Takes, NEW ready
  PROVE  /\ take.notes \in Notes
         /\ (IF ready THEN take.pyin ELSE YinTrack(take.yin)) \in Tracks
         /\ LET notes == PitchTrackToNotes(IF ready THEN take.pyin ELSE YinTrack(take.yin)) IN
            (\A i \in DOMAIN notes : notes[i].pitch # NaN) => notes \in Notes
<1>1. take.notes \in Notes /\ take.pyin \in Tracks
  BY DEF Takes, Tracks
<1>2. YinTrack(take.yin) \in Tracks
  <2> DEFINE S == [pitch : Int, curve : Seq(Int)]
             frames == take.yin
  <2>1. frames \in Seq(S)
    BY DEF Takes
  <2>2. \A frame \in S : frame.pitch \in Int
    OBVIOUS
  <2> HIDE DEF frames, S
  <2>3. Len(frames) \in Nat /\ DOMAIN frames = 1 .. Len(frames) /\ \A i \in DOMAIN frames : frames[i] \in S
    BY <2>1
  <2>4. YinTrack(frames) \in [1 .. Len(frames) -> Int \cup {Unvoiced, NaN}]
    BY <2>2, <2>3 DEF YinTrack
  <2>5. YinTrack(frames) \in Tracks
    BY <2>3, <2>4 DEF Tracks
  <2> QED BY <2>5 DEF frames
<1> DEFINE f0 == IF ready THEN take.pyin ELSE YinTrack(take.yin)
<1>3. f0 \in Tracks
  BY <1>1, <1>2
<1> HIDE DEF f0
<1> DEFINE notes == PitchTrackToNotes(f0)
<1>4. (\A i \in DOMAIN notes : notes[i].pitch # NaN) => notes \in Notes
  <2> HAVE \A i \in DOMAIN notes : notes[i].pitch # NaN
  <2> DEFINE Heard == [on : Int, off : Int, pitch : Int \cup {NaN}]
             Note == [on : Int, off : Int, pitch : Int]
  <2>1. notes \in TrackNotes
    BY <1>3, TrackNotesFacts DEF GoodNotes
  <2> HIDE DEF notes
  <2>2. \A note \in Heard : note.pitch # NaN => note \in Note
    OBVIOUS
  <2>3. notes \in Seq(Heard)
    BY <2>1 DEF TrackNotes
  <2> HIDE DEF Heard, Note
  <2>4. Len(notes) \in Nat /\ DOMAIN notes = 1 .. Len(notes) /\ \A i \in DOMAIN notes : notes[i] \in Heard
    BY <2>3
  <2>5. \A i \in 1 .. Len(notes) : notes[i] \in Note
    BY <2>2, <2>4
  <2>6. notes = [i \in 1 .. Len(notes) |-> notes[i]]
    BY <2>3
  <2>7. notes \in Seq(Note)
    BY <2>4, <2>5, <2>6
  <2> QED BY <2>7 DEF Note, Notes
<1> HIDE DEF notes
<1> QED BY <1>1, <1>3, <1>4 DEF f0, notes

\* A run starts with nothing scored.
LEMMA ScoredInit == EvaluationInit => ScoredInv
BY DEF EvaluationInit, ScoredInv, InCall

\* Each step keeps what is scored, and what is to be pooled, within the types.
LEMMA ScoredStep == ScoredInv /\ CurrentInv /\ CurrentInv' /\ [EvaluationNext]_evaluationVars => ScoredInv'
<1> SUFFICES ASSUME ScoredInv, CurrentInv, CurrentInv', [EvaluationNext]_evaluationVars PROVE ScoredInv'
  OBVIOUS
<1>a. /\ raws \in Seq(RawsAt(setting.cents)) /\ setting \in Settings
      /\ at \in Nat \ {0} /\ held' \in SUBSET Takes
  BY DEF ScoredInv, CurrentInv, HarnessTypes
<1>c. setting' = setting
  BY DEF EvaluationNext, evaluationVars, Construct, Call, Lookup, ReadAudio, RunYinCli, TrackPitch,
    PredictBasicPitch, Score, Finish, Rewrite
<1>b. EstimateIsCurrent' /\ TrackIsOfHeard'
  BY DEF CurrentInv
<1>1. CASE Construct
  <2>1. phase' \in {"raised", "call"} /\ raws' = raws
    BY <1>1 DEF Construct
  <2> QED BY <1>a, <1>c, <2>1 DEF ScoredInv, InCall
<1>2. CASE Call
  <2>1. /\ ref' = load_midi_notes(setting.corpus[at].midi) /\ raws' = raws
        /\ phase' \in {"score", "key", "raised", "read"} /\ at <= Len(setting.corpus)
        /\ phase' = "score" => est' = load_midi_notes(setting.corpus[1].midi)
    <3>1. Wrapper \in Wrappers
      BY <1>a, EvaluationAssumption DEF Wrapper
    <3> QED BY <1>2, <3>1 DEF Call, Echo, Wrappers
  <2> DEFINE Pairs == [audio : DOMAIN setting.takes, midi : Seq(Notes)]
             corpus == setting.corpus
  <2>2. corpus \in Seq(Pairs)
    BY <1>a, EvaluationAssumption
  <2>3. 1 \in 1 .. Len(corpus) /\ at \in 1 .. Len(corpus)
    <3>1. Len(corpus) \in Nat
      BY <2>2
    <3> QED BY <1>a, <2>1, <3>1
  <2> HIDE DEF corpus
  <2>4. corpus[1].midi \in Seq(Notes) /\ corpus[at].midi \in Seq(Notes)
    <3>1. corpus[1] \in Pairs /\ corpus[at] \in Pairs
      <4> HIDE DEF Pairs
      <4> QED BY <2>2, <2>3
    <3> QED BY <3>1
  <2>5. ref' \in Notes /\ (phase' = "score" => est' \in Notes)
    BY <2>1, <2>4, MidiNotes DEF corpus
  <2> QED BY <1>a, <1>c, <2>1, <2>5 DEF ScoredInv
<1>3. CASE Lookup
  <2>1. ref' = ref /\ raws' = raws /\ phase = "key" /\ Wrapper' = Wrapper
    BY <1>3 DEF Lookup, Wrapper
  <2>2. Wrapper = "engine-yin"
    BY <2>1 DEF CurrentInv, KeyIsOfItsTime
  <2>3. phase' = "score" => est' \in Notes
    <3> HAVE phase' = "score"
    <3>1. \E take \in held' : est' = take.notes
      BY <1>b, <2>1, <2>2 DEF EstimateIsCurrent
    <3> QED BY <1>a, <3>1, TakeNotes
  <2> QED BY <1>a, <1>c, <2>1, <2>3 DEF ScoredInv, InCall
<1>4. CASE ReadAudio
  <2>1. ref' = ref /\ raws' = raws /\ phase = "read" /\ phase' = "detect"
    BY <1>4 DEF ReadAudio
  <2> QED BY <1>a, <1>c, <2>1 DEF ScoredInv, InCall
<1>5. CASE RunYinCli
  <2>1. ref' = ref /\ raws' = raws /\ phase = "detect" /\ Wrapper' = Wrapper /\ Wrapper = "engine-yin"
    BY <1>5 DEF RunYinCli, Wrapper
  <2>2. phase' = "score" => est' \in Notes
    <3> HAVE phase' = "score"
    <3>1. \E take \in held' : est' = take.notes
      BY <1>b, <2>1 DEF EstimateIsCurrent
    <3> QED BY <1>a, <3>1, TakeNotes
  <2> QED BY <1>a, <1>c, <2>1, <2>2 DEF ScoredInv, InCall
<1>6. CASE TrackPitch
  <2>1. ref' = ref /\ raws' = raws /\ phase = "detect" /\ Wrapper' = Wrapper /\ Wrapper = "pyin-baseline"
    BY <1>6 DEF TrackPitch, Wrapper
  <2>2. phase' = "score" => est' \in Notes
    <3> HAVE phase' = "score"
    <3>1. /\ heard' \in Takes /\ \A i \in DOMAIN est' : est'[i].pitch # NaN
          /\ est' = PitchTrackToNotes(IF setting'.ready THEN heard'.pyin ELSE YinTrack(heard'.yin))
      BY <1>a, <1>b, <2>1 DEF TrackIsOfHeard
    <3> QED BY <3>1, TakeNotes
  <2> QED BY <1>a, <1>c, <2>1, <2>2 DEF ScoredInv, InCall
<1>7. CASE PredictBasicPitch
  <2>1. ref' = ref /\ raws' = raws /\ phase = "detect" /\ Wrapper' = Wrapper /\ Wrapper = "basic-pitch"
    BY <1>7 DEF PredictBasicPitch, Wrapper
  <2>2. phase' = "score" => est' \in Notes
    <3> HAVE phase' = "score"
    <3>1. \E take \in held' : est' = take.notes
      BY <1>b, <2>1 DEF EstimateIsCurrent
    <3> QED BY <1>a, <3>1, TakeNotes
  <2> QED BY <1>a, <1>c, <2>1, <2>2 DEF ScoredInv, InCall
<1>8. CASE Score
  <2>1. phase' \in {"call", "raised"} /\ phase = "score"
    BY <1>8 DEF Score
  <2>2. raws' \in Seq(RawsAt(setting.cents))
    <3>1. CASE IsNoteArray(ref) /\ IsNoteArray(est)
      <4>1. raws' = Append(raws, RawOf(ref, est, setting.cents))
        BY <1>8, <3>1 DEF Score, evaluate_pair_raw, RawOf
      <4>2. ref \in NoteArrays /\ est \in NoteArrays
        BY <2>1, <3>1 DEF ScoredInv, InCall, NoteArrays
      <4>3. RawOf(ref, est, setting.cents) \in RawsAt(setting.cents)
        BY <4>2 DEF RawsAt
      <4> QED BY <1>a, <4>1, <4>3, AppendProperties
    <3>2. CASE ~(IsNoteArray(ref) /\ IsNoteArray(est))
      BY <1>8, <1>a, <3>2 DEF Score
    <3> QED BY <3>1, <3>2
  <2> QED BY <1>c, <2>1, <2>2 DEF ScoredInv, InCall
<1>9. CASE Finish
  <2>1. phase' = "done" /\ raws' = raws
    BY <1>9 DEF Finish
  <2> QED BY <1>a, <1>c, <2>1 DEF ScoredInv, InCall
<1>10. CASE Rewrite
  <2>1. phase' = phase /\ ref' = ref /\ est' = est /\ raws' = raws
    BY <1>10 DEF Rewrite
  <2> QED BY <1>c, <2>1 DEF ScoredInv, InCall
<1>11. CASE UNCHANGED evaluationVars
  BY <1>11 DEF evaluationVars, ScoredInv, InCall
<1> QED BY <1>1, <1>2, <1>3, <1>4, <1>5, <1>6, <1>7, <1>8, <1>9, <1>10, <1>11 DEF EvaluationNext

\* What a run scores are lists of notes, and what it pools are the counts of such lists:
\* the loader of MIDI files and every wrapper return no other.
THEOREM ScoredHolds == EvaluationSpec => []ScoredInv
<1>1. ScoredInv /\ CurrentInv /\ CurrentInv' /\ [EvaluationNext]_evaluationVars => ScoredInv'
  BY ScoredStep
<1> QED BY ScoredInit, <1>1, CurrentHolds, PTL DEF EvaluationSpec

-----------------------------------------------------------------------------
IsSum(h, D, f, g) == \A x \in D : h[x] = f[x] + g[x]

\* The sum of the sums, term by term.
LEMMA SumOfSums ==
  ASSUME NEW D, IsFiniteSet(D), NEW f \in [D -> Int], NEW g \in [D -> Int], NEW h \in [D -> Int],
         IsSum(h, D, f, g)
  PROVE  SumFunction(h) = SumFunction(f) + SumFunction(g)
<1>1. IsCombination(h, D, 1, f, 1, g)
  <2>1. \A x \in D : f[x] \in Int /\ g[x] \in Int
    OBVIOUS
  <2> QED BY <2>1 DEF IsCombination, IsSum
<1>2. SumFunction(h) = 1 * SumFunction(f) + 1 * SumFunction(g)
  BY <1>1, SumLinear
<1>3. SumFunction(f) \in Int /\ SumFunction(g) \in Int
  BY SumPositive
<1> QED BY <1>2, <1>3

\* The score of the corpus is between those of its pairs.
Pool(rr) ==
  [tp |-> SumFunction([i \in DOMAIN rr |-> rr[i].counts.tp]),
   fp |-> SumFunction([i \in DOMAIN rr |-> rr[i].counts.fp]),
   fn |-> SumFunction([i \in DOMAIN rr |-> rr[i].counts.fn])]

\* The F1 of the pooled counts of all files is between the worst and the best of the files.
LEMMA PooledBetween ==
  ASSUME NEW cents \in Nat, NEW rr \in Seq(RawsAt(cents))
  PROVE  LET scores == {F1(rr[i].counts) : i \in {j \in DOMAIN rr : rr[j].ref \o rr[j].est # <<>>}}
             Below(a, b) == a[1] * b[2] <= b[1] * a[2]
         IN scores # {} => \E worst, best \in scores : Below(worst, F1(Pool(rr))) /\ Below(F1(Pool(rr)), best)
<1> DEFINE D == DOMAIN rr
           I == {j \in D : rr[j].ref \o rr[j].est # <<>>}
           scores == {F1(rr[i].counts) : i \in I}
           Below(a, b) == a[1] * b[2] <= b[1] * a[2]
           tp == [i \in D |-> rr[i].counts.tp]
           fp == [i \in D |-> rr[i].counts.fp]
           fn == [i \in D |-> rr[i].counts.fn]
           f == [i \in D |-> 2 * tp[i]]
           e == [i \in D |-> fp[i] + fn[i]]
           w == [i \in D |-> f[i] + e[i]]
<1>1. IsFiniteSet(D)
  BY FS_Interval
<1>2. ASSUME NEW i \in D
      PROVE  /\ tp[i] \in Nat /\ fp[i] \in Nat /\ fn[i] \in Nat
             /\ rr[i].counts = [tp |-> tp[i], fp |-> fp[i], fn |-> fn[i]]
             /\ i \in I <=> w[i] # 0
  <2>1. rr[i] \in RawsAt(cents)
    OBVIOUS
  <2>2. PICK rs \in Notes, es \in Notes : rr[i] = RawOf(rs, es, cents)
    BY <2>1 DEF RawsAt, NoteArrays
  <2> DEFINE hits == MatchSize(Hits(rs, es, cents))
  <2>3. hits \in Nat /\ hits <= Len(rs) /\ hits <= Len(es) /\ Len(rs) \in Nat /\ Len(es) \in Nat
    BY CountFacts, NoteFacts
  <2>4. /\ rr[i].counts = [tp |-> hits, fp |-> Len(es) - hits, fn |-> Len(rs) - hits]
        /\ rr[i].ref = rs /\ rr[i].est = es
    BY <2>2 DEF RawOf, note_confusion_counts
  <2> HIDE DEF hits
  <2>5. tp[i] = hits /\ fp[i] = Len(es) - hits /\ fn[i] = Len(rs) - hits
    BY <2>4
  <2>6. i \in I <=> rs \o es # <<>>
    BY <2>4
  <2>7. rs \o es # <<>> <=> Len(rs) + Len(es) # 0
    <3>1. rs \o es \in Notes /\ Len(rs \o es) = Len(rs) + Len(es)
      BY ConcatNotes
    <3>2. rs \o es # <<>> <=> Len(rs \o es) # 0
      BY <3>1 DEF Notes
    <3> QED BY <3>1, <3>2
  <2>8. w[i] = 2 * tp[i] + (fp[i] + fn[i])
    OBVIOUS
  <2> HIDE DEF tp, fp, fn, w, I
  <2>9. w[i] = Len(rs) + Len(es)
    BY <2>3, <2>5, <2>8
  <2> QED BY <2>3, <2>4, <2>5, <2>6, <2>7, <2>9
<1> SUFFICES ASSUME I # {}
             PROVE  \E worst, best \in scores : Below(worst, F1(Pool(rr))) /\ Below(F1(Pool(rr)), best)
  OBVIOUS
<1>3. \A i \in D : /\ tp[i] \in Int /\ tp[i] >= 0 /\ fp[i] \in Int /\ fn[i] \in Int
                   /\ f[i] = 2 * tp[i] /\ e[i] = fp[i] + fn[i] /\ w[i] = f[i] + e[i]
  <2> TAKE i \in D
  <2>1. f[i] = 2 * tp[i] /\ e[i] = fp[i] + fn[i] /\ w[i] = f[i] + e[i]
    OBVIOUS
  <2>2. tp[i] \in Nat /\ fp[i] \in Nat /\ fn[i] \in Nat
    BY <1>2
  <2> HIDE DEF tp, fp, fn, f, e, w
  <2> QED BY <2>1, <2>2
<1>4. /\ tp \in [D -> Int] /\ fp \in [D -> Int] /\ fn \in [D -> Int]
      /\ f \in [D -> Int] /\ e \in [D -> Int] /\ w \in [D -> Int]
  BY <1>3
<1>5. /\ Pool(rr) = [tp |-> SumFunction(tp), fp |-> SumFunction(fp), fn |-> SumFunction(fn)]
  BY DEF Pool
<1>6. I \in SUBSET D
  OBVIOUS
<1>7. \A x \in I : \E score \in scores : score = F1(rr[x].counts)
  OBVIOUS
<1> HIDE DEF D, I, tp, fp, fn, f, e, w, scores
<1> DEFINE P == SumFunction(tp)
           A == SumFunction(f)
           B == SumFunction(w)
<1>8. P \in Int /\ P >= 0 /\ ((\E x \in D : tp[x] > 0) => P > 0) /\ A \in Int /\ B \in Int
      /\ SumFunction(fp) \in Int /\ SumFunction(fn) \in Int /\ SumFunction(e) \in Int
  BY <1>1, <1>3, <1>4, SumPositive
<1>9. A = 2 * P /\ B = 2 * P + SumFunction(fp) + SumFunction(fn)
  <2>1. IsSum(f, D, tp, tp) /\ IsSum(e, D, fp, fn) /\ IsSum(w, D, f, e)
    <3>1. \A i \in D : tp[i] \in Int /\ f[i] = 2 * tp[i] /\ e[i] = fp[i] + fn[i] /\ w[i] = f[i] + e[i]
      BY <1>3
    <3> QED BY <3>1 DEF IsSum
  <2>2. SumFunction(f) = SumFunction(tp) + SumFunction(tp)
    <3>1. IsFiniteSet(D) /\ f \in [D -> Int] /\ tp \in [D -> Int] /\ tp \in [D -> Int] /\ IsSum(f, D, tp, tp)
      BY <1>1, <1>4, <2>1
    <3> QED BY <3>1, SumOfSums
  <2>3. SumFunction(e) = SumFunction(fp) + SumFunction(fn)
    <3>1. IsFiniteSet(D) /\ e \in [D -> Int] /\ fp \in [D -> Int] /\ fn \in [D -> Int] /\ IsSum(e, D, fp, fn)
      BY <1>1, <1>4, <2>1
    <3> QED BY <3>1, SumOfSums
  <2>4. SumFunction(w) = SumFunction(f) + SumFunction(e)
    <3>1. IsFiniteSet(D) /\ w \in [D -> Int] /\ f \in [D -> Int] /\ e \in [D -> Int] /\ IsSum(w, D, f, e)
      BY <1>1, <1>4, <2>1
    <3> QED BY <3>1, SumOfSums
  <2> QED BY <1>8, <2>2, <2>3, <2>4
<1>10. \A x \in D \ I : f[x] = 0 /\ w[x] = 0
  <2> TAKE x \in D \ I
  <2>1. /\ w[x] = 0 /\ w[x] = f[x] + e[x] /\ f[x] = 2 * tp[x] /\ e[x] = fp[x] + fn[x]
        /\ tp[x] \in Nat /\ fp[x] \in Nat /\ fn[x] \in Nat
    BY <1>2, <1>3
  <2> QED BY <2>1
<1>a. (\E x \in I : f[x] * B <= A * w[x]) /\ (\E x \in I : A * w[x] <= f[x] * B)
  BY <1>1, <1>4, <1>6, <1>10, MeanBetween, Zenon
<1>11. PICK x \in I : f[x] * B <= A * w[x]
  BY <1>a
<1>12. PICK y \in I : A * w[y] <= f[y] * B
  BY <1>a
<1> HIDE DEF P, A, B
<1>13. F1(Pool(rr)) = IF P = 0 THEN <<0, 1>> ELSE <<A, B>>
  BY <1>5, <1>9 DEF F1, P
<1>14. \A i \in D : F1(rr[i].counts) = IF tp[i] = 0 THEN <<0, 1>> ELSE <<f[i], w[i]>>
  <2> TAKE i \in D
  <2>1. F1(rr[i].counts) = IF tp[i] = 0 THEN <<0, 1>> ELSE <<2 * tp[i], 2 * tp[i] + fp[i] + fn[i]>>
    <3>1. rr[i].counts = [tp |-> tp[i], fp |-> fp[i], fn |-> fn[i]]
      BY <1>2
    <3> QED BY <3>1 DEF F1
  <2>2. 2 * tp[i] = f[i] /\ 2 * tp[i] + fp[i] + fn[i] = w[i]
    BY <1>3
  <2> QED BY <2>1, <2>2
<1>15. \A i \in D : f[i] \in Int /\ w[i] \in Int /\ f[i] = 2 * tp[i] /\ tp[i] \in Nat /\ w[i] >= 0
  <2> TAKE i \in D
  <2>1. /\ w[i] = f[i] + e[i] /\ f[i] = 2 * tp[i] /\ e[i] = fp[i] + fn[i]
        /\ tp[i] \in Nat /\ fp[i] \in Nat /\ fn[i] \in Nat
    BY <1>2, <1>3
  <2> QED BY <2>1
<1>16. x \in D /\ y \in D /\ w[x] > 0 /\ w[y] > 0
  <2>1. x \in D /\ y \in D
    BY <1>6
  <2>2. w[x] # 0 /\ w[y] # 0
    BY <1>2, <2>1
  <2>3. w[x] \in Int /\ w[y] \in Int /\ w[x] >= 0 /\ w[y] >= 0
    BY <1>15, <2>1
  <2> QED BY <2>1, <2>2, <2>3
<1>17. Below(F1(rr[x].counts), F1(Pool(rr)))
  <2>1. CASE P = 0
    <3>1. tp[x] = 0
      BY <1>8, <1>15, <1>16, <2>1
    <3>2. F1(rr[x].counts) = <<0, 1>> /\ F1(Pool(rr)) = <<0, 1>>
      BY <1>13, <1>14, <1>16, <2>1, <3>1
    <3> QED BY <3>2
  <2>2. CASE P # 0 /\ tp[x] = 0
    <3>1. F1(rr[x].counts) = <<0, 1>> /\ F1(Pool(rr)) = <<A, B>>
      BY <1>13, <1>14, <1>16, <2>2
    <3>2. 0 * B <= A * 1
      BY <1>8, <1>9
    <3> QED BY <3>1, <3>2
  <2>3. CASE P # 0 /\ tp[x] # 0
    <3>1. F1(rr[x].counts) = <<f[x], w[x]>> /\ F1(Pool(rr)) = <<A, B>>
      BY <1>13, <1>14, <1>16, <2>3
    <3> QED BY <1>11, <3>1
  <2> QED BY <2>1, <2>2, <2>3
<1>18. Below(F1(Pool(rr)), F1(rr[y].counts))
  <2>1. CASE P = 0
    <3>1. tp[y] = 0
      BY <1>8, <1>15, <1>16, <2>1
    <3>2. F1(rr[y].counts) = <<0, 1>> /\ F1(Pool(rr)) = <<0, 1>>
      BY <1>13, <1>14, <1>16, <2>1, <3>1
    <3> QED BY <3>2
  <2>2. CASE P # 0 /\ tp[y] = 0
    <3>1. f[y] = 0 /\ A > 0 /\ w[y] > 0 /\ w[y] \in Int /\ 0 * B = 0
      <4>1. f[y] = 2 * tp[y] /\ w[y] \in Int /\ w[y] > 0
        BY <1>15, <1>16
      <4>2. A = 2 * P /\ P \in Int /\ P >= 0
        BY <1>8, <1>9
      <4>3. A > 0
        BY <2>2, <4>2
      <4> QED BY <1>8, <2>2, <4>1, <4>3
    <3>2. A * w[y] <= 0
      BY <1>12, <3>1
    <3>3. \A a, b \in Int : a > 0 /\ b > 0 => ~(a * b <= 0)
      OBVIOUS
    <3> QED BY <1>8, <3>1, <3>2, <3>3
  <2>3. CASE P # 0 /\ tp[y] # 0
    <3>1. F1(rr[y].counts) = <<f[y], w[y]>> /\ F1(Pool(rr)) = <<A, B>>
      BY <1>13, <1>14, <1>16, <2>3
    <3> QED BY <1>12, <3>1
  <2> QED BY <2>1, <2>2, <2>3
<1> QED BY <1>7, <1>17, <1>18

\* The metrics agree on whatever is scored: for every reference and estimate, sorted or not,
\* the hits are at most the near onsets and twice the octave matches, the percentiles of
\* the onset errors ascend, every pitch of the reference is in a chord, and the pooled F1
\* is between the worst and the best of the files.
THEOREM MetricsAlwaysAgree == EvaluationSpec => []MetricsAgree
<1>1. ScoredInv /\ CurrentInv => MetricsAgree
  <2> DEFINE cents == setting.cents
  <2> SUFFICES ASSUME raws \in Seq(RawsAt(cents)), cents \in Nat PROVE MetricsAgree
    BY EvaluationAssumption DEF ScoredInv, CurrentInv, HarnessTypes
  <2>1. ASSUME NEW i \in DOMAIN raws
        PROVE  \E rs, es \in Notes : raws[i] = RawOf(rs, es, cents)
    <3>1. raws[i] \in RawsAt(cents)
      OBVIOUS
    <3> QED BY <3>1 DEF RawsAt, NoteArrays
  <2>2. \A i \in DOMAIN raws :
          LET raw == raws[i]  errors == raw.onset_errors  sizes == DOMAIN raw.chords IN
          /\ cents < 100 => raw.counts.tp <= 2 * raw.octave.matched
          /\ raw.counts.tp <= Len(errors)
          /\ raw.octave.matched <= Min({Len(raw.ref), Len(raw.est)})
          /\ raw.octave.errors <= raw.octave.matched
          /\ percentile(errors, 50) <= percentile(errors, 95)
          /\ percentile(errors, 95) <= percentile(errors, 99)
          /\ percentile(errors, 99) <= 100 * onset_tol
          /\ SumFunction([size \in sizes |-> size * raw.chords[size].total]) <= Len(raw.ref)
          /\ SumFunction([size \in sizes |-> size * raw.chords[size].total]) >=
               Cardinality({raw.ref[j].pitch : j \in DOMAIN raw.ref})
    <3> TAKE i \in DOMAIN raws
    <3>1. PICK rs \in Notes, es \in Notes : raws[i] = RawOf(rs, es, cents)
      BY <2>1
    <3> HIDE DEF Notes, cents
    <3> QED BY <3>1, PairAgrees
  <2>3. Pooled = Pool(raws)
    BY DEF Pooled, Pool
  <2> QED BY <2>2, <2>3, PooledBetween DEF MetricsAgree
<1> QED BY ScoredHolds, CurrentHolds, <1>1, PTL

-----------------------------------------------------------------------------
\* Each note of the first k with itself.
Identity(k) == {<<j, j>> : j \in 1 .. k}

\* Each note with itself is a matching of them all.
LEMMA IdentityFacts ==
  ASSUME NEW k \in Nat
  PROVE  /\ Identity(k) \in SUBSET ((1 .. k) \X (1 .. k)) /\ IsMatching(Identity(k))
         /\ IsFiniteSet(Identity(k)) /\ Cardinality(Identity(k)) = k
<1>1. Identity(k) \in SUBSET ((1 .. k) \X (1 .. k)) /\ \A p \in Identity(k) : p[1] = p[2] /\ p = <<p[1], p[1]>>
  BY DEF Identity
<1>2. IsMatching(Identity(k))
  BY <1>1 DEF IsMatching
<1>3. IsFiniteSet(1 .. k) /\ Cardinality(1 .. k) = k
  BY FS_Interval
<1>4. {p[1] : p \in Identity(k)} = 1 .. k
  <2>1. \A j \in 1 .. k : <<j, j>> \in Identity(k) /\ <<j, j>>[1] = j
    BY DEF Identity
  <2>2. \A p \in Identity(k) : p[1] \in 1 .. k
    BY <1>1
  <2> QED BY <2>1, <2>2
<1>5. IsFiniteSet(Identity(k)) /\ Cardinality({p[1] : p \in Identity(k)}) = Cardinality(Identity(k))
  <2> DEFINE side == 1 .. k
             edges == Identity(k)
  <2>1. IsFiniteSet(side) /\ edges \in SUBSET (side \X side) /\ IsMatching(edges)
    BY <1>1, <1>2, <1>3
  <2> HIDE DEF side, edges
  <2>2. IsFiniteSet(edges) /\ Cardinality({p[1] : p \in edges}) = Cardinality(edges)
    BY <2>1, MatchingSides
  <2> QED BY <2>2 DEF edges
<1> QED BY <1>1, <1>2, <1>3, <1>4, <1>5

\* A note is a hit of itself.
LEMMA PerfectHits ==
  ASSUME NEW rs \in Notes, IsNoteArray(rs), NEW cents \in Nat
  PROVE  /\ Identity(Len(rs)) \in SUBSET Hits(rs, rs, cents)
         /\ MatchSize(Hits(rs, rs, cents)) = Len(rs) /\ MatchSize(Near(rs, rs)) = Len(rs)
<1> DEFINE m == Len(rs)
<1>1. m \in Nat /\ DOMAIN rs = 1 .. m /\ IsFiniteSet(DOMAIN rs) /\ Cardinality(DOMAIN rs) = m
  BY NoteFacts
<1>2. ASSUME NEW k \in DOMAIN rs PROVE <<k, k>> \in Hits(rs, rs, cents)
  <2> DEFINE r == rs[k]
             share == ((r.off - r.on) * offset_percent) \div 100
             tol == Max({offset_min, share})
  <2>1. r.on \in Int /\ r.off \in Int /\ r.pitch \in Int /\ r.on <= r.off
    BY NoteFacts DEF IsNoteArray
  <2> HIDE DEF r
  <2>2. share \in Nat
    <3> DEFINE long == r.off - r.on
    <3>1. long \in Nat /\ offset_percent \in Nat
      BY <2>1, MetricAssumption
    <3> HIDE DEF long
    <3>2. long * offset_percent \in Nat
      BY <3>1
    <3> DEFINE part == long * offset_percent
    <3> HIDE DEF part
    <3>3. part \div 100 \in Nat
      BY <3>2 DEF part
    <3> QED BY <3>3 DEF part, long
  <2> HIDE DEF share
  <2>3. tol \in Nat
    <3>1. {offset_min, share} \in SUBSET Nat /\ {offset_min, share} # {}
      BY <2>2, MetricAssumption
    <3>2. \A x \in {offset_min, share} : x <= offset_min + share
      BY <2>2, MetricAssumption
    <3>3. offset_min + share \in Nat
      BY <2>2, MetricAssumption
    <3>4. tol \in {offset_min, share}
      BY <3>1, <3>2, <3>3, MaxFacts
    <3> QED BY <3>1, <3>4
  <2> HIDE DEF tol
  <2>4. /\ Within(r.on, r.on, onset_tol) /\ Within(r.off, r.off, tol)
        /\ Within(100 * r.pitch, 100 * r.pitch, cents)
    BY <2>1, <2>3, MetricAssumption DEF Within
  <2>5. <<k, k>> \in (DOMAIN rs) \X (DOMAIN rs) /\ <<k, k>>[1] = k /\ <<k, k>>[2] = k
    OBVIOUS
  <2> QED BY <2>4, <2>5 DEF Hits, r, share, tol
<1>3. Identity(m) \in SUBSET Hits(rs, rs, cents)
  BY <1>1, <1>2 DEF Identity
<1>4. /\ Hits(rs, rs, cents) \in SUBSET Near(rs, rs) /\ Near(rs, rs) \in SUBSET ((DOMAIN rs) \X (DOMAIN rs))
      /\ IsFiniteSet(Near(rs, rs)) /\ IsFiniteSet(Hits(rs, rs, cents))
  BY HitFacts
<1>5. IsMatching(Identity(m)) /\ Cardinality(Identity(m)) = m
  BY <1>1, IdentityFacts
<1>6. Identity(m) \in SUBSET Near(rs, rs)
  BY <1>3, <1>4
<1> HIDE DEF m
<1>7. m <= MatchSize(Hits(rs, rs, cents)) /\ m <= MatchSize(Near(rs, rs))
      /\ MatchSize(Hits(rs, rs, cents)) \in Nat /\ MatchSize(Near(rs, rs)) \in Nat
  <2>1. Cardinality(Identity(m)) <= MatchSize(Hits(rs, rs, cents)) /\ MatchSize(Hits(rs, rs, cents)) \in Nat
    BY <1>3, <1>4, <1>5, MatchSizeFacts
  <2>2. Cardinality(Identity(m)) <= MatchSize(Near(rs, rs)) /\ MatchSize(Near(rs, rs)) \in Nat
    BY <1>4, <1>5, <1>6, MatchSizeFacts
  <2> QED BY <1>5, <2>1, <2>2
<1>8. MatchSize(Near(rs, rs)) <= m
  <2>1. PICK edges \in SUBSET Near(rs, rs) : IsMatching(edges) /\ Cardinality(edges) = MatchSize(Near(rs, rs))
    BY <1>4, MatchSizeFacts
  <2>2. edges \in SUBSET ((DOMAIN rs) \X (DOMAIN rs))
    BY <1>4
  <2>3. Cardinality(edges) <= Cardinality(DOMAIN rs)
    BY <1>1, <2>1, <2>2, MatchingSides
  <2> QED BY <1>1, <2>1, <2>3
<1>9. MatchSize(Hits(rs, rs, cents)) <= MatchSize(Near(rs, rs))
  BY CountFacts
<1>10. MatchSize(Hits(rs, rs, cents)) = m /\ MatchSize(Near(rs, rs)) = m
  BY <1>1, <1>7, <1>8, <1>9
<1> QED BY <1>3, <1>10 DEF m

\* Matched in turn, each onset takes itself.
LEMMA PerfectOnsets ==
  ASSUME NEW rs \in Notes, IsNoteArray(rs)
  PROVE  /\ Len(onset_errors(rs, rs)) = Len(rs)
         /\ percentile(onset_errors(rs, rs), 99) = 0
<1> DEFINE m == Len(rs)
           errors == onset_errors(rs, rs)
<1>1. m \in Nat /\ DOMAIN rs = 1 .. m /\ \A i \in DOMAIN rs : rs[i].on \in Int
  BY NoteFacts
<1>2. PICK g : /\ FirstFree(rs, rs) = g[m] /\ g[0] = {}
               /\ \A k \in 1 .. m : g[k] = FreeTurn(rs, rs, g[k - 1], k)
  BY FirstFreeFold
<1> HIDE DEF m, errors
<1>3. ASSUME NEW k \in 1 .. m, g[k - 1] = Identity(k - 1)
      PROVE  g[k] = Identity(k)
  <2> DEFINE edges == Identity(k - 1)
             IsFree(r) == /\ r \in DOMAIN rs /\ Within(rs[r].on, rs[k].on, onset_tol)
                          /\ \A p \in edges : p[1] # r
             next == FreeTurn(rs, rs, edges, k)
  <2>1. k \in DOMAIN rs /\ k - 1 \in Nat /\ k \in Nat
    BY <1>1
  <2>2. \/ next = edges /\ ~\E r : IsFree(r)
        \/ \E r \in DOMAIN rs : /\ IsFree(r) /\ next = edges \cup {<<r, k>>}
                                /\ \A s : IsFree(s) => r <= s
    BY <2>1, FreeTurnFacts
  <2>3. \A r \in DOMAIN rs : (\A p \in edges : p[1] # r) <=> r \notin 1 .. k - 1
    <3> TAKE r \in DOMAIN rs
    <3>1. r \in 1 .. k - 1 => <<r, r>> \in edges /\ <<r, r>>[1] = r
      BY DEF Identity
    <3>2. \A p \in edges : p[1] \in 1 .. k - 1
      BY <2>1, IdentityFacts
    <3> QED BY <3>1, <3>2
  <2>4. IsFree(k)
    <3>1. Within(rs[k].on, rs[k].on, onset_tol)
      BY <1>1, <2>1, MetricAssumption DEF Within
    <3>2. k \notin 1 .. k - 1
      BY <2>1
    <3> QED BY <2>1, <2>3, <3>1, <3>2
  <2>5. \A r : IsFree(r) => r \in DOMAIN rs /\ r \notin 1 .. k - 1
    BY <2>3
  <2> HIDE DEF IsFree, next
  <2>6. PICK r \in DOMAIN rs : IsFree(r) /\ next = edges \cup {<<r, k>>} /\ \A s : IsFree(s) => r <= s
    BY <2>2, <2>4
  <2>7. r = k
    <3>1. r <= k /\ r \notin 1 .. k - 1 /\ r \in 1 .. m
      BY <1>1, <2>4, <2>5, <2>6
    <3> QED BY <1>1, <2>1, <3>1
  <2>8. Identity(k) = Identity(k - 1) \cup {<<k, k>>}
    <3>1. 1 .. k = (1 .. k - 1) \cup {k}
      BY <2>1
    <3> QED BY <3>1 DEF Identity
  <2> QED BY <1>2, <1>3, <2>6, <2>7, <2>8 DEF next
<1> DEFINE Bad == {k \in 0 .. m : g[k] # Identity(k)}
<1>4. Bad = {}
  <2> SUFFICES ASSUME Bad # {} PROVE FALSE
    OBVIOUS
  <2>1. PICK k \in Bad : \A j \in Bad : k <= j
    <3>1. Bad \in SUBSET Nat
      BY <1>1
    <3> HIDE DEF Bad
    <3> QED BY <3>1, LeastNumber
  <2>2. k # 0
    <3>1. Identity(0) = {}
      BY DEF Identity
    <3> QED BY <1>2, <3>1
  <2>3. k \in 1 .. m /\ k - 1 \in 0 .. m
    BY <1>1, <2>2
  <2>4. g[k - 1] = Identity(k - 1)
    BY <1>1, <2>1, <2>3
  <2> QED BY <1>3, <2>3, <2>4
<1>5. FirstFree(rs, rs) = Identity(m)
  <2>1. m \in 0 .. m
    BY <1>1
  <2> QED BY <1>2, <1>4, <2>1
<1>6. match_events(rs, rs) = Identity(m)
  <2>1. Cardinality(Identity(m)) = MatchSize(Near(rs, rs))
    BY <1>1, IdentityFacts, PerfectHits DEF m
  <2> QED BY <1>5, <2>1 DEF match_events
<1>7. /\ errors \in [1 .. m -> 0 .. onset_tol] /\ Len(errors) = m
      /\ \A j, k \in 1 .. m : j <= k => errors[j] <= errors[k]
      /\ \A k \in 1 .. m : \E p \in Identity(m) : errors[k] = Apart(rs[p[1]].on, rs[p[2]].on)
  <2>1. MatchSize(Near(rs, rs)) = m
    BY PerfectHits DEF m
  <2> QED BY <1>6, <2>1, ErrorFacts DEF errors
<1>8. \A k \in 1 .. m : errors[k] = 0
  <2> TAKE k \in 1 .. m
  <2>1. PICK p \in Identity(m) : errors[k] = Apart(rs[p[1]].on, rs[p[2]].on)
    BY <1>7
  <2>2. p[1] = p[2] /\ p[1] \in 1 .. m
    BY DEF Identity
  <2>3. rs[p[1]].on \in Int /\ rs[p[2]].on = rs[p[1]].on
    BY <1>1, <2>2
  <2>4. \A x \in Int : Apart(x, x) = 0
    BY ApartFacts
  <2> QED BY <2>1, <2>3, <2>4
<1>9. percentile(errors, 99) = 0
  <2>1. onset_tol \in Nat /\ 99 \in 0 .. 99 /\ 99 \in 99 .. 99
    BY MetricAssumption
  <2> QED BY <1>1, <1>7, <1>8, <2>1, PercentileFacts
<1> QED BY <1>7, <1>9 DEF m, errors

\* Each pitch of a chord is that of a note in its window.
LEMMA PerfectChords ==
  ASSUME NEW rs \in Notes
  PROVE  \A size \in DOMAIN chord_recall_counts(rs, rs) :
           chord_recall_counts(rs, rs)[size].recalled = chord_recall_counts(rs, rs)[size].total
<1> DEFINE chords == _cluster_reference_chords(rs)
           order == argsort(onsets(rs))
           m == Len(rs)
           Size(c) == Cardinality(chords[c].pitches)
           Recalled(c) == chords[c].pitches \subseteq
             {rs[e].pitch : e \in {d \in DOMAIN rs : Within(rs[d].on, chords[c].on, chord_window)}}
<1>1. /\ chords \in Seq(Chord)
      /\ \A c \in DOMAIN chords : \A pitch \in chords[c].pitches : \E j \in 1 .. m :
            /\ rs[order[j]].pitch = pitch
            /\ rs[order[j]].on - chords[c].on \in 0 .. chord_cluster_tol
  <2>1. ClusterInv(rs, chords, m)
    BY ClusterFacts
  <2> HIDE DEF chords, m
  <2> QED BY <2>1 DEF ClusterInv
<1>2. m \in Nat /\ order \in [1 .. m -> DOMAIN rs]
  BY NoteFacts, OrderFacts
<1> HIDE DEF chords, order, m
<1>3. \A c \in DOMAIN chords : Recalled(c)
  <2> TAKE c \in DOMAIN chords
  <2>1. chords[c].on \in Int
    <3>1. chords[c] \in Chord
      BY <1>1
    <3> QED BY <3>1 DEF Chord
  <2>2. ASSUME NEW pitch \in chords[c].pitches
        PROVE  \E e \in {d \in DOMAIN rs : Within(rs[d].on, chords[c].on, chord_window)} : rs[e].pitch = pitch
    <3>1. PICK j \in 1 .. m : /\ rs[order[j]].pitch = pitch
                              /\ rs[order[j]].on - chords[c].on \in 0 .. chord_cluster_tol
      BY <1>1
    <3>2. order[j] \in DOMAIN rs
      BY <1>2
    <3>3. rs[order[j]].on \in Int
      BY <3>2, NoteFacts
    <3>4. Within(rs[order[j]].on, chords[c].on, chord_window)
      BY <2>1, <3>1, <3>3, MetricAssumption DEF Within
    <3> QED BY <3>1, <3>2, <3>4
  <2> QED BY <2>2
<1>4. ASSUME NEW size \in DOMAIN chord_recall_counts(rs, rs)
      PROVE  chord_recall_counts(rs, rs)[size].recalled = chord_recall_counts(rs, rs)[size].total
  <2>1. size \in {Size(c) : c \in DOMAIN chords}
    BY DEF chord_recall_counts, chords
  <2>2. {c \in DOMAIN chords : Size(c) = size /\ Recalled(c)} = {c \in DOMAIN chords : Size(c) = size}
    BY <1>3
  <2>3. chord_recall_counts(rs, rs)[size] =
          [recalled |-> Cardinality({c \in DOMAIN chords : Size(c) = size /\ Recalled(c)}),
           total |-> Cardinality({c \in DOMAIN chords : Size(c) = size})]
    BY <2>1 DEF chord_recall_counts, chords
  <2> QED BY <2>2, <2>3
<1> QED BY <1>4

\* Taken in the order of their onsets, the closest free note to each is itself.
LEMMA PerfectOctaves ==
  ASSUME NEW rs \in Notes
  PROVE  octave_error_counts(rs, rs).errors = 0 /\ octave_error_counts(rs, rs).matched = Len(rs)
<1> DEFINE m == Len(rs)
           order == argsort(onsets(rs))
           Gone(k) == {order[j] : j \in 1 .. k}
           Found(k) == [used |-> Gone(k), matched |-> k, errors |-> 0]
<1>1. /\ m \in Nat /\ DOMAIN rs = 1 .. m /\ order \in [1 .. m -> DOMAIN rs]
      /\ \A i \in DOMAIN rs : \E k \in 1 .. m : order[k] = i
  BY NoteFacts, OrderFacts
<1>2. \A j, k \in 1 .. m : j < k =>
         \/ rs[order[j]].on < rs[order[k]].on
         \/ rs[order[j]].on = rs[order[k]].on /\ order[j] < order[k]
  BY OrderFacts
<1>3. PICK g : /\ octave_error_counts(rs, rs) = g[m]
               /\ g[0] = [used |-> {}, matched |-> 0, errors |-> 0]
               /\ \A k \in 1 .. m : g[k] = OctaveTurn(rs, rs, g[k - 1], order[k])
  BY OctaveFold
<1> HIDE DEF m, order
<1>4. \A i \in 1 .. m : rs[order[i]].on \in Int /\ rs[order[i]].pitch \in Int /\ order[i] \in Nat
  <2> TAKE i \in 1 .. m
  <2>1. order[i] \in DOMAIN rs /\ order[i] \in 1 .. m
    BY <1>1
  <2>2. rs[order[i]].on \in Int /\ rs[order[i]].pitch \in Int
    BY <2>1, NoteFacts
  <2>3. \A j \in 1 .. m : j \in Nat
    BY <1>1
  <2> QED BY <2>1, <2>2, <2>3
<1>5. ASSUME NEW k \in 1 .. m, g[k - 1] = Found(k - 1)
      PROVE  g[k] = Found(k)
  <2> DEFINE found == Found(k - 1)
             e == order[k]
             next == OctaveTurn(rs, rs, found, e)
             Fits(r) == /\ r \in DOMAIN rs /\ r \notin found.used
                        /\ rs[r].pitch % 12 = rs[e].pitch % 12 /\ Apart(rs[r].on, rs[e].on) <= onset_tol
  <2>1. e \in DOMAIN rs /\ k \in Nat /\ k - 1 \in Nat /\ rs[e].on \in Int /\ rs[e].pitch \in Int
    <3>1. k \in Nat /\ k - 1 \in Nat
      BY <1>1
    <3> QED BY <1>1, <1>4, <3>1
  <2>2. found \in OctaveTyp(rs)
    <3>1. Gone(k - 1) \in SUBSET (DOMAIN rs)
      BY <1>1
    <3> QED BY <2>1, <3>1 DEF OctaveTyp
  <2>3. found.used = Gone(k - 1) /\ found.matched = k - 1 /\ found.errors = 0
    OBVIOUS
  <2> HIDE DEF found
  <2>4. \/ next = found /\ ~\E r : Fits(r)
        \/ \E r \in DOMAIN rs :
             /\ Fits(r)
             /\ \A s : Fits(s) => \/ Apart(rs[r].on, rs[e].on) < Apart(rs[s].on, rs[e].on)
                                  \/ Apart(rs[r].on, rs[e].on) = Apart(rs[s].on, rs[e].on) /\ r <= s
             /\ next = [used |-> found.used \cup {r}, matched |-> found.matched + 1,
                        errors |-> found.errors + (IF Within(rs[e].pitch, rs[r].pitch, 11) THEN 0 ELSE 1)]
    BY <2>1, <2>2, OctaveTurnFacts
  <2>5. Apart(rs[e].on, rs[e].on) = 0 /\ \A x \in Int : Apart(x, rs[e].on) \in Nat /\ (Apart(x, rs[e].on) = 0 => x = rs[e].on)
    <3>1. Apart(rs[e].on, rs[e].on) = 0
      <4>1. \A x \in Int : Apart(x, x) = 0
        BY ApartFacts
      <4> QED BY <2>1, <4>1
    <3>2. ASSUME NEW x \in Int PROVE Apart(x, rs[e].on) \in Nat /\ (Apart(x, rs[e].on) = 0 => x = rs[e].on)
      <4> DEFINE y == rs[e].on
      <4>1. y \in Int
        BY <2>1
      <4> HIDE DEF y
      <4>2. Apart(x, y) \in Nat /\ Apart(x, y) = IF x >= y THEN x - y ELSE y - x
        BY <4>1, ApartFacts
      <4>3. Apart(x, y) = 0 => x = y
        BY <4>1, <4>2
      <4> QED BY <4>2, <4>3 DEF y
    <3> QED BY <3>1, <3>2
  <2>6. e \notin Gone(k - 1)
    <3> SUFFICES ASSUME NEW j \in 1 .. k - 1, order[j] = order[k] PROVE FALSE
      BY DEF e
    <3>1. j \in 1 .. m /\ j < k
      <4>1. m \in Nat /\ k \in Nat /\ k <= m
        BY <1>1
      <4>2. j \in Nat /\ 1 <= j /\ j <= k - 1
        BY <4>1
      <4> QED BY <4>1, <4>2
    <3>2. rs[order[j]].on < rs[order[k]].on \/ order[j] < order[k]
      BY <1>2, <3>1
    <3>3. rs[order[k]].on \in Int /\ order[k] \in Nat
      BY <1>4
    <3> QED BY <3>2, <3>3
  <2>7. Fits(e)
    BY <2>1, <2>3, <2>5, <2>6, MetricAssumption
  <2> DEFINE Took(r) ==
               /\ r \in DOMAIN rs /\ r \notin Gone(k - 1)
               /\ \/ Apart(rs[r].on, rs[e].on) < Apart(rs[e].on, rs[e].on)
                  \/ Apart(rs[r].on, rs[e].on) = Apart(rs[e].on, rs[e].on) /\ r <= e
               /\ next = [used |-> found.used \cup {r}, matched |-> found.matched + 1,
                          errors |-> found.errors + (IF Within(rs[e].pitch, rs[r].pitch, 11) THEN 0 ELSE 1)]
  <2>8. \E r : Took(r)
    <3> HIDE DEF next
    <3> QED BY <2>3, <2>4, <2>7
  <2>9. PICK r : Took(r)
    BY <2>8
  <2>10. r = e
    <3>1. PICK j \in 1 .. m : order[j] = r
      BY <1>1, <2>9
    <3>2. ~(j < k)
      <4> SUFFICES ASSUME j < k PROVE FALSE
        OBVIOUS
      <4>1. j \in 1 .. k - 1
        BY <1>1, <2>1
      <4> QED BY <2>9, <3>1, <4>1
    <3>3. rs[r].on = rs[e].on /\ r <= e
      <4>1. rs[r].on \in Int
        BY <2>9, NoteFacts
      <4>2. /\ \/ Apart(rs[r].on, rs[e].on) < Apart(rs[e].on, rs[e].on)
               \/ Apart(rs[r].on, rs[e].on) = Apart(rs[e].on, rs[e].on) /\ r <= e
        BY <2>9
      <4>3. Apart(rs[r].on, rs[e].on) \in Nat
        BY <2>5, <4>1
      <4>4. Apart(rs[r].on, rs[e].on) = 0 /\ r <= e
        BY <2>5, <4>2, <4>3
      <4> QED BY <2>5, <4>1, <4>4
    <3>4. ~(k < j)
      <4> SUFFICES ASSUME k < j PROVE FALSE
        OBVIOUS
      <4>1. \/ rs[order[k]].on < rs[order[j]].on
            \/ rs[order[k]].on = rs[order[j]].on /\ order[k] < order[j]
        BY <1>2
      <4>2. rs[order[k]].on = rs[order[j]].on /\ order[j] <= order[k]
        BY <3>1, <3>3 DEF e
      <4> QED BY <1>4, <4>1, <4>2
    <3>5. j = k
      BY <1>1, <3>2, <3>4
    <3> QED BY <3>1, <3>5
  <2>11. Within(rs[e].pitch, rs[e].pitch, 11)
    BY <2>1 DEF Within
  <2>12. Gone(k) = Gone(k - 1) \cup {e}
    <3>1. 1 .. k = (1 .. k - 1) \cup {k}
      BY <2>1
    <3> QED BY <3>1
  <2>13. next = [used |-> Gone(k), matched |-> k, errors |-> 0]
    <3> HIDE DEF next, e, Gone
    <3>1. next = [used |-> Gone(k - 1) \cup {e}, matched |-> (k - 1) + 1, errors |-> 0 + 0]
      BY <2>3, <2>9, <2>10, <2>11
    <3> QED BY <2>1, <2>12, <3>1
  <2>14. g[k] = next
    BY <1>3, <1>5 DEF found
  <2> QED BY <2>13, <2>14
<1> DEFINE Bad == {k \in 0 .. m : g[k] # Found(k)}
<1>6. g[0] = Found(0)
  <2>1. Gone(0) = {}
    OBVIOUS
  <2> HIDE DEF Gone
  <2> QED BY <1>3, <2>1
<1> HIDE DEF Found
<1>7. Bad = {}
  <2> SUFFICES ASSUME Bad # {} PROVE FALSE
    OBVIOUS
  <2>1. PICK k \in Bad : \A j \in Bad : k <= j
    <3>1. Bad \in SUBSET Nat
      BY <1>1
    <3> HIDE DEF Bad
    <3> QED BY <3>1, LeastNumber
  <2>2. k # 0
    BY <1>6
  <2>3. k \in 1 .. m /\ k - 1 \in 0 .. m
    BY <1>1, <2>2
  <2>4. g[k - 1] = Found(k - 1)
    BY <1>1, <2>1, <2>3
  <2> QED BY <1>5, <2>3, <2>4
<1>8. g[m] = Found(m)
  <2>1. m \in 0 .. m
    BY <1>1
  <2> QED BY <1>7, <2>1
<1>9. Found(m).errors = 0 /\ Found(m).matched = m
  BY DEF Found
<1> QED BY <1>3, <1>8, <1>9 DEF m

\* The oracle, and any model that is as good, is perfect on whatever it is given: where the
\* estimate is the reference, every note is a hit, no onset is off, every chord is recalled
\* and no octave is wrong.
THEOREM OracleAlwaysPerfect == EvaluationSpec => []OracleIsPerfect
<1>1. ScoredInv /\ CurrentInv => OracleIsPerfect
  <2> DEFINE cents == setting.cents
  <2> SUFFICES ASSUME raws \in Seq(RawsAt(cents)), cents \in Nat, NEW i \in DOMAIN raws, raws[i].est = raws[i].ref
               PROVE  LET raw == raws[i] IN
                 /\ raw.counts = [tp |-> Len(raw.ref), fp |-> 0, fn |-> 0]
                 /\ Len(raw.onset_errors) = Len(raw.ref) /\ percentile(raw.onset_errors, 99) = 0
                 /\ \A size \in DOMAIN raw.chords : raw.chords[size].recalled = raw.chords[size].total
                 /\ raw.octave.errors = 0 /\ raw.octave.matched = Len(raw.ref)
    BY EvaluationAssumption DEF ScoredInv, OracleIsPerfect, CurrentInv, HarnessTypes
  <2>1. PICK rs \in Notes : IsNoteArray(rs) /\ raws[i] = RawOf(rs, rs, cents)
    <3>1. raws[i] \in RawsAt(cents)
      OBVIOUS
    <3>2. PICK rs \in Notes, es \in Notes : IsNoteArray(rs) /\ raws[i] = RawOf(rs, es, cents)
      BY <3>1 DEF RawsAt, NoteArrays
    <3>3. es = rs
      BY <3>2 DEF RawOf
    <3> QED BY <3>2, <3>3
  <2> DEFINE raw == RawOf(rs, rs, cents)
  <2>2. /\ raw.counts = note_confusion_counts(rs, rs, cents) /\ raw.onset_errors = onset_errors(rs, rs)
        /\ raw.chords = chord_recall_counts(rs, rs) /\ raw.octave = octave_error_counts(rs, rs)
        /\ raw.ref = rs
    BY DEF RawOf
  <2>3. note_confusion_counts(rs, rs, cents) = [tp |-> Len(rs), fp |-> 0, fn |-> 0]
    <3>1. MatchSize(Hits(rs, rs, cents)) = Len(rs) /\ Len(rs) \in Nat
      BY <2>1, PerfectHits, NoteFacts
    <3>2. Len(rs) - Len(rs) = 0
      BY <3>1
    <3> QED BY <3>1, <3>2 DEF note_confusion_counts
  <2> HIDE DEF raw
  <2>4. raws[i] = raw
    BY <2>1 DEF raw
  <2> QED BY <2>1, <2>2, <2>3, <2>4, PerfectOnsets, PerfectChords, PerfectOctaves
<1> QED BY ScoredHolds, CurrentHolds, <1>1, PTL
=============================================================================
