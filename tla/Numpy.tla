-------------------------------- MODULE Numpy --------------------------------
(* The functions of Python and numpy that the evaluation uses, on integers.   *)
EXTENDS Integers, FiniteSets

\* Python's round() of the quotient of two integers: half goes to the even one.
RoundDiv(a, b) ==
  LET q == a \div b  rest == 2 * (a % b) IN
  IF rest < b THEN q ELSE IF rest > b THEN q + 1 ELSE q + (q % 2)

\* np.argsort(keys, kind="stable"): at each place the index with as many others before it.
argsort(keys) ==
  LET Upto(i) == {j \in DOMAIN keys : keys[j] < keys[i] \/ (keys[j] = keys[i] /\ j <= i)}
  IN [k \in 1 .. Cardinality(DOMAIN keys) |-> CHOOSE i \in DOMAIN keys : Cardinality(Upto(i)) = k]

\* np.sort.
Ascending(keys) == LET order == argsort(keys) IN [k \in DOMAIN order |-> keys[order[k]]]
=============================================================================
