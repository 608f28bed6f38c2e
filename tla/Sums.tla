--------------------------------- MODULE Sums ---------------------------------
(* The sum of a function with natural values, such as the balances of a    *)
(* token: the number of its units. A unit is a pair of an element of the   *)
(* domain and a number from 1 to the value there; as a cardinality, a sum  *)
(* can be reasoned about with the theorems about finite sets.              *)
EXTENDS Integers, FiniteSets

Units(f) == UNION {{x} \X (1 .. f[x]) : x \in DOMAIN f}
SumOf(f) == Cardinality(Units(f))
===============================================================================
