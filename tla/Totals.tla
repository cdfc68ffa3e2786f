-------------------------------- MODULE Totals --------------------------------
(***************************************************************************)
(* The sum of a function into the natural numbers, as the number of the    *)
(* units that its values are made of: <<p, 1>> .. <<p, R[p]>> for each p   *)
(* of its domain.  What is known of cardinalities carries over to sums     *)
(* this way (module TotalsProofs).                                         *)
(***************************************************************************)
EXTENDS Integers, FiniteSets

Units(R) == UNION {{p} \X (1 .. R[p]) : p \in DOMAIN R}

Total(R) == Cardinality(Units(R))
=============================================================================
