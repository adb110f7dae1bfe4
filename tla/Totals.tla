------------------------------- MODULE Totals --------------------------------
(***************************************************************************)
(* The sum of quantities: the SUM of the queries and loops of the code     *)
(* over a finite set of rows.  A quantity is a number of units, so that a  *)
(* sum is the number of units there are, each named by its row and its     *)
(* place in the row.  Cardinality is what the provers know about, where    *)
(* the folds of the library need an induction.                             *)
(***************************************************************************)
EXTENDS Integers, FiniteSets

\* The units of a function from rows to natural numbers.
Units(q) == UNION {{x} \X (1 .. q[x]) : x \in DOMAIN q}

\* The sum of the values of a function from rows to natural numbers.
Total(q) == Cardinality(Units(q))
=============================================================================
