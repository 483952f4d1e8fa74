----------------------------- MODULE TableScan ------------------------------
(***************************************************************************)
(* The servers look things up in tables with a loop over the indexes that  *)
(* stops at the first match, and keep counters beside or in the tables.    *)
(***************************************************************************)
EXTENDS Integers, FiniteSets

\* The first of the indexes in S, which is not empty.
First(S) == CHOOSE i \in S : \A j \in S : i <= j

\* The sum of the counters f[x], as the number of units that they count: the
\* sum over a table that is changed at one entry is then a matter of sets.
Units(f) == UNION {{x} \X (1 .. f[x]) : x \in DOMAIN f}
Total(f) == Cardinality(Units(f))

=============================================================================
