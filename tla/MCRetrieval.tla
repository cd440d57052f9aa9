----------------------------- MODULE MCRetrieval -----------------------------
(* A small instance of Retrieval: two contents of three parts, two of them   *)
(* rows of one table.  Documents of one content match a query equally well. *)
EXTENDS Retrieval
CONSTANTS d1, d2, a, b

MCLevel == <<"window", "table_row", "table_row">>
MCSection == <<NoSection, "rows", "rows">>

Score(a1, a2, a3, b1, b2, b3) ==
  [p \in {a, b} \X Parts |-> IF p[1] = a THEN <<a1, a2, a3>>[p[2]] ELSE <<b1, b2, b3>>[p[2]]]

MCDense == [q1 |-> Score(9, 8, 0, 0, 5, 7)]
MCSparse == [q1 |-> Score(0, 2, 6, 3, 1, 0)]
MCRerank == [q1 |-> Score(0, 5, 10, 10, 0, 5)]

MCFilters == {[docs |-> {}, levels |-> {}], [docs |-> {d1}, levels |-> {"table_row"}]}
=============================================================================
