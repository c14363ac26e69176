------------------------------ MODULE MCDbView ------------------------------
(* Small instances of DbView for TLC. *)
EXTENDS DbView

CONSTANTS t1, all, q

MCQueries == {all, q}
MCMatches == [x \in Queries |-> IF x = q THEN Ids \ {2} ELSE Ids]
=============================================================================
