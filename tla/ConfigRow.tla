------------------------------ MODULE ConfigRow ------------------------------
(***************************************************************************)
(* The upsert of handleInterface and handleVlan in consumer/main.go on one *)
(* row.  A message carries for each column nothing (nil pointer, absent    *)
(* key), an explicit empty value ('' or 0: a clear), or a value.           *)
(***************************************************************************)
EXTENDS Integers

CONSTANTS
  Columns,      \* description, shutdown, ..., or name, status
  Values,       \* the values a column may show
  Empty,        \* the empty value: '' for text, 0 for numbers, false
  NullIf,       \* columns written as NULLIF($n, ''): vlan_table.status
  Null,         \* SQL NULL; in a message, the column is not there
  InsertDefault,\* what INSERT stores for an absent column: access_vlan is 1
  NoRow

Cells == Values \cup {Empty, Null}

ASSUME RowAssumption ==
  /\ Null \notin Values \cup {Empty}
  /\ NullIf \subseteq Columns
  /\ InsertDefault \in [Columns -> Cells]

\* The statement's parameter for column c: NULL when there is nothing to say.
Param(cells, c) == IF c \in NullIf /\ cells[c] = Empty THEN Null ELSE cells[c]

\* VALUES (...) of the INSERT.
Inserted(cells) ==
  [c \in Columns |-> IF Param(cells, c) = Null THEN InsertDefault[c]
                                               ELSE Param(cells, c)]

\* Mutant: the arguments of COALESCE are swapped.
Merged_keepsOld(old, cells) ==
  [c \in Columns |-> IF old[c] = Null THEN Param(cells, c) ELSE old[c]]

\* DO UPDATE SET c = COALESCE(EXCLUDED.c, c).
Merged(old, cells) ==
  [c \in Columns |-> IF Param(cells, c) = Null THEN old[c] ELSE Param(cells, c)]

\* Mutant: no WHERE clause on DO UPDATE.
Newer_always(ts, row) == TRUE

\* WHERE EXCLUDED.collected_at >= collected_at.
Newer(ts, row) == ts >= row.ts

UpsertRow(row, ts, cells) ==
  IF row = NoRow THEN [ts |-> ts, cells |-> Inserted(cells)]
  ELSE IF Newer(ts, row) THEN [ts |-> ts, cells |-> Merged(row.cells, cells)]
  ELSE row
=============================================================================
