-------------------------- MODULE MCConfigConsumer --------------------------
(* Small instances of ConfigConsumer for TLC. *)
EXTENDS ConfigConsumer

CONSTANTS k1, k2, name, status, vlan, x, y, one

MCColumns == {name, status, vlan}
MCNullIf == {status}
MCDefault == [c \in MCColumns |-> IF c = vlan THEN one ELSE Null]
MCValues == {x, y, one}

R(k, t, n, s, a) ==
  [key |-> k, ts |-> t,
   cells |-> [c \in MCColumns |-> IF c = name THEN n ELSE IF c = status THEN s ELSE a]]

\* A full snapshot, an explicit clear, a snapshot that omits the cleared
\* column, deltas of one column, and reports of another row.
MCReports == { R(k1, 0, x, x, x),
               R(k1, 1, Empty, Null, Null),
               R(k1, 1, y, Empty, Null),
               R(k1, 2, Null, y, Empty),
               R(k2, 1, x, Null, y) }

MCMessages == MCReports \cup {Malformed}
MCKeys == {k1, k2}
=============================================================================
