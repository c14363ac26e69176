--------------------------- MODULE TelemetryTable ---------------------------
(***************************************************************************)
(* What a configuration table (interface_table, vlan_table) promises its   *)
(* readers, whatever order messages arrive in: the timestamp of a row never *)
(* goes back, a column that an explicit clear emptied is only filled again *)
(* by a report that is not older than the clear, and a row disappears only *)
(* when it has not been refreshed for the TTL.                             *)
(***************************************************************************)
EXTENDS Integers

CONSTANTS Keys, Columns, MaxTime, TTL

NoTime == -1
Times == 0..MaxTime

VARIABLES
  asOf,         \* collected_at of each row, NoTime when there is no row
  setAt,        \* when the present value of each column was reported
  now

tableVars == <<asOf, setAt, now>>

Init ==
  /\ asOf = [k \in Keys |-> NoTime]
  /\ setAt = [k \in Keys |-> [c \in Columns |-> NoTime]]
  /\ now = 0

\* A report as of ts changes some columns (values or clears) of one row.
Report(k, ts, changed) ==
  /\ asOf[k] <= ts
  /\ asOf' = [asOf EXCEPT ![k] = ts]
  /\ setAt' = [setAt EXCEPT ![k] = [c \in Columns |->
                 IF c \in changed THEN ts ELSE setAt[k][c]]]
  /\ UNCHANGED now

\* Rows not refreshed within the TTL go.
Expire ==
  /\ \A k \in Keys : \/ asOf'[k] = asOf[k] /\ setAt'[k] = setAt[k]
                     \/ /\ asOf[k] # NoTime /\ asOf[k] < now - TTL
                        /\ asOf'[k] = NoTime
                        /\ setAt'[k] = [c \in Columns |-> NoTime]
  /\ UNCHANGED now

Tick == now' = now + 1 /\ UNCHANGED <<asOf, setAt>>

Next ==
  \/ \E k \in Keys, ts \in Times, changed \in SUBSET Columns : Report(k, ts, changed)
  \/ Expire
  \/ Tick

Spec == Init /\ [][Next]_tableVars
=============================================================================
