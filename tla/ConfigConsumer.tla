--------------------------- MODULE ConfigConsumer ---------------------------
(***************************************************************************)
(* The interface-table and vlan-table half of consumer/main.go: the        *)
(* message loop of ConsumeClaim, handleInterface / handleVlan, and         *)
(* startCleanup on the table.  A message whose handler fails is not marked *)
(* but not retried either: the loop goes on to the next one.               *)
(***************************************************************************)
EXTENDS ConsumerGroup, ConfigRow

CONSTANTS
  Keys,         \* (node_id, name) or (node_id, vlan_id)
  MaxTime,      \* bound: telemetry timestamps and the consumer's clock
  Reports,      \* messages that decode: [key, ts, cells]
  Malformed,    \* a message json.Unmarshal rejects
  TTL           \* DATA_TTL_STATIC

Times == 0..MaxTime
NoTime == -1
Rows == [ts: Times, cells: [Columns -> Cells]]

ASSUME ConfigAssumption ==
  /\ MaxTime \in Nat /\ TTL \in Nat
  /\ Reports \subseteq [key: Keys, ts: Times, cells: [Columns -> Cells]]
  /\ Malformed \notin Reports
  /\ Messages = Reports \cup {Malformed}
  /\ NoRow \notin Rows

VARIABLES
  db,           \* interface_table / vlan_table: the row of each key
  now,          \* the consumer's clock
  setAt,        \* history: timestamp of the report each cell came from
  hw,           \* history: newest timestamp ever executed for each key
  failed        \* history: offsets whose handler returned an error

vars == <<groupVars, db, now, setAt, hw, failed>>

TypeOK ==
  /\ GroupTypeOK
  /\ db \in [Keys -> Rows \cup {NoRow}]
  /\ now \in Times
  /\ setAt \in [Keys -> [Columns -> Times \cup {NoTime}]]
  /\ hw \in [Keys -> Times \cup {NoTime}]
  /\ failed \subseteq Offsets

Init ==
  /\ GroupInit
  /\ db = [k \in Keys |-> NoRow]
  /\ now = 0
  /\ setAt = [k \in Keys |-> [c \in Columns |-> NoTime]]
  /\ hw = [k \in Keys |-> NoTime]
  /\ failed = {}

-----------------------------------------------------------------------------
(* One execution of the upsert. *)

Execute(m) ==
  LET k == m.key
      stale == db[k] # NoRow /\ ~ Newer(m.ts, db[k])
  IN  /\ db' = [db EXCEPT ![k] = UpsertRow(db[k], m.ts, m.cells)]
      /\ setAt' = [setAt EXCEPT ![k] =
                     [c \in Columns |->
                        IF stale \/ Param(m.cells, c) = Null THEN setAt[k][c] ELSE m.ts]]
      /\ hw' = [hw EXCEPT ![k] = MaxOf(hw[k], m.ts)]

\* The handler returns nil and the message is marked.
HandleOk ==
  /\ HasMessage
  /\ Taken # Malformed
  /\ Execute(Taken)
  /\ next' = next + 1
  /\ marked' = MarkAfter(next)
  /\ UNCHANGED <<log, proc, committed, base, now, failed>>

\* The handler returns an error: the message does not decode, Exec failed, or
\* Exec took effect and its answer was lost.  The loop goes on.
HandleError ==
  /\ HasMessage
  /\ \/ UNCHANGED <<db, setAt, hw>>
     \/ Taken # Malformed /\ Execute(Taken)
  /\ next' = next + 1
  /\ failed' = failed \cup {next}
  /\ UNCHANGED <<log, proc, marked, committed, base, now>>

-----------------------------------------------------------------------------
(* Session and process life cycle, clean-up, clock. *)

tableVars == <<db, now, setAt, hw, failed>>

\* claim.Messages() is closed and ConsumeClaim returns.
CloseClaim == marked' = marked /\ LeaveSession /\ UNCHANGED tableVars

GroupStep ==
  /\ \/ \E m \in Messages : Publish(m)
     \/ StartProcess
     \/ JoinSession
     \/ AutoCommit
     \/ ExitProcess
     \/ Crash
  /\ UNCHANGED tableVars

\* Mutant: the cut-off is now, the TTL is not subtracted.
Expired_noTTL(row) == row # NoRow /\ row.ts < now

Expired(row) == row # NoRow /\ row.ts < now - TTL

\* startCleanup: DELETE ... WHERE collected_at < now - ttl.
Cleanup ==
  /\ proc # "down"
  /\ db' = [k \in Keys |-> IF Expired(db[k]) THEN NoRow ELSE db[k]]
  /\ setAt' = [k \in Keys |-> IF Expired(db[k]) THEN [c \in Columns |-> NoTime]
                                                ELSE setAt[k]]
  /\ UNCHANGED <<groupVars, now, hw, failed>>

Tick ==
  /\ now < MaxTime
  /\ now' = now + 1
  /\ UNCHANGED <<groupVars, db, setAt, hw, failed>>

Next ==
  \/ HandleOk
  \/ HandleError
  \/ CloseClaim
  \/ GroupStep
  \/ Cleanup
  \/ Tick

Spec == Init /\ [][Next]_vars

-----------------------------------------------------------------------------
(* Properties *)

\* Every committed message is reflected in the table's history unless its own
\* handler failed: later successes that commit past a failed message are the
\* only way to lose one, whatever sessions and crashes come in between.
LossOnlyOfFailed ==
  \A o \in base..(committed - 1) :
    \/ o \in failed
    \/ log[o + 1] # Malformed /\ hw[log[o + 1].key] >= log[o + 1].ts

OnlyReportOf(o) ==
  \A p \in 1..Len(log) :
    p # o + 1 /\ log[p] # Malformed /\ log[p].key = log[o + 1].key
      => log[p].ts # log[o + 1].ts

\* A row dated t shows every column of the report dated t, in whatever order
\* reports arrived and however often they were delivered again: stale and
\* partial reports (COALESCE, the WHERE guard) never leave a mixture that
\* contradicts the newest report.
RowShowsItsReport ==
  \A o \in 0..(Len(log) - 1) :
    LET m == log[o + 1] IN
      m # Malformed /\ db[m.key] # NoRow /\ db[m.key].ts = m.ts /\ OnlyReportOf(o)
        => \A c \in Columns : Param(m.cells, c) # Null
                                => db[m.key].cells[c] = Param(m.cells, c)

\* Readers of the table see TelemetryTable: rows never go back in time, and
\* go only after the TTL.
Table == INSTANCE TelemetryTable
  WITH asOf <- [k \in Keys |-> IF db[k] = NoRow THEN NoTime ELSE db[k].ts]

ImplementsTable == Table!Spec

\* "The WHERE guard on DO UPDATE drops a stale row (...) so it can't resurrect
\* a just-removed value": while a row lives, the report a column's content
\* came from is never replaced by an older one.
NoResurrection ==
  [][\A k \in Keys, c \in Columns :
       db[k] # NoRow /\ db'[k] # NoRow => setAt'[k][c] >= setAt[k][c]]_vars
=============================================================================
