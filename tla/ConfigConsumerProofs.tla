------------------------ MODULE ConfigConsumerProofs ------------------------
(***************************************************************************)
(* Safety of the interface and VLAN half of the consumer, for every set of *)
(* keys, columns and reports, and that it implements TelemetryTable.       *)
(*                                                                         *)
(* Three facts carry the proofs.  Every delivered offset of the current    *)
(* line of commits is handled (HandledBefore), which the commit can rely   *)
(* on because marks stay behind the delivery.  Every row has a report it   *)
(* was last written from, which is still in the log (RowOrigin).  And no   *)
(* cell is newer than its row (CellsNotNewer).                             *)
(***************************************************************************)
EXTENDS ConfigConsumer, TLAPS

\* The message at offset o failed, or it or a newer one was executed.
Handled(o) ==
  \/ o \in failed
  \/ log[o + 1] # Malformed /\ hw[log[o + 1].key] >= log[o + 1].ts

HandledBefore(end) == \A o \in base..(end - 1) : Handled(o)

OffsetsInv ==
  /\ base <= Len(log)
  /\ committed <= Len(log)
  /\ proc = "session" => marked <= next /\ next <= Len(log)

DeliveryInv ==
  /\ HandledBefore(committed)
  /\ proc = "session" => HandledBefore(next)

\* The p-th message of the log is a report of k that the row shows in full.
ShownBy(p, k, row) ==
  /\ log[p] # Malformed /\ log[p].key = k /\ log[p].ts = row.ts
  /\ \A c \in Columns : Param(log[p].cells, c) # Null
                          => row.cells[c] = Param(log[p].cells, c)

RowOrigin ==
  \A k \in Keys : db[k] # NoRow => \E p \in 1..Len(log) : ShownBy(p, k, db[k])

CellsNotNewer ==
  \A k \in Keys, c \in Columns :
    IF db[k] = NoRow THEN setAt[k][c] = NoTime ELSE setAt[k][c] <= db[k].ts

IInv == TypeOK /\ OffsetsInv /\ DeliveryInv /\ RowOrigin /\ CellsNotNewer

-----------------------------------------------------------------------------
(* Facts about single definitions. *)

\* Timestamps are integers, and no row is dated "never".
LEMMA TimeFacts ==
  /\ \A t \in Times : t \in Int /\ NoTime <= t /\ t # NoTime
  /\ NoTime \in Int
BY ConfigAssumption DEF Times, NoTime

\* What a message that decodes carries.
LEMMA ReportFacts ==
  ASSUME NEW m \in Reports
  PROVE  m.key \in Keys /\ m.ts \in Times /\ m.cells \in [Columns -> Cells]
BY ConfigAssumption

\* A row of the table has a timestamp and a cell for every column.
LEMMA RowFacts ==
  ASSUME TypeOK, NEW k \in Keys, db[k] # NoRow
  PROVE  db[k] \in Rows /\ db[k].ts \in Times /\ db[k].cells \in [Columns -> Cells]
<1>1. db[k] \in Rows
  BY DEF TypeOK
<1> QED BY <1>1 DEF Rows

\* Statement parameters are cell contents.
LEMMA ParamType ==
  ASSUME NEW cells \in [Columns -> Cells], NEW c \in Columns
  PROVE  Param(cells, c) \in Cells
BY DEF Param, Cells

\* An insert shows every column the report carries.
LEMMA InsertedShows ==
  ASSUME NEW cells \in [Columns -> Cells]
  PROVE  /\ Inserted(cells) \in [Columns -> Cells]
         /\ \A c \in Columns : Param(cells, c) # Null
                                 => Inserted(cells)[c] = Param(cells, c)
BY ParamType, RowAssumption DEF Inserted

\* So does COALESCE with the new value first.
LEMMA MergedShows ==
  ASSUME NEW old \in [Columns -> Cells], NEW cells \in [Columns -> Cells]
  PROVE  /\ Merged(old, cells) \in [Columns -> Cells]
         /\ \A c \in Columns : Param(cells, c) # Null
                                 => Merged(old, cells)[c] = Param(cells, c)
BY ParamType DEF Merged

\* One upsert: a stale report leaves the row alone, any other makes it a row
\* of the report's date that shows all the report carries.
LEMMA UpsertFacts ==
  ASSUME NEW row \in Rows \cup {NoRow}, NEW m \in Reports
  PROVE  LET new == UpsertRow(row, m.ts, m.cells) IN
           /\ new \in Rows /\ new # NoRow
           /\ row # NoRow /\ ~ Newer(m.ts, row) => new = row
           /\ row = NoRow \/ Newer(m.ts, row) =>
                /\ new.ts = m.ts
                /\ \A c \in Columns : Param(m.cells, c) # Null
                                        => new.cells[c] = Param(m.cells, c)
<1> DEFINE new == UpsertRow(row, m.ts, m.cells)
<1>1. m.ts \in Times /\ m.cells \in [Columns -> Cells]
  BY ReportFacts
<1>2. CASE row = NoRow
  <2>1. new = [ts |-> m.ts, cells |-> Inserted(m.cells)]
    BY <1>2 DEF UpsertRow
  <2>2. new \in Rows
    BY <1>1, <2>1, InsertedShows DEF Rows
  <2> QED BY <1>1, <1>2, <2>1, <2>2, InsertedShows, ConfigAssumption
<1>3. CASE row # NoRow /\ Newer(m.ts, row)
  <2>0. row \in Rows /\ row.cells \in [Columns -> Cells]
    BY <1>3 DEF Rows
  <2>1. new = [ts |-> m.ts, cells |-> Merged(row.cells, m.cells)]
    BY <1>3 DEF UpsertRow
  <2>2. new \in Rows
    BY <1>1, <2>0, <2>1, MergedShows DEF Rows
  <2> QED BY <1>1, <1>3, <2>0, <2>1, <2>2, MergedShows, ConfigAssumption
<1>4. CASE row # NoRow /\ ~ Newer(m.ts, row)
  BY <1>4 DEF UpsertRow
<1> QED BY <1>2, <1>3, <1>4

\* The message a handler takes is a published report.
LEMMA TakenFacts ==
  ASSUME TypeOK, HasMessage, Taken # Malformed
  PROVE  Taken \in Reports /\ next + 1 \in 1..Len(log)
<1>1. next + 1 \in 1..Len(log)
  BY DEF TypeOK, GroupTypeOK, HasMessage, Offsets
<1>2. Taken \in Messages
  BY <1>1 DEF TypeOK, GroupTypeOK, Taken
<1> QED BY <1>1, <1>2, ConfigAssumption

\* One execution of the statement, for the row it is about.
LEMMA ExecuteFacts ==
  ASSUME TypeOK, NEW m \in Reports, Execute(m)
  PROVE  /\ db' \in [Keys -> Rows \cup {NoRow}]
         /\ setAt' \in [Keys -> [Columns -> Times \cup {NoTime}]]
         /\ hw' \in [Keys -> Times \cup {NoTime}]
         /\ \A k \in Keys \ {m.key} : db'[k] = db[k] /\ setAt'[k] = setAt[k] /\ hw'[k] = hw[k]
         /\ db'[m.key] = UpsertRow(db[m.key], m.ts, m.cells)
         /\ hw'[m.key] >= m.ts
         /\ \A k \in Keys : hw'[k] >= hw[k]
<1> DEFINE k == m.key
<1>1. k \in Keys /\ m.ts \in Times /\ m.ts \in Int
  BY ReportFacts, TimeFacts
<1>2. db[k] \in Rows \cup {NoRow} /\ hw[k] \in Times \cup {NoTime}
  BY <1>1 DEF TypeOK
<1>3. \A j \in Keys : hw[j] \in Int
  BY TimeFacts DEF TypeOK
<1>4. db' = [db EXCEPT ![k] = UpsertRow(db[k], m.ts, m.cells)]
  BY DEF Execute
<1>5. db' \in [Keys -> Rows \cup {NoRow}]
  BY <1>1, <1>2, <1>4, UpsertFacts DEF TypeOK
<1>6. setAt' \in [Keys -> [Columns -> Times \cup {NoTime}]]
  BY <1>1 DEF Execute, TypeOK
<1>7. hw' = [hw EXCEPT ![k] = MaxOf(hw[k], m.ts)]
  BY DEF Execute
<1>8. /\ MaxOf(hw[k], m.ts) \in Times \cup {NoTime}
      /\ MaxOf(hw[k], m.ts) >= m.ts /\ MaxOf(hw[k], m.ts) >= hw[k]
  BY <1>1, <1>2, <1>3 DEF MaxOf
<1>9. hw' \in [Keys -> Times \cup {NoTime}]
  BY <1>1, <1>7, <1>8 DEF TypeOK
<1>10. hw'[k] >= m.ts /\ \A j \in Keys : hw'[j] >= hw[j]
  BY <1>1, <1>3, <1>7, <1>8 DEF TypeOK
<1>11. \A j \in Keys \ {k} : db'[j] = db[j] /\ setAt'[j] = setAt[j] /\ hw'[j] = hw[j]
  BY DEF Execute, TypeOK
<1> QED BY <1>1, <1>4, <1>5, <1>6, <1>9, <1>10, <1>11 DEF TypeOK

\* What the statement does to the cells' history.
LEMMA ExecuteCells ==
  ASSUME TypeOK, NEW m \in Reports, Execute(m), NEW c \in Columns
  PROVE  /\ db[m.key] # NoRow /\ ~ Newer(m.ts, db[m.key])
              => setAt'[m.key][c] = setAt[m.key][c]
         /\ setAt'[m.key][c] \in {setAt[m.key][c], m.ts}
BY ReportFacts DEF Execute, TypeOK

-----------------------------------------------------------------------------
(* The step of the invariant, action by action. *)

\* The table, its history and the clock are as they were.
TableUnchanged == UNCHANGED tableVars

\* What a step of the group does that leaves the table alone: the log only
\* grows, and offsets keep their order.
LEMMA GroupStepTypes ==
  ASSUME IInv, CloseClaim \/ GroupStep
  PROVE  TypeOK' /\ OffsetsInv' /\ TableUnchanged
<1> USE DEF IInv
<1>t. /\ log \in Seq(Messages) /\ Len(log) \in Nat /\ Len(log) <= MaxLog /\ MaxLog \in Nat
      /\ next \in Offsets /\ base \in Offsets
      /\ marked \in Offsets \cup {NoOffset} /\ committed \in Offsets \cup {NoOffset}
  BY MaxLogAssumption DEF TypeOK, GroupTypeOK
<1>u. TableUnchanged
  BY DEF CloseClaim, GroupStep, TableUnchanged
<1>1. GroupTypeOK' /\ OffsetsInv'
  <2>1. CASE CloseClaim
    BY <1>t, <2>1 DEF CloseClaim, LeaveSession, TypeOK, GroupTypeOK, OffsetsInv, Offsets, NoOffset
  <2>2. ASSUME NEW m \in Messages, Publish(m)
        PROVE  GroupTypeOK' /\ OffsetsInv'
    <3>1. log' \in Seq(Messages) /\ Len(log') = Len(log) + 1
      BY <1>t, <2>2 DEF Publish
    <3> QED BY <1>t, <2>2, <3>1 DEF Publish, TypeOK, GroupTypeOK, OffsetsInv, Offsets, NoOffset
  <2>3. CASE StartProcess
    BY <1>t, <2>3 DEF StartProcess, TypeOK, GroupTypeOK, OffsetsInv
  <2>4. CASE JoinSession
    BY <1>t, <2>4 DEF JoinSession, TypeOK, GroupTypeOK, OffsetsInv, Offsets, NoOffset
  <2>5. CASE AutoCommit
    BY <1>t, <2>5 DEF AutoCommit, TypeOK, GroupTypeOK, OffsetsInv, Offsets, NoOffset
  <2>6. CASE ExitProcess
    BY <1>t, <2>6 DEF ExitProcess, TypeOK, GroupTypeOK, OffsetsInv
  <2>7. CASE Crash
    BY <1>t, <2>7 DEF Crash, TypeOK, GroupTypeOK, OffsetsInv, Offsets, NoOffset
  <2> QED BY <2>1, <2>2, <2>3, <2>4, <2>5, <2>6, <2>7 DEF GroupStep
<1>2. TypeOK'
  BY <1>1, <1>u DEF TypeOK, TableUnchanged, tableVars
<1> QED BY <1>1, <1>2, <1>u

\* Handling one message moves the delivery on by one and the mark not past it.
LEMMA HandleTypes ==
  ASSUME IInv, HandleOk \/ HandleError
  PROVE  /\ TypeOK' /\ OffsetsInv'
         /\ next' = next + 1 /\ UNCHANGED <<log, proc, committed, base, now>>
         /\ \A k \in Keys : hw'[k] >= hw[k]
         /\ failed \subseteq failed'
         /\ \A o \in Nat : o = next => Handled(o)'
<1> USE DEF IInv
<1>t. /\ log \in Seq(Messages) /\ Len(log) \in Nat /\ Len(log) <= MaxLog /\ MaxLog \in Nat
      /\ next \in Offsets /\ next < Len(log) /\ proc = "session"
      /\ marked \in Offsets \cup {NoOffset} /\ marked <= next
  BY MaxLogAssumption DEF TypeOK, GroupTypeOK, HandleOk, HandleError, HasMessage, OffsetsInv
<1>f. next' = next + 1 /\ UNCHANGED <<log, proc, committed, base, now>>
  BY DEF HandleOk, HandleError
<1>g. GroupTypeOK' /\ OffsetsInv'
  <2>1. marked' \in Offsets \cup {NoOffset} /\ marked' <= next'
    <3>1. CASE HandleOk
      BY <1>t, <1>f, <3>1 DEF HandleOk, MarkAfter, MaxOf, Offsets, NoOffset
    <3>2. CASE HandleError
      BY <1>t, <1>f, <3>2 DEF HandleError, Offsets, NoOffset
    <3> QED BY <3>1, <3>2
  <2> QED BY <1>t, <1>f, <2>1 DEF TypeOK, GroupTypeOK, OffsetsInv, Offsets
<1>h. \A k \in Keys : hw[k] \in Int
  BY TimeFacts DEF TypeOK
<1>1. CASE Taken # Malformed /\ Execute(Taken)
  <2>1. Taken \in Reports /\ Taken.key \in Keys
    BY <1>1, TakenFacts, ReportFacts DEF HandleOk, HandleError
  <2>2. /\ db' \in [Keys -> Rows \cup {NoRow}]
        /\ setAt' \in [Keys -> [Columns -> Times \cup {NoTime}]]
        /\ hw' \in [Keys -> Times \cup {NoTime}]
        /\ \A k \in Keys : hw'[k] >= hw[k]
        /\ hw'[Taken.key] >= Taken.ts
    BY <1>1, <2>1, ExecuteFacts
  <2>3. failed' \subseteq Offsets /\ failed \subseteq failed'
    BY <1>t DEF HandleOk, HandleError, TypeOK
  <2>4. TypeOK'
    BY <1>g, <1>f, <2>2, <2>3 DEF TypeOK
  <2>5. log'[next + 1] # Malformed /\ hw'[log'[next + 1].key] >= log'[next + 1].ts
    BY <1>1, <1>f, <2>2 DEF Taken
  <2> QED BY <1>g, <1>f, <2>2, <2>3, <2>4, <2>5 DEF Handled
<1>2. CASE HandleError /\ UNCHANGED <<db, setAt, hw>>
  <2>1. failed' = failed \cup {next}
    BY <1>2 DEF HandleError
  <2>2. TypeOK'
    BY <1>t, <1>g, <1>f, <1>2, <2>1 DEF TypeOK
  <2> QED BY <1>g, <1>f, <1>h, <1>2, <2>1, <2>2 DEF Handled
<1> QED BY <1>1, <1>2 DEF HandleOk, HandleError

\* A published message stays where it is.
LogKept == Len(log') >= Len(log) /\ \A p \in 1..Len(log) : log'[p] = log[p]

\* No step takes a message out of the log or changes one.
LEMMA LogOnlyGrows ==
  ASSUME TypeOK, [Next]_vars
  PROVE  LogKept
<1>t. log \in Seq(Messages) /\ Len(log) \in Nat
  BY DEF TypeOK, GroupTypeOK
<1>1. ASSUME NEW m \in Messages, Publish(m)
      PROVE  LogKept
  BY <1>t, <1>1 DEF Publish, LogKept
<1>2. CASE UNCHANGED log
  BY <1>t, <1>2 DEF LogKept
<1> QED
  BY <1>1, <1>2 DEF Next, HandleOk, HandleError, CloseClaim, LeaveSession, GroupStep,
     StartProcess, JoinSession, AutoCommit, ExitProcess, Crash, Cleanup, Tick, vars, groupVars

\* What was handled stays handled: neither failures nor executions are undone.
LEMMA HandledStable ==
  ASSUME TypeOK, TypeOK', LogKept, failed \subseteq failed',
         \A k \in Keys : hw'[k] >= hw[k],
         NEW o \in Nat, o < Len(log), Handled(o)
  PROVE  Handled(o)'
<1>1. Len(log) \in Nat /\ o + 1 \in 1..Len(log)
  BY DEF TypeOK, GroupTypeOK
<1>2. log'[o + 1] = log[o + 1] /\ log[o + 1] \in Messages
  BY <1>1 DEF LogKept, TypeOK, GroupTypeOK
<1>3. CASE o \in failed
  BY <1>3 DEF Handled
<1>4. CASE log[o + 1] # Malformed /\ hw[log[o + 1].key] >= log[o + 1].ts
  <2> DEFINE m == log[o + 1]
  <2>1. m \in Reports
    BY <1>2, <1>4, ConfigAssumption
  <2>2. m.key \in Keys /\ m.ts \in Int
    BY <2>1, ReportFacts, TimeFacts
  <2>3. hw[m.key] \in Int /\ hw'[m.key] \in Int
    BY <2>2, TimeFacts DEF TypeOK
  <2>4. hw[m.key] >= m.ts /\ hw'[m.key] >= hw[m.key]
    BY <2>2, <1>4
  <2> HIDE DEF m
  <2>5. hw'[m.key] >= m.ts
    BY <2>2, <2>3, <2>4
  <2> QED BY <1>2, <1>4, <2>5 DEF Handled, m
<1> QED BY <1>3, <1>4 DEF Handled

\* The offsets before any end that is in the log stay handled.
LEMMA HandledBeforeStable ==
  ASSUME TypeOK, TypeOK', LogKept, failed \subseteq failed',
         \A k \in Keys : hw'[k] >= hw[k], base' = base,
         NEW end \in Int, end <= Len(log), HandledBefore(end)
  PROVE  HandledBefore(end)'
<1> SUFFICES ASSUME NEW o \in base..(end - 1)
             PROVE  Handled(o)'
  BY DEF HandledBefore
<1>1. o \in Nat /\ o < Len(log)
  BY DEF TypeOK, GroupTypeOK, Offsets
<1>2. Handled(o)
  BY DEF HandledBefore
<1> QED BY <1>1, <1>2, HandledStable

\* Sooner ends ask for less.
LEMMA HandledBeforeEarlier ==
  ASSUME NEW e \in Int, NEW f \in Int, e <= f, base \in Int, HandledBefore(f)
  PROVE  HandledBefore(e)
BY DEF HandledBefore

\* Commits, marks and deliveries: every step keeps committed and delivered
\* offsets handled.
LEMMA DeliveryStep ==
  ASSUME IInv, TypeOK', OffsetsInv', [Next]_vars
  PROVE  DeliveryInv'
<1> USE DEF IInv
<1>t. /\ committed \in Int /\ committed' \in Int /\ marked \in Int /\ next \in Int
      /\ next' \in Int /\ base \in Int /\ base' \in Int /\ Len(log) \in Nat
  BY DEF TypeOK, GroupTypeOK, Offsets, NoOffset
<1>k. LogKept
  BY LogOnlyGrows
<1>1. CASE HandleOk \/ HandleError
  <2>1. /\ next' = next + 1 /\ UNCHANGED <<log, proc, committed, base, now>>
        /\ \A k \in Keys : hw'[k] >= hw[k]
        /\ failed \subseteq failed'
        /\ \A o \in Nat : o = next => Handled(o)'
    BY <1>1, HandleTypes
  <2>2. proc = "session"
    BY <1>1 DEF HandleOk, HandleError, HasMessage
  <2>3. \A o \in base..(committed - 1) : Handled(o)'
    BY <1>t, <1>k, <2>1, HandledBeforeStable DEF DeliveryInv, OffsetsInv, HandledBefore
  <2>4. \A o \in base..(next - 1) : Handled(o)'
    <3>1. HandledBefore(next) /\ next <= Len(log)
      BY <2>2 DEF DeliveryInv, OffsetsInv
    <3>2. ASSUME NEW o \in base..(next - 1)
          PROVE  Handled(o)'
      <4>1. o \in Nat /\ o < Len(log) /\ Handled(o)
        BY <1>t, <3>1 DEF HandledBefore, TypeOK, GroupTypeOK, Offsets
      <4> QED BY <1>k, <2>1, <4>1, HandledStable
    <3> QED BY <3>2
  <2>5. \A o \in base..(next' - 1) : Handled(o)'
    <3>1. \A o \in base..(next' - 1) : o \in base..(next - 1) \/ (o = next /\ o \in Nat)
      BY <1>t, <2>1 DEF TypeOK, GroupTypeOK, Offsets
    <3> QED BY <2>1, <2>4, <3>1
  <2> QED BY <2>1, <2>3, <2>5 DEF DeliveryInv, HandledBefore
<1>2. CASE ~ (HandleOk \/ HandleError)
  <2>1. /\ failed' = failed
        /\ hw' = hw
    BY <1>2 DEF Next, CloseClaim, GroupStep, Cleanup, Tick, tableVars, vars
  <2>2. failed \subseteq failed' /\ \A k \in Keys : hw'[k] >= hw[k]
    <3>1. \A k \in Keys : hw[k] \in Int
      BY TimeFacts DEF TypeOK
    <3> QED BY <2>1, <3>1
  <2>3. ASSUME NEW end \in Int, end <= Len(log), HandledBefore(end), base' = base
        PROVE  HandledBefore(end)'
    BY <1>k, <2>2, <2>3, HandledBeforeStable
  <2>4. CASE CloseClaim \/ AutoCommit
    <3>1. /\ proc = "session" /\ base' = base /\ next' = next
          /\ committed' \in {committed, marked}
      BY <2>4 DEF CloseClaim, LeaveSession, AutoCommit
    <3>2. marked <= next /\ next <= Len(log) /\ HandledBefore(next)
      BY <3>1 DEF OffsetsInv, DeliveryInv
    <3>3. HandledBefore(marked)
      BY <1>t, <3>2, HandledBeforeEarlier
    <3>4. ASSUME NEW end \in Int, end = committed \/ end = marked \/ end = next
          PROVE  HandledBefore(end)'
      BY <1>t, <2>3, <3>1, <3>2, <3>3, <3>4 DEF DeliveryInv, OffsetsInv
    <3>5. \A o \in base'..(committed' - 1) : Handled(o)'
      BY <1>t, <3>1, <3>4 DEF HandledBefore
    <3>6. \A o \in base'..(next' - 1) : Handled(o)'
      BY <1>t, <3>1, <3>4 DEF HandledBefore
    <3> QED BY <3>5, <3>6 DEF DeliveryInv, HandledBefore
  <2>5. CASE JoinSession
    <3>1. CASE committed = NoOffset
      BY <1>t, <2>5, <3>1 DEF JoinSession, DeliveryInv, HandledBefore, NoOffset, TypeOK,
         GroupTypeOK, Offsets
    <3>2. CASE committed # NoOffset
      <4>1. next' = committed /\ committed' = committed /\ base' = base
        BY <2>5, <3>2 DEF JoinSession
      <4>2. \A o \in base..(committed - 1) : Handled(o)'
        BY <1>t, <2>3, <4>1 DEF DeliveryInv, OffsetsInv, HandledBefore
      <4> QED BY <4>1, <4>2 DEF DeliveryInv, HandledBefore
    <3> QED BY <3>1, <3>2
  <2>6. CASE ~ (CloseClaim \/ AutoCommit \/ JoinSession)
    <3>1. /\ committed' = committed /\ base' = base
          /\ proc' = "session" => proc = "session" /\ next' = next
      BY <1>2, <2>6 DEF Next, GroupStep, Publish, StartProcess, ExitProcess, Crash,
         Cleanup, Tick, groupVars, vars
    <3>2. \A o \in base..(committed - 1) : Handled(o)'
      BY <1>t, <2>3, <3>1 DEF DeliveryInv, OffsetsInv, HandledBefore
    <3>3. proc' = "session" => \A o \in base..(next - 1) : Handled(o)'
      BY <1>t, <2>3, <3>1 DEF DeliveryInv, OffsetsInv, HandledBefore
    <3> QED BY <3>1, <3>2, <3>3 DEF DeliveryInv, HandledBefore
  <2> QED BY <2>4, <2>5, <2>6
<1> QED BY <1>1, <1>2

\* Every step leaves each row as it is, removes it, or is an execution of the
\* message the handler took.
LEMMA TableStep ==
  ASSUME IInv, [Next]_vars
  PROVE  \/ /\ HasMessage /\ Taken # Malformed /\ Execute(Taken)
            /\ UNCHANGED <<log, now>>
         \/ UNCHANGED <<db, setAt>>
         \/ Cleanup
BY DEF Next, HandleOk, HandleError, CloseClaim, GroupStep, Tick, tableVars, vars

\* Rows keep the report they were last written from.
LEMMA OriginStep ==
  ASSUME IInv, TypeOK', [Next]_vars
  PROVE  RowOrigin'
<1> USE DEF IInv
<1>k. LogKept /\ Len(log) \in Nat /\ Len(log') \in Nat
  BY LogOnlyGrows DEF TypeOK, GroupTypeOK
<1>s. ASSUME NEW k \in Keys, db[k] # NoRow, db'[k] = db[k]
      PROVE  \E p \in 1..Len(log') : ShownBy(p, k, db[k])'
  <2>1. PICK p \in 1..Len(log) : ShownBy(p, k, db[k])
    BY <1>s DEF RowOrigin
  <2>2. p \in 1..Len(log')
    BY <1>k DEF LogKept
  <2>3. log'[p] = log[p]
    BY <1>k DEF LogKept
  <2>4. ShownBy(p, k, db[k])'
    BY <1>s, <2>1, <2>3 DEF ShownBy
  <2> QED BY <2>2, <2>4
<1> SUFFICES ASSUME NEW k \in Keys, db'[k] # NoRow
             PROVE  \E p \in 1..Len(log') : ShownBy(p, k, db[k])'
  BY DEF RowOrigin
<1>1. CASE HasMessage /\ Taken # Malformed /\ Execute(Taken) /\ UNCHANGED <<log, now>>
  <2>1. Taken \in Reports /\ next + 1 \in 1..Len(log)
    BY <1>1, TakenFacts
  <2>2. CASE k # Taken.key
    <3>1. db'[k] = db[k]
      BY <1>1, <2>1, <2>2, ExecuteFacts
    <3> QED BY <1>s, <3>1
  <2>3. CASE k = Taken.key
    <3>0. db[k] \in Rows \cup {NoRow} /\ db'[k] = UpsertRow(db[k], Taken.ts, Taken.cells)
      BY <1>1, <2>1, <2>3, ExecuteFacts DEF TypeOK
    <3>1. CASE db[k] # NoRow /\ ~ Newer(Taken.ts, db[k])
      <4>1. db'[k] = db[k]
        BY <2>1, <3>0, <3>1, UpsertFacts
      <4> QED BY <1>s, <4>1
    <3>2. CASE db[k] = NoRow \/ Newer(Taken.ts, db[k])
      <4>1. /\ db'[k].ts = Taken.ts
            /\ \A c \in Columns : Param(Taken.cells, c) # Null
                                    => db'[k].cells[c] = Param(Taken.cells, c)
        <5>1. ASSUME NEW m \in Reports, m = Taken, NEW new, new = UpsertRow(db[k], m.ts, m.cells)
              PROVE  /\ new.ts = m.ts
                     /\ \A c \in Columns : Param(m.cells, c) # Null
                                             => new.cells[c] = Param(m.cells, c)
          BY <3>0, <3>2, <5>1, UpsertFacts
        <5> QED BY <2>1, <3>0, <5>1
      <4>2. ASSUME NEW p \in 1..Len(log), p = next + 1
            PROVE  ShownBy(p, k, db[k])'
        <5>1. log'[p] = Taken
          BY <1>1, <4>2 DEF Taken
        <5> QED BY <1>1, <2>3, <4>1, <5>1 DEF ShownBy
      <4>3. Len(log') = Len(log)
        BY <1>1
      <4> QED BY <2>1, <4>2, <4>3
    <3> QED BY <3>1, <3>2
  <2> QED BY <2>2, <2>3
<1>2. CASE UNCHANGED <<db, setAt>>
  BY <1>s, <1>2
<1>3. CASE Cleanup
  <2>1. db'[k] = db[k]
    BY <1>3 DEF Cleanup
  <2> QED BY <1>s, <2>1
<1> QED BY <1>1, <1>2, <1>3, TableStep

\* No cell gets ahead of its row.
LEMMA CellsStep ==
  ASSUME IInv, TypeOK', [Next]_vars
  PROVE  CellsNotNewer'
<1> USE DEF IInv
<1> SUFFICES ASSUME NEW k \in Keys, NEW c \in Columns
             PROVE  IF db'[k] = NoRow THEN setAt'[k][c] = NoTime
                                      ELSE setAt'[k][c] <= db'[k].ts
  BY DEF CellsNotNewer
<1>0. IF db[k] = NoRow THEN setAt[k][c] = NoTime ELSE setAt[k][c] <= db[k].ts
  BY DEF CellsNotNewer
<1>1. CASE HasMessage /\ Taken # Malformed /\ Execute(Taken) /\ UNCHANGED <<log, now>>
  <2>1. Taken \in Reports
    BY <1>1, TakenFacts
  <2>2. CASE k # Taken.key
    <3>1. db'[k] = db[k] /\ setAt'[k] = setAt[k]
      BY <1>1, <2>1, <2>2, ExecuteFacts
    <3> QED BY <1>0, <3>1
  <2>3. CASE k = Taken.key
    <3>0. db[k] \in Rows \cup {NoRow} /\ db'[k] = UpsertRow(db[k], Taken.ts, Taken.cells)
      BY <1>1, <2>1, <2>3, ExecuteFacts DEF TypeOK
    <3>1. CASE db[k] # NoRow /\ ~ Newer(Taken.ts, db[k])
      <4>1. db'[k] = db[k] /\ setAt'[k][c] = setAt[k][c]
        BY <1>1, <2>1, <2>3, <3>0, <3>1, UpsertFacts, ExecuteCells
      <4> QED BY <1>0, <3>1, <4>1
    <3>2. CASE db[k] = NoRow \/ Newer(Taken.ts, db[k])
      <4>1. db'[k] # NoRow /\ db'[k].ts = Taken.ts
        BY <2>1, <3>0, <3>2, UpsertFacts
      <4>2. setAt'[k][c] \in {setAt[k][c], Taken.ts}
        BY <1>1, <2>1, <2>3, ExecuteCells
      <4>3. Taken.ts \in Int /\ NoTime <= Taken.ts
        BY <2>1, ReportFacts, TimeFacts
      <4>4. setAt[k][c] \in Int
        BY TimeFacts DEF TypeOK
      <4>5. setAt[k][c] <= Taken.ts
        <5>1. CASE db[k] = NoRow
          BY <1>0, <4>3, <5>1
        <5>2. CASE db[k] # NoRow
          <6>1. db[k].ts \in Int
            BY <5>2, RowFacts, TimeFacts
          <6> QED BY <1>0, <3>2, <4>3, <4>4, <5>2, <6>1 DEF Newer
        <5> QED BY <5>1, <5>2
      <4> QED BY <4>1, <4>2, <4>3, <4>5
    <3> QED BY <3>1, <3>2
  <2> QED BY <2>2, <2>3
<1>2. CASE UNCHANGED <<db, setAt>>
  BY <1>0, <1>2
<1>3. CASE Cleanup
  BY <1>0, <1>3 DEF Cleanup
<1> QED BY <1>1, <1>2, <1>3, TableStep

\* Clean-up and clock keep the types.
LEMMA TypesStep ==
  ASSUME IInv, [Next]_vars
  PROVE  TypeOK' /\ OffsetsInv'
<1> USE DEF IInv
<1>1. CASE HandleOk \/ HandleError
  BY <1>1, HandleTypes
<1>2. CASE CloseClaim \/ GroupStep
  BY <1>2, GroupStepTypes
<1>3. CASE Cleanup
  <2>1. db' \in [Keys -> Rows \cup {NoRow}]
    BY <1>3 DEF Cleanup, TypeOK
  <2>2. setAt' \in [Keys -> [Columns -> Times \cup {NoTime}]]
    BY <1>3 DEF Cleanup, TypeOK
  <2> QED BY <1>3, <2>1, <2>2 DEF Cleanup, TypeOK, GroupTypeOK, OffsetsInv, groupVars
<1>4. CASE Tick
  BY <1>4, ConfigAssumption DEF Tick, TypeOK, GroupTypeOK, OffsetsInv, groupVars, Times
<1>5. CASE UNCHANGED vars
  BY <1>5 DEF vars, TypeOK, GroupTypeOK, OffsetsInv, groupVars
<1> QED BY <1>1, <1>2, <1>3, <1>4, <1>5 DEF Next

\* The invariant holds from the start and is kept by every step.
LEMMA Inductive ==
  /\ Init => IInv
  /\ IInv /\ [Next]_vars => IInv'
<1>1. Init => IInv
  <2> SUFFICES ASSUME Init PROVE IInv
    OBVIOUS
  <2>1. TypeOK
    BY MaxLogAssumption, ConfigAssumption
       DEF Init, GroupInit, TypeOK, GroupTypeOK, Offsets, NoOffset, Times
  <2>2. OffsetsInv /\ DeliveryInv
    BY DEF Init, GroupInit, OffsetsInv, DeliveryInv, HandledBefore, NoOffset
  <2>3. RowOrigin /\ CellsNotNewer
    BY DEF Init, RowOrigin, CellsNotNewer
  <2> QED BY <2>1, <2>2, <2>3 DEF IInv
<1>2. IInv /\ [Next]_vars => IInv'
  BY TypesStep, DeliveryStep, OriginStep, CellsStep DEF IInv
<1> QED BY <1>1, <1>2

-----------------------------------------------------------------------------
(* The theorems. *)

\* The inductive invariant is an invariant.
THEOREM Invariant == Spec => []IInv
BY Inductive, PTL DEF Spec

\* The consumer's state is well typed.
THEOREM TypeCorrect == Spec => []TypeOK
<1>1. IInv => TypeOK
  BY DEF IInv
<1> QED BY <1>1, Invariant, PTL

\* An offset the group committed past was handled: ConsumeClaim never marks a
\* message before its handler returned nil, and marks move only forward.  The
\* only messages lost are those whose own handler failed.
THEOREM CommittedIsHandled == Spec => []LossOnlyOfFailed
<1>1. IInv => LossOnlyOfFailed
  BY DEF IInv, DeliveryInv, HandledBefore, Handled, LossOnlyOfFailed
<1> QED BY <1>1, Invariant, PTL

\* The COALESCE upsert with its WHERE guard never leaves a row that
\* contradicts the one report of its date.
THEOREM RowsShowReports == Spec => []RowShowsItsReport
<1>1. IInv => RowShowsItsReport
  <2> SUFFICES ASSUME IInv, NEW o \in 0..(Len(log) - 1), log[o + 1] # Malformed,
                      db[log[o + 1].key] # NoRow,
                      db[log[o + 1].key].ts = log[o + 1].ts, OnlyReportOf(o),
                      NEW c \in Columns, Param(log[o + 1].cells, c) # Null
               PROVE  db[log[o + 1].key].cells[c] = Param(log[o + 1].cells, c)
    BY DEF RowShowsItsReport
  <2> DEFINE m == log[o + 1]
  <2>1. Len(log) \in Nat /\ o + 1 \in 1..Len(log)
    BY DEF IInv, TypeOK, GroupTypeOK
  <2>2. m \in Reports
    BY <2>1, ConfigAssumption DEF IInv, TypeOK, GroupTypeOK
  <2>3. m.key \in Keys
    BY <2>2, ReportFacts
  <2>4. PICK p \in 1..Len(log) : ShownBy(p, m.key, db[m.key])
    BY <2>3 DEF IInv, RowOrigin
  <2>5. p = o + 1
    BY <2>4 DEF ShownBy, OnlyReportOf
  <2> QED BY <2>4, <2>5 DEF ShownBy
<1> QED BY <1>1, Invariant, PTL

\* The report behind a cell of a living row is only replaced by one that is not
\* older: the WHERE guard drops stale reports, and a report that passes it is
\* at least as new as the row, hence as all its cells.
THEOREM NothingResurrected == Spec => NoResurrection
<1> DEFINE Step == \A k \in Keys, c \in Columns :
                     db[k] # NoRow /\ db'[k] # NoRow => setAt'[k][c] >= setAt[k][c]
<1>1. IInv /\ [Next]_vars => Step
  <2> USE DEF IInv
  <2> SUFFICES ASSUME IInv, [Next]_vars,
                      NEW k \in Keys, NEW c \in Columns, db[k] # NoRow, db'[k] # NoRow
               PROVE  setAt'[k][c] >= setAt[k][c]
    OBVIOUS
  <2>0. setAt[k][c] \in Int
    BY TimeFacts DEF TypeOK
  <2>1. CASE HasMessage /\ Taken # Malformed /\ Execute(Taken) /\ UNCHANGED <<log, now>>
    <3>1. Taken \in Reports /\ Taken.ts \in Int
      BY <2>1, TakenFacts, ReportFacts, TimeFacts
    <3>2. CASE k # Taken.key
      <4>1. setAt'[k] = setAt[k]
        BY <2>1, <3>1, <3>2, ExecuteFacts
      <4> QED BY <2>0, <4>1
    <3>3. CASE k = Taken.key /\ ~ Newer(Taken.ts, db[k])
      <4>1. setAt'[k][c] = setAt[k][c]
        BY <2>1, <3>1, <3>3, ExecuteCells
      <4> QED BY <2>0, <4>1
    <3>4. CASE k = Taken.key /\ Newer(Taken.ts, db[k])
      <4>1. setAt'[k][c] \in {setAt[k][c], Taken.ts}
        BY <2>1, <3>1, <3>4, ExecuteCells
      <4>2. setAt[k][c] <= db[k].ts /\ db[k].ts \in Int
        BY RowFacts, TimeFacts DEF CellsNotNewer
      <4>3. db[k].ts <= Taken.ts
        BY <3>1, <3>4, <4>2 DEF Newer
      <4> QED BY <2>0, <3>1, <4>1, <4>2, <4>3
    <3> QED BY <3>2, <3>3, <3>4
  <2>2. CASE UNCHANGED <<db, setAt>>
    BY <2>0, <2>2
  <2>3. CASE Cleanup
    <3>1. setAt'[k] = setAt[k]
      BY <2>3 DEF Cleanup
    <3> QED BY <2>0, <3>1
  <2> QED BY <2>1, <2>2, <2>3, TableStep
<1>2. IInv /\ [Next]_vars => [Step]_vars
  BY <1>1
<1> QED BY <1>2, Invariant, PTL DEF Spec, NoResurrection

-----------------------------------------------------------------------------
(* Readers see TelemetryTable. *)

\* collected_at of each row, as the refinement mapping reads it.
AsOf == [k \in Keys |-> IF db[k] = NoRow THEN NoTime ELSE db[k].ts]

\* An execution that is not stale is a report, a stale one is not seen.
LEMMA ExecuteIsReport ==
  ASSUME IInv, NEW m \in Reports, Execute(m), now' = now
  PROVE  [Table!Next]_(Table!tableVars)
<1> USE DEF IInv
<1> DEFINE k == m.key
           changed == {c \in Columns : Param(m.cells, c) # Null}
<1>0. k \in Keys /\ m.ts \in Times /\ m.ts \in Int
  BY ReportFacts, TimeFacts
<1>1. /\ \A j \in Keys \ {k} : db'[j] = db[j]
      /\ db[k] \in Rows \cup {NoRow} /\ db'[k] = UpsertRow(db[k], m.ts, m.cells)
      /\ db' \in [Keys -> Rows \cup {NoRow}]
  BY <1>0, ExecuteFacts DEF TypeOK
<1>2. CASE db[k] # NoRow /\ ~ Newer(m.ts, db[k])
  <2>1. db'[k] = db[k]
    BY <1>1, <1>2, UpsertFacts
  <2>2. \A j \in Keys : db'[j] = db[j]
    BY <1>1, <2>1
  <2>3. AsOf' = AsOf
    BY <2>2 DEF AsOf
  <2>4. setAt' = [setAt EXCEPT ![k] = [c \in Columns |-> setAt[k][c]]]
    BY <1>2 DEF Execute
  <2>5. setAt' = setAt
    BY <1>0, <2>4 DEF TypeOK
  <2> QED BY <2>3, <2>5 DEF Table!tableVars, AsOf
<1>3. CASE db[k] = NoRow \/ Newer(m.ts, db[k])
  <2>1. db'[k] # NoRow /\ db'[k].ts = m.ts
    <3> HIDE DEF k, changed
    <3> QED BY <1>1, <1>3, UpsertFacts
  <2>2. AsOf[k] <= m.ts
    <3>1. CASE db[k] = NoRow
      BY <1>0, <3>1, TimeFacts DEF AsOf
    <3>2. CASE db[k] # NoRow
      <4>1. db[k].ts \in Int
        BY <1>0, <3>2, RowFacts, TimeFacts
      <4> QED BY <1>0, <1>3, <3>2, <4>1 DEF AsOf, Newer
    <3> QED BY <3>1, <3>2
  <2>3. AsOf' = [AsOf EXCEPT ![k] = m.ts]
    <3>1. \A j \in Keys : AsOf'[j] = IF j = k THEN m.ts ELSE AsOf[j]
      BY <1>1, <2>1 DEF AsOf
    <3> QED BY <1>0, <3>1 DEF AsOf
  <2>4. setAt' = [setAt EXCEPT ![k] = [c \in Columns |->
                    IF c \in changed THEN m.ts ELSE setAt[k][c]]]
    BY <1>3 DEF Execute
  <2>5. Table!Report(k, m.ts, changed)
    BY <2>2, <2>3, <2>4 DEF Table!Report, AsOf
  <2>6. m.ts \in Table!Times /\ changed \in SUBSET Columns
    BY <1>0 DEF Times, Table!Times
  <2> QED BY <1>0, <2>5, <2>6 DEF Table!Next
<1> QED BY <1>2, <1>3

\* The DELETE of startCleanup takes only rows that were not refreshed in time.
LEMMA CleanupIsExpire ==
  ASSUME IInv, Cleanup
  PROVE  Table!Expire
<1> USE DEF IInv
<1>1. ASSUME NEW k \in Keys
      PROVE  \/ AsOf'[k] = AsOf[k] /\ setAt'[k] = setAt[k]
             \/ /\ AsOf[k] # NoTime /\ AsOf[k] < now - TTL
                /\ AsOf'[k] = NoTime
                /\ setAt'[k] = [c \in Columns |-> NoTime]
  <2>1. CASE ~ Expired(db[k])
    BY <2>1 DEF Cleanup, AsOf
  <2>2. CASE Expired(db[k])
    <3>1. db[k] # NoRow /\ db[k].ts < now - TTL
      BY <2>2 DEF Expired
    <3>2. db[k].ts \in Times /\ db[k].ts # NoTime
      BY <3>1, RowFacts, TimeFacts
    <3>3. db'[k] = NoRow /\ setAt'[k] = [c \in Columns |-> NoTime]
      BY <2>2 DEF Cleanup
    <3> QED BY <3>1, <3>2, <3>3 DEF AsOf
  <2> QED BY <2>1, <2>2
<1>2. now' = now
  BY DEF Cleanup
<1> QED BY <1>1, <1>2 DEF Table!Expire, AsOf, NoTime, Table!NoTime

\* interface_table and vlan_table, as the consumer keeps them, are what
\* TelemetryTable promises: rows never go back in time and go only after the
\* TTL, whatever is redelivered, fails half way or crashes.
THEOREM Refinement == Spec => ImplementsTable
<1>1. Init => Table!Init
  BY DEF Init, Table!Init, NoTime, Table!NoTime
<1>2. IInv /\ [Next]_vars => [Table!Next]_(Table!tableVars)
  <2> SUFFICES ASSUME IInv, [Next]_vars
               PROVE  [Table!Next]_(Table!tableVars)
    OBVIOUS
  <2>1. CASE HasMessage /\ Taken # Malformed /\ Execute(Taken) /\ UNCHANGED <<log, now>>
    <3>1. Taken \in Reports
      BY <2>1, TakenFacts DEF IInv
    <3> QED BY <2>1, <3>1, ExecuteIsReport
  <2>2. CASE Cleanup
    BY <2>2, CleanupIsExpire DEF Table!Next
  <2>3. CASE Tick
    BY <2>3 DEF Tick, Table!Next, Table!Tick
  <2>4. CASE UNCHANGED <<db, setAt>> /\ ~ Tick
    <3>1. now' = now
      BY <2>4 DEF Next, HandleOk, HandleError, CloseClaim, GroupStep, Cleanup, tableVars, vars
    <3> QED BY <2>4, <3>1 DEF Table!tableVars
  <2> QED BY <2>1, <2>2, <2>3, <2>4, TableStep
<1> QED BY <1>1, <1>2, Invariant, PTL DEF Spec, ImplementsTable, Table!Spec
=============================================================================
