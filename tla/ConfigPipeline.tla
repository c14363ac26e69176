--------------------------- MODULE ConfigPipeline ---------------------------
(***************************************************************************)
(* One interface of one device, from its running configuration to its row  *)
(* in interface_table.  The device pushes it over two dial-out streams, a  *)
(* periodic subscription (full state) and an on-change one (deltas); each  *)
(* stream has its own MdtDialout goroutine in the collector, so the two    *)
(* are not ordered with respect to each other.  publishInterface turns a   *)
(* push into an IfEntry, and the consumer upserts it (ConfigRow).  The     *)
(* session of the consumer is ConfigConsumer's subject; here it reads the  *)
(* topic in order, may fail on any message, and starts again from a        *)
(* committed offset or, without a valid one, at the end of the topic.      *)
(***************************************************************************)
EXTENDS ConfigRow, Sequences

CONSTANTS
  Pointers,     \* *string / *int / *uint16 fields of IfEntry
  OmitEmpty,    \* VRF, MTU: plain fields with omitempty
  Flags,        \* Shutdown: a bool that is always on the wire
  On,           \* true
  MaxTime,      \* bound: the device's clock, in ms
  MaxPushes,    \* bound: pushes the device makes
  TTL           \* DATA_TTL_STATIC

ASSUME PipelineAssumption ==
  /\ MaxTime \in Nat \ {0} /\ MaxPushes \in Nat /\ TTL \in Nat
  /\ Columns = Pointers \cup OmitEmpty \cup Flags
  /\ Pointers \cap OmitEmpty = {} /\ Flags \cap (Pointers \cup OmitEmpty) = {}
  /\ On \in Values /\ Empty \notin Values   \* what is configured is not empty
  /\ NullIf = {}                            \* interface_table has none
  /\ NoRow \notin [ts: 0..MaxTime, cells: [Columns -> Cells]]

Streams == {"periodic", "onchange"}
Times == 0..MaxTime

VARIABLES
  cfg,          \* the device's configuration; Null where not configured
  now,          \* the clock (device and consumer agree on it)
  changedAt,    \* history: when the configuration last changed
  pushes,       \* how many pushes were made
  stream,       \* pushes on their way to the collector
  topic,        \* interface-table, from the consumer's position on
  handled,      \* entries read that may not be committed yet
  row,          \* the interface's row
  published,    \* history: number of the push published last
  inOrder,      \* history: pushes were published in the order they were made
  lossless      \* history: no push was lost, no row expired

vars == <<cfg, now, changedAt, pushes, stream, topic, handled, row, published, inOrder, lossless>>
history == <<published, inOrder, lossless>>

\* What can be configured in column c.
Settings(c) == IF c \in Flags THEN {On} ELSE Values \ {On}

\* A push and the entry made of it; n is its number, which nothing reads.
Push == [n: 1..MaxPushes, ts: Times, cells: [Columns -> Cells]]
Rows == [ts: Times, cells: [Columns -> Cells]]

\* Types, and the NOT NULL of interface_table.shutdown.
TypeOK ==
  /\ cfg \in [Columns -> Cells] /\ \A c \in Columns : cfg[c] \in Settings(c) \cup {Null}
  /\ now \in Times /\ changedAt \in Times
  /\ pushes \in 0..MaxPushes
  /\ stream \in [Streams -> Seq(Push)]
  /\ topic \in Seq(Push) /\ handled \in Seq(Push)
  /\ row \in Rows \cup {NoRow}
  /\ row # NoRow => \A c \in Flags : row.cells[c] # Null
  /\ published \in 0..MaxPushes
  /\ inOrder \in BOOLEAN /\ lossless \in BOOLEAN

Init ==
  /\ cfg = [c \in Columns |-> Null]
  /\ now = 1 /\ changedAt = 0
  /\ pushes = 0
  /\ stream = [s \in Streams |-> <<>>]
  /\ topic = <<>> /\ handled = <<>>
  /\ row = NoRow
  /\ published = 0 /\ inOrder = TRUE /\ lossless = TRUE

-----------------------------------------------------------------------------
(* Device (external). *)

PushOn(s, cells) ==
  /\ pushes < MaxPushes
  /\ pushes' = pushes + 1
  /\ stream' = [stream EXCEPT ![s] = Append(@,
       [n |-> pushes', ts |-> now, cells |-> cells])]

\* A field is configured, changed or removed.  The on-change subscription
\* pushes just that field, present and empty when it was removed.
Configure(c, v) ==
  /\ v # cfg[c]
  /\ cfg' = [cfg EXCEPT ![c] = v]
  /\ changedAt' = now
  /\ PushOn("onchange", [d \in Columns |-> IF d # c THEN Null
                                           ELSE IF v = Null THEN Empty ELSE v])
  /\ UNCHANGED <<now, topic, handled, row, history>>

\* The periodic subscription pushes the configured fields.
Periodic ==
  /\ PushOn("periodic", cfg)
  /\ UNCHANGED <<cfg, now, changedAt, topic, handled, row, history>>

Tick ==
  /\ now < MaxTime
  /\ now' = now + 1
  /\ UNCHANGED <<cfg, changedAt, pushes, stream, topic, handled, row, history>>

-----------------------------------------------------------------------------
(* Collector. *)

\* Mutant: shutdown is a pointer like the other fields.
WireCell_flagPointer(c, cell) ==
  IF c \in OmitEmpty /\ cell = Empty THEN Null ELSE cell

\* Mutant: pointer fields are only captured when they are not empty.
WireCell_suppressesEmpty(c, cell) ==
  CASE c \in Pointers \cup OmitEmpty -> IF cell = Empty THEN Null ELSE cell
    [] c \in Flags -> IF cell = Null THEN Empty ELSE On

\* The fields of IfEntry as they are marshalled: an absent pointer is null,
\* a plain field with omitempty loses its empty value, and shutdown says
\* whether its node was present.
WireCell(c, cell) ==
  CASE c \in Pointers -> cell
    [] c \in OmitEmpty -> IF cell = Empty THEN Null ELSE cell
    [] c \in Flags -> IF cell = Null THEN Empty ELSE On

Entry(p) == [p EXCEPT !.cells = [c \in Columns |-> WireCell(c, p.cells[c])]]

\* MdtDialout takes the next push of a stream, publishInterface sends it; the
\* producer's own retries may append an entry twice.
Collect(s) ==
  /\ stream[s] # <<>>
  /\ stream' = [stream EXCEPT ![s] = Tail(@)]
  /\ LET e == Entry(Head(stream[s])) IN
       /\ topic' \in {Append(topic, e), topic \o <<e, e>>}
       /\ published' = e.n
       /\ inOrder' = (inOrder /\ e.n > published)
  /\ UNCHANGED <<cfg, now, changedAt, pushes, handled, row, lossless>>

\* SendMessage fails: the error is logged and the push acknowledged.
CollectFails(s) ==
  /\ stream[s] # <<>>
  /\ stream' = [stream EXCEPT ![s] = Tail(@)]
  /\ lossless' = FALSE
  /\ UNCHANGED <<cfg, now, changedAt, pushes, topic, handled, row, published, inOrder>>

-----------------------------------------------------------------------------
(* Consumer. *)

Take ==
  /\ topic # <<>>
  /\ topic' = Tail(topic)
  /\ handled' = Append(handled, Head(topic))

Consume ==
  /\ Take
  /\ row' = UpsertRow(row, Head(topic).ts, Head(topic).cells)
  /\ UNCHANGED <<cfg, now, changedAt, pushes, stream, history>>

\* handleInterface fails and ConsumeClaim goes on to the next entry.
ConsumeFails ==
  /\ Take
  /\ lossless' = FALSE
  /\ UNCHANGED <<cfg, now, changedAt, pushes, stream, row, published, inOrder>>

\* The session ends or the process dies; the next one starts at the committed
\* offset, somewhere among the entries that were handled.
Redeliver ==
  /\ handled # <<>>
  /\ \E k \in DOMAIN handled : topic' = SubSeq(handled, k, Len(handled)) \o topic
  /\ handled' = <<>>
  /\ UNCHANGED <<cfg, now, changedAt, pushes, stream, row, history>>

\* A session starts without a valid offset, because none was committed yet or
\* because the topic's retention has passed it: Offsets.Initial = OffsetNewest
\* skips all that is in the topic.
SkipToNewest ==
  /\ topic # <<>>
  /\ topic' = <<>> /\ handled' = <<>>
  /\ lossless' = FALSE
  /\ UNCHANGED <<cfg, now, changedAt, pushes, stream, row, published, inOrder>>

\* startCleanup.
Expire ==
  /\ row # NoRow
  /\ row.ts < now - TTL
  /\ row' = NoRow
  /\ lossless' = FALSE
  /\ UNCHANGED <<cfg, now, changedAt, pushes, stream, topic, handled, published, inOrder>>

Next ==
  \/ \E c \in Columns : \E v \in Settings(c) \cup {Null} : Configure(c, v)
  \/ Periodic
  \/ Tick
  \/ \E s \in Streams : Collect(s) \/ CollectFails(s)
  \/ Consume
  \/ ConsumeFails
  \/ Redeliver
  \/ SkipToNewest
  \/ Expire

Spec == Init /\ [][Next]_vars

-----------------------------------------------------------------------------
(* Properties *)

Current == row # NoRow /\ row.ts > changedAt

\* Snapshots heal.  Once a row is dated after the last configuration change it
\* shows every configured field, and shutdown exactly, whatever pushes were
\* lost, duplicated, reordered, delivered again or skipped before.
SnapshotHeals ==
  Current =>
    /\ \A c \in Columns : cfg[c] # Null => row.cells[c] = cfg[c]
    /\ \A c \in Flags : cfg[c] = Null => row.cells[c] = Empty

Settled == topic = <<>> /\ \A s \in Streams : stream[s] = <<>>

\* Everything pushed has reached the table.
Delivered == Settled /\ lossless /\ row # NoRow

Blank(c) == {Null, Empty, InsertDefault[c]}

\* On-change deltas alone keep the pointer fields right: if every push arrived
\* in the order it was made, once or again after a restart, the row shows what
\* is configured and nothing that was removed (nil -> no-op, empty -> clear,
\* value -> set).
DeltasMirror ==
  Delivered /\ inOrder =>
    \A c \in Pointers : IF cfg[c] # Null THEN row.cells[c] = cfg[c]
                                         ELSE row.cells[c] \in Blank(c)

\* collector/main.go on IfEntry: "&""/&0 -> field present but empty (on-change
\* removal) -> clear".  Checked once all pushes arrived and a snapshot newer
\* than the last change is in the row.
RemovedFieldCleared ==
  Delivered /\ Current =>
    \A c \in Pointers : cfg[c] = Null => row.cells[c] \in Blank(c)

\* README, interface_table.shutdown: "true if administratively down".
ShutdownShown ==
  Delivered /\ inOrder => \A c \in Flags : cfg[c] = On => row.cells[c] = On
=============================================================================
