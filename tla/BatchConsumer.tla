--------------------------- MODULE BatchConsumer ---------------------------
(***************************************************************************)
(* consumeMACBatch (and consumeARPBatch, the same code over other columns) *)
(* of consumer/main.go: messages are buffered by row key, flushed as one   *)
(* upsert on size, on a timer or when the claim closes, and the offset is  *)
(* marked after a flush succeeds.  startCleanup deletes old rows beside it. *)
(***************************************************************************)
EXTENDS ConsumerGroup, DedupBatch, FiniteSets

CONSTANTS
  Payloads,     \* the JSON arrays that decode: sequences of entries
  Malformed,    \* a message json.Unmarshal rejects
  BatchSize,    \* macBatchSize / arpBatchSize
  TTL           \* DATA_TTL_DYNAMIC

ASSUME BatchAssumption ==
  /\ BatchSize \in Nat \ {0} /\ TTL \in Nat
  /\ Payloads \subseteq Seq(Entry)
  /\ Malformed \notin Payloads
  /\ Messages = Payloads \cup {Malformed}

VARIABLES
  batch,        \* the handler's map
  lastMsg,      \* offset of the last buffered message, NoOffset for nil
  db,           \* mac_table: the row of each key
  now,          \* the consumer's clock
  hw            \* history: newest timestamp ever written for each key

vars == <<groupVars, batch, lastMsg, db, now, hw>>

NoTime == -1

TypeOK ==
  /\ GroupTypeOK
  /\ batch \in Batches
  /\ lastMsg \in Offsets \cup {NoOffset}
  /\ db \in Batches
  /\ now \in Times
  /\ hw \in [Keys -> Times \cup {NoTime}]

Init ==
  /\ GroupInit
  /\ batch = EmptyBatch
  /\ lastMsg = NoOffset
  /\ db = [k \in Keys |-> NoEntry]
  /\ now = 0
  /\ hw = [k \in Keys |-> NoTime]

-----------------------------------------------------------------------------
(* flush *)

\* INSERT ... ON CONFLICT DO UPDATE of the whole batch, one statement: it
\* overwrites whatever row is there.
Upsert(b) ==
  /\ db' = [k \in Keys |-> IF b[k] # NoEntry THEN b[k] ELSE db[k]]
  /\ hw' = [k \in Keys |-> IF b[k] # NoEntry THEN MaxOf(hw[k], b[k].ts)
                                             ELSE hw[k]]

FlushNothing(b, last) ==
  /\ Buffered(b) = {}
  /\ batch' = b /\ lastMsg' = last
  /\ UNCHANGED <<marked, db, hw>>

FlushOk(b, last) ==
  /\ Buffered(b) # {}
  /\ Upsert(b)
  /\ marked' = MarkAfter(last)
  /\ batch' = EmptyBatch /\ lastMsg' = NoOffset

\* Mutant: the offset is marked and the batch dropped whatever Exec returned.
FlushError_marks(b, last) ==
  /\ Buffered(b) # {}
  /\ Upsert(b) \/ UNCHANGED <<db, hw>>
  /\ marked' = MarkAfter(last)
  /\ batch' = EmptyBatch /\ lastMsg' = NoOffset

\* Mutant: lastMsg is reset before the error return.
FlushError_resetsLast(b, last) ==
  /\ Buffered(b) # {}
  /\ Upsert(b) \/ UNCHANGED <<db, hw>>
  /\ batch' = b /\ lastMsg' = NoOffset
  /\ UNCHANGED marked

\* Mutant: the batch is emptied before the error return.
FlushError_drops(b, last) ==
  /\ Buffered(b) # {}
  /\ Upsert(b) \/ UNCHANGED <<db, hw>>
  /\ batch' = EmptyBatch /\ lastMsg' = last
  /\ UNCHANGED marked

\* Exec returned an error.  Either nothing happened, or the statement was
\* committed and only its answer was lost; the handler cannot tell.
FlushError(b, last) ==
  /\ Buffered(b) # {}
  /\ Upsert(b) \/ UNCHANGED <<db, hw>>
  /\ batch' = b /\ lastMsg' = last
  /\ UNCHANGED marked

Flush(b, last) == FlushNothing(b, last) \/ FlushOk(b, last) \/ FlushError(b, last)

-----------------------------------------------------------------------------
(* The select loop. *)

\* A message that does not decode is marked and skipped.
ReceiveMalformed ==
  /\ HasMessage
  /\ Taken = Malformed
  /\ next' = next + 1
  /\ marked' = MarkAfter(next)
  /\ UNCHANGED <<log, proc, committed, base, batch, lastMsg, db, now, hw>>

\* A message is buffered; a full batch is flushed at once.
ReceiveEntries ==
  /\ HasMessage
  /\ Taken # Malformed
  /\ next' = next + 1
  /\ LET b == Absorb(batch, Taken) IN
       IF Cardinality(Buffered(b)) >= BatchSize
       THEN Flush(b, next)
       ELSE batch' = b /\ lastMsg' = next /\ UNCHANGED <<marked, db, hw>>
  /\ UNCHANGED <<log, proc, committed, base, now>>

\* case <-timer.C
TimerFlush ==
  /\ proc = "session"
  /\ Flush(batch, lastMsg)
  /\ UNCHANGED <<log, proc, next, committed, base, now>>

\* claim.Messages() is closed: a last flush, then the handler returns and
\* its map is gone.
CloseClaim ==
  /\ Flush(batch, lastMsg)
  /\ LeaveSession
  /\ UNCHANGED now

-----------------------------------------------------------------------------
(* Session start, process life cycle, clean-up, clock. *)

Join ==
  /\ JoinSession
  /\ batch' = EmptyBatch /\ lastMsg' = NoOffset
  /\ UNCHANGED <<db, now, hw>>

GroupStep ==
  /\ \/ \E m \in Messages : Publish(m)
     \/ StartProcess
     \/ AutoCommit
     \/ ExitProcess
  /\ UNCHANGED <<batch, lastMsg, db, now, hw>>

Die ==
  /\ Crash
  /\ batch' = EmptyBatch /\ lastMsg' = NoOffset
  /\ UNCHANGED <<db, now, hw>>

\* startCleanup, while the process is up: DELETE ... WHERE collected_at <
\* now - ttl.
Expired(e) == e # NoEntry /\ e.ts < now - TTL

Cleanup ==
  /\ proc # "down"
  /\ db' = [k \in Keys |-> IF Expired(db[k]) THEN NoEntry ELSE db[k]]
  /\ UNCHANGED <<groupVars, batch, lastMsg, now, hw>>

Tick ==
  /\ now < MaxTime
  /\ now' = now + 1
  /\ UNCHANGED <<groupVars, batch, lastMsg, db, hw>>

Next ==
  \/ ReceiveMalformed
  \/ ReceiveEntries
  \/ TimerFlush
  \/ CloseClaim
  \/ Join
  \/ GroupStep
  \/ Die
  \/ Cleanup
  \/ Tick

Spec == Init /\ [][Next]_vars

\* The select loop keeps taking ready messages, its timer keeps firing, and
\* Postgres does not reject or drop the same batch for ever.
TimerFlushOk == TimerFlush /\ FlushOk(batch, lastMsg)

Fairness ==
  /\ WF_vars(ReceiveMalformed \/ ReceiveEntries)
  /\ WF_vars(TimerFlushOk)

FairSpec == Spec /\ Fairness

-----------------------------------------------------------------------------
(* Properties *)

EntriesAt(o) ==
  IF o < Len(log) /\ log[o + 1] # Malformed THEN log[o + 1] ELSE <<>>

\* Everything the message at offset o reported has been written, or
\* something at least as new for the same key has.
Written(o) == \A i \in DOMAIN EntriesAt(o) :
                hw[EntriesAt(o)[i].key] >= EntriesAt(o)[i].ts

MalformedBetween(o, end) == \E p \in (o + 1)..(end - 1) : log[p + 1] = Malformed

\* At-least-once delivery and its one gap.  An offset the group has committed
\* past is written to the table, whatever flush errors, session ends and
\* crashes came before the commit, unless a malformed message behind it was
\* marked (the MarkMessage of the json.Unmarshal branch) while the earlier
\* message was still only in the batch.
LossOnlyBehindMalformed ==
  \A o \in base..(committed - 1) : Written(o) \/ MalformedBetween(o, committed)

\* flush never calls MarkMessage with a nil lastMsg, and never marks a message
\* the claim has not delivered: whenever a flush would write rows, lastMsg is
\* a delivered offset.
MarksDeliveredMessage ==
  proc = "session" /\ Buffered(batch) # {} => lastMsg \in 0..(next - 1)

\* The telemetry of each key reached the topic in timestamp order.
LogInOrder ==
  \A o, p \in 0..(Len(log) - 1) : o < p =>
    \A i \in DOMAIN EntriesAt(o), j \in DOMAIN EntriesAt(p) :
      EntriesAt(o)[i].key = EntriesAt(p)[j].key
        => EntriesAt(o)[i].ts <= EntriesAt(p)[j].ts

NothingMalformed == \A o \in 0..(Len(log) - 1) : log[o + 1] # Malformed

Drained == proc = "session" /\ next = Len(log) /\ Buffered(batch) = {}

\* Replay heals.  The upsert has no timestamp guard, so messages delivered
\* again after a crash push rows back; but once the session has caught up with
\* an ordered, well-formed topic, every row that is still there is the newest
\* ever written for its key.
DrainedRowsAreNewest ==
  Drained /\ LogInOrder /\ NothingMalformed =>
    \A k \in Keys : db[k] # NoEntry => db[k].ts = hw[k]

\* README: "each row always reflects the most recent telemetry snapshot for
\* that key" - for topics in timestamp order, so that redelivery is the only
\* source of older data.
RowIsNewestWritten ==
  LogInOrder => \A k \in Keys : db[k] # NoEntry => db[k].ts = hw[k]

\* Everything published before a session reads it is written, as long as the
\* session lasts: nothing stays in the batch for ever.
PublishedIsWritten ==
  \A o \in 0..(MaxLog - 1) :
    proc = "session" /\ next <= o /\ o < Len(log)
      ~> (proc = "session" => Written(o))
=============================================================================
