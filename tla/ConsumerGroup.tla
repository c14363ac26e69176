--------------------------- MODULE ConsumerGroup ---------------------------
(***************************************************************************)
(* One topic partition and the consumer group session of the consumer      *)
(* process on it, as consumer/main.go uses them (broker and sarama are     *)
(* external).  The deployment runs one consumer container and one          *)
(* partition per topic, so the group has a single member; what interleaves *)
(* with the handler is the background auto-commit, sessions that end, and  *)
(* crashes.                                                                *)
(*                                                                         *)
(* Offsets count from 0: the message at offset o is log[o + 1].            *)
(***************************************************************************)
EXTENDS Integers, Sequences

CONSTANTS
  Messages,     \* everything a topic may carry
  MaxLog        \* bound: messages ever published

ASSUME MaxLogAssumption == MaxLog \in Nat

VARIABLES
  log,          \* the partition: the published messages in broker order
  proc,         \* "down", "idle" (process up, between sessions) or "session"
  next,         \* offset of the next message the claim delivers
  marked,       \* MarkMessage: offset to resume from, not yet committed
  committed,    \* the group's committed offset in the broker
  base          \* history: where the current line of commits began

groupVars == <<log, proc, next, marked, committed, base>>

NoOffset == -1
Offsets == 0..MaxLog
MaxOf(a, b) == IF a >= b THEN a ELSE b

GroupTypeOK ==
  /\ log \in Seq(Messages) /\ Len(log) <= MaxLog
  /\ proc \in {"down", "idle", "session"}
  /\ next \in Offsets
  /\ marked \in Offsets \cup {NoOffset}
  /\ committed \in Offsets \cup {NoOffset}
  /\ base \in Offsets

GroupInit ==
  /\ log = <<>>
  /\ proc = "down"
  /\ next = 0 /\ base = 0
  /\ marked = NoOffset /\ committed = NoOffset

-----------------------------------------------------------------------------
(* Broker. *)

\* A producer (collector publish) appends a message.
Publish(m) ==
  /\ Len(log) < MaxLog
  /\ log' = Append(log, m)
  /\ UNCHANGED <<proc, next, marked, committed, base>>

-----------------------------------------------------------------------------
(* Process and session life cycle. *)

\* main up to the Consume loop.
StartProcess ==
  /\ proc = "down"
  /\ proc' = "idle"
  /\ UNCHANGED <<log, next, marked, committed, base>>

\* Mutant: every session starts at the newest offset.
JoinSession_newest ==
  /\ proc = "idle"
  /\ proc' = "session"
  /\ next' = Len(log)
  /\ marked' = committed
  /\ base' = IF committed = NoOffset THEN Len(log) ELSE base
  /\ UNCHANGED <<log, committed>>

\* Consume joins the group and ConsumeClaim starts.  Without a committed
\* offset Offsets.Initial = OffsetNewest applies: what is already in the
\* partition is skipped, and a new line of commits begins there.
JoinSession ==
  /\ proc = "idle"
  /\ proc' = "session"
  /\ next' = IF committed = NoOffset THEN Len(log) ELSE committed
  /\ marked' = committed
  /\ base' = IF committed = NoOffset THEN Len(log) ELSE base
  /\ UNCHANGED <<log, committed>>

\* The claim has another message; the handler that takes it moves next.
HasMessage == proc = "session" /\ next < Len(log)
Taken == log[next + 1]

\* Mutant: one is added again to the offset + 1 that MarkMessage marks.
MarkAfter_skips(o) == MaxOf(marked, o + 2)

\* sess.MarkMessage of offset o: sarama only ever moves the mark forward.
MarkAfter(o) == MaxOf(marked, o + 1)

\* sarama's background commit of the marked offset.
AutoCommit ==
  /\ proc = "session"
  /\ marked > committed
  /\ committed' = marked
  /\ UNCHANGED <<log, proc, next, marked, base>>

\* The session ends after the handler returned (rebalance, broker
\* connection, SIGTERM), with a last commit of the mark the handler left;
\* that commit may fail.
LeaveSession ==
  /\ proc = "session"
  /\ proc' = "idle"
  /\ committed' \in {committed, marked'}
  /\ UNCHANGED <<log, next, base>>

\* main returns: ctx was cancelled while Consume was running.
ExitProcess ==
  /\ proc = "idle"
  /\ proc' = "down"
  /\ UNCHANGED <<log, next, marked, committed, base>>

\* The process dies; the position and marks that were not committed are gone.
Crash ==
  /\ proc # "down"
  /\ proc' = "down"
  /\ next' = 0 /\ marked' = NoOffset
  /\ UNCHANGED <<log, committed, base>>

=============================================================================
