------------------------ MODULE ConfigPipelineProofs ------------------------
(***************************************************************************)
(* What a row of interface_table shows, for any columns, values and        *)
(* bounds.  Two invariants.  TimeInv is about snapshots: whatever is dated *)
(* after the last change says what is configured.  MirrorInv is about      *)
(* deltas that all arrived in order: of the pushes that say something of a *)
(* column, the last one is right, and it is on its way, in the topic, or   *)
(* in the row.                                                             *)
(***************************************************************************)
EXTENDS ConfigPipeline, SequenceTheorems, TLAPS

\* The pushes on their way to the collector.
InFlight == UNION {Range(stream[s]) : s \in Streams}

\* What the consumer read and may read again, and what it has not read.
Readable == handled \o topic

-----------------------------------------------------------------------------
(* Snapshots. *)

\* The entry cells say what is configured.
WireCells(cells) == [c \in Columns |-> WireCell(c, cells[c])]

TimeInv ==
  /\ changedAt <= now
  /\ \A p \in InFlight : p.ts <= now /\ (p.ts > changedAt => p.cells = cfg)
  /\ \A e \in Range(handled) \cup Range(topic) :
       /\ e.ts <= now /\ (e.ts > changedAt => e.cells = WireCells(cfg))
       /\ \A c \in Flags : e.cells[c] # Null
  /\ row # NoRow => row.ts <= now

SnapInv == TypeOK /\ TimeInv /\ SnapshotHeals

-----------------------------------------------------------------------------
(* Sequences. *)

\* The elements of a sequence are of its type.
LEMMA RangeType ==
  ASSUME NEW S, NEW s \in Seq(S)
  PROVE  Range(s) \subseteq S
BY RangeOfSeq

\* Appending adds one element.
LEMMA RangeAppend ==
  ASSUME NEW S, NEW s \in Seq(S), NEW e \in S
  PROVE  Range(Append(s, e)) = Range(s) \cup {e}
<1>1. Append(s, e) \in Seq(S) /\ Len(Append(s, e)) = Len(s) + 1
      /\ (\A i \in 1..Len(s) : Append(s, e)[i] = s[i]) /\ Append(s, e)[Len(s) + 1] = e
  BY AppendProperties
<1>2. Range(s) = {s[i] : i \in 1..Len(s)}
  BY RangeEquality
<1>3. Range(Append(s, e)) = {Append(s, e)[i] : i \in 1..(Len(s) + 1)}
  BY <1>1, RangeEquality
<1>4. Len(s) \in Nat
  BY LenProperties
<1>5. 1..(Len(s) + 1) = 1..Len(s) \cup {Len(s) + 1}
  BY <1>4
<1> QED BY <1>1, <1>2, <1>3, <1>5

\* Two sequences, one after the other.
LEMMA RangeConcat ==
  ASSUME NEW S, NEW s \in Seq(S), NEW t \in Seq(S)
  PROVE  s \o t \in Seq(S) /\ Range(s \o t) = Range(s) \cup Range(t)
<1>1. s \o t \in Seq(S)
  BY ConcatProperties
<1>2. Range(s \o t) = Range(s) \cup Range(t)
  BY RangeConcatenation
<1> QED BY <1>1, <1>2

\* A sequence is its head and its tail.
LEMMA RangeTail ==
  ASSUME NEW S, NEW s \in Seq(S), s # <<>>
  PROVE  Range(s) = {Head(s)} \cup Range(Tail(s))
<1>1. Tail(s) \in Seq(S) /\ Len(Tail(s)) = Len(s) - 1
      /\ \A i \in 1..Len(Tail(s)) : Tail(s)[i] = s[i + 1]
  BY HeadTailProperties
<1>2. Len(s) \in Nat \ {0}
  BY EmptySeq
<1>3. Head(s) = s[1]
  OBVIOUS
<1>4. Range(s) = {s[i] : i \in 1..Len(s)}
  BY RangeEquality
<1>5. Range(Tail(s)) = {Tail(s)[i] : i \in 1..(Len(s) - 1)}
  BY <1>1, RangeEquality
<1>6. \A i \in 1..Len(s) : i = 1 \/ (i - 1 \in 1..(Len(s) - 1) /\ (i - 1) + 1 = i)
  BY <1>2
<1>7. 1 \in 1..Len(s) /\ \A i \in 1..(Len(s) - 1) : i + 1 \in 1..Len(s)
  BY <1>2
<1>8. Range(s) \subseteq {Head(s)} \cup Range(Tail(s))
  BY <1>1, <1>3, <1>4, <1>5, <1>6, SMTT(30)
<1>9. {Head(s)} \cup Range(Tail(s)) \subseteq Range(s)
  BY <1>1, <1>3, <1>4, <1>5, <1>7
<1> QED BY <1>8, <1>9

\* A suffix has no other elements.
LEMMA RangeSuffix ==
  ASSUME NEW S, NEW s \in Seq(S), NEW k \in DOMAIN s
  PROVE  /\ SubSeq(s, k, Len(s)) \in Seq(S)
         /\ Range(SubSeq(s, k, Len(s))) \subseteq Range(s)
<1> DEFINE u == SubSeq(s, k, Len(s))
<1>1. Len(s) \in Nat /\ DOMAIN s = 1..Len(s) /\ s \in [1..Len(s) -> S]
  BY LenProperties
<1>2. k \in 1..Len(s) /\ \A i \in k..Len(s) : s[i] \in S
  BY <1>1
<1>3. u \in Seq(S) /\ Len(u) = Len(s) - k + 1
      /\ \A i \in 1..(Len(s) - k + 1) : u[i] = s[k + i - 1]
  BY <1>1, <1>2, SubSeqProperties
<1>4. Range(u) = {u[i] : i \in 1..Len(u)}
  BY <1>3, RangeEquality
<1>5. Range(s) = {s[i] : i \in 1..Len(s)}
  BY RangeEquality
<1>6. \A i \in 1..(Len(s) - k + 1) : k + i - 1 \in 1..Len(s)
  BY <1>1, <1>2
<1> HIDE DEF u
<1>7. Range(u) \subseteq Range(s)
  BY <1>3, <1>4, <1>5, <1>6
<1> QED BY <1>3, <1>7 DEF u

-----------------------------------------------------------------------------
(* Pushes, entries and rows. *)

\* The fields of a push.
LEMMA PushFacts ==
  ASSUME NEW p \in Push
  PROVE  /\ p.n \in 1..MaxPushes /\ p.n \in Nat
         /\ p.ts \in Times /\ p.ts \in Nat
         /\ p.cells \in [Columns -> Cells]
<1>1. p.n \in 1..MaxPushes /\ p.ts \in Times /\ p.cells \in [Columns -> Cells]
  BY DEF Push
<1> QED BY <1>1 DEF Times

\* What is on its way is a push.
LEMMA FlightType ==
  ASSUME TypeOK
  PROVE  InFlight \subseteq Push
<1>1. \A s \in Streams : stream[s] \in Seq(Push)
  BY DEF TypeOK
<1>2. \A s \in Streams : Range(stream[s]) \subseteq Push
  BY <1>1, RangeType
<1> QED BY <1>2 DEF InFlight

\* A push is added to those on their way.
LEMMA FlightPush ==
  ASSUME TypeOK, NEW s \in Streams, NEW cells \in [Columns -> Cells], PushOn(s, cells)
  PROVE  LET p == [n |-> pushes + 1, ts |-> now, cells |-> cells] IN
         /\ p \in Push
         /\ stream' \in [Streams -> Seq(Push)]
         /\ InFlight' = InFlight \cup {p}
         /\ pushes' = pushes + 1 /\ pushes' \in 0..MaxPushes
<1> DEFINE p == [n |-> pushes + 1, ts |-> now, cells |-> cells]
<1>1. pushes' = pushes + 1 /\ pushes \in 0..MaxPushes /\ pushes < MaxPushes /\ MaxPushes \in Nat
  BY PipelineAssumption DEF PushOn, TypeOK
<1>2. pushes + 1 \in 1..MaxPushes /\ pushes + 1 \in 0..MaxPushes
  BY <1>1
<1>3. p \in Push
  BY <1>2 DEF Push, TypeOK
<1>4. stream \in [Streams -> Seq(Push)] /\ stream' = [stream EXCEPT ![s] = Append(@, p)]
  BY <1>1 DEF PushOn, TypeOK
<1> HIDE DEF p
<1>5. Append(stream[s], p) \in Seq(Push) /\ Range(Append(stream[s], p)) = Range(stream[s]) \cup {p}
  BY <1>3, <1>4, RangeAppend, AppendProperties
<1>6. /\ stream' \in [Streams -> Seq(Push)]
      /\ stream'[s] = Append(stream[s], p) /\ \A t \in Streams \ {s} : stream'[t] = stream[t]
  BY <1>4, <1>5
<1>7. InFlight' = UNION {Range(stream'[t]) : t \in Streams}
  BY DEF InFlight
<1>8. InFlight' = InFlight \cup {p}
  BY <1>5, <1>6, <1>7 DEF InFlight
<1> QED BY <1>1, <1>2, <1>3, <1>6, <1>8 DEF p

\* The collector takes one push, which may be on its way twice for all that
\* is said here.
LEMMA FlightTake ==
  ASSUME TypeOK, NEW s \in Streams, stream[s] # <<>>,
         stream' = [stream EXCEPT ![s] = Tail(@)]
  PROVE  /\ Head(stream[s]) \in InFlight /\ Head(stream[s]) \in Push
         /\ stream' \in [Streams -> Seq(Push)]
         /\ InFlight = InFlight' \cup {Head(stream[s])}
<1>1. stream \in [Streams -> Seq(Push)] /\ stream[s] \in Seq(Push)
  BY DEF TypeOK
<1>2. /\ Tail(stream[s]) \in Seq(Push) /\ Head(stream[s]) \in Push
      /\ Range(stream[s]) = {Head(stream[s])} \cup Range(Tail(stream[s]))
  BY <1>1, RangeTail, HeadTailProperties
<1>3. /\ stream' \in [Streams -> Seq(Push)]
      /\ stream'[s] = Tail(stream[s]) /\ \A t \in Streams \ {s} : stream'[t] = stream[t]
  BY <1>1, <1>2
<1>4. InFlight' = UNION {Range(stream'[t]) : t \in Streams}
  BY DEF InFlight
<1>5. InFlight = InFlight' \cup {Head(stream[s])}
  BY <1>2, <1>3, <1>4 DEF InFlight
<1> QED BY <1>2, <1>3, <1>5

\* An entry has the number and the date of its push, its pointer fields are
\* the push's, and it says something of every flag.
LEMMA EntryFacts ==
  ASSUME NEW p \in Push
  PROVE  /\ Entry(p) \in Push
         /\ Entry(p).n = p.n /\ Entry(p).ts = p.ts
         /\ Entry(p).cells = WireCells(p.cells)
         /\ \A c \in Pointers : Entry(p).cells[c] = p.cells[c]
         /\ \A c \in Flags : Entry(p).cells[c] # Null
<1>1. p.cells \in [Columns -> Cells]
  BY PushFacts
<1>2. /\ \A c \in Columns : c \in Pointers \/ c \in OmitEmpty \/ c \in Flags
      /\ Pointers \subseteq Columns /\ Flags \subseteq Columns
  BY PipelineAssumption
<1>3. /\ \A c \in Pointers : WireCell(c, p.cells[c]) = p.cells[c]
      /\ \A c \in OmitEmpty : WireCell(c, p.cells[c]) = IF p.cells[c] = Empty THEN Null ELSE p.cells[c]
      /\ \A c \in Flags : WireCell(c, p.cells[c]) = IF p.cells[c] = Null THEN Empty ELSE On
  BY PipelineAssumption DEF WireCell
<1>4. Null \in Cells /\ Empty \in Cells /\ On \in Cells /\ Empty # Null /\ On # Null
  BY PipelineAssumption, RowAssumption DEF Cells
<1>5. WireCells(p.cells) \in [Columns -> Cells]
  BY <1>1, <1>2, <1>3, <1>4 DEF WireCells
<1>6. \A c \in Columns : WireCells(p.cells)[c] = WireCell(c, p.cells[c])
  BY DEF WireCells
<1>7. Entry(p) = [p EXCEPT !.cells = WireCells(p.cells)]
  BY DEF Entry, WireCells
<1>8. p \in [n: 1..MaxPushes, ts: Times, cells: [Columns -> Cells]]
  BY DEF Push
<1>9. /\ Entry(p) \in Push /\ Entry(p).n = p.n /\ Entry(p).ts = p.ts
      /\ Entry(p).cells = WireCells(p.cells)
  BY <1>5, <1>7, <1>8 DEF Push
<1> QED BY <1>2, <1>3, <1>4, <1>6, <1>9

\* One upsert.  An older entry leaves the row alone, any other dates it and
\* sets just the columns it says something of; an insert has the default in
\* the others.
LEMMA UpsertFacts ==
  ASSUME NEW r \in Rows \cup {NoRow}, NEW e \in Push
  PROVE  LET new == UpsertRow(r, e.ts, e.cells) IN
         /\ new \in Rows /\ new # NoRow
         /\ r # NoRow /\ e.ts < r.ts => new = r
         /\ r = NoRow \/ ~ (e.ts < r.ts) =>
              /\ new.ts = e.ts
              /\ \A c \in Columns : new.cells[c] = IF e.cells[c] # Null THEN e.cells[c]
                                                   ELSE IF r = NoRow THEN InsertDefault[c]
                                                   ELSE r.cells[c]
<1> DEFINE new == UpsertRow(r, e.ts, e.cells)
<1>1. e.ts \in Times /\ e.ts \in Nat /\ e.cells \in [Columns -> Cells]
  BY PushFacts
<1>2. \A c \in Columns : Param(e.cells, c) = e.cells[c]
  BY PipelineAssumption DEF Param
<1>3. \A rr \in Rows : rr.ts \in Times /\ rr.ts \in Nat /\ rr.cells \in [Columns -> Cells]
  BY DEF Rows, Times
<1>n. NoRow \notin Rows
  BY PipelineAssumption DEF Rows, Times
<1>4. CASE r = NoRow
  <2>1. new = [ts |-> e.ts, cells |-> Inserted(e.cells)]
    BY <1>4 DEF UpsertRow
  <2>2. /\ Inserted(e.cells) \in [Columns -> Cells]
        /\ \A c \in Columns : Inserted(e.cells)[c] = IF e.cells[c] # Null THEN e.cells[c]
                                                     ELSE InsertDefault[c]
    BY <1>1, <1>2, RowAssumption DEF Inserted
  <2> QED BY <1>1, <1>4, <1>n, <2>1, <2>2 DEF Rows
<1>5. CASE r # NoRow /\ ~ (e.ts < r.ts)
  <2>1. new = [ts |-> e.ts, cells |-> Merged(r.cells, e.cells)]
    BY <1>1, <1>3, <1>5 DEF UpsertRow, Newer
  <2>2. /\ Merged(r.cells, e.cells) \in [Columns -> Cells]
        /\ \A c \in Columns : Merged(r.cells, e.cells)[c] = IF e.cells[c] # Null THEN e.cells[c]
                                                            ELSE r.cells[c]
    BY <1>1, <1>2, <1>3, <1>5 DEF Merged
  <2> QED BY <1>1, <1>5, <1>n, <2>1, <2>2 DEF Rows
<1>6. CASE r # NoRow /\ e.ts < r.ts
  BY <1>1, <1>3, <1>6 DEF UpsertRow, Newer
<1> QED BY <1>4, <1>5, <1>6

-----------------------------------------------------------------------------
(* Steps of the topic. *)

\* What is published was taken from a stream, and comes once or twice.
LEMMA CollectFacts ==
  ASSUME TypeOK, NEW s \in Streams, Collect(s)
  PROVE  LET p == Head(stream[s])
             e == Entry(p) IN
         /\ p \in InFlight /\ p \in Push /\ e \in Push
         /\ InFlight = InFlight' \cup {p}
         /\ stream' \in [Streams -> Seq(Push)]
         /\ topic' \in Seq(Push) /\ Range(topic') = Range(topic) \cup {e}
         /\ topic' \in {Append(topic, e), topic \o <<e, e>>}
         /\ published' = e.n /\ inOrder' = (inOrder /\ e.n > published)
<1> DEFINE p == Head(stream[s])
           e == Entry(p)
<1>1. /\ p \in InFlight /\ p \in Push /\ InFlight = InFlight' \cup {p}
      /\ stream' \in [Streams -> Seq(Push)]
  BY FlightTake DEF Collect
<1>2. e \in Push /\ topic \in Seq(Push)
  BY <1>1, EntryFacts DEF TypeOK
<1>3. /\ topic' \in {Append(topic, e), topic \o <<e, e>>}
      /\ published' = e.n /\ inOrder' = (inOrder /\ e.n > published)
  BY DEF Collect
<1> HIDE DEF e, p
<1>4. CASE topic' = Append(topic, e)
  <2>1. topic' \in Seq(Push) /\ Range(topic') = Range(topic) \cup {e}
    BY <1>2, <1>4, AppendProperties, RangeAppend
  <2> QED BY <1>1, <1>2, <1>3, <2>1 DEF p, e
<1>5. CASE topic' = topic \o <<e, e>>
  <2>1. <<e, e>> \in Seq(Push) /\ Len(<<e, e>>) = 2
    BY <1>2
  <2>2. Range(<<e, e>>) = {<<e, e>>[i] : i \in 1..2}
    BY <2>1, RangeEquality
  <2>3. Range(<<e, e>>) = {e}
    BY <2>2
  <2>4. /\ topic \o <<e, e>> \in Seq(Push)
        /\ Range(topic \o <<e, e>>) = Range(topic) \cup Range(<<e, e>>)
    <3> DEFINE x == <<e, e>>
    <3>1. x \in Seq(Push)
      BY <2>1
    <3>2. topic \in Seq(Push)
      BY <1>2
    <3> HIDE DEF x
    <3>3. topic \o x \in Seq(Push) /\ Range(topic \o x) = Range(topic) \cup Range(x)
      BY ONLY <3>1, <3>2, RangeConcat
    <3> QED BY <3>3 DEF x
  <2> QED BY <1>1, <1>2, <1>3, <1>5, <2>3, <2>4 DEF p, e
<1> QED BY <1>3, <1>4, <1>5

\* Reading moves the head of the topic to the entries that were handled.
LEMMA TakeFacts ==
  ASSUME TypeOK, Take
  PROVE  /\ Head(topic) \in Push /\ Head(topic) \in Range(topic)
         /\ topic' \in Seq(Push) /\ handled' \in Seq(Push)
         /\ Range(topic) = {Head(topic)} \cup Range(topic')
         /\ Range(handled') = Range(handled) \cup {Head(topic)}
<1>1. topic \in Seq(Push) /\ handled \in Seq(Push) /\ topic # <<>>
      /\ topic' = Tail(topic) /\ handled' = Append(handled, Head(topic))
  BY DEF TypeOK, Take
<1>2. /\ Head(topic) \in Push /\ Tail(topic) \in Seq(Push)
      /\ Range(topic) = {Head(topic)} \cup Range(Tail(topic))
  BY <1>1, HeadTailProperties, RangeTail
<1>3. /\ Append(handled, Head(topic)) \in Seq(Push)
      /\ Range(Append(handled, Head(topic))) = Range(handled) \cup {Head(topic)}
  BY <1>1, <1>2, AppendProperties, RangeAppend
<1> QED BY <1>1, <1>2, <1>3

\* A new session reads only what was read or is still to be read.
LEMMA RedeliverFacts ==
  ASSUME TypeOK, Redeliver
  PROVE  /\ topic' \in Seq(Push) /\ handled' \in Seq(Push)
         /\ Range(topic') \subseteq Range(handled) \cup Range(topic)
         /\ Range(handled') = {}
<1>1. topic \in Seq(Push) /\ handled \in Seq(Push) /\ handled' = <<>>
  BY DEF TypeOK, Redeliver
<1>2. PICK k \in DOMAIN handled : topic' = SubSeq(handled, k, Len(handled)) \o topic
  BY DEF Redeliver
<1>3. /\ SubSeq(handled, k, Len(handled)) \in Seq(Push)
      /\ Range(SubSeq(handled, k, Len(handled))) \subseteq Range(handled)
  BY <1>1, RangeSuffix
<1>4. /\ SubSeq(handled, k, Len(handled)) \o topic \in Seq(Push)
      /\ Range(SubSeq(handled, k, Len(handled)) \o topic)
           = Range(SubSeq(handled, k, Len(handled))) \cup Range(topic)
  <2> DEFINE u == SubSeq(handled, k, Len(handled))
  <2>1. u \in Seq(Push)
    BY <1>3
  <2>2. topic \in Seq(Push)
    BY <1>1
  <2> HIDE DEF u
  <2>3. u \o topic \in Seq(Push) /\ Range(u \o topic) = Range(u) \cup Range(topic)
    BY ONLY <2>1, <2>2, RangeConcat
  <2> QED BY <2>3 DEF u
<1>5. handled' \in Seq(Push) /\ Range(handled') = {}
  BY <1>1, EmptySeq DEF Range
<1> QED BY <1>2, <1>3, <1>4, <1>5

-----------------------------------------------------------------------------
(* The step of the snapshot invariant, action by action. *)

\* What is configured is never the empty value, so its entry says it.
LEMMA ConfiguredCells ==
  ASSUME TypeOK
  PROVE  /\ \A c \in Columns : cfg[c] # Null => WireCells(cfg)[c] = cfg[c]
         /\ \A c \in Flags : cfg[c] = Null => WireCells(cfg)[c] = Empty
<1>1. \A c \in Columns : cfg[c] \in Settings(c) \cup {Null}
  BY DEF TypeOK
<1>2. \A c \in Columns : WireCells(cfg)[c] = WireCell(c, cfg[c])
  BY DEF WireCells
<1>3. \A c \in Columns : cfg[c] # Null => cfg[c] # Empty /\ (c \in Flags => cfg[c] = On)
  BY <1>1, PipelineAssumption DEF Settings
<1>4. /\ Flags \subseteq Columns
      /\ \A c \in Columns : c \in Pointers \/ c \in OmitEmpty \/ c \in Flags
  BY PipelineAssumption
<1>5. \A c \in Columns : cfg[c] # Null => WireCell(c, cfg[c]) = cfg[c]
  BY <1>3, <1>4, PipelineAssumption DEF WireCell
<1>6. \A c \in Flags : cfg[c] = Null => WireCell(c, cfg[c]) = Empty
  BY PipelineAssumption DEF WireCell
<1> QED BY <1>2, <1>4, <1>5, <1>6

\* The clock and the pushes: what the provers need of the types.
LEMMA ClockFacts ==
  ASSUME TypeOK
  PROVE  /\ now \in Times /\ now \in Nat /\ changedAt \in Times /\ changedAt \in Nat
         /\ row # NoRow => row \in Rows /\ row.ts \in Times /\ row.ts \in Nat
         /\ published \in Nat /\ pushes \in Nat
<1>1. now \in Times /\ changedAt \in Times /\ row \in Rows \cup {NoRow}
      /\ published \in 0..MaxPushes /\ pushes \in 0..MaxPushes
  BY DEF TypeOK
<1> QED BY <1>1 DEF Times, Rows

\* After a change nothing is dated later than it.
LEMMA SnapConfigure ==
  ASSUME SnapInv, NEW c \in Columns, NEW v \in Settings(c) \cup {Null}, Configure(c, v)
  PROVE  SnapInv'
<1> DEFINE cells == [d \in Columns |-> IF d # c THEN Null ELSE IF v = Null THEN Empty ELSE v]
           p == [n |-> pushes + 1, ts |-> now, cells |-> cells]
<1> USE DEF SnapInv
<1>1. PushOn("onchange", cells) /\ "onchange" \in Streams
  BY DEF Configure, Streams
<1>2. v \in Cells /\ Null \in Cells /\ Empty \in Cells
  BY PipelineAssumption DEF Settings, Cells
<1>3. cells \in [Columns -> Cells]
  BY <1>2
<1>4. /\ stream' \in [Streams -> Seq(Push)] /\ InFlight' = InFlight \cup {p} /\ p \in Push
      /\ pushes' \in 0..MaxPushes
  BY <1>1, <1>3, FlightPush
<1>5. /\ cfg' = [cfg EXCEPT ![c] = v] /\ changedAt' = now /\ now' = now /\ topic' = topic
      /\ handled' = handled /\ row' = row /\ UNCHANGED <<published, inOrder, lossless>>
  BY DEF Configure, history
<1>6. cfg' \in [Columns -> Cells] /\ \A d \in Columns : cfg'[d] \in Settings(d) \cup {Null}
  BY <1>2, <1>5 DEF TypeOK
<1>7. TypeOK'
  BY <1>4, <1>5, <1>6 DEF TypeOK
<1>8. p.ts = now
  OBVIOUS
<1>9. /\ now \in Nat /\ \A q \in InFlight : q.ts \in Nat /\ q.ts <= now
      /\ \A e \in Range(handled) \cup Range(topic) :
           e.ts \in Nat /\ e.ts <= now /\ \A d \in Flags : e.cells[d] # Null
      /\ row # NoRow => row.ts \in Nat /\ row.ts <= now
  <2>1. InFlight \subseteq Push
    BY FlightType
  <2>2. Range(handled) \subseteq Push /\ Range(topic) \subseteq Push
    BY RangeType DEF TypeOK
  <2> QED BY <2>1, <2>2, PushFacts, ClockFacts DEF TimeInv
<1> HIDE DEF p, cells
<1>10. TimeInv'
  <2>1. \A q \in InFlight' : q.ts <= now' /\ ~ (q.ts > changedAt')
    BY <1>4, <1>5, <1>8, <1>9
  <2>2. \A e \in Range(handled') \cup Range(topic') :
          e.ts <= now' /\ ~ (e.ts > changedAt') /\ \A d \in Flags : e.cells[d] # Null
    BY <1>5, <1>9
  <2>3. changedAt' <= now' /\ (row' # NoRow => row'.ts <= now')
    BY <1>5, <1>9
  <2> QED BY <2>1, <2>2, <2>3 DEF TimeInv
<1>11. SnapshotHeals'
  BY <1>5, <1>9 DEF SnapshotHeals, Current
<1> QED BY <1>7, <1>10, <1>11

\* A periodic push says what is configured.
LEMMA SnapPeriodic ==
  ASSUME SnapInv, Periodic
  PROVE  SnapInv'
<1> DEFINE p == [n |-> pushes + 1, ts |-> now, cells |-> cfg]
<1> USE DEF SnapInv
<1>1. PushOn("periodic", cfg) /\ "periodic" \in Streams /\ cfg \in [Columns -> Cells]
  BY DEF Periodic, Streams, TypeOK
<1>2. /\ stream' \in [Streams -> Seq(Push)] /\ InFlight' = InFlight \cup {p}
      /\ pushes' \in 0..MaxPushes
  BY <1>1, FlightPush
<1>3. UNCHANGED <<cfg, now, changedAt, topic, handled, row, published, inOrder, lossless>>
  BY DEF Periodic, history
<1>4. p.ts = now /\ p.cells = cfg /\ now <= now
  BY ClockFacts
<1> HIDE DEF p
<1>5. TypeOK'
  BY <1>2, <1>3 DEF TypeOK
<1>6. TimeInv'
  <2>1. \A q \in InFlight' : q.ts <= now' /\ (q.ts > changedAt' => q.cells = cfg')
    BY <1>2, <1>3, <1>4 DEF TimeInv
  <2> QED BY <1>3, <2>1 DEF TimeInv
<1>7. SnapshotHeals'
  BY <1>3 DEF SnapshotHeals, Current
<1> QED BY <1>5, <1>6, <1>7

\* Time passes.
LEMMA SnapTick ==
  ASSUME SnapInv, Tick
  PROVE  SnapInv'
<1> USE DEF SnapInv
<1>1. /\ now < MaxTime /\ now' = now + 1
      /\ UNCHANGED <<cfg, changedAt, pushes, stream, topic, handled, row, published, inOrder, lossless>>
  BY DEF Tick, history
<1>2. now' \in Times /\ \A t \in Nat : t <= now => t <= now'
  BY <1>1, ClockFacts, PipelineAssumption DEF Times
<1>3. TypeOK'
  BY <1>1, <1>2 DEF TypeOK
<1>4. /\ \A q \in InFlight : q.ts \in Nat
      /\ \A e \in Range(handled) \cup Range(topic) : e.ts \in Nat
  <2>1. InFlight \subseteq Push
    BY FlightType
  <2>2. Range(handled) \subseteq Push /\ Range(topic) \subseteq Push
    BY RangeType DEF TypeOK
  <2> QED BY <2>1, <2>2, PushFacts
<1>5. InFlight' = InFlight
  BY <1>1 DEF InFlight
<1>6. TimeInv'
  BY <1>1, <1>2, <1>4, <1>5, ClockFacts DEF TimeInv
<1>7. SnapshotHeals'
  BY <1>1 DEF SnapshotHeals, Current
<1> QED BY <1>3, <1>6, <1>7

\* The entry of a push that says what is configured says it too.
LEMMA SnapCollect ==
  ASSUME SnapInv, NEW s \in Streams, Collect(s)
  PROVE  SnapInv'
<1> DEFINE p == Head(stream[s])
           e == Entry(p)
<1> USE DEF SnapInv
<1>1. /\ p \in InFlight /\ p \in Push /\ InFlight = InFlight' \cup {p}
      /\ stream' \in [Streams -> Seq(Push)]
      /\ topic' \in Seq(Push) /\ Range(topic') = Range(topic) \cup {e}
      /\ published' = e.n /\ inOrder' = (inOrder /\ e.n > published)
  BY CollectFacts
<1>2. UNCHANGED <<cfg, now, changedAt, pushes, handled, row, lossless>>
  BY DEF Collect
<1>3. /\ e.n = p.n /\ e.ts = p.ts /\ e.cells = WireCells(p.cells)
      /\ \A c \in Flags : e.cells[c] # Null
  BY <1>1, EntryFacts
<1> HIDE DEF e, p
<1>4. published' \in 0..MaxPushes /\ inOrder' \in BOOLEAN
  BY <1>1, <1>3, PushFacts
<1>5. TypeOK'
  BY <1>1, <1>2, <1>4 DEF TypeOK
<1>6. TimeInv'
  <2>1. \A q \in InFlight' : q.ts <= now' /\ (q.ts > changedAt' => q.cells = cfg')
    BY <1>1, <1>2 DEF TimeInv
  <2>2. p.ts <= now /\ (p.ts > changedAt => p.cells = cfg)
    BY <1>1 DEF TimeInv
  <2>3. \A f \in Range(handled') \cup Range(topic') :
          /\ f.ts <= now' /\ (f.ts > changedAt' => f.cells = WireCells(cfg'))
          /\ \A c \in Flags : f.cells[c] # Null
    BY <1>1, <1>2, <1>3, <2>2 DEF TimeInv
  <2> QED BY <1>2, <2>1, <2>3 DEF TimeInv
<1>7. SnapshotHeals'
  BY <1>2 DEF SnapshotHeals, Current
<1> QED BY <1>5, <1>6, <1>7

\* A lost push changes nothing that is said here.
LEMMA SnapCollectFails ==
  ASSUME SnapInv, NEW s \in Streams, CollectFails(s)
  PROVE  SnapInv'
<1> USE DEF SnapInv
<1>1. stream' \in [Streams -> Seq(Push)] /\ InFlight' \subseteq InFlight
  BY FlightTake DEF CollectFails
<1>2. lossless' = FALSE /\ UNCHANGED <<cfg, now, changedAt, pushes, topic, handled, row, published, inOrder>>
  BY DEF CollectFails
<1>3. TypeOK'
  BY <1>1, <1>2 DEF TypeOK
<1>4. TimeInv'
  BY <1>1, <1>2 DEF TimeInv
<1>5. SnapshotHeals'
  BY <1>2 DEF SnapshotHeals, Current
<1> QED BY <1>3, <1>4, <1>5

\* What is read is where it was, among the entries handled or to be read.
LEMMA SnapTopic ==
  ASSUME TimeInv, UNCHANGED <<cfg, now, changedAt, stream>>,
         Range(handled') \cup Range(topic') \subseteq Range(handled) \cup Range(topic),
         row' # NoRow => row'.ts <= now
  PROVE  TimeInv'
<1>1. InFlight' = InFlight
  BY DEF InFlight
<1>2. \A f \in Range(handled') \cup Range(topic') :
        /\ f.ts <= now' /\ (f.ts > changedAt' => f.cells = WireCells(cfg'))
        /\ \A c \in Flags : f.cells[c] # Null
  BY DEF TimeInv
<1> QED BY <1>1, <1>2 DEF TimeInv

\* An entry dated after the last change puts what is configured in the row;
\* the upsert's guard keeps older entries out.
LEMMA SnapConsume ==
  ASSUME SnapInv, Consume
  PROVE  SnapInv'
<1> DEFINE e == Head(topic)
<1> USE DEF SnapInv
<1>1. /\ e \in Push /\ e \in Range(topic)
      /\ topic' \in Seq(Push) /\ handled' \in Seq(Push)
      /\ Range(topic) = {e} \cup Range(topic')
      /\ Range(handled') = Range(handled) \cup {e}
  BY TakeFacts DEF Consume
<1>2. /\ row' = UpsertRow(row, e.ts, e.cells)
      /\ UNCHANGED <<cfg, now, changedAt, pushes, stream, published, inOrder, lossless>>
  BY DEF Consume, history
<1> HIDE DEF e
<1>3. row \in Rows \cup {NoRow}
  BY DEF TypeOK
<1>4. /\ row' \in Rows /\ row' # NoRow
      /\ row # NoRow /\ e.ts < row.ts => row' = row
      /\ row = NoRow \/ ~ (e.ts < row.ts) =>
           /\ row'.ts = e.ts
           /\ \A c \in Columns : row'.cells[c] = IF e.cells[c] # Null THEN e.cells[c]
                                                 ELSE IF row = NoRow THEN InsertDefault[c]
                                                 ELSE row.cells[c]
  BY <1>1, <1>2, <1>3, UpsertFacts
<1>5. /\ e.ts <= now /\ (e.ts > changedAt => e.cells = WireCells(cfg))
      /\ \A c \in Flags : e.cells[c] # Null
  BY <1>1 DEF TimeInv
<1>6. \A c \in Flags : row'.cells[c] # Null
  BY <1>4, <1>5, PipelineAssumption DEF TypeOK
<1>7. TypeOK'
  BY <1>1, <1>2, <1>4, <1>6 DEF TypeOK
<1>8. row'.ts <= now
  BY <1>4, <1>5 DEF TimeInv
<1>9. TimeInv'
  BY <1>1, <1>2, <1>8, SnapTopic
<1>10. SnapshotHeals'
  <2>1. CASE row # NoRow /\ e.ts < row.ts
    BY <1>2, <1>4, <2>1 DEF SnapshotHeals, Current
  <2>2. CASE row = NoRow \/ ~ (e.ts < row.ts)
    <3>1. ASSUME e.ts > changedAt
          PROVE  /\ \A c \in Columns : cfg[c] # Null => row'.cells[c] = cfg[c]
                 /\ \A c \in Flags : cfg[c] = Null => row'.cells[c] = Empty
      <4>1. e.cells = WireCells(cfg) /\ Empty # Null /\ Flags \subseteq Columns
        BY <1>5, <3>1, RowAssumption, PipelineAssumption
      <4> QED BY <1>4, <2>2, <4>1, ConfiguredCells
    <3> QED BY <1>2, <1>4, <2>2, <3>1 DEF SnapshotHeals, Current
  <2> QED BY <2>1, <2>2
<1> QED BY <1>7, <1>9, <1>10

\* So does a reader that fails, skips or starts again, and the clean-up.
LEMMA SnapOther ==
  ASSUME SnapInv, ConsumeFails \/ Redeliver \/ SkipToNewest \/ Expire
  PROVE  SnapInv'
<1> USE DEF SnapInv
<1>1. /\ topic' \in Seq(Push) /\ handled' \in Seq(Push)
      /\ Range(handled') \cup Range(topic') \subseteq Range(handled) \cup Range(topic)
  <2>1. CASE ConsumeFails
    <3>1. Take
      BY <2>1 DEF ConsumeFails
    <3> QED BY <3>1, TakeFacts
  <2>2. CASE Redeliver
    BY <2>2, RedeliverFacts
  <2>3. CASE SkipToNewest
    <3>1. topic' = <<>> /\ handled' = <<>>
      BY <2>3 DEF SkipToNewest
    <3>2. <<>> \in Seq(Push) /\ Range(<<>>) = {}
      BY EmptySeq DEF Range
    <3> QED BY <3>1, <3>2
  <2>4. CASE Expire
    BY <2>4 DEF Expire, TypeOK
  <2> QED BY <2>1, <2>2, <2>3, <2>4
<1>2. /\ UNCHANGED <<cfg, now, changedAt, pushes, stream, published, inOrder>>
      /\ row' \in {row, NoRow} /\ lossless' \in {lossless, FALSE}
  BY DEF ConsumeFails, Redeliver, SkipToNewest, Expire, history
<1>3. TypeOK'
  BY <1>1, <1>2 DEF TypeOK
<1>4. row' # NoRow => row'.ts <= now
  BY <1>2 DEF TimeInv
<1>5. TimeInv'
  BY <1>1, <1>2, <1>4, SnapTopic
<1>6. SnapshotHeals'
  BY <1>2 DEF SnapshotHeals, Current
<1> QED BY <1>3, <1>5, <1>6

\* The initial states satisfy it.
LEMMA SnapInit == Init => SnapInv
<1> SUFFICES ASSUME Init PROVE SnapInv
  OBVIOUS
<1>1. <<>> \in Seq(Push) /\ Range(<<>>) = {}
  BY EmptySeq DEF Range
<1>2. TypeOK
  BY <1>1, PipelineAssumption DEF Init, TypeOK, Times, Cells
<1>3. InFlight = {}
  BY <1>1 DEF Init, InFlight
<1>4. TimeInv
  BY <1>1, <1>3 DEF Init, TimeInv
<1>5. SnapshotHeals
  BY DEF Init, SnapshotHeals, Current
<1> QED BY <1>2, <1>4, <1>5 DEF SnapInv

\* Every step keeps it.
LEMMA SnapNext == SnapInv /\ [Next]_vars => SnapInv'
<1> SUFFICES ASSUME SnapInv, [Next]_vars PROVE SnapInv'
  OBVIOUS
<1>1. CASE \E c \in Columns : \E v \in Settings(c) \cup {Null} : Configure(c, v)
  BY <1>1, SnapConfigure
<1>2. CASE Periodic
  BY <1>2, SnapPeriodic
<1>3. CASE Tick
  BY <1>3, SnapTick
<1>4. CASE \E s \in Streams : Collect(s) \/ CollectFails(s)
  BY <1>4, SnapCollect, SnapCollectFails
<1>5. CASE Consume
  BY <1>5, SnapConsume
<1>6. CASE ConsumeFails \/ Redeliver \/ SkipToNewest \/ Expire
  BY <1>6, SnapOther
<1>7. CASE UNCHANGED vars
  BY <1>7 DEF vars, SnapInv, TypeOK, TimeInv, InFlight, SnapshotHeals, Current
<1> QED BY <1>1, <1>2, <1>3, <1>4, <1>5, <1>6, <1>7 DEF Next

\* The snapshot invariant holds of every state of the pipeline.
THEOREM SnapInvariant == Spec => []SnapInv
BY SnapInit, SnapNext, PTL DEF Spec

\* The pipeline's state has its type, and interface_table.shutdown is never
\* NULL, whatever is lost, repeated or skipped.
THEOREM TypeCorrect == Spec => []TypeOK
<1>1. SnapInv => TypeOK
  BY DEF SnapInv
<1> QED BY <1>1, SnapInvariant, PTL

\* A row dated after the last configuration change shows what is configured:
\* publishInterface's entry of a periodic push and handleInterface's guarded
\* COALESCE upsert heal whatever happened before.
THEOREM SnapshotsHeal == Spec => []SnapshotHeals
<1>1. SnapInv => SnapshotHeals
  BY DEF SnapInv
<1> QED BY <1>1, SnapInvariant, PTL

-----------------------------------------------------------------------------
(* Deltas. *)

Says(p, c) == p.cells[c] # Null
Quiet(c) == \A p \in InFlight : ~ Says(p, c)

Right(c, x) == IF cfg[c] # Null THEN x = cfg[c] ELSE x = Empty

\* Pushes are dated in the order they were made, and published in that order.
OrderInv ==
  /\ published <= pushes
  /\ \A p \in InFlight : p.n <= pushes
  /\ \A p, q \in InFlight : p.n < q.n => p.ts <= q.ts
  /\ \A i \in DOMAIN Readable :
       /\ Readable[i].n <= published
       /\ \A p \in InFlight : Readable[i].n < p.n => Readable[i].ts <= p.ts
       /\ \A j \in DOMAIN Readable : i < j => Readable[i].ts <= Readable[j].ts
  /\ row # NoRow => \A p \in InFlight : p.n > published => row.ts <= p.ts

\* The last push in flight that says something of c is right.
FlightInv(c) ==
  \A p \in InFlight :
    /\ Says(p, c) /\ p.n > published
    /\ \A q \in InFlight : Says(q, c) => q.n <= p.n
    => Right(c, p.cells[c])

\* With none in flight, so is the last entry.
LastInv(c) ==
  Quiet(c) => \A i \in DOMAIN Readable :
    /\ Says(Readable[i], c)
    /\ \A j \in DOMAIN Readable : i < j => ~ Says(Readable[j], c)
    => Right(c, Readable[i].cells[c])

\* And so is the row, when no entry is left that the guard would let change it.
RowInv(c) ==
  /\ Quiet(c)
  /\ \A e \in Range(topic) : Says(e, c) => row # NoRow /\ e.ts < row.ts
  => IF cfg[c] # Null THEN row # NoRow /\ row.cells[c] = cfg[c]
     ELSE row # NoRow => row.cells[c] \in Blank(c)

MirrorInv ==
  lossless /\ inOrder =>
    /\ OrderInv
    /\ \A c \in Pointers : FlightInv(c) /\ LastInv(c) /\ RowInv(c)

IInv == SnapInv /\ MirrorInv

-----------------------------------------------------------------------------
(* What can be read. *)

\* The entries to be read follow those that were.
LEMMA ReadableFacts ==
  ASSUME TypeOK
  PROVE  /\ Readable \in Seq(Push) /\ Len(Readable) \in Nat
         /\ Len(handled) \in Nat /\ Len(topic) \in Nat
         /\ Len(Readable) = Len(handled) + Len(topic)
         /\ DOMAIN Readable = 1..Len(Readable)
         /\ \A i \in DOMAIN Readable : Readable[i] \in Push
         /\ \A i \in 1..Len(topic) : Readable[Len(handled) + i] = topic[i]
<1>1. handled \in Seq(Push) /\ topic \in Seq(Push)
  BY DEF TypeOK
<1>2. Len(handled) \in Nat /\ Len(topic) \in Nat
  BY <1>1, LenProperties
<1>3. /\ Readable \in Seq(Push) /\ Len(Readable) = Len(handled) + Len(topic)
      /\ \A i \in 1..(Len(handled) + Len(topic)) :
           Readable[i] = IF i <= Len(handled) THEN handled[i] ELSE topic[i - Len(handled)]
  BY <1>1, ConcatProperties DEF Readable
<1>4. DOMAIN Readable = 1..Len(Readable) /\ \A i \in DOMAIN Readable : Readable[i] \in Push
  BY <1>3, LenProperties
<1>5. ASSUME NEW i \in 1..Len(topic)
      PROVE  Readable[Len(handled) + i] = topic[i]
  <2>1. /\ Len(handled) + i \in 1..(Len(handled) + Len(topic)) /\ ~ (Len(handled) + i <= Len(handled))
        /\ (Len(handled) + i) - Len(handled) = i
    BY <1>2
  <2> QED BY <1>3, <2>1
<1> QED BY <1>2, <1>3, <1>4, <1>5

\* Reading an entry moves the line between the two.
LEMMA ReadableTake ==
  ASSUME TypeOK, Take
  PROVE  Readable' = Readable
<1> DEFINE h == Head(topic)
<1>1. topic \in Seq(Push) /\ handled \in Seq(Push) /\ topic # <<>>
      /\ topic' = Tail(topic) /\ handled' = Append(handled, h)
  BY DEF TypeOK, Take
<1>2. h \in Push /\ Tail(topic) \in Seq(Push) /\ Len(Tail(topic)) = Len(topic) - 1
      /\ \A i \in 1..Len(Tail(topic)) : Tail(topic)[i] = topic[i + 1]
  BY <1>1, HeadTailProperties
<1>3. <<h>> \in Seq(Push) /\ Len(<<h>>) = 1 /\ <<h>>[1] = h /\ h = topic[1]
  BY <1>1, <1>2
<1>4. Len(topic) \in Nat \ {0}
  BY <1>1, EmptySeq
<1> HIDE DEF h
<1>5. <<h>> \o Tail(topic) = topic
  <2> DEFINE u == <<h>> \o Tail(topic)
  <2>1. /\ u \in Seq(Push) /\ Len(u) = 1 + (Len(topic) - 1)
        /\ \A i \in 1..(1 + (Len(topic) - 1)) : u[i] = IF i <= 1 THEN <<h>>[i] ELSE Tail(topic)[i - 1]
    BY <1>2, <1>3, ConcatProperties
  <2>2. Len(u) = Len(topic)
    BY <1>4, <2>1
  <2>3. ASSUME NEW i \in 1..Len(u) PROVE u[i] = topic[i]
    <3>1. i = 1 \/ (~ (i <= 1) /\ i - 1 \in 1..Len(Tail(topic)) /\ (i - 1) + 1 = i)
      BY <1>2, <1>4, <2>2
    <3>2. i \in 1..(1 + (Len(topic) - 1))
      BY <2>1
    <3> QED BY <1>2, <1>3, <2>1, <3>1, <3>2
  <2> HIDE DEF u
  <2>4. u = topic
    BY <1>1, <2>1, <2>2, <2>3, SeqEqual
  <2> QED BY <2>4 DEF u
<1>6. Append(handled, h) = handled \o <<h>>
  BY <1>1, <1>2, AppendIsConcat
<1>7. (handled \o <<h>>) \o Tail(topic) = handled \o (<<h>> \o Tail(topic))
  BY <1>1, <1>2, <1>3, ConcatAssociative
<1> QED BY <1>1, <1>5, <1>6, <1>7 DEF Readable

\* Publishing adds the entry at the end, once or twice.
LEMMA ReadableCollect ==
  ASSUME TypeOK, NEW s \in Streams, Collect(s)
  PROVE  LET e == Entry(Head(stream[s])) IN
         /\ DOMAIN Readable \subseteq DOMAIN Readable'
         /\ \A i \in DOMAIN Readable : Readable'[i] = Readable[i]
         /\ \A i \in DOMAIN Readable' \ DOMAIN Readable :
              Readable'[i] = e /\ i \in Nat /\ i > Len(Readable)
         /\ Len(Readable) + 1 \in DOMAIN Readable' \ DOMAIN Readable
<1> DEFINE e == Entry(Head(stream[s]))
<1>1. e \in Push /\ topic' \in {Append(topic, e), topic \o <<e, e>>} /\ handled' = handled
  BY CollectFacts DEF Collect
<1> HIDE DEF e
<1>2. handled \in Seq(Push) /\ topic \in Seq(Push)
  BY DEF TypeOK
<1>3. Append(topic, e) = topic \o <<e>>
  BY <1>1, <1>2, AppendIsConcat
<1>4. PICK x \in {<<e>>, <<e, e>>} : topic' = topic \o x
  BY <1>1, <1>3
<1>5. x \in Seq(Push) /\ Len(x) \in 1..2 /\ \A i \in 1..Len(x) : x[i] = e
  <2>1. <<e>> \in Seq(Push) /\ Len(<<e>>) = 1 /\ <<e>>[1] = e
    BY <1>1
  <2>2. <<e, e>> \in Seq(Push) /\ Len(<<e, e>>) = 2 /\ <<e, e>>[1] = e /\ <<e, e>>[2] = e
    BY <1>1
  <2> QED BY <1>4, <2>1, <2>2
<1>6. Readable' = Readable \o x
  <2>1. (handled \o topic) \o x = handled \o (topic \o x)
    BY <1>2, <1>5, ConcatAssociative
  <2> QED BY <1>1, <1>4, <2>1 DEF Readable
<1>7. /\ Readable \in Seq(Push) /\ Len(Readable) \in Nat /\ DOMAIN Readable = 1..Len(Readable)
  BY ReadableFacts
<1> DEFINE R == Readable
<1> HIDE DEF R
<1>8. /\ R \o x \in Seq(Push) /\ Len(R \o x) = Len(R) + Len(x)
      /\ \A i \in 1..(Len(R) + Len(x)) : (R \o x)[i] = IF i <= Len(R) THEN R[i] ELSE x[i - Len(R)]
  BY <1>5, <1>7, ConcatProperties DEF R
<1>9. DOMAIN (R \o x) = 1..(Len(R) + Len(x))
  BY <1>8, LenProperties
<1>10. Len(R) \in Nat /\ DOMAIN R = 1..Len(R)
  BY <1>7 DEF R
<1>11. DOMAIN R \subseteq DOMAIN (R \o x) /\ \A i \in DOMAIN R : (R \o x)[i] = R[i]
  BY <1>5, <1>8, <1>9, <1>10
<1>12. ASSUME NEW i \in DOMAIN (R \o x) \ DOMAIN R
       PROVE  (R \o x)[i] = e /\ i \in Nat /\ i > Len(R)
  <2>1. i \in 1..(Len(R) + Len(x)) /\ ~ (i <= Len(R)) /\ i - Len(R) \in 1..Len(x)
    BY <1>5, <1>9, <1>10, <1>12
  <2> QED BY <1>5, <1>8, <1>10, <2>1
<1>13. Len(R) + 1 \in DOMAIN (R \o x) \ DOMAIN R
  BY <1>5, <1>9, <1>10, SMTT(30)
<1> QED BY <1>6, <1>11, <1>12, <1>13 DEF R, e

\* A new session reads a suffix of what could be read.
LEMMA ReadableRedeliver ==
  ASSUME TypeOK, Redeliver
  PROVE  /\ Range(topic) \subseteq Range(topic')
         /\ \E k \in 1..Len(Readable) :
              /\ DOMAIN Readable' = 1..(Len(Readable) - k + 1)
              /\ \A i \in DOMAIN Readable' : Readable'[i] = Readable[k + i - 1]
<1>1. topic \in Seq(Push) /\ handled \in Seq(Push) /\ handled' = <<>>
  BY DEF TypeOK, Redeliver
<1>2. PICK k \in DOMAIN handled : topic' = SubSeq(handled, k, Len(handled)) \o topic
  BY DEF Redeliver
<1> DEFINE u == SubSeq(handled, k, Len(handled))
<1>3. DOMAIN handled = 1..Len(handled) /\ Len(handled) \in Nat /\ Len(topic) \in Nat
      /\ \A i \in 1..Len(handled) : handled[i] \in Push
  BY <1>1, LenProperties
<1>4. k \in 1..Len(handled) /\ k \in Nat /\ \A i \in k..Len(handled) : handled[i] \in Push
  BY <1>2, <1>3
<1>5. u \in Seq(Push) /\ Len(u) = Len(handled) - k + 1
      /\ \A i \in 1..(Len(handled) - k + 1) : u[i] = handled[k + i - 1]
  BY <1>3, <1>4, SubSeqProperties
<1> HIDE DEF u
<1>6. Range(u \o topic) = Range(u) \cup Range(topic) /\ u \o topic \in Seq(Push)
  BY <1>1, <1>5, RangeConcat
<1>7. Range(topic) \subseteq Range(topic')
  BY <1>2, <1>6 DEF u
<1>8. Readable' = u \o topic
  <2>1. <<>> \o (u \o topic) = u \o topic
    BY <1>6, ConcatEmptySeq
  <2> QED BY <1>1, <1>2, <2>1 DEF Readable, u
<1>9. /\ Len(u \o topic) = Len(u) + Len(topic)
      /\ \A i \in 1..(Len(u) + Len(topic)) :
           (u \o topic)[i] = IF i <= Len(u) THEN u[i] ELSE topic[i - Len(u)]
  BY <1>1, <1>5, ConcatProperties
<1>10. /\ Len(Readable) = Len(handled) + Len(topic)
       /\ \A i \in 1..(Len(handled) + Len(topic)) :
            Readable[i] = IF i <= Len(handled) THEN handled[i] ELSE topic[i - Len(handled)]
  BY <1>1, ConcatProperties DEF Readable
<1>11. DOMAIN (u \o topic) = 1..(Len(Readable) - k + 1)
  <2>1. DOMAIN (u \o topic) = 1..Len(u \o topic)
    BY <1>6, LenProperties
  <2>2. Len(u) + Len(topic) = Len(Readable) - k + 1
    BY <1>3, <1>4, <1>5, <1>10
  <2> QED BY <1>9, <2>1, <2>2
<1>12. ASSUME NEW i \in 1..(Len(Readable) - k + 1)
       PROVE  (u \o topic)[i] = Readable[k + i - 1]
  <2>1. /\ i \in 1..(Len(u) + Len(topic)) /\ k + i - 1 \in 1..(Len(handled) + Len(topic))
        /\ (i <= Len(u)) <=> (k + i - 1 <= Len(handled))
        /\ i <= Len(u) => i \in 1..(Len(handled) - k + 1)
        /\ i - Len(u) = (k + i - 1) - Len(handled)
    BY <1>3, <1>4, <1>5, <1>10, SMTT(30)
  <2> QED BY <1>5, <1>9, <1>10, <2>1
<1>13. k \in 1..Len(Readable)
  BY <1>3, <1>4, <1>10
<1> QED BY <1>7, <1>8, <1>11, <1>12, <1>13

-----------------------------------------------------------------------------
(* The step of the delta invariant, action by action. *)

\* The numbers and dates in it are numbers.
LEMMA OrderTypes ==
  ASSUME TypeOK
  PROVE  /\ \A p \in InFlight : p \in Push /\ p.n \in Nat /\ p.ts \in Nat
         /\ \A i \in DOMAIN Readable :
              i \in Nat /\ Readable[i] \in Push /\ Readable[i].n \in Nat /\ Readable[i].ts \in Nat
         /\ \A e \in Range(topic) : e \in Push /\ e.n \in Nat /\ e.ts \in Nat
         /\ Pointers \subseteq Columns
<1>1. InFlight \subseteq Push
  BY FlightType
<1>2. Range(topic) \subseteq Push
  BY RangeType DEF TypeOK
<1>3. \A i \in DOMAIN Readable : i \in Nat /\ Readable[i] \in Push
  BY ReadableFacts
<1>4. Pointers \subseteq Columns
  BY PipelineAssumption
<1> QED BY <1>1, <1>2, <1>3, <1>4, PushFacts

\* Whatever can be read or is on its way is dated no later than now.
LEMMA DatedByNow ==
  ASSUME SnapInv
  PROVE  /\ \A p \in InFlight : p.ts <= now
         /\ \A i \in DOMAIN Readable : Readable[i].ts <= now
         /\ row # NoRow => row.ts <= now
<1>1. Readable = handled \o topic /\ handled \in Seq(Push) /\ topic \in Seq(Push)
  BY DEF Readable, SnapInv, TypeOK
<1>2. Range(handled \o topic) = Range(handled) \cup Range(topic)
  BY <1>1, RangeConcat
<1>3. \A i \in DOMAIN Readable : Readable[i] \in Range(Readable)
  BY DEF Range
<1>4. \A i \in DOMAIN Readable : Readable[i] \in Range(handled) \cup Range(topic)
  BY <1>1, <1>2, <1>3
<1> QED BY <1>4 DEF SnapInv, TimeInv

\* A new push: it comes last, it is right about what it says, and the
\* configuration of all it does not speak of is as it was.
LEMMA MirrorPush ==
  ASSUME SnapInv, MirrorInv, NEW p \in Push,
         InFlight' = InFlight \cup {p}, p.n = pushes + 1, p.ts = now,
         pushes' = pushes + 1,
         UNCHANGED <<topic, handled, row, published, inOrder, lossless>>,
         \A c \in Pointers : IF Says(p, c) THEN p.cells[c] = (IF cfg'[c] # Null THEN cfg'[c] ELSE Empty)
                                           ELSE cfg'[c] = cfg[c]
  PROVE  MirrorInv'
<1> SUFFICES ASSUME lossless, inOrder
             PROVE  /\ OrderInv'
                    /\ \A c \in Pointers : FlightInv(c)' /\ LastInv(c)' /\ RowInv(c)'
  BY DEF MirrorInv
<1>1. OrderInv /\ \A c \in Pointers : FlightInv(c) /\ LastInv(c) /\ RowInv(c)
  BY DEF MirrorInv
<1>2. TypeOK
  BY DEF SnapInv
<1>3. Readable' = Readable
  BY DEF Readable
<1>4. pushes \in Nat /\ published \in Nat /\ now \in Nat
  BY <1>2, ClockFacts
<1>5. OrderInv'
  <2>1. published' <= pushes' /\ \A q \in InFlight' : q.n <= pushes'
    BY <1>1, <1>2, <1>4, OrderTypes DEF OrderInv
  <2>2. \A q, r \in InFlight' : q.n < r.n => q.ts <= r.ts
    BY <1>1, <1>2, <1>4, OrderTypes, DatedByNow DEF OrderInv
  <2>3. ASSUME NEW i \in DOMAIN Readable
        PROVE  /\ Readable[i].n <= published
               /\ \A q \in InFlight' : Readable[i].n < q.n => Readable[i].ts <= q.ts
               /\ \A j \in DOMAIN Readable : i < j => Readable[i].ts <= Readable[j].ts
    BY <1>1, DatedByNow DEF OrderInv
  <2>4. row # NoRow => \A q \in InFlight' : q.n > published => row.ts <= q.ts
    BY <1>1, DatedByNow DEF OrderInv
  <2> QED BY <1>3, <2>1, <2>2, <2>3, <2>4 DEF OrderInv
<1>6. ASSUME NEW c \in Pointers
      PROVE  FlightInv(c)' /\ LastInv(c)' /\ RowInv(c)'
  <2>1. FlightInv(c) /\ LastInv(c) /\ RowInv(c)
    BY <1>1
  <2>2. FlightInv(c)'
    <3> SUFFICES ASSUME NEW q \in InFlight', Says(q, c), q.n > published,
                        \A r \in InFlight' : Says(r, c) => r.n <= q.n
                 PROVE  IF cfg'[c] # Null THEN q.cells[c] = cfg'[c] ELSE q.cells[c] = Empty
      BY DEF FlightInv, Right, Says
    <3>1. CASE q = p
      BY <3>1
    <3>2. CASE q # p
      <4>1. q \in InFlight /\ q.n <= pushes /\ q.n \in Nat
        BY <1>1, <1>2, <3>2, OrderTypes DEF OrderInv
      <4>2. ~ Says(p, c)
        BY <1>4, <4>1
      <4> QED BY <2>1, <4>1, <4>2 DEF FlightInv, Right
    <3> QED BY <3>1, <3>2
  <2>3. ASSUME Quiet(c)' PROVE Quiet(c) /\ cfg'[c] = cfg[c]
    <3>1. \A q \in InFlight' : ~ Says(q, c)
      BY <2>3 DEF Quiet, Says
    <3> QED BY <3>1 DEF Quiet
  <2>4. LastInv(c)'
    BY <1>3, <2>1, <2>3 DEF LastInv, Right, Says
  <2>5. RowInv(c)'
    BY <2>1, <2>3 DEF RowInv, Blank, Says
  <2> QED BY <2>2, <2>4, <2>5
<1> QED BY <1>5, <1>6

\* On-change pushes are right about the field that changed.
LEMMA MirrorConfigure ==
  ASSUME SnapInv, MirrorInv, NEW c \in Columns, NEW v \in Settings(c) \cup {Null}, Configure(c, v)
  PROVE  MirrorInv'
<1> DEFINE cells == [d \in Columns |-> IF d # c THEN Null ELSE IF v = Null THEN Empty ELSE v]
           p == [n |-> pushes + 1, ts |-> now, cells |-> cells]
<1>1. PushOn("onchange", cells) /\ "onchange" \in Streams /\ TypeOK
  BY DEF Configure, Streams, SnapInv
<1>2. v \in Cells /\ Null \in Cells /\ Empty \in Cells /\ Empty # Null
  BY PipelineAssumption, RowAssumption DEF Settings, Cells
<1>3. cells \in [Columns -> Cells]
  BY <1>2
<1>4. InFlight' = InFlight \cup {p} /\ p \in Push /\ pushes' = pushes + 1
  BY <1>1, <1>3, FlightPush
<1>5. /\ cfg' = [cfg EXCEPT ![c] = v] /\ cfg \in [Columns -> Cells]
      /\ UNCHANGED <<topic, handled, row, published, inOrder, lossless>>
  BY <1>1 DEF Configure, history, TypeOK
<1>6. Pointers \subseteq Columns
  BY PipelineAssumption
<1>7. \A d \in Pointers : IF cells[d] # Null THEN cells[d] = (IF cfg'[d] # Null THEN cfg'[d] ELSE Empty)
                                             ELSE cfg'[d] = cfg[d]
  BY <1>2, <1>5, <1>6
<1>8. p.n = pushes + 1 /\ p.ts = now /\ p.cells = cells
  OBVIOUS
<1> HIDE DEF p, cells
<1> QED BY <1>4, <1>5, <1>7, <1>8, MirrorPush DEF Says

\* Periodic pushes are right about every field they have.
LEMMA MirrorPeriodic ==
  ASSUME SnapInv, MirrorInv, Periodic
  PROVE  MirrorInv'
<1> DEFINE p == [n |-> pushes + 1, ts |-> now, cells |-> cfg]
<1>1. PushOn("periodic", cfg) /\ "periodic" \in Streams /\ cfg \in [Columns -> Cells] /\ TypeOK
  BY DEF Periodic, Streams, TypeOK, SnapInv
<1>2. InFlight' = InFlight \cup {p} /\ p \in Push /\ pushes' = pushes + 1
  BY <1>1, FlightPush
<1>3. UNCHANGED <<cfg, topic, handled, row, published, inOrder, lossless>>
  BY DEF Periodic, history
<1>4. p.n = pushes + 1 /\ p.ts = now /\ p.cells = cfg
  OBVIOUS
<1> HIDE DEF p
<1>5. \A d \in Pointers : IF Says(p, d) THEN p.cells[d] = (IF cfg'[d] # Null THEN cfg'[d] ELSE Empty)
                                        ELSE cfg'[d] = cfg[d]
  BY <1>3, <1>4 DEF Says
<1> QED BY <1>2, <1>3, <1>4, <1>5, MirrorPush

\* A push published in order is dated after all that can be read and after the
\* row, so an entry that speaks of a column is one the guard lets in.
LEMMA MirrorCollect ==
  ASSUME SnapInv, MirrorInv, NEW s \in Streams, Collect(s)
  PROVE  MirrorInv'
<1> DEFINE p == Head(stream[s])
           e == Entry(p)
<1>0. UNCHANGED <<cfg, pushes, handled, row, lossless>> /\ TypeOK
  BY DEF Collect, SnapInv
<1>1. /\ p \in InFlight /\ p \in Push /\ InFlight = InFlight' \cup {p}
      /\ Range(topic') = Range(topic) \cup {e}
      /\ published' = e.n /\ inOrder' = (inOrder /\ e.n > published)
  BY <1>0, CollectFacts
<1>2. e.n = p.n /\ e.ts = p.ts /\ \A c \in Pointers : e.cells[c] = p.cells[c]
  BY <1>1, EntryFacts
<1>3. /\ DOMAIN Readable \subseteq DOMAIN Readable'
      /\ \A i \in DOMAIN Readable : Readable'[i] = Readable[i]
      /\ \A i \in DOMAIN Readable' \ DOMAIN Readable :
           Readable'[i] = e /\ i \in Nat /\ i > Len(Readable)
      /\ Len(Readable) + 1 \in DOMAIN Readable' \ DOMAIN Readable
  BY <1>0, ReadableCollect
<1> HIDE DEF p, e
<1> SUFFICES ASSUME lossless', inOrder'
             PROVE  /\ OrderInv'
                    /\ \A c \in Pointers : FlightInv(c)' /\ LastInv(c)' /\ RowInv(c)'
  BY DEF MirrorInv
<1>4. OrderInv /\ (\A c \in Pointers : FlightInv(c) /\ LastInv(c) /\ RowInv(c)) /\ p.n > published
  BY <1>0, <1>1, <1>2 DEF MirrorInv
<1>5. /\ pushes \in Nat /\ published \in Nat /\ p.n \in Nat /\ p.ts \in Nat
      /\ row # NoRow => row.ts \in Nat
  BY <1>0, <1>1, ClockFacts, PushFacts
<1>6. /\ Len(Readable) \in Nat /\ DOMAIN Readable = 1..Len(Readable)
      /\ \A i \in DOMAIN Readable : i \in Nat /\ Readable[i].n \in Nat /\ Readable[i].ts \in Nat
      /\ \A q \in InFlight : q.n \in Nat /\ q.ts \in Nat
  BY <1>0, OrderTypes, ReadableFacts
<1>7. OrderInv'
  <2>1. published' <= pushes' /\ \A q \in InFlight' : q.n <= pushes'
    BY <1>0, <1>1, <1>2, <1>4 DEF OrderInv
  <2>2. \A q, r \in InFlight' : q.n < r.n => q.ts <= r.ts
    BY <1>1, <1>4 DEF OrderInv
  <2>3. \A i \in DOMAIN Readable' : Readable'[i].n <= published'
    BY <1>1, <1>2, <1>3, <1>4, <1>5, <1>6 DEF OrderInv
  <2>4. \A i \in DOMAIN Readable' : \A q \in InFlight' : Readable'[i].n < q.n => Readable'[i].ts <= q.ts
    BY <1>1, <1>2, <1>3, <1>4 DEF OrderInv
  <2>5. ASSUME NEW i \in DOMAIN Readable', NEW j \in DOMAIN Readable', i < j
        PROVE  Readable'[i].ts <= Readable'[j].ts
    <3>1. CASE j \in DOMAIN Readable
      <4>1. i \in DOMAIN Readable
        BY <1>3, <1>6, <2>5, <3>1
      <4> QED BY <1>3, <1>4, <2>5, <3>1, <4>1 DEF OrderInv
    <3>2. CASE j \notin DOMAIN Readable /\ i \in DOMAIN Readable
      <4>1. Readable'[j].ts = p.ts /\ Readable'[i] = Readable[i] /\ Readable[i].n <= published
        BY <1>2, <1>3, <1>4, <3>2 DEF OrderInv
      <4>2. Readable[i].n < p.n
        BY <1>4, <1>5, <1>6, <3>2, <4>1
      <4>3. Readable[i].ts <= p.ts
        BY <1>1, <1>4, <3>2, <4>2 DEF OrderInv
      <4> QED BY <4>1, <4>3
    <3>3. CASE j \notin DOMAIN Readable /\ i \notin DOMAIN Readable
      <4>1. Readable'[j].ts = p.ts /\ Readable'[i].ts = p.ts
        BY <1>2, <1>3, <3>3
      <4> QED BY <1>5, <4>1
    <3> QED BY <3>1, <3>2, <3>3
  <2>6. row # NoRow => \A q \in InFlight' : q.n > published' => row.ts <= q.ts
    BY <1>1, <1>2, <1>4, <1>5, <1>6 DEF OrderInv
  <2> QED BY <1>0, <2>1, <2>2, <2>3, <2>4, <2>5, <2>6 DEF OrderInv
<1>8. ASSUME NEW c \in Pointers
      PROVE  FlightInv(c)' /\ LastInv(c)' /\ RowInv(c)'
  <2>1. FlightInv(c) /\ LastInv(c) /\ RowInv(c) /\ (Says(e, c) <=> Says(p, c))
    BY <1>2, <1>4 DEF Says
  <2>2. FlightInv(c)'
    <3> SUFFICES ASSUME NEW q \in InFlight', Says(q, c), q.n > published',
                        \A r \in InFlight' : Says(r, c) => r.n <= q.n
                 PROVE  Right(c, q.cells[c])
      BY <1>0 DEF FlightInv, Right, Says
    <3>1. q \in InFlight /\ q.n \in Nat /\ q.n > published /\ p.n <= q.n
      BY <1>1, <1>2, <1>4, <1>5, <1>6
    <3>2. \A r \in InFlight : Says(r, c) => r.n <= q.n
      BY <1>1, <3>1
    <3> QED BY <2>1, <3>1, <3>2 DEF FlightInv
  <2>3. ASSUME Quiet(c)' PROVE \A q \in InFlight : Says(q, c) => q = p
    <3>1. \A q \in InFlight' : ~ Says(q, c)
      BY <2>3 DEF Quiet, Says
    <3> QED BY <1>1, <3>1
  <2>4. LastInv(c)'
    <3> SUFFICES ASSUME Quiet(c)', NEW i \in DOMAIN Readable', Says(Readable'[i], c),
                        \A j \in DOMAIN Readable' : i < j => ~ Says(Readable'[j], c)
                 PROVE  Right(c, Readable'[i].cells[c])
      BY <1>0 DEF LastInv, Right, Says
    <3>1. CASE Says(p, c)
      <4>1. i \notin DOMAIN Readable
        <5>1. Readable'[Len(Readable) + 1] = e /\ Says(e, c) /\ Len(Readable) + 1 \in DOMAIN Readable'
          BY <1>3, <2>1, <3>1
        <5>2. ~ (i < Len(Readable) + 1)
          BY <5>1
        <5> QED BY <1>6, <5>2
      <4>2. Readable'[i].cells[c] = p.cells[c]
        BY <1>2, <1>3, <4>1
      <4>3. \A q \in InFlight : Says(q, c) => q.n <= p.n
        BY <1>5, <2>3
      <4> QED BY <1>1, <1>4, <2>1, <3>1, <4>2, <4>3 DEF FlightInv
    <3>2. CASE ~ Says(p, c)
      <4>1. i \in DOMAIN Readable /\ Readable'[i] = Readable[i]
        BY <1>3, <2>1, <3>2
      <4>2. Quiet(c)
        BY <2>3, <3>2 DEF Quiet
      <4>3. \A j \in DOMAIN Readable : i < j => ~ Says(Readable[j], c)
        BY <1>3
      <4> QED BY <2>1, <4>1, <4>2, <4>3 DEF LastInv
    <3> QED BY <3>1, <3>2
  <2>5. RowInv(c)'
    <3> SUFFICES ASSUME Quiet(c)',
                        \A f \in Range(topic') : Says(f, c) => row # NoRow /\ f.ts < row.ts
                 PROVE  IF cfg[c] # Null THEN row # NoRow /\ row.cells[c] = cfg[c]
                        ELSE row # NoRow => row.cells[c] \in Blank(c)
      BY <1>0 DEF RowInv, Says, Blank
    <3>1. ~ Says(p, c)
      <4>1. SUFFICES ASSUME Says(p, c) PROVE FALSE
        OBVIOUS
      <4>2. row # NoRow /\ p.ts < row.ts
        BY <1>1, <1>2, <2>1, <4>1
      <4>3. row.ts <= p.ts
        BY <1>1, <1>4, <4>2 DEF OrderInv
      <4> QED BY <1>5, <4>2, <4>3
    <3>2. Quiet(c)
      BY <2>3, <3>1 DEF Quiet
    <3> QED BY <1>1, <2>1, <3>2 DEF RowInv
  <2> QED BY <2>2, <2>4, <2>5
<1> QED BY <1>7, <1>8

\* An entry that is let in is dated no later than those behind it, so when none
\* of these may change a column, it was the last to speak of it.
LEMMA MirrorConsume ==
  ASSUME SnapInv, MirrorInv, Consume
  PROVE  MirrorInv'
<1> DEFINE h == Head(topic)
<1>0. /\ UNCHANGED <<cfg, pushes, stream, published, inOrder, lossless>> /\ TypeOK
      /\ row \in Rows \cup {NoRow} /\ topic # <<>> /\ topic \in Seq(Push) /\ topic' = Tail(topic)
  BY DEF Consume, SnapInv, history, TypeOK, Take
<1>1. /\ h \in Push /\ h \in Range(topic) /\ topic' \in Seq(Push)
      /\ Range(topic) = {h} \cup Range(topic')
  BY <1>0, TakeFacts DEF Consume
<1>2. Readable' = Readable /\ InFlight' = InFlight
  BY <1>0, ReadableTake DEF Consume, InFlight
<1>3. row' = UpsertRow(row, h.ts, h.cells)
  BY DEF Consume
<1>4. /\ Len(handled) + 1 \in DOMAIN Readable /\ Readable[Len(handled) + 1] = h
      /\ \A f \in Range(topic') : \E i \in DOMAIN Readable : i > Len(handled) + 1 /\ Readable[i] = f
      /\ \A i \in DOMAIN Readable : i > Len(handled) + 1 => Readable[i] \in Range(topic')
  <2>1. /\ Len(topic) \in Nat /\ Len(handled) \in Nat /\ Len(Readable) = Len(handled) + Len(topic)
        /\ DOMAIN Readable = 1..Len(Readable)
        /\ \A i \in 1..Len(topic) : Readable[Len(handled) + i] = topic[i]
    BY <1>0, ReadableFacts
  <2>2. Len(topic) # 0 /\ h = topic[1]
    BY <1>0, EmptySeq
  <2>3. Len(topic') = Len(topic) - 1 /\ \A i \in 1..(Len(topic) - 1) : topic'[i] = topic[i + 1]
    BY <1>0, HeadTailProperties
  <2>4. Range(topic') = {topic'[i] : i \in 1..(Len(topic) - 1)}
    BY <1>1, <2>3, RangeEquality
  <2>5. Len(handled) + 1 \in DOMAIN Readable /\ Readable[Len(handled) + 1] = h
    BY <2>1, <2>2
  <2>6. ASSUME NEW f \in Range(topic')
        PROVE  \E i \in DOMAIN Readable : i > Len(handled) + 1 /\ Readable[i] = f
    <3>1. PICK i \in 1..(Len(topic) - 1) : f = topic[i + 1]
      BY <2>3, <2>4
    <3>2. /\ i + 1 \in 1..Len(topic) /\ Len(handled) + (i + 1) \in DOMAIN Readable
          /\ Len(handled) + (i + 1) > Len(handled) + 1
      BY <2>1
    <3> QED BY <2>1, <3>1, <3>2
  <2>7. ASSUME NEW i \in DOMAIN Readable, i > Len(handled) + 1
        PROVE  Readable[i] \in Range(topic')
    <3> DEFINE j == i - Len(handled) - 1
    <3>1. j \in 1..(Len(topic) - 1) /\ j + 1 \in 1..Len(topic) /\ Len(handled) + (j + 1) = i
      BY <2>1, <2>7
    <3> HIDE DEF j
    <3>2. Readable[i] = topic'[j]
      BY <2>1, <2>3, <3>1
    <3> QED BY <2>4, <3>1, <3>2
  <2> QED BY <2>5, <2>6, <2>7
<1>5. \A i \in DOMAIN Readable : i \in Nat /\ Readable[i].n \in Nat /\ Readable[i].ts \in Nat
  BY <1>0, OrderTypes
<1> HIDE DEF h
<1>6. /\ row' \in Rows /\ row' # NoRow
      /\ row # NoRow /\ h.ts < row.ts => row' = row
      /\ row = NoRow \/ ~ (h.ts < row.ts) =>
           /\ row'.ts = h.ts
           /\ \A c \in Columns : row'.cells[c] = IF h.cells[c] # Null THEN h.cells[c]
                                                 ELSE IF row = NoRow THEN InsertDefault[c]
                                                 ELSE row.cells[c]
  BY <1>0, <1>1, <1>3, UpsertFacts
<1> SUFFICES ASSUME lossless, inOrder
             PROVE  /\ OrderInv'
                    /\ \A c \in Pointers : FlightInv(c)' /\ LastInv(c)' /\ RowInv(c)'
  BY <1>0 DEF MirrorInv
<1>7. OrderInv /\ (\A c \in Pointers : FlightInv(c) /\ LastInv(c) /\ RowInv(c))
  BY DEF MirrorInv
<1>8. h.n \in Nat /\ h.ts \in Nat /\ published \in Nat /\ (\A q \in InFlight : q.n \in Nat /\ q.ts \in Nat)
  BY <1>0, <1>1, OrderTypes, ClockFacts, PushFacts
<1>9. OrderInv'
  <2>1. h.n <= published /\ \A q \in InFlight : h.n < q.n => h.ts <= q.ts
    BY <1>4, <1>7 DEF OrderInv
  <2>2. \A q \in InFlight : q.n > published => h.ts <= q.ts
    BY <1>8, <2>1
  <2>3. \A q \in InFlight : q.n > published => row'.ts <= q.ts
    BY <1>6, <1>7, <2>2 DEF OrderInv
  <2> QED BY <1>0, <1>2, <1>7, <2>3 DEF OrderInv
<1>10. ASSUME NEW c \in Pointers
       PROVE  FlightInv(c)' /\ LastInv(c)' /\ RowInv(c)'
  <2>1. FlightInv(c) /\ LastInv(c) /\ RowInv(c) /\ c \in Columns
    BY <1>7, PipelineAssumption
  <2>2. FlightInv(c)'
    BY <1>0, <1>2, <2>1 DEF FlightInv, Right, Says
  <2>3. LastInv(c)'
    BY <1>0, <1>2, <2>1 DEF LastInv, Quiet, Right, Says
  <2>4. RowInv(c)'
    <3> SUFFICES ASSUME Quiet(c), \A f \in Range(topic') : Says(f, c) => f.ts < row'.ts
                 PROVE  IF cfg[c] # Null THEN row'.cells[c] = cfg[c]
                        ELSE row'.cells[c] \in Blank(c)
      BY <1>0, <1>2, <1>6 DEF RowInv, Says, Blank, Quiet
    <3>1. CASE row # NoRow /\ h.ts < row.ts
      BY <1>1, <1>6, <2>1, <3>1 DEF RowInv
    <3>2. CASE row = NoRow \/ ~ (h.ts < row.ts)
      <4>1. \A f \in Range(topic') : ~ Says(f, c)
        <5> SUFFICES ASSUME NEW f \in Range(topic'), Says(f, c) PROVE FALSE
          OBVIOUS
        <5>1. PICK i \in DOMAIN Readable : i > Len(handled) + 1 /\ Readable[i] = f
          BY <1>4
        <5>2. h.ts <= f.ts
          BY <1>4, <1>5, <1>7, <5>1 DEF OrderInv
        <5>3. f.ts < h.ts /\ f.ts \in Nat
          BY <1>5, <1>6, <3>2, <5>1
        <5> QED BY <1>8, <5>2, <5>3
      <4>2. CASE Says(h, c)
        <5>1. \A j \in DOMAIN Readable : Len(handled) + 1 < j => ~ Says(Readable[j], c)
          <6>1. ASSUME NEW j \in DOMAIN Readable, Len(handled) + 1 < j PROVE ~ Says(Readable[j], c)
            <7>1. j > Len(handled) + 1
              BY <6>1
            <7> QED BY <1>4, <4>1, <7>1
          <6> QED BY <6>1
        <5>2. Right(c, h.cells[c])
          BY <1>4, <2>1, <4>2, <5>1 DEF LastInv
        <5>3. row'.cells[c] = h.cells[c]
          BY <1>6, <2>1, <3>2, <4>2 DEF Says
        <5> QED BY <5>2, <5>3 DEF Right, Blank
      <4>3. CASE ~ Says(h, c)
        <5>1. \A f \in Range(topic) : ~ Says(f, c)
          BY <1>1, <4>1, <4>3
        <5>2. IF cfg[c] # Null THEN row # NoRow /\ row.cells[c] = cfg[c]
              ELSE row # NoRow => row.cells[c] \in Blank(c)
          BY <2>1, <5>1 DEF RowInv
        <5>3. row'.cells[c] = IF row = NoRow THEN InsertDefault[c] ELSE row.cells[c]
          BY <1>6, <2>1, <3>2, <4>3 DEF Says
        <5> QED BY <5>2, <5>3 DEF Blank
      <4> QED BY <4>2, <4>3
    <3> QED BY <3>1, <3>2
  <2> QED BY <2>2, <2>3, <2>4
<1> QED BY <1>9, <1>10

\* Reading again from a committed offset leaves out only entries that the ones
\* read again follow.
LEMMA MirrorRedeliver ==
  ASSUME SnapInv, MirrorInv, Redeliver
  PROVE  MirrorInv'
<1>0. UNCHANGED <<cfg, pushes, stream, row, published, inOrder, lossless>> /\ TypeOK
  BY DEF Redeliver, SnapInv, history
<1>1. InFlight' = InFlight
  BY <1>0 DEF InFlight
<1>2. Range(topic) \subseteq Range(topic')
  BY <1>0, ReadableRedeliver
<1>3. PICK k \in 1..Len(Readable) :
        /\ DOMAIN Readable' = 1..(Len(Readable) - k + 1)
        /\ \A i \in DOMAIN Readable' : Readable'[i] = Readable[k + i - 1]
  BY <1>0, ReadableRedeliver
<1>4. Len(Readable) \in Nat /\ DOMAIN Readable = 1..Len(Readable)
  BY <1>0, ReadableFacts
<1>5. /\ \A i \in DOMAIN Readable' : k + i - 1 \in DOMAIN Readable
      /\ \A i, j \in DOMAIN Readable' : i < j => k + i - 1 < k + j - 1
      /\ \A i \in DOMAIN Readable' : \A j \in DOMAIN Readable :
           k + i - 1 < j => j - k + 1 \in DOMAIN Readable' /\ i < j - k + 1 /\ k + (j - k + 1) - 1 = j
  BY <1>3, <1>4
<1> SUFFICES ASSUME lossless, inOrder
             PROVE  /\ OrderInv'
                    /\ \A c \in Pointers : FlightInv(c)' /\ LastInv(c)' /\ RowInv(c)'
  BY <1>0 DEF MirrorInv
<1>6. OrderInv /\ (\A c \in Pointers : FlightInv(c) /\ LastInv(c) /\ RowInv(c))
  BY DEF MirrorInv
<1>7. OrderInv'
  <2>1. ASSUME NEW i \in DOMAIN Readable'
        PROVE  /\ Readable'[i].n <= published
               /\ \A q \in InFlight : Readable'[i].n < q.n => Readable'[i].ts <= q.ts
               /\ \A j \in DOMAIN Readable' : i < j => Readable'[i].ts <= Readable'[j].ts
    <3>1. Readable'[i] = Readable[k + i - 1] /\ k + i - 1 \in DOMAIN Readable
      BY <1>3, <1>5
    <3>2. ASSUME NEW j \in DOMAIN Readable', i < j
          PROVE  Readable'[i].ts <= Readable'[j].ts
      <4>1. /\ Readable'[j] = Readable[k + j - 1] /\ k + j - 1 \in DOMAIN Readable
            /\ k + i - 1 < k + j - 1
        BY <1>3, <1>5, <3>2
      <4> QED BY <1>6, <3>1, <4>1 DEF OrderInv
    <3> QED BY <1>6, <3>1, <3>2 DEF OrderInv
  <2> QED BY <1>0, <1>1, <1>6, <2>1 DEF OrderInv
<1>8. ASSUME NEW c \in Pointers
      PROVE  FlightInv(c)' /\ LastInv(c)' /\ RowInv(c)'
  <2>1. FlightInv(c) /\ LastInv(c) /\ RowInv(c)
    BY <1>6
  <2>2. FlightInv(c)'
    BY <1>0, <1>1, <2>1 DEF FlightInv, Right, Says
  <2>3. LastInv(c)'
    <3> SUFFICES ASSUME Quiet(c), NEW i \in DOMAIN Readable', Says(Readable'[i], c),
                        \A j \in DOMAIN Readable' : i < j => ~ Says(Readable'[j], c)
                 PROVE  Right(c, Readable'[i].cells[c])
      BY <1>0, <1>1 DEF LastInv, Right, Says, Quiet
    <3>1. Readable'[i] = Readable[k + i - 1] /\ k + i - 1 \in DOMAIN Readable
      BY <1>3, <1>5
    <3>2. ASSUME NEW j \in DOMAIN Readable, k + i - 1 < j
          PROVE  ~ Says(Readable[j], c)
      <4>1. /\ j - k + 1 \in DOMAIN Readable' /\ i < j - k + 1
            /\ Readable'[j - k + 1] = Readable[j]
        BY <1>3, <1>5, <3>2
      <4> QED BY <4>1
    <3> QED BY <2>1, <3>1, <3>2 DEF LastInv
  <2>4. RowInv(c)'
    BY <1>0, <1>1, <1>2, <2>1 DEF RowInv, Says, Blank, Quiet
  <2> QED BY <2>2, <2>3, <2>4
<1> QED BY <1>7, <1>8

\* Nothing is on its way or can be read at first, and nothing is configured.
LEMMA MirrorInit == Init => MirrorInv
<1> SUFFICES ASSUME Init PROVE MirrorInv
  OBVIOUS
<1>1. Range(<<>>) = {} /\ <<>> \in Seq(Push)
  BY EmptySeq DEF Range
<1>2. InFlight = {} /\ Range(topic) = {} /\ row = NoRow /\ published = 0 /\ pushes = 0
  BY <1>1 DEF Init, InFlight
<1>3. DOMAIN Readable = {}
  <2>1. <<>> \o <<>> = <<>>
    BY <1>1, ConcatEmptySeq
  <2> QED BY <2>1 DEF Init, Readable
<1>4. Pointers \subseteq Columns
  BY PipelineAssumption
<1>5. \A c \in Pointers : cfg[c] = Null
  BY <1>4 DEF Init
<1>6. OrderInv
  BY <1>2, <1>3 DEF OrderInv
<1>7. \A c \in Pointers : FlightInv(c) /\ LastInv(c) /\ RowInv(c)
  BY <1>2, <1>3, <1>5 DEF FlightInv, LastInv, RowInv
<1> QED BY <1>6, <1>7 DEF MirrorInv

\* Every step keeps it.
LEMMA MirrorNext == SnapInv /\ MirrorInv /\ [Next]_vars => MirrorInv'
<1> SUFFICES ASSUME SnapInv, MirrorInv, [Next]_vars PROVE MirrorInv'
  OBVIOUS
<1>1. CASE \E c \in Columns : \E v \in Settings(c) \cup {Null} : Configure(c, v)
  BY <1>1, MirrorConfigure
<1>2. CASE Periodic
  BY <1>2, MirrorPeriodic
<1>3. CASE Tick \/ UNCHANGED vars
  <2>1. UNCHANGED <<cfg, pushes, stream, topic, handled, row, published, inOrder, lossless>>
    BY <1>3 DEF Tick, vars, history
  <2>2. InFlight' = InFlight /\ Readable' = Readable
    BY <2>1 DEF InFlight, Readable
  <2>3. OrderInv' = OrderInv
    BY <2>1, <2>2 DEF OrderInv
  <2>4. ASSUME NEW c \in Pointers, FlightInv(c), LastInv(c), RowInv(c)
        PROVE  FlightInv(c)' /\ LastInv(c)' /\ RowInv(c)'
    BY <2>1, <2>2, <2>4 DEF FlightInv, LastInv, RowInv, Quiet, Says, Right, Blank
  <2> QED BY <2>1, <2>3, <2>4 DEF MirrorInv
<1>4. CASE \E s \in Streams : Collect(s)
  BY <1>4, MirrorCollect
<1>5. CASE Consume
  BY <1>5, MirrorConsume
<1>6. CASE Redeliver
  BY <1>6, MirrorRedeliver
<1>7. CASE (\E s \in Streams : CollectFails(s)) \/ ConsumeFails \/ SkipToNewest \/ Expire
  <2>1. lossless' = FALSE
    BY <1>7 DEF CollectFails, ConsumeFails, SkipToNewest, Expire
  <2> QED BY <2>1 DEF MirrorInv
<1> QED BY <1>1, <1>2, <1>3, <1>4, <1>5, <1>6, <1>7 DEF Next

\* Both invariants hold of every state of the pipeline.
THEOREM Invariant == Spec => []IInv
<1>1. Init => IInv
  BY SnapInit, MirrorInit DEF IInv
<1>2. IInv /\ [Next]_vars => IInv'
  BY SnapNext, MirrorNext DEF IInv
<1> QED BY <1>1, <1>2, PTL DEF Spec

\* On-change deltas alone keep the pointer fields right when all arrive in
\* order, once or again after a restart: IfEntry's pointers and the COALESCE
\* of handleInterface tell "not said" from "cleared" all the way.
THEOREM DeltasAreMirrored == Spec => []DeltasMirror
<1>1. ASSUME IInv, Delivered, inOrder, NEW c \in Pointers
      PROVE  IF cfg[c] # Null THEN row.cells[c] = cfg[c] ELSE row.cells[c] \in Blank(c)
  <2>1. /\ topic = <<>> /\ lossless /\ row # NoRow
        /\ \A s \in Streams : stream[s] = <<>>
    BY <1>1 DEF Delivered, Settled
  <2>2. Range(<<>>) = {}
    BY DEF Range
  <2>3. InFlight = {} /\ Range(topic) = {}
    BY <2>1, <2>2 DEF InFlight
  <2>4. RowInv(c)
    BY <1>1, <2>1 DEF IInv, MirrorInv
  <2> QED BY <2>1, <2>3, <2>4 DEF RowInv, Quiet
<1>2. IInv => DeltasMirror
  BY <1>1 DEF DeltasMirror
<1> QED BY <1>2, Invariant, PTL
=============================================================================
