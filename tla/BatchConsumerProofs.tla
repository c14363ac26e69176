------------------------ MODULE BatchConsumerProofs ------------------------
(***************************************************************************)
(* Safety of the batch consumer for every set of keys, messages, log       *)
(* length and batch size.  The inductive invariant extends the claim about *)
(* committed offsets to marked offsets, and says of every delivered offset *)
(* that it is written, buffered, or excused by a malformed message that    *)
(* has already been marked.  The replay invariant at the end says of rows  *)
(* that a replay pushed back that the messages which put them right are    *)
(* buffered or still to be delivered.                                      *)
(***************************************************************************)
EXTENDS BatchConsumer, DedupLoop, WellFoundedInduction, TLAPS

\* The message at offset o is written, or the map b holds entries at least as
\* new for what is not.
HeldBy(b, o) ==
  \A i \in DOMAIN EntriesAt(o) :
    LET e == EntriesAt(o)[i] IN
      \/ hw[e.key] >= e.ts
      \/ b[e.key] # NoEntry /\ b[e.key].ts >= e.ts

WrittenBefore(end) ==
  \A o \in base..(end - 1) : Written(o) \/ MalformedBetween(o, end)

HeldBefore(b, end) ==
  \A o \in base..(end - 1) : HeldBy(b, o) \/ MalformedBetween(o, marked)

OffsetsInv ==
  /\ base <= Len(log)
  /\ committed <= Len(log)
  /\ proc = "session" => marked <= next /\ next <= Len(log)

DeliveryInv ==
  /\ WrittenBefore(committed)
  /\ proc = "session" =>
       /\ WrittenBefore(marked)
       /\ HeldBefore(batch, next)

IInv == TypeOK /\ OffsetsInv /\ MarksDeliveredMessage /\ DeliveryInv

-----------------------------------------------------------------------------
(* What buffering a message does to the batch map, for every message. *)

\* Intervals that begin together.
LEMMA IntervalWithin ==
  ASSUME NEW a \in Int, NEW m \in Int, NEW n \in Int, m <= n
  PROVE  \A o \in a..(m - 1) : o \in a..(n - 1)
OBVIOUS

\* A non-empty set of naturals has a least element.
LEMMA NatMin ==
  ASSUME NEW S \in SUBSET Nat, S # {}
  PROVE  \E x \in S : \A y \in S : x <= y
<1> DEFINE R == OpToRel(<, Nat)
<1>1. IsWellFoundedOn(R, Nat)
  BY NatLessThanWellFounded
<1>2. PICK x \in S : \A y \in S : ~ (<<y, x>> \in R)
  <2> HIDE DEF R
  <2> QED BY <1>1, WFMin
<1>3. \A y \in S : ~ (y < x)
  BY <1>2 DEF OpToRel
<1> QED BY <1>3

\* The entries of a message that decodes.
LEMMA EntryFacts ==
  ASSUME NEW es \in Seq(Entry), NEW i \in DOMAIN es
  PROVE  /\ i \in Nat
         /\ es[i] \in Entry
         /\ es[i].key \in Keys
         /\ es[i].ts \in Times
         /\ es[i].ts \in Nat
         /\ es[i].ts <= MaxTime
<1>1. i \in Nat /\ es[i] \in Entry
  OBVIOUS
<1>2. es[i].key \in Keys /\ es[i].ts \in Times
  BY <1>1 DEF Entry
<1> QED BY <1>1, <1>2, DedupAssumption DEF Times

\* FirstNewest is well defined: among the entries of a key one is the newest.
LEMMA FirstNewestExists ==
  ASSUME NEW es \in Seq(Entry), NEW k \in Keys, IndicesOf(es, k) # {}
  PROVE  /\ FirstNewest(es, k) \in IndicesOf(es, k)
         /\ \A j \in IndicesOf(es, k) : es[j].ts <= es[FirstNewest(es, k)].ts
<1> DEFINE I == IndicesOf(es, k)
           Ages == {MaxTime - es[i].ts : i \in I}
<1>1. I \subseteq DOMAIN es
  BY DEF IndicesOf
<1>2. \A i \in I : /\ i \in Nat /\ es[i].ts \in Nat /\ es[i].ts <= MaxTime
  BY <1>1, EntryFacts
<1>3. Ages \in SUBSET Nat /\ Ages # {}
  BY <1>2, DedupAssumption
<1>4. PICK a \in Ages : \A b \in Ages : a <= b
  BY <1>3, NatMin
<1>5. PICK i \in I : a = MaxTime - es[i].ts
  BY <1>4
<1>6. ASSUME NEW j \in I PROVE es[j].ts <= es[i].ts
  <2>1. MaxTime - es[i].ts <= MaxTime - es[j].ts
    BY <1>4, <1>5
  <2> QED BY <2>1, <1>2, DedupAssumption
<1>7. i \in NewestOf(es, k) /\ NewestOf(es, k) \in SUBSET Nat
  BY <1>2, <1>5, <1>6 DEF NewestOf
<1>8. \E f \in NewestOf(es, k) : \A j \in NewestOf(es, k) : f <= j
  BY <1>7, NatMin
<1>9. FirstNewest(es, k) \in NewestOf(es, k)
  BY <1>8 DEF FirstNewest
<1> QED BY <1>9 DEF NewestOf

\* Absorb keeps the map well typed, never replaces an entry by an older one,
\* and afterwards holds, for every entry of the message, one at least as new.
LEMMA AbsorbCovers ==
  ASSUME NEW b \in Batches, NEW es \in Seq(Entry)
  PROVE  /\ Absorb(b, es) \in Batches
         /\ \A k \in Keys : b[k] # NoEntry =>
              /\ Absorb(b, es)[k] # NoEntry
              /\ Absorb(b, es)[k].ts >= b[k].ts
         /\ \A i \in DOMAIN es :
              /\ Absorb(b, es)[es[i].key] # NoEntry
              /\ Absorb(b, es)[es[i].key].ts >= es[i].ts
<1>1. \A k \in Keys : b[k] # NoEntry => b[k] \in Entry /\ b[k].ts \in Nat
  BY DedupAssumption DEF Batches, Entry, Times
<1>2. ASSUME NEW k \in Keys, IndicesOf(es, k) # {}
      PROVE  /\ es[FirstNewest(es, k)] \in Entry
             /\ es[FirstNewest(es, k)] # NoEntry
             /\ es[FirstNewest(es, k)].ts \in Nat
             /\ \A i \in IndicesOf(es, k) :
                  es[i].ts \in Nat /\ es[i].ts <= es[FirstNewest(es, k)].ts
  <2>1. FirstNewest(es, k) \in DOMAIN es
    BY <1>2, FirstNewestExists DEF IndicesOf
  <2>2. \A i \in IndicesOf(es, k) : es[i].ts \in Nat
    BY EntryFacts DEF IndicesOf
  <2> QED BY <1>2, <2>1, <2>2, FirstNewestExists, EntryFacts, DedupAssumption
<1>3. ASSUME NEW k \in Keys
      PROVE  /\ Absorb(b, es)[k] \in Entry \cup {NoEntry}
             /\ b[k] # NoEntry => /\ Absorb(b, es)[k] # NoEntry
                                  /\ Absorb(b, es)[k].ts >= b[k].ts
             /\ \A i \in IndicesOf(es, k) :
                  Absorb(b, es)[k] # NoEntry /\ Absorb(b, es)[k].ts >= es[i].ts
  <2>1. CASE IndicesOf(es, k) = {}
    <3>1. Absorb(b, es)[k] = b[k]
      BY <2>1 DEF Absorb
    <3> QED BY <1>1, <2>1, <3>1 DEF Batches
  <2>2. CASE IndicesOf(es, k) # {} /\ Replaces(es[FirstNewest(es, k)], b[k])
    <3>1. Absorb(b, es)[k] = es[FirstNewest(es, k)]
      BY <2>2 DEF Absorb
    <3>2. b[k] # NoEntry => es[FirstNewest(es, k)].ts > b[k].ts
      BY <2>2 DEF Replaces
    <3> QED BY <1>1, <1>2, <2>2, <3>1, <3>2
  <2>3. CASE IndicesOf(es, k) # {} /\ ~ Replaces(es[FirstNewest(es, k)], b[k])
    <3>1. Absorb(b, es)[k] = b[k]
      BY <2>3 DEF Absorb
    <3>2. b[k] # NoEntry /\ ~ (es[FirstNewest(es, k)].ts > b[k].ts)
      BY <2>3 DEF Replaces
    <3> QED BY <1>1, <1>2, <2>3, <3>1, <3>2
  <2> QED BY <2>1, <2>2, <2>3
<1>4. Absorb(b, es) \in Batches
  <2>1. Absorb(b, es) = [k \in Keys |-> Absorb(b, es)[k]]
    BY DEF Absorb
  <2> QED BY <2>1, <1>3 DEF Batches
<1>5. \A i \in DOMAIN es : es[i].key \in Keys /\ i \in IndicesOf(es, es[i].key)
  BY EntryFacts DEF IndicesOf
<1> QED BY <1>3, <1>4, <1>5

-----------------------------------------------------------------------------
(* The loop. *)

\* FirstNewest is the first of the newest entries of a key, and the only one.
LEMMA FirstNewestIs ==
  ASSUME NEW es \in Seq(Entry), NEW k \in Keys, NEW f \in NewestOf(es, k),
         \A j \in NewestOf(es, k) : f <= j
  PROVE  FirstNewest(es, k) = f
<1>1. \A j \in NewestOf(es, k) : j \in Nat
  BY EntryFacts DEF NewestOf, IndicesOf
<1>2. /\ FirstNewest(es, k) \in NewestOf(es, k)
      /\ \A j \in NewestOf(es, k) : FirstNewest(es, k) <= j
  BY DEF FirstNewest
<1> QED BY <1>1, <1>2

\* It is among the newest, before all others.
LEMMA FirstNewestFirst ==
  ASSUME NEW es \in Seq(Entry), NEW k \in Keys, IndicesOf(es, k) # {}
  PROVE  /\ FirstNewest(es, k) \in NewestOf(es, k)
         /\ \A j \in NewestOf(es, k) : FirstNewest(es, k) <= j
<1>1. /\ FirstNewest(es, k) \in IndicesOf(es, k)
      /\ \A j \in IndicesOf(es, k) : es[j].ts <= es[FirstNewest(es, k)].ts
  BY FirstNewestExists
<1>2. FirstNewest(es, k) \in NewestOf(es, k) /\ NewestOf(es, k) \in SUBSET Nat
  BY <1>1, EntryFacts DEF NewestOf, IndicesOf
<1>3. \E f \in NewestOf(es, k) : \A j \in NewestOf(es, k) : f <= j
  BY <1>2, NatMin
<1> QED BY <1>3 DEF FirstNewest

\* One iteration of the loop: what is held of a key gives way to a newer entry.
BufferOne(b, e) == IF b[e.key] = NoEntry \/ e.ts > b[e.key].ts THEN [b EXCEPT ![e.key] = e] ELSE b

\* Absorbing one more entry is one more iteration.
LEMMA AbsorbAppend ==
  ASSUME NEW b \in Batches, NEW es \in Seq(Entry), NEW e \in Entry
  PROVE  Absorb(b, Append(es, e)) = BufferOne(Absorb(b, es), e)
<1> DEFINE n == Len(es)
           fs == Append(es, e)
           a == Absorb(b, es)
<1>1. /\ fs \in Seq(Entry) /\ Len(fs) = n + 1 /\ n \in Nat
      /\ (\A i \in 1..n : fs[i] = es[i]) /\ fs[n + 1] = e
  OBVIOUS
<1>2. DOMAIN es = 1..n /\ DOMAIN fs = 1..(n + 1) /\ DOMAIN fs = DOMAIN es \cup {n + 1}
      /\ n + 1 \notin DOMAIN es
  BY <1>1
<1>3. a \in Batches /\ a \in [Keys -> Entry \cup {NoEntry}] /\ b \in [Keys -> Entry \cup {NoEntry}]
  BY AbsorbCovers DEF Batches
<1>4. e.key \in Keys /\ e.ts \in Nat /\ e # NoEntry
  BY DedupAssumption DEF Entry, Times
<1>5. \A x \in Entry : x # NoEntry /\ x.ts \in Nat
  BY DedupAssumption DEF Entry, Times
<1>6. \A i \in DOMAIN es : i \in Nat /\ i < n + 1 /\ es[i] \in Entry /\ es[i].ts \in Nat
  BY <1>1, <1>2, EntryFacts
<1> HIDE DEF fs, n
<1>7. ASSUME NEW k \in Keys PROVE Absorb(b, fs)[k] = BufferOne(a, e)[k]
  <2>1. /\ Absorb(b, fs)[k] = IF IndicesOf(fs, k) # {} /\ Replaces(fs[FirstNewest(fs, k)], b[k])
                              THEN fs[FirstNewest(fs, k)] ELSE b[k]
        /\ a[k] = IF IndicesOf(es, k) # {} /\ Replaces(es[FirstNewest(es, k)], b[k])
                  THEN es[FirstNewest(es, k)] ELSE b[k]
    BY <1>7 DEF Absorb
  <2>2. BufferOne(a, e)[k] = IF k = e.key /\ (a[k] = NoEntry \/ e.ts > a[k].ts) THEN e ELSE a[k]
    BY <1>3, <1>4, <1>7 DEF BufferOne
  <2> HIDE DEF a
  <2>3. CASE k # e.key
    <3>1. IndicesOf(fs, k) = IndicesOf(es, k)
      BY <1>1, <1>2, <2>3 DEF IndicesOf
    <3>2. \A i \in IndicesOf(es, k) : fs[i] = es[i]
      BY <1>1, <1>2 DEF IndicesOf
    <3>3. NewestOf(fs, k) = NewestOf(es, k)
      BY <3>1, <3>2 DEF NewestOf
    <3>4. FirstNewest(fs, k) = FirstNewest(es, k)
      BY <3>3 DEF FirstNewest
    <3>5. CASE IndicesOf(es, k) = {}
      BY <2>1, <2>2, <2>3, <3>1, <3>5
    <3>6. CASE IndicesOf(es, k) # {}
      <4>1. fs[FirstNewest(fs, k)] = es[FirstNewest(es, k)]
        BY <3>2, <3>4, <3>6, FirstNewestExists
      <4> QED BY <2>1, <2>2, <2>3, <3>1, <4>1
    <3> QED BY <3>5, <3>6
  <2>4. CASE k = e.key
    <3>1. IndicesOf(fs, k) = IndicesOf(es, k) \cup {n + 1}
      BY <1>1, <1>2, <2>4 DEF IndicesOf
    <3>2. IndicesOf(es, k) \subseteq DOMAIN es /\ \A i \in IndicesOf(es, k) : fs[i] = es[i]
      BY <1>1, <1>2 DEF IndicesOf
    <3>3. CASE IndicesOf(es, k) = {}
      <4>1. NewestOf(fs, k) = {n + 1}
        BY <1>1, <1>4, <3>1, <3>3 DEF NewestOf
      <4>2. n + 1 \in NewestOf(fs, k) /\ \A j \in NewestOf(fs, k) : n + 1 <= j
        BY <1>1, <4>1
      <4>3. FirstNewest(fs, k) = n + 1
        BY <1>1, <4>2, FirstNewestIs
      <4> QED BY <1>1, <2>1, <2>2, <2>4, <3>1, <3>3, <4>3 DEF Replaces
    <3>4. CASE IndicesOf(es, k) # {}
      <4> DEFINE f == FirstNewest(es, k)
      <4>1. /\ f \in IndicesOf(es, k) /\ f \in NewestOf(es, k)
            /\ \A j \in IndicesOf(es, k) : es[j].ts <= es[f].ts
            /\ \A j \in NewestOf(es, k) : f <= j
        BY <3>4, FirstNewestExists, FirstNewestFirst
      <4>2. f \in Nat /\ f < n + 1 /\ es[f] \in Entry /\ es[f].ts \in Nat /\ es[f] # NoEntry /\ fs[f] = es[f]
        BY <1>5, <1>6, <3>2, <4>1
      <4> HIDE DEF f
      <4>3. a[k] = IF Replaces(es[f], b[k]) THEN es[f] ELSE b[k]
        BY <2>1, <3>4 DEF f
      <4>4. b[k] # NoEntry => b[k].ts \in Nat
        BY <1>3, <1>5
      <4>5. CASE e.ts > es[f].ts
        <5>1. \A j \in IndicesOf(es, k) : es[j].ts < e.ts
          BY <1>4, <1>6, <3>2, <4>1, <4>2, <4>5
        <5>2. NewestOf(fs, k) = {n + 1}
          <6>1. n + 1 \in NewestOf(fs, k)
            BY <1>1, <1>4, <1>6, <3>1, <3>2, <5>1 DEF NewestOf
          <6>2. \A j \in IndicesOf(es, k) : j \notin NewestOf(fs, k)
            BY <1>1, <1>4, <1>6, <3>1, <3>2, <5>1 DEF NewestOf
          <6> QED BY <3>1, <6>1, <6>2 DEF NewestOf
        <5>3. n + 1 \in NewestOf(fs, k) /\ \A j \in NewestOf(fs, k) : n + 1 <= j
          BY <1>1, <5>2
        <5>4. FirstNewest(fs, k) = n + 1
          BY <1>1, <5>3, FirstNewestIs
        <5>5. Absorb(b, fs)[k] = IF Replaces(e, b[k]) THEN e ELSE b[k]
          BY <1>1, <2>1, <3>1, <5>4
        <5> QED BY <1>4, <2>2, <2>4, <4>2, <4>3, <4>4, <4>5, <5>5 DEF Replaces
      <4>6. CASE ~ (e.ts > es[f].ts)
        <5>1. e.ts <= es[f].ts
          BY <1>4, <4>2, <4>6
        <5>2. f \in NewestOf(fs, k)
          BY <1>1, <3>1, <3>2, <4>1, <5>1 DEF NewestOf
        <5>3. ASSUME NEW j \in NewestOf(fs, k) PROVE f <= j
          <6>1. CASE j = n + 1
            BY <1>1, <4>2, <6>1
          <6>2. CASE j # n + 1
            <7>1. j \in NewestOf(es, k)
              BY <3>1, <3>2, <5>3, <6>2 DEF NewestOf
            <7> QED BY <4>1, <7>1
          <6> QED BY <6>1, <6>2
        <5>4. FirstNewest(fs, k) = f
          BY <1>1, <5>2, <5>3, FirstNewestIs
        <5>5. Absorb(b, fs)[k] = IF Replaces(es[f], b[k]) THEN es[f] ELSE b[k]
          BY <2>1, <3>1, <4>2, <5>4
        <5> QED BY <1>4, <2>2, <4>2, <4>3, <4>4, <5>1, <5>5 DEF Replaces
      <4> QED BY <4>5, <4>6
    <3> QED BY <3>3, <3>4
  <2> QED BY <2>3, <2>4
<1>8. Absorb(b, fs) \in [Keys -> Entry \cup {NoEntry}]
  BY <1>1, AbsorbCovers DEF Batches
<1>9. BufferOne(a, e) \in [Keys -> Entry \cup {NoEntry}]
  BY <1>3, <1>4 DEF BufferOne
<1> HIDE DEF a
<1>10. Absorb(b, fs) = BufferOne(a, e)
  BY <1>7, <1>8, <1>9
<1> QED BY <1>10 DEF fs, a

LoopTypeOK ==
  /\ held \in Batches /\ map \in Batches
  /\ entries \in Seq(Entry) /\ taken \in 0..Len(entries)

\* The deduplication loop of consumeMACBatch and consumeARPBatch computes
\* Absorb, the step ReceiveEntries takes, for every batch and every message.
THEOREM LoopComputesAbsorb == LoopSpec => []LoopIsAbsorb
<1> DEFINE Inv == LoopTypeOK /\ LoopIsAbsorb
<1>1. LoopInit => Inv
  <2> SUFFICES ASSUME LoopInit PROVE Inv
    OBVIOUS
  <2>1. entries \in Seq(Entry) /\ held \in Batches /\ taken = 0 /\ map = held
    BY ArraysAssumption DEF LoopInit
  <2>2. Len(entries) \in Nat /\ SubSeq(entries, 1, 0) = <<>>
    BY <2>1
  <2>3. Absorb(held, <<>>) = [k \in Keys |-> held[k]]
    BY DEF Absorb, IndicesOf
  <2>4. Absorb(held, <<>>) = held
    BY <2>1, <2>3 DEF Batches
  <2>5. LoopIsAbsorb
    <3>1. SubSeq(entries, 1, taken) = <<>>
      BY <2>1, <2>2
    <3> QED BY <2>1, <2>4, <3>1 DEF LoopIsAbsorb
  <2> QED BY <2>1, <2>2, <2>5 DEF LoopTypeOK
<1>2. Inv /\ [BufferEntry]_loopVars => Inv'
  <2> SUFFICES ASSUME Inv, [BufferEntry]_loopVars PROVE Inv'
    OBVIOUS
  <2>1. CASE UNCHANGED loopVars
    BY <2>1 DEF loopVars, LoopTypeOK, LoopIsAbsorb
  <2>2. CASE BufferEntry
    <3> DEFINE e == entries[taken + 1]
               es == SubSeq(entries, 1, taken)
    <3>1. /\ held \in Batches /\ map \in Batches /\ entries \in Seq(Entry) /\ Len(entries) \in Nat
          /\ taken \in 0..Len(entries) /\ taken < Len(entries) /\ taken' = taken + 1
          /\ held' = held /\ entries' = entries /\ map = Absorb(held, es)
      BY <2>2 DEF LoopTypeOK, LoopIsAbsorb, BufferEntry
    <3>2. taken + 1 \in 1..Len(entries) /\ e \in Entry
      BY <3>1
    <3>3. \A i \in 1..taken : entries[i] \in Entry
      BY <3>1
    <3>4. es \in Seq(Entry)
      BY <3>1, <3>3
    <3>5. SubSeq(entries, 1, taken + 1) = Append(es, e)
      BY <3>1, <3>2
    <3>6. map' = BufferOne(map, e)
      BY <2>2 DEF BufferEntry, BufferOne
    <3> HIDE DEF e, es
    <3>7. Absorb(held, Append(es, e)) = BufferOne(Absorb(held, es), e)
      BY <3>1, <3>2, <3>4, AbsorbAppend
    <3>8. map' = Absorb(held', SubSeq(entries', 1, taken'))
      BY <3>1, <3>5, <3>6, <3>7
    <3>9. Append(es, e) \in Seq(Entry)
      BY <3>2, <3>4
    <3>10. map' \in Batches
      BY <3>1, <3>6, <3>7, <3>9, AbsorbCovers
    <3> QED BY <3>1, <3>2, <3>8, <3>10 DEF LoopTypeOK, LoopIsAbsorb
  <2> QED BY <2>1, <2>2
<1>3. Inv => LoopIsAbsorb
  OBVIOUS
<1> QED BY <1>1, <1>2, <1>3, PTL DEF LoopSpec

-----------------------------------------------------------------------------
(* Facts about single definitions. *)

\* What a message reports is a sequence of entries.
LEMMA EntriesAtType ==
  ASSUME TypeOK, NEW o \in Nat
  PROVE  EntriesAt(o) \in Seq(Entry)
<1>1. CASE o < Len(log) /\ log[o + 1] # Malformed
  <2>1. log[o + 1] \in Messages
    BY <1>1 DEF TypeOK, GroupTypeOK
  <2> QED BY <1>1, <2>1, BatchAssumption DEF EntriesAt
<1>2. CASE ~ (o < Len(log) /\ log[o + 1] # Malformed)
  BY <1>2 DEF EntriesAt
<1> QED BY <1>1, <1>2

\* Every entry of a message has a key with a history.
LEMMA ReportedEntry ==
  ASSUME TypeOK, NEW o \in Nat, NEW i \in DOMAIN EntriesAt(o)
  PROVE  /\ EntriesAt(o)[i].key \in Keys
         /\ EntriesAt(o)[i].ts \in Nat
         /\ hw[EntriesAt(o)[i].key] \in Int
<1>1. EntriesAt(o)[i].key \in Keys /\ EntriesAt(o)[i].ts \in Nat
  BY EntriesAtType, EntryFacts
<1>2. hw \in [Keys -> Times \cup {NoTime}] /\ Times \subseteq Int /\ NoTime \in Int
  BY DedupAssumption DEF TypeOK, Times, NoTime
<1> QED BY <1>1, <1>2

\* The rows of a well-typed map.
LEMMA BatchRow ==
  ASSUME NEW b \in Batches, NEW k \in Keys, b[k] # NoEntry
  PROVE  b[k] \in Entry /\ b[k].ts \in Nat /\ b[k].ts \in Times
<1>1. b[k] \in Entry
  BY DEF Batches
<1> QED BY <1>1, DedupAssumption DEF Entry, Times

\* The history only grows, and an upsert of b writes everything b holds.
LEMMA UpsertWrites ==
  ASSUME TypeOK, NEW b \in Batches, Upsert(b)
  PROVE  /\ db' \in Batches
         /\ hw' \in [Keys -> Times \cup {NoTime}]
         /\ \A k \in Keys : hw'[k] >= hw[k]
         /\ \A k \in Keys : b[k] # NoEntry => hw'[k] >= b[k].ts
<1>1. Times \subseteq Int /\ NoTime \in Int
  BY DedupAssumption DEF Times, NoTime
<1>2. ASSUME NEW k \in Keys
      PROVE  /\ hw'[k] \in Times \cup {NoTime}
             /\ hw'[k] >= hw[k]
             /\ b[k] # NoEntry => hw'[k] >= b[k].ts
             /\ db'[k] \in Entry \cup {NoEntry}
  <2>1. hw[k] \in Times \cup {NoTime} /\ db[k] \in Entry \cup {NoEntry}
    BY DEF TypeOK, Batches
  <2>2. CASE b[k] = NoEntry
    BY <2>1, <2>2, <1>1 DEF Upsert
  <2>3. CASE b[k] # NoEntry
    <3>1. hw'[k] = MaxOf(hw[k], b[k].ts) /\ db'[k] = b[k]
      BY <2>3 DEF Upsert
    <3>2. b[k] \in Entry /\ b[k].ts \in Times
      BY <2>3, BatchRow
    <3>3. hw[k] \in Int /\ b[k].ts \in Int
      BY <2>1, <3>2, <1>1
    <3>4. MaxOf(hw[k], b[k].ts) >= hw[k] /\ MaxOf(hw[k], b[k].ts) >= b[k].ts
      BY <3>3 DEF MaxOf
    <3>5. MaxOf(hw[k], b[k].ts) \in Times \cup {NoTime}
      BY <2>1, <3>2 DEF MaxOf
    <3> QED BY <3>1, <3>2, <3>4, <3>5
  <2> QED BY <2>2, <2>3
<1>3. /\ db' = [k \in Keys |-> db'[k]]
      /\ hw' = [k \in Keys |-> hw'[k]]
  BY DEF Upsert
<1> QED BY <1>2, <1>3 DEF Batches

\* A mark only moves forward, to just behind the message.
LEMMA MarkForward ==
  ASSUME TypeOK, NEW o \in Nat
  PROVE  /\ MarkAfter(o) \in Int
         /\ MarkAfter(o) >= marked
         /\ MarkAfter(o) >= o + 1
         /\ \A n \in Int : marked <= n /\ o < n => MarkAfter(o) <= n
BY DEF TypeOK, GroupTypeOK, MarkAfter, MaxOf, Offsets, NoOffset

\* A published message stays where it is.
LogKept == Len(log') >= Len(log) /\ \A o \in 1..Len(log) : log'[o] = log[o]

\* What a published message reports does not change.
LEMMA LogKeptFacts ==
  ASSUME TypeOK, LogKept, NEW o \in Nat, o < Len(log), Len(log') \in Nat
  PROVE  EntriesAt(o)' = EntriesAt(o)
<1>1. Len(log) \in Nat
  BY DEF TypeOK, GroupTypeOK
<1>2. o + 1 \in 1..Len(log) /\ o < Len(log')
  BY <1>1 DEF LogKept
<1>3. log'[o + 1] = log[o + 1]
  BY <1>2 DEF LogKept
<1> QED BY <1>2, <1>3 DEF EntriesAt

\* What was written stays written.
LEMMA WrittenStable ==
  ASSUME TypeOK, TypeOK', LogKept, NEW o \in Nat, o < Len(log),
         \A k \in Keys : hw'[k] >= hw[k], Written(o)
  PROVE  Written(o)'
<1>1. EntriesAt(o)' = EntriesAt(o)
  BY LogKeptFacts DEF TypeOK, GroupTypeOK
<1>2. ASSUME NEW i \in DOMAIN EntriesAt(o)
      PROVE  hw'[EntriesAt(o)[i].key] >= EntriesAt(o)[i].ts
  <2> DEFINE e == EntriesAt(o)[i]
  <2>1. e.key \in Keys /\ e.ts \in Nat /\ hw[e.key] \in Int
    BY ReportedEntry
  <2>2. hw'[e.key] \in Int
    BY <2>1, DedupAssumption DEF TypeOK, Times, NoTime
  <2>3. hw[e.key] >= e.ts /\ hw'[e.key] >= hw[e.key]
    BY <2>1 DEF Written
  <2> HIDE DEF e
  <2>4. hw'[e.key] >= e.ts
    BY <2>1, <2>2, <2>3
  <2> QED BY <2>4 DEF e
<1> QED BY <1>1, <1>2 DEF Written

\* A malformed message keeps excusing what is before it.
LEMMA ExcuseStable ==
  ASSUME TypeOK, LogKept, NEW o \in Nat,
         NEW end \in Int, NEW end2 \in Int, end <= end2, end <= Len(log),
         MalformedBetween(o, end)
  PROVE  \E p \in (o + 1)..(end2 - 1) : log'[p + 1] = Malformed
<1>1. PICK p \in (o + 1)..(end - 1) : log[p + 1] = Malformed
  BY DEF MalformedBetween
<1>2. p + 1 \in 1..Len(log)
  BY <1>1 DEF TypeOK, GroupTypeOK
<1>3. log'[p + 1] = Malformed
  BY <1>1, <1>2 DEF LogKept
<1>4. p \in (o + 1)..(end2 - 1)
  BY <1>1
<1> QED BY <1>3, <1>4

\* The same with the same end.
LEMMA ExcuseKept ==
  ASSUME TypeOK, LogKept, NEW o \in Nat, NEW end \in Int, end <= Len(log),
         MalformedBetween(o, end)
  PROVE  \E p \in (o + 1)..(end - 1) : log'[p + 1] = Malformed
<1>1. end <= end
  OBVIOUS
<1> QED BY <1>1, ExcuseStable

-----------------------------------------------------------------------------
(* flush keeps the delivery invariant: b and last are the map and message  *)
(* it works on, n is the number of messages delivered.                     *)

FlushPre(b, last, n) ==
  /\ marked <= n /\ n <= Len(log)
  /\ Buffered(b) # {} => last \in 0..(n - 1)
  /\ WrittenBefore(marked)
  /\ HeldBefore(b, n)

\* A message was buffered, or there was nothing to flush.
Keep(b, last) ==
  /\ batch' = b /\ lastMsg' = last
  /\ UNCHANGED <<marked, db, hw>>

FlushOrKeep(b, last) == FlushOk(b, last) \/ FlushError(b, last) \/ Keep(b, last)

\* flush keeps its variables well typed, never takes a write back, and never
\* marks beyond what was delivered.
LEMMA FlushTypes ==
  ASSUME IInv, NEW b \in Batches, NEW last \in Offsets \cup {NoOffset}, NEW n \in Nat,
         FlushPre(b, last, n), FlushOrKeep(b, last), UNCHANGED <<log, base>>
  PROVE  /\ batch' \in Batches /\ db' \in Batches
         /\ lastMsg' \in Offsets \cup {NoOffset}
         /\ hw' \in [Keys -> Times \cup {NoTime}]
         /\ \A k \in Keys : hw'[k] >= hw[k]
         /\ marked' \in Offsets \cup {NoOffset}
         /\ marked <= marked' /\ marked' <= n
         /\ (Buffered(batch) # {})' => lastMsg' \in 0..(n - 1)
<1> USE DEF IInv
<1>1. \A k \in Keys : hw[k] \in Int
  BY DedupAssumption DEF TypeOK, Times, NoTime
<1>2. n <= MaxLog /\ marked \in Offsets \cup {NoOffset} /\ marked \in Int
  BY MaxLogAssumption DEF FlushPre, TypeOK, GroupTypeOK, Offsets, NoOffset
<1>3. CASE Keep(b, last)
  BY <1>1, <1>2, <1>3 DEF Keep, FlushPre, TypeOK, Buffered
<1>4. CASE FlushOk(b, last)
  <2>1. last \in 0..(n - 1) /\ last \in Nat
    BY <1>4 DEF FlushOk, FlushPre
  <2>2. marked' = MarkAfter(last) /\ marked <= marked' /\ marked' <= n /\ marked' >= last + 1
    BY <1>4, <2>1, MarkForward DEF FlushOk, FlushPre
  <2>3. marked' \in Offsets
    BY SMTT(30), <2>1, <2>2, <1>2, MarkForward, MaxLogAssumption DEF Offsets
  <2>4. batch' = EmptyBatch /\ lastMsg' = NoOffset /\ Upsert(b)
    BY <1>4 DEF FlushOk
  <2>5. batch' \in Batches /\ (Buffered(batch))' = {}
    BY <2>4 DEF EmptyBatch, Batches, Buffered
  <2> QED BY <2>2, <2>3, <2>4, <2>5, UpsertWrites
<1>5. CASE FlushError(b, last)
  <2>1. /\ db' \in Batches
        /\ hw' \in [Keys -> Times \cup {NoTime}]
        /\ \A k \in Keys : hw'[k] >= hw[k]
    <3>1. CASE Upsert(b)
      BY <3>1, UpsertWrites
    <3>2. CASE UNCHANGED <<db, hw>>
      BY <3>2, <1>1 DEF TypeOK
    <3> QED BY <1>5, <3>1, <3>2 DEF FlushError
  <2> QED BY <1>2, <1>5, <2>1 DEF FlushError, FlushPre, Buffered
<1> QED BY <1>3, <1>4, <1>5 DEF FlushOrKeep

\* flush keeps marked messages written and delivered messages held.
LEMMA FlushDelivery ==
  ASSUME IInv, TypeOK', NEW b \in Batches, NEW last \in Offsets \cup {NoOffset},
         NEW n \in Nat,
         FlushPre(b, last, n), FlushOrKeep(b, last), UNCHANGED <<log, base>>
  PROVE  /\ WrittenBefore(marked)'
         /\ HeldBefore(batch, n)'
<1> USE DEF IInv
<1>t. /\ \A k \in Keys : hw'[k] >= hw[k]
      /\ marked <= marked' /\ marked' <= n /\ marked \in Int /\ marked' \in Int
  BY FlushTypes DEF TypeOK, GroupTypeOK, Offsets, NoOffset
<1>0. LogKept /\ base \in Nat /\ Len(log) \in Nat
  BY DEF LogKept, TypeOK, GroupTypeOK, Offsets
<1>1. ASSUME NEW o \in base..(n - 1)
      PROVE  /\ o \in Nat /\ o < Len(log)
             /\ EntriesAt(o)' = EntriesAt(o)
             /\ MalformedBetween(o, marked) => MalformedBetween(o, marked)'
  <2>1. o \in Nat /\ o < Len(log)
    BY <1>0 DEF FlushPre
  <2>2. EntriesAt(o)' = EntriesAt(o)
    BY DEF EntriesAt
  <2>3. MalformedBetween(o, marked) => MalformedBetween(o, marked)'
    <3> SUFFICES ASSUME MalformedBetween(o, marked)
                 PROVE  \E p \in (o + 1)..(marked' - 1) : log'[p + 1] = Malformed
      BY DEF MalformedBetween
    <3>1. marked <= Len(log)
      BY <1>0, <1>t DEF FlushPre
    <3> QED BY <2>1, <3>1, <1>0, <1>t, ExcuseStable
  <2> QED BY <2>1, <2>2, <2>3
<1>2. ASSUME NEW o \in base..(n - 1), Written(o)
      PROVE  Written(o)'
  BY <1>0, <1>1, <1>2, <1>t, WrittenStable
<1>3. CASE FlushOk(b, last)
  <2>1. Upsert(b) /\ batch' = EmptyBatch
    BY <1>3 DEF FlushOk
  <2>2. ASSUME NEW o \in base..(n - 1), HeldBy(b, o)
        PROVE  Written(o)'
    <3>1. ASSUME NEW i \in DOMAIN EntriesAt(o)
          PROVE  hw'[EntriesAt(o)[i].key] >= EntriesAt(o)[i].ts
      <4> DEFINE e == EntriesAt(o)[i]
      <4>1. e.key \in Keys /\ e.ts \in Nat /\ hw[e.key] \in Int
        BY <1>1, ReportedEntry
      <4>2. hw'[e.key] \in Int
        BY <4>1, DedupAssumption DEF TypeOK, Times, NoTime
      <4>3. hw[e.key] >= e.ts \/ (b[e.key] # NoEntry /\ b[e.key].ts >= e.ts)
        BY <2>2 DEF HeldBy
      <4>4. /\ hw'[e.key] >= hw[e.key]
            /\ b[e.key] # NoEntry => hw'[e.key] >= b[e.key].ts /\ b[e.key].ts \in Nat
        BY <2>1, <4>1, UpsertWrites, BatchRow
      <4> HIDE DEF e
      <4>5. hw'[e.key] >= e.ts
        BY <4>1, <4>2, <4>3, <4>4
      <4> QED BY <4>5 DEF e
    <3> QED BY <3>1, <1>1 DEF Written
  <2>3. \A o \in base..(n - 1) : Written(o)' \/ MalformedBetween(o, marked)'
    BY <2>2, <1>1 DEF FlushPre, HeldBefore
  <2>4. \A o \in base..(n - 1) : Written(o)' => HeldBy(batch, o)'
    BY DEF Written, HeldBy
  <2>5. \A o \in base..(marked' - 1) : o \in base..(n - 1)
    <3>1. marked' \in Int /\ marked' <= n /\ base \in Int /\ n \in Int
      BY <1>0, <1>t
    <3> QED BY <3>1, IntervalWithin, Zenon
  <2>6. base' = base
    OBVIOUS
  <2>7. WrittenBefore(marked)'
    BY <2>3, <2>5, <2>6 DEF WrittenBefore
  <2>8. HeldBefore(batch, n)'
    BY <2>3, <2>4, <2>6 DEF HeldBefore
  <2> QED BY <2>7, <2>8
<1>4. CASE Keep(b, last) \/ FlushError(b, last)
  <2>1. batch' = b /\ marked' = marked
    BY <1>4 DEF Keep, FlushError
  <2>2. ASSUME NEW o \in base..(n - 1), HeldBy(b, o)
        PROVE  HeldBy(batch, o)'
    <3>1. ASSUME NEW i \in DOMAIN EntriesAt(o)
          PROVE  LET e == EntriesAt(o)[i] IN
                   \/ hw'[e.key] >= e.ts
                   \/ b[e.key] # NoEntry /\ b[e.key].ts >= e.ts
      <4> DEFINE e == EntriesAt(o)[i]
      <4>1. e.key \in Keys /\ e.ts \in Nat /\ hw[e.key] \in Int
        BY <1>1, ReportedEntry
      <4>2. hw'[e.key] \in Int
        BY <4>1, DedupAssumption DEF TypeOK, Times, NoTime
      <4>3. hw[e.key] >= e.ts \/ (b[e.key] # NoEntry /\ b[e.key].ts >= e.ts)
        BY <2>2 DEF HeldBy
      <4>4. hw'[e.key] >= hw[e.key]
        BY <4>1, <1>t
      <4> HIDE DEF e
      <4>5. hw'[e.key] >= e.ts \/ (b[e.key] # NoEntry /\ b[e.key].ts >= e.ts)
        BY <4>1, <4>2, <4>3, <4>4
      <4> QED BY <4>5 DEF e
    <3> QED BY <3>1, <2>1, <1>1 DEF HeldBy
  <2>3. HeldBefore(batch, n)'
    BY <2>2, <1>1 DEF FlushPre, HeldBefore
  <2>4. \A o \in base..(marked - 1) : o \in base..(n - 1)
    BY <1>0, <1>t
  <2>5. WrittenBefore(marked)'
    BY <2>1, <2>4, <1>1, <1>2 DEF FlushPre, WrittenBefore
  <2> QED BY <2>3, <2>5
<1> QED BY <1>3, <1>4 DEF FlushOrKeep

-----------------------------------------------------------------------------
(* Initial states and steps. *)

\* The invariant holds initially.
LEMMA InitIInv == Init => IInv
<1> SUFFICES ASSUME Init PROVE IInv
  OBVIOUS
<1> USE DEF Init, GroupInit
<1>1. TypeOK
  BY DedupAssumption, MaxLogAssumption
  DEF TypeOK, GroupTypeOK, Offsets, NoOffset, Batches, EmptyBatch, Times, NoTime
<1>2. OffsetsInv /\ MarksDeliveredMessage
  BY DEF OffsetsInv, MarksDeliveredMessage, NoOffset
<1>3. DeliveryInv
  BY DEF DeliveryInv, WrittenBefore, NoOffset
<1> QED BY <1>1, <1>2, <1>3 DEF IInv

\* The log, the line of commits and the table are kept, the session's memory
\* is kept: committed offsets stay as safe as they were.
LEMMA CommittedStable ==
  ASSUME IInv, TypeOK', LogKept, base' = base, committed' = committed,
         \A k \in Keys : hw'[k] >= hw[k]
  PROVE  WrittenBefore(committed)'
<1> USE DEF IInv
<1>1. /\ base \in Nat /\ committed \in Int /\ Len(log) \in Nat
      /\ committed <= Len(log)
  BY DEF TypeOK, GroupTypeOK, Offsets, NoOffset, OffsetsInv
<1>2. ASSUME NEW o \in base..(committed - 1)
      PROVE  Written(o)' \/ \E p \in (o + 1)..(committed - 1) : log'[p + 1] = Malformed
  <2>1. o \in Nat /\ o < Len(log)
    BY <1>1
  <2>2. Written(o) \/ MalformedBetween(o, committed)
    BY DEF DeliveryInv, WrittenBefore
  <2>3. CASE Written(o)
    BY <2>1, <2>3, WrittenStable
  <2>4. CASE MalformedBetween(o, committed)
    BY <1>1, <2>1, <2>4, ExcuseKept
  <2> QED BY <2>2, <2>3, <2>4
<1> QED BY <1>2 DEF WrittenBefore, MalformedBetween

\* A step that leaves the session's own state alone keeps what it holds.
LEMMA SessionStable ==
  ASSUME IInv, TypeOK', LogKept, proc' = "session", proc = "session",
         UNCHANGED <<base, marked, next, batch, hw>>
  PROVE  WrittenBefore(marked)' /\ HeldBefore(batch, next)'
<1> USE DEF IInv
<1>1. /\ base \in Nat /\ marked \in Int /\ next \in Nat /\ Len(log) \in Nat
      /\ marked <= next /\ next <= Len(log) /\ marked <= Len(log)
      /\ Len(log') \in Nat
  BY DEF TypeOK, GroupTypeOK, Offsets, NoOffset, OffsetsInv
<1>2. \A k \in Keys : hw'[k] >= hw[k]
  BY DedupAssumption DEF TypeOK, Times, NoTime
<1>3. ASSUME NEW o \in base..(next - 1)
      PROVE  /\ Written(o) => Written(o)'
             /\ HeldBy(batch, o) => HeldBy(batch, o)'
             /\ MalformedBetween(o, marked) => MalformedBetween(o, marked)'
  <2>1. o \in Nat /\ o < Len(log)
    BY <1>1
  <2>2. EntriesAt(o)' = EntriesAt(o)
    BY <1>1, <2>1, LogKeptFacts
  <2>3. ASSUME MalformedBetween(o, marked)
        PROVE  \E p \in (o + 1)..(marked' - 1) : log'[p + 1] = Malformed
    BY <1>1, <2>1, <2>3, ExcuseKept
  <2> QED BY <2>2, <2>3 DEF Written, HeldBy, MalformedBetween
<1>4. \A o \in base..(marked - 1) : o \in base..(next - 1)
  BY <1>1
<1> QED BY <1>3, <1>4 DEF DeliveryInv, WrittenBefore, HeldBefore

\* A message the claim delivers decodes to entries, or is malformed.
LEMMA TakenEntries ==
  ASSUME IInv, HasMessage, Taken # Malformed
  PROVE  Taken \in Seq(Entry) /\ EntriesAt(next) = Taken
<1>1. next \in Nat /\ next < Len(log) /\ log \in Seq(Messages)
  BY DEF IInv, HasMessage, TypeOK, GroupTypeOK, Offsets
<1>2. log[next + 1] \in Messages
  BY <1>1
<1> QED BY <1>1, <1>2, BatchAssumption DEF Taken, EntriesAt

\* Buffering the next message establishes what flush needs.
LEMMA ReceivePre ==
  ASSUME IInv, HasMessage, Taken # Malformed
  PROVE  /\ Absorb(batch, Taken) \in Batches
         /\ FlushPre(Absorb(batch, Taken), next, next + 1)
<1> DEFINE b == Absorb(batch, Taken)
<1> USE DEF IInv
<1>1. /\ next \in Nat /\ next + 1 <= Len(log) /\ marked \in Int /\ marked <= next
      /\ proc = "session" /\ base \in Nat /\ Len(log) \in Nat
  BY DEF HasMessage, OffsetsInv, TypeOK, GroupTypeOK, Offsets, NoOffset
<1>2. batch \in Batches /\ Taken \in Seq(Entry) /\ EntriesAt(next) = Taken
  BY TakenEntries DEF TypeOK
<1>3. /\ b \in Batches
      /\ \A k \in Keys : batch[k] # NoEntry =>
            b[k] # NoEntry /\ b[k].ts >= batch[k].ts
      /\ \A i \in DOMAIN Taken :
            b[Taken[i].key] # NoEntry /\ b[Taken[i].key].ts >= Taken[i].ts
  BY <1>2, AbsorbCovers
<1> HIDE DEF b
<1>4. ASSUME NEW o \in base..next
      PROVE  HeldBy(b, o) \/ MalformedBetween(o, marked)
  <2>1. CASE o = next
    BY <2>1, <1>2, <1>3 DEF HeldBy
  <2>2. CASE o # next
    <3>1. o \in base..(next - 1) /\ o \in Nat
      BY <1>1, <2>2
    <3>2. HeldBy(batch, o) \/ MalformedBetween(o, marked)
      BY <1>1, <3>1 DEF DeliveryInv, HeldBefore
    <3>3. ASSUME HeldBy(batch, o), NEW i \in DOMAIN EntriesAt(o)
          PROVE  LET e == EntriesAt(o)[i] IN
                   \/ hw[e.key] >= e.ts
                   \/ b[e.key] # NoEntry /\ b[e.key].ts >= e.ts
      <4> DEFINE e == EntriesAt(o)[i]
      <4>1. e.key \in Keys /\ e.ts \in Nat
        BY <3>1, ReportedEntry
      <4>2. hw[e.key] >= e.ts \/ (batch[e.key] # NoEntry /\ batch[e.key].ts >= e.ts)
        BY <3>3 DEF HeldBy
      <4>3. batch[e.key] # NoEntry =>
              /\ b[e.key] # NoEntry /\ b[e.key].ts >= batch[e.key].ts
              /\ b[e.key].ts \in Nat /\ batch[e.key].ts \in Nat
        BY <1>2, <1>3, <4>1, BatchRow
      <4> HIDE DEF e
      <4>4. hw[e.key] >= e.ts \/ (b[e.key] # NoEntry /\ b[e.key].ts >= e.ts)
        BY <4>1, <4>2, <4>3
      <4> QED BY <4>4 DEF e
    <3> QED BY <3>2, <3>3 DEF HeldBy
  <2> QED BY <2>1, <2>2
<1>5. HeldBefore(b, next + 1)
  BY <1>1, <1>4 DEF HeldBefore
<1>6. WrittenBefore(marked)
  BY <1>1 DEF DeliveryInv
<1>7. FlushPre(b, next, next + 1)
  BY <1>1, <1>5, <1>6 DEF FlushPre
<1> QED BY <1>3, <1>7 DEF b

\* Receiving a message that decodes keeps the invariant.
LEMMA ReceiveEntriesStep == IInv /\ ReceiveEntries => IInv'
<1> SUFFICES ASSUME IInv, ReceiveEntries PROVE IInv'
  OBVIOUS
<1> DEFINE b == Absorb(batch, Taken)
<1>0. HasMessage /\ Taken # Malformed /\ next' = next + 1
      /\ UNCHANGED <<log, proc, committed, base, now>>
  BY DEF ReceiveEntries
<1>1. b \in Batches /\ FlushPre(b, next, next + 1)
  BY <1>0, ReceivePre
<1>2. FlushOrKeep(b, next)
  BY DEF ReceiveEntries, Flush, FlushOrKeep, FlushNothing, Keep
<1>3. /\ next \in Nat /\ next \in Offsets /\ next + 1 \in Nat /\ next + 1 <= Len(log)
      /\ proc = "session" /\ Len(log) \in Nat /\ Len(log) <= MaxLog
  BY <1>0, MaxLogAssumption DEF IInv, HasMessage, OffsetsInv, TypeOK, GroupTypeOK, Offsets
<1> HIDE DEF b
<1>4. /\ batch' \in Batches /\ db' \in Batches
      /\ lastMsg' \in Offsets \cup {NoOffset}
      /\ hw' \in [Keys -> Times \cup {NoTime}]
      /\ \A k \in Keys : hw'[k] >= hw[k]
      /\ marked' \in Offsets \cup {NoOffset}
      /\ marked <= marked' /\ marked' <= next + 1
      /\ (Buffered(batch) # {})' => lastMsg' \in 0..(next + 1 - 1)
  BY <1>0, <1>1, <1>2, <1>3, FlushTypes
<1>5. TypeOK'
  BY <1>0, <1>3, <1>4, MaxLogAssumption DEF IInv, TypeOK, GroupTypeOK, Offsets
<1>6. OffsetsInv' /\ MarksDeliveredMessage'
  BY <1>0, <1>3, <1>4 DEF IInv, OffsetsInv, MarksDeliveredMessage
<1>7. WrittenBefore(marked)' /\ HeldBefore(batch, next)'
  <2>1. PICK n \in Nat : n = next + 1
    BY <1>3
  <2>2. WrittenBefore(marked)' /\ HeldBefore(batch, n)'
    BY <2>1, <1>0, <1>1, <1>2, <1>3, <1>5, FlushDelivery
  <2>3. n = next'
    BY <2>1, <1>0
  <2> QED BY <2>2, <2>3 DEF HeldBefore
<1>8. DeliveryInv'
  <2>1. WrittenBefore(committed)'
    BY <1>0, <1>4, <1>5, CommittedStable DEF LogKept
  <2> QED BY <2>1, <1>7, <1>0 DEF DeliveryInv
<1> QED BY <1>5, <1>6, <1>8 DEF IInv

\* Marking a malformed message keeps the invariant: it becomes the excuse of
\* everything that is still only in the batch.
LEMMA ReceiveMalformedStep == IInv /\ ReceiveMalformed => IInv'
<1> SUFFICES ASSUME IInv, ReceiveMalformed PROVE IInv'
  OBVIOUS
<1> USE DEF IInv
<1>0. /\ HasMessage /\ log[next + 1] = Malformed /\ next' = next + 1
      /\ marked' = MarkAfter(next)
      /\ UNCHANGED <<log, proc, committed, base, batch, lastMsg, db, now, hw>>
  BY DEF ReceiveMalformed, Taken
<1>1. /\ next \in Nat /\ next + 1 <= Len(log) /\ marked \in Int /\ marked <= next
      /\ proc = "session" /\ Len(log) \in Nat /\ Len(log) <= MaxLog /\ base \in Nat
  BY <1>0 DEF HasMessage, OffsetsInv, TypeOK, GroupTypeOK, Offsets, NoOffset
<1>2. marked' = next + 1
  BY <1>0, <1>1 DEF MarkAfter, MaxOf
<1>3. TypeOK'
  BY <1>0, <1>1, <1>2, MaxLogAssumption DEF TypeOK, GroupTypeOK, Offsets
<1>4. OffsetsInv' /\ MarksDeliveredMessage'
  BY <1>0, <1>1, <1>2 DEF OffsetsInv, MarksDeliveredMessage, Buffered
<1>5. WrittenBefore(committed)'
  <2>1. LogKept /\ \A k \in Keys : hw'[k] >= hw[k]
    BY <1>0, DedupAssumption DEF LogKept, TypeOK, Times, NoTime
  <2> QED BY <1>0, <1>3, <2>1, CommittedStable
<1>6. ASSUME NEW o \in base..next
      PROVE  Written(o)' \/ MalformedBetween(o, marked)'
  <2>1. CASE o = next
    <3>1. EntriesAt(o)' = <<>>
      BY <2>1, <1>0 DEF EntriesAt
    <3> QED BY <3>1 DEF Written
  <2>2. CASE o # next
    <3>1. next \in (o + 1)..(marked' - 1)
      BY <1>1, <1>2, <2>2
    <3>2. log'[next + 1] = Malformed
      BY <1>0
    <3> QED BY <3>1, <3>2 DEF MalformedBetween
  <2> QED BY <2>1, <2>2
<1>7. \A o \in Int : Written(o)' => HeldBy(batch, o)'
  BY DEF Written, HeldBy
<1>8. WrittenBefore(marked)' /\ HeldBefore(batch, next)'
  BY <1>0, <1>1, <1>2, <1>6, <1>7 DEF WrittenBefore, HeldBefore
<1>9. DeliveryInv'
  BY <1>5, <1>8 DEF DeliveryInv
<1> QED BY <1>3, <1>4, <1>9

\* The timer's flush keeps the invariant.
LEMMA TimerFlushStep == IInv /\ TimerFlush => IInv'
<1> SUFFICES ASSUME IInv, TimerFlush PROVE IInv'
  OBVIOUS
<1>0. proc = "session" /\ UNCHANGED <<log, proc, next, committed, base, now>>
  BY DEF TimerFlush
<1>1. /\ batch \in Batches /\ lastMsg \in Offsets \cup {NoOffset} /\ next \in Nat
      /\ FlushPre(batch, lastMsg, next)
  BY <1>0 DEF IInv, TypeOK, GroupTypeOK, Offsets, OffsetsInv, MarksDeliveredMessage,
              DeliveryInv, FlushPre
<1>2. FlushOrKeep(batch, lastMsg)
  BY DEF TimerFlush, Flush, FlushOrKeep, FlushNothing, Keep
<1>3. /\ batch' \in Batches /\ db' \in Batches
      /\ lastMsg' \in Offsets \cup {NoOffset}
      /\ hw' \in [Keys -> Times \cup {NoTime}]
      /\ \A k \in Keys : hw'[k] >= hw[k]
      /\ marked' \in Offsets \cup {NoOffset}
      /\ marked' <= next
      /\ (Buffered(batch) # {})' => lastMsg' \in 0..(next - 1)
  BY <1>0, <1>1, <1>2, FlushTypes
<1>4. TypeOK'
  BY <1>0, <1>3 DEF IInv, TypeOK, GroupTypeOK
<1>5. OffsetsInv' /\ MarksDeliveredMessage'
  BY <1>0, <1>3 DEF IInv, OffsetsInv, MarksDeliveredMessage
<1>6. WrittenBefore(marked)' /\ HeldBefore(batch, next)'
  <2>1. PICK n \in Nat : n = next
    BY <1>1
  <2>2. WrittenBefore(marked)' /\ HeldBefore(batch, n)'
    BY <2>1, <1>0, <1>1, <1>2, <1>4, FlushDelivery
  <2>3. n = next'
    BY <2>1, <1>0
  <2> QED BY <2>2, <2>3 DEF HeldBefore
<1>7. WrittenBefore(committed)'
  BY <1>0, <1>3, <1>4, CommittedStable DEF LogKept
<1> QED BY <1>4, <1>5, <1>6, <1>7 DEF IInv, DeliveryInv

\* The last flush of a session and its commit keep the invariant.
LEMMA CloseClaimStep == IInv /\ CloseClaim => IInv'
<1> SUFFICES ASSUME IInv, CloseClaim PROVE IInv'
  OBVIOUS
<1>0. /\ proc = "session" /\ proc' = "idle" /\ committed' \in {committed, marked'}
      /\ UNCHANGED <<log, next, base, now>>
  BY DEF CloseClaim, LeaveSession
<1>1. /\ batch \in Batches /\ lastMsg \in Offsets \cup {NoOffset} /\ next \in Nat
      /\ FlushPre(batch, lastMsg, next) /\ next <= Len(log) /\ Len(log) \in Nat
  BY <1>0 DEF IInv, TypeOK, GroupTypeOK, Offsets, OffsetsInv, MarksDeliveredMessage,
              DeliveryInv, FlushPre
<1>2. FlushOrKeep(batch, lastMsg)
  BY DEF CloseClaim, Flush, FlushOrKeep, FlushNothing, Keep
<1>3. /\ batch' \in Batches /\ db' \in Batches
      /\ lastMsg' \in Offsets \cup {NoOffset}
      /\ hw' \in [Keys -> Times \cup {NoTime}]
      /\ \A k \in Keys : hw'[k] >= hw[k]
      /\ marked' \in Offsets \cup {NoOffset}
      /\ marked' <= next
  BY <1>0, <1>1, <1>2, FlushTypes
<1>4. TypeOK'
  BY <1>0, <1>3 DEF IInv, TypeOK, GroupTypeOK
<1>5. OffsetsInv' /\ MarksDeliveredMessage'
  <2>1. marked' \in Int
    BY <1>3 DEF Offsets, NoOffset
  <2> QED BY <2>1, <1>0, <1>1, <1>3 DEF IInv, OffsetsInv, MarksDeliveredMessage
<1>6. WrittenBefore(committed)'
  <2>1. CASE committed' = committed
    BY <2>1, <1>0, <1>3, <1>4, CommittedStable DEF LogKept
  <2>2. CASE committed' = marked'
    <3>1. WrittenBefore(marked)'
      BY <1>0, <1>1, <1>2, <1>4, FlushDelivery
    <3> QED BY <2>2, <3>1 DEF WrittenBefore
  <2> QED BY <1>0, <2>1, <2>2
<1> QED BY <1>0, <1>4, <1>5, <1>6 DEF IInv, DeliveryInv

\* A new session starts with an empty batch at the committed offset.
LEMMA JoinStep == IInv /\ Join => IInv'
<1> SUFFICES ASSUME IInv, Join PROVE IInv'
  OBVIOUS
<1> USE DEF IInv
<1>0. /\ proc' = "session" /\ marked' = committed /\ batch' = EmptyBatch
      /\ lastMsg' = NoOffset /\ UNCHANGED <<log, committed, db, now, hw>>
      /\ next' = IF committed = NoOffset THEN Len(log) ELSE committed
      /\ base' = IF committed = NoOffset THEN Len(log) ELSE base
  BY DEF Join, JoinSession
<1>1. /\ Len(log) \in Nat /\ Len(log) <= MaxLog /\ committed \in Int
      /\ committed \in Offsets \cup {NoOffset} /\ committed <= Len(log)
      /\ base \in Offsets
  BY DEF TypeOK, GroupTypeOK, Offsets, NoOffset, OffsetsInv
<1>2. next' \in Offsets /\ base' \in Offsets /\ marked' <= next' /\ next' <= Len(log)
      /\ base' <= Len(log)
  BY <1>0, <1>1, MaxLogAssumption DEF Offsets, NoOffset, OffsetsInv
<1>3. TypeOK'
  BY <1>0, <1>1, <1>2 DEF TypeOK, GroupTypeOK, Batches, EmptyBatch
<1>4. (Buffered(batch))' = {}
  BY <1>0 DEF Buffered, EmptyBatch
<1>5. OffsetsInv' /\ MarksDeliveredMessage'
  BY <1>0, <1>1, <1>2, <1>4 DEF OffsetsInv, MarksDeliveredMessage
<1>6. \A o \in Int : Written(o)' => HeldBy(batch, o)'
  BY DEF Written, HeldBy
<1>7. CASE committed = NoOffset
  <2>1. base'..(committed' - 1) = {} /\ base'..(next' - 1) = {} /\ base'..(marked' - 1) = {}
    BY <1>0, <1>1, <1>7 DEF NoOffset
  <2> QED BY <2>1, <1>3, <1>5 DEF DeliveryInv, WrittenBefore, HeldBefore
<1>8. CASE committed # NoOffset
  <2>1. base' = base /\ next' = committed /\ marked' = committed
    BY <1>0, <1>8
  <2>2. WrittenBefore(committed)'
    BY <1>0, <2>1 DEF DeliveryInv, WrittenBefore, Written, EntriesAt, MalformedBetween
  <2>3. WrittenBefore(marked)' /\ HeldBefore(batch, next)'
    BY <1>0, <1>1, <1>2, <1>6, <2>1, <2>2 DEF WrittenBefore, HeldBefore, Offsets
  <2> QED BY <2>2, <2>3, <1>3, <1>5 DEF DeliveryInv
<1> QED BY <1>7, <1>8

\* Steps that leave the log or the session: publishing, starting, committing,
\* exiting and dying.
LEMMA GroupStepStep == IInv /\ (GroupStep \/ Die) => IInv'
<1> SUFFICES ASSUME IInv, GroupStep \/ Die PROVE IInv'
  OBVIOUS
<1> USE DEF IInv
<1>0. /\ Len(log) \in Nat /\ Len(log) <= MaxLog /\ base \in Nat /\ log \in Seq(Messages)
      /\ UNCHANGED <<db, now, hw, base>>
      /\ \A k \in Keys : hw'[k] >= hw[k]
  BY DedupAssumption
  DEF TypeOK, GroupTypeOK, Times, NoTime, GroupStep, Die, Publish, StartProcess,
      AutoCommit, ExitProcess, Crash, Offsets
<1>1. ASSUME NEW m \in Messages, Publish(m), UNCHANGED <<batch, lastMsg>>
      PROVE  IInv'
  <2>1. /\ log' = Append(log, m) /\ Len(log) < MaxLog
        /\ UNCHANGED <<proc, next, marked, committed>>
    BY <1>1 DEF Publish
  <2>2. log' \in Seq(Messages) /\ Len(log') = Len(log) + 1 /\ LogKept
    BY <1>0, <2>1 DEF LogKept
  <2>3. TypeOK'
    BY <1>0, <1>1, <2>1, <2>2, MaxLogAssumption DEF TypeOK, GroupTypeOK
  <2>4. OffsetsInv' /\ MarksDeliveredMessage'
    BY <1>0, <1>1, <2>1, <2>2
    DEF OffsetsInv, MarksDeliveredMessage, Buffered, TypeOK, GroupTypeOK, Offsets, NoOffset
  <2>5. WrittenBefore(committed)'
    BY <1>0, <2>1, <2>2, <2>3, CommittedStable
  <2>6. proc = "session" => WrittenBefore(marked)' /\ HeldBefore(batch, next)'
    BY <1>0, <1>1, <2>1, <2>2, <2>3, SessionStable
  <2> QED BY <2>1, <2>3, <2>4, <2>5, <2>6 DEF DeliveryInv
<1>2. CASE AutoCommit /\ UNCHANGED <<batch, lastMsg>>
  <2>1. proc = "session" /\ committed' = marked /\ UNCHANGED <<log, proc, next, marked>>
    BY <1>2 DEF AutoCommit
  <2>2. TypeOK' /\ LogKept
    BY <1>0, <1>2, <2>1 DEF TypeOK, GroupTypeOK, LogKept
  <2>3. OffsetsInv' /\ MarksDeliveredMessage'
    BY <1>0, <1>2, <2>1
    DEF OffsetsInv, MarksDeliveredMessage, Buffered, TypeOK, GroupTypeOK, Offsets, NoOffset
  <2>4. WrittenBefore(marked)' /\ HeldBefore(batch, next)'
    BY <1>0, <1>2, <2>1, <2>2, SessionStable
  <2>5. WrittenBefore(committed)'
    BY <2>1, <2>4 DEF WrittenBefore
  <2> QED BY <2>2, <2>3, <2>4, <2>5 DEF DeliveryInv
<1>3. CASE ((StartProcess \/ ExitProcess) /\ UNCHANGED <<batch, lastMsg>>) \/ Die
  <2>1. /\ proc' # "session" /\ proc' \in {"down", "idle"}
        /\ UNCHANGED <<log, committed>>
        /\ next' \in {next, 0} /\ marked' \in {marked, NoOffset}
        /\ batch' \in {batch, EmptyBatch} /\ lastMsg' \in {lastMsg, NoOffset}
    BY <1>3 DEF StartProcess, ExitProcess, Die, Crash
  <2>2. TypeOK' /\ LogKept
    BY <1>0, <2>1, MaxLogAssumption
    DEF TypeOK, GroupTypeOK, LogKept, Batches, EmptyBatch, Offsets
  <2>3. OffsetsInv' /\ MarksDeliveredMessage'
    BY <1>0, <2>1 DEF OffsetsInv, MarksDeliveredMessage
  <2>4. WrittenBefore(committed)'
    BY <1>0, <2>1, <2>2, CommittedStable
  <2> QED BY <2>1, <2>2, <2>3, <2>4 DEF DeliveryInv
<1> QED BY <1>1, <1>2, <1>3 DEF GroupStep

\* Clean-up deletes rows but not the history of what was written.
LEMMA CleanupTickStep == IInv /\ (Cleanup \/ Tick \/ UNCHANGED vars) => IInv'
<1> SUFFICES ASSUME IInv, Cleanup \/ Tick \/ UNCHANGED vars PROVE IInv'
  OBVIOUS
<1> USE DEF IInv
<1>1. UNCHANGED <<log, proc, next, marked, committed, base, batch, lastMsg, hw>>
  BY DEF Cleanup, Tick, vars, groupVars
<1>2. now' \in Times
  BY DedupAssumption DEF Cleanup, Tick, vars, TypeOK, Times
<1>3. db' \in Batches
  BY DEF Cleanup, Tick, vars, TypeOK, Batches
<1>4. TypeOK'
  BY <1>1, <1>2, <1>3 DEF TypeOK, GroupTypeOK
<1>5. OffsetsInv' /\ MarksDeliveredMessage'
  BY <1>1 DEF OffsetsInv, MarksDeliveredMessage, Buffered
<1>7. \A o : HeldBy(batch, o) => HeldBy(batch, o)'
  BY <1>1 DEF HeldBy, EntriesAt
<1>8. HeldBefore(batch, next) => HeldBefore(batch, next)'
  BY <1>1, <1>7 DEF HeldBefore, MalformedBetween
<1>9. /\ WrittenBefore(committed) => WrittenBefore(committed)'
      /\ WrittenBefore(marked) => WrittenBefore(marked)'
  BY <1>1 DEF WrittenBefore, Written, MalformedBetween, EntriesAt
<1>10. DeliveryInv'
  BY <1>1, <1>8, <1>9 DEF DeliveryInv
<1> QED BY <1>4, <1>5, <1>10

-----------------------------------------------------------------------------
(* The theorems. *)

\* The inductive invariant of the batch consumer.
THEOREM Invariance == Spec => []IInv
<1>1. IInv /\ [Next]_vars => IInv'
  BY ReceiveMalformedStep, ReceiveEntriesStep, TimerFlushStep, CloseClaimStep,
     JoinStep, GroupStepStep, CleanupTickStep DEF Next
<1> QED BY InitIInv, <1>1, PTL DEF Spec

\* Every variable of the consumer, the partition and the table keeps its type;
\* in particular no mark or commit goes past the end of the log.
THEOREM TypeCorrectness == Spec => []TypeOK
<1>1. IInv => TypeOK
  BY DEF IInv
<1> QED BY Invariance, <1>1, PTL

\* The consumer never commits past an entry that is not written, except behind
\* a malformed message, whatever the batch size, the interleaving of flush
\* errors, commits and crashes, and the content of the topic.
THEOREM AtLeastOnce == Spec => []LossOnlyBehindMalformed
<1>1. IInv => LossOnlyBehindMalformed
  BY DEF IInv, DeliveryInv, WrittenBefore, LossOnlyBehindMalformed
<1> QED BY Invariance, <1>1, PTL

\* flush always has a delivered message to mark.
THEOREM MarkIsDelivered == Spec => []MarksDeliveredMessage
<1>1. IInv => MarksDeliveredMessage
  BY DEF IInv
<1> QED BY Invariance, <1>1, PTL

-----------------------------------------------------------------------------
(* Replay. *)

\* The message at offset o reports key k with timestamp ts.
Reports(o, k, ts) ==
  \E i \in DOMAIN EntriesAt(o) : EntriesAt(o)[i].key = k /\ EntriesAt(o)[i].ts = ts

\* The newest that was ever written for a key stands in the first end messages.
WrittenFrom(end) ==
  \A k \in Keys : hw[k] # NoTime => \E o \in 0..(end - 1) : Reports(o, k, hw[k])

\* So does what the map b holds.
HeldFrom(b, end) ==
  \A k \in Keys : b[k] # NoEntry => \E o \in 0..(end - 1) : Reports(o, k, b[k].ts)

\* The newest that was ever written for k will be read again from offset start.
Again(k, start) == \E o \in start..(Len(log) - 1) : Reports(o, k, hw[k])

\* Redelivery has pushed the row of k back.
Stale(k) == db[k] # NoEntry /\ db[k].ts < hw[k]

Orderly == LogInOrder /\ NothingMalformed

\* Every row and every buffered entry comes from the topic.
OriginInv ==
  /\ WrittenFrom(Len(log))
  /\ \A k \in Keys : db[k] # NoEntry => db[k].ts <= hw[k]
  /\ proc = "session" => HeldFrom(batch, next) /\ committed <= marked

\* What a session that holds b and has taken n messages still owes: only a
\* session that began at a committed offset holds old entries, and what is
\* newer than a row or a held entry is held or comes again.
Owes(b, n) ==
  /\ committed = NoOffset => WrittenFrom(n)
  /\ \A k \in Keys : b[k] # NoEntry /\ b[k].ts < hw[k] =>
       committed # NoOffset /\ Again(k, n)
  /\ \A k \in Keys : Stale(k) => Again(k, n) \/ (b[k] # NoEntry /\ b[k].ts >= hw[k])

\* A row that was pushed back is healed by what is read again from the
\* committed offset, and by what is read again from the mark.
HealInv ==
  /\ \A k \in Keys : Stale(k) => committed # NoOffset /\ Again(k, committed)
  /\ proc = "session" =>
       /\ \A k \in Keys : Stale(k) => Again(k, marked)
       /\ Owes(batch, next)

ReplayInv == OriginInv /\ (Orderly => HealInv)

\* Numbers.
LEMMA ReplayTypes ==
  ASSUME TypeOK
  PROVE  /\ \A k \in Keys : hw[k] \in Int /\ (hw[k] = NoTime \/ hw[k] >= 0)
         /\ \A k \in Keys : db[k] # NoEntry => db[k].ts \in Int /\ db[k].ts >= 0
         /\ \A k \in Keys : batch[k] # NoEntry => batch[k].ts \in Int /\ batch[k].ts >= 0
         /\ Len(log) \in Nat /\ next \in Nat /\ committed \in Int /\ marked \in Int
         /\ (committed # NoOffset => committed >= 0)
<1>1. hw \in [Keys -> Times \cup {NoTime}] /\ db \in Batches /\ batch \in Batches
  BY DEF TypeOK
<1>2. \A k \in Keys : hw[k] \in Times \cup {NoTime}
  BY <1>1
<1>3. \A k \in Keys : hw[k] \in Int /\ (hw[k] = NoTime \/ hw[k] >= 0)
  BY <1>2, DedupAssumption DEF Times, NoTime
<1>4. \A k \in Keys : db[k] # NoEntry => db[k].ts \in Nat
  BY <1>1, BatchRow
<1>5. \A k \in Keys : batch[k] # NoEntry => batch[k].ts \in Nat
  BY <1>1, BatchRow
<1>6. /\ Len(log) \in Nat /\ next \in Nat /\ committed \in Int /\ marked \in Int
      /\ (committed # NoOffset => committed >= 0)
  BY DEF TypeOK, GroupTypeOK, Offsets, NoOffset
<1> QED BY <1>3, <1>4, <1>5, <1>6

\* What comes again after a later offset comes again after an earlier one.
LEMMA AgainFromEarlier ==
  ASSUME NEW k, NEW s \in Int, NEW t \in Int, s <= t, Len(log) \in Nat, Again(k, t)
  PROVE  Again(k, s)
BY DEF Again

\* Buffering takes entries from the message only.
LEMMA AbsorbFrom ==
  ASSUME NEW b \in Batches, NEW es \in Seq(Entry), NEW k \in Keys
  PROVE  \/ Absorb(b, es)[k] = b[k]
         \/ \E i \in DOMAIN es : es[i].key = k /\ Absorb(b, es)[k] = es[i]
<1>1. CASE /\ IndicesOf(es, k) # {}
           /\ Replaces(es[FirstNewest(es, k)], b[k])
  <2>1. FirstNewest(es, k) \in IndicesOf(es, k)
    BY <1>1, FirstNewestExists
  <2>2. Absorb(b, es)[k] = es[FirstNewest(es, k)]
    BY <1>1 DEF Absorb
  <2> QED BY <2>1, <2>2 DEF IndicesOf
<1>2. CASE ~ (/\ IndicesOf(es, k) # {}
              /\ Replaces(es[FirstNewest(es, k)], b[k]))
  BY <1>2 DEF Absorb
<1> QED BY <1>1, <1>2

\* In an ordered topic an entry that is older than what was written of its key
\* stands before it.
LEMMA OlderStandsBefore ==
  ASSUME TypeOK, LogInOrder, NEW o \in Nat, NEW p \in Nat, o < Len(log), p < Len(log),
         NEW k \in Keys, NEW s, NEW t, Reports(o, k, s), Reports(p, k, t), t < s
  PROVE  p <= o
<1>1. PICK i \in DOMAIN EntriesAt(o) : EntriesAt(o)[i].key = k /\ EntriesAt(o)[i].ts = s
  BY DEF Reports
<1>2. PICK j \in DOMAIN EntriesAt(p) : EntriesAt(p)[j].key = k /\ EntriesAt(p)[j].ts = t
  BY DEF Reports
<1>3. s \in Nat /\ t \in Nat
  BY <1>1, <1>2, ReportedEntry
<1>4. Len(log) \in Nat
  BY ReplayTypes
<1> SUFFICES ASSUME o < p PROVE FALSE
  OBVIOUS
<1>5. o \in 0..(Len(log) - 1) /\ p \in 0..(Len(log) - 1)
  BY <1>4
<1>6. EntriesAt(o)[i].ts <= EntriesAt(p)[j].ts
  BY <1>1, <1>2, <1>5 DEF LogInOrder
<1> QED BY <1>1, <1>2, <1>3, <1>6

\* Buffering the next message pays what it can, and owes nothing new.
LEMMA AbsorbOwes ==
  ASSUME IInv, HasMessage, Taken # Malformed, HeldFrom(batch, next)
  PROVE  /\ HeldFrom(Absorb(batch, Taken), next + 1)
         /\ LogInOrder /\ WrittenFrom(Len(log)) /\ Owes(batch, next) =>
              Owes(Absorb(batch, Taken), next + 1)
<1> DEFINE b == Absorb(batch, Taken)
<1>1. TypeOK /\ batch \in Batches /\ Taken \in Seq(Entry) /\ EntriesAt(next) = Taken
  BY TakenEntries DEF IInv, TypeOK
<1>2. next \in Nat /\ Len(log) \in Nat /\ next < Len(log)
  BY <1>1, ReplayTypes DEF HasMessage
<1>3. /\ b \in Batches
      /\ \A k \in Keys : batch[k] # NoEntry => b[k] # NoEntry /\ b[k].ts >= batch[k].ts
      /\ \A i \in DOMAIN Taken :
           b[Taken[i].key] # NoEntry /\ b[Taken[i].key].ts >= Taken[i].ts
  BY <1>1, AbsorbCovers
<1>4. \A k \in Keys : b[k] = batch[k] \/ \E i \in DOMAIN Taken : Taken[i].key = k /\ b[k] = Taken[i]
  BY <1>1, AbsorbFrom
<1>5. \A k \in Keys : \A s : Reports(next, k, s) => b[k] # NoEntry /\ b[k].ts >= s
  BY <1>1, <1>3 DEF Reports
<1> HIDE DEF b
<1>6. HeldFrom(b, next + 1)
  <2> SUFFICES ASSUME NEW k \in Keys, b[k] # NoEntry
               PROVE  \E o \in 0..next : Reports(o, k, b[k].ts)
    BY <1>2 DEF HeldFrom
  <2>1. CASE b[k] = batch[k]
    <3>1. PICK o \in 0..(next - 1) : Reports(o, k, batch[k].ts)
      BY <2>1 DEF HeldFrom
    <3> QED BY <1>2, <2>1, <3>1
  <2>2. CASE \E i \in DOMAIN Taken : Taken[i].key = k /\ b[k] = Taken[i]
    <3>1. Reports(next, k, b[k].ts)
      BY <1>1, <2>2 DEF Reports
    <3> QED BY <1>2, <3>1
  <2> QED BY <1>4, <2>1, <2>2
<1>7. ASSUME LogInOrder, WrittenFrom(Len(log)), Owes(batch, next)
      PROVE  Owes(b, next + 1)
  <2>1. committed = NoOffset => WrittenFrom(next + 1)
    <3> SUFFICES ASSUME WrittenFrom(next) PROVE WrittenFrom(next + 1)
      BY <1>7 DEF Owes
    <3>1. \A o \in 0..(next - 1) : o \in 0..((next + 1) - 1)
      BY <1>2
    <3> QED BY <3>1 DEF WrittenFrom
  <2>2. ASSUME NEW k \in Keys, Again(k, next)
        PROVE  Again(k, next + 1) \/ (b[k] # NoEntry /\ b[k].ts >= hw[k])
    <3>1. PICK o \in next..(Len(log) - 1) : Reports(o, k, hw[k])
      BY <2>2 DEF Again
    <3>2. CASE o = next
      BY <1>5, <3>1, <3>2
    <3>3. CASE o # next
      <4>1. o \in (next + 1)..(Len(log) - 1)
        BY <1>2, <3>3
      <4> QED BY <3>1, <4>1 DEF Again
    <3> QED BY <3>2, <3>3
  <2>3. ASSUME NEW k \in Keys, b[k] # NoEntry, b[k].ts < hw[k]
        PROVE  committed # NoOffset /\ Again(k, next + 1)
    <3>0. b[k].ts \in Nat /\ hw[k] \in Int
      BY <1>1, <1>3, <2>3, BatchRow, ReplayTypes
    <3>1. CASE b[k] = batch[k]
      <4>1. committed # NoOffset /\ Again(k, next)
        BY <1>7, <2>3, <3>1 DEF Owes
      <4> QED BY <2>2, <2>3, <3>0, <4>1
    <3>2. CASE \E i \in DOMAIN Taken : Taken[i].key = k /\ b[k] = Taken[i]
      <4>1. Reports(next, k, b[k].ts)
        BY <1>1, <3>2 DEF Reports
      <4>2. hw[k] # NoTime
        BY <2>3, <3>0 DEF NoTime
      <4>3. ASSUME NEW o \in 0..(Len(log) - 1), Reports(o, k, hw[k])
            PROVE  o \in (next + 1)..(Len(log) - 1)
        <5>1. o \in Nat /\ o < Len(log)
          BY <1>2
        <5>2. next <= o
          BY <1>1, <1>2, <1>7, <2>3, <4>1, <4>3, <5>1, OlderStandsBefore
        <5>3. o # next
          <6> SUFFICES ASSUME o = next PROVE FALSE
            OBVIOUS
          <6>1. b[k].ts >= hw[k]
            BY <1>5, <4>3
          <6> QED BY <2>3, <3>0, <6>1
        <5> QED BY <1>2, <5>1, <5>2, <5>3
      <4>4. Again(k, next + 1)
        <5>1. PICK o \in 0..(Len(log) - 1) : Reports(o, k, hw[k])
          BY <1>7, <4>2 DEF WrittenFrom
        <5> QED BY <4>3, <5>1 DEF Again
      <4>5. committed # NoOffset
        <5> SUFFICES ASSUME committed = NoOffset PROVE FALSE
          OBVIOUS
        <5>1. PICK o \in 0..(next - 1) : Reports(o, k, hw[k])
          BY <1>7, <4>2 DEF WrittenFrom, Owes
        <5>2. o \in 0..(Len(log) - 1)
          BY <1>2
        <5>3. o \in (next + 1)..(Len(log) - 1)
          BY <4>3, <5>1, <5>2
        <5> QED BY <1>2, <5>1, <5>3
      <4> QED BY <4>4, <4>5
    <3> QED BY <1>4, <3>1, <3>2
  <2>4. ASSUME NEW k \in Keys, Stale(k)
        PROVE  Again(k, next + 1) \/ (b[k] # NoEntry /\ b[k].ts >= hw[k])
    <3>1. CASE Again(k, next)
      BY <2>2, <3>1
    <3>2. CASE batch[k] # NoEntry /\ batch[k].ts >= hw[k]
      <4>1. b[k] # NoEntry /\ b[k].ts >= batch[k].ts
        BY <1>3, <3>2
      <4>2. b[k].ts \in Int /\ batch[k].ts \in Int /\ hw[k] \in Int
        BY <1>1, <1>3, <3>2, <4>1, BatchRow, ReplayTypes
      <4> QED BY <3>2, <4>1, <4>2
    <3> QED BY <1>7, <2>4, <3>1, <3>2 DEF Owes
  <2> QED BY <2>1, <2>3, <2>4 DEF Owes
<1> QED BY <1>6, <1>7 DEF b

\* What upserting b does to one row and its history.
LEMMA UpsertRow ==
  ASSUME TypeOK, NEW b \in Batches, Upsert(b), NEW k \in Keys
  PROVE  /\ b[k] = NoEntry => db'[k] = db[k] /\ hw'[k] = hw[k]
         /\ b[k] # NoEntry =>
              /\ db'[k] = b[k]
              /\ b[k].ts < hw[k] => hw'[k] = hw[k]
              /\ ~ (b[k].ts < hw[k]) => hw'[k] = b[k].ts
<1>1. CASE b[k] = NoEntry
  BY <1>1 DEF Upsert
<1>2. CASE b[k] # NoEntry
  <2>1. db'[k] = b[k] /\ hw'[k] = MaxOf(hw[k], b[k].ts)
    BY <1>2 DEF Upsert
  <2>2. hw[k] \in Int /\ b[k].ts \in Int
    BY <1>2, ReplayTypes, BatchRow
  <2> QED BY <1>2, <2>1, <2>2 DEF MaxOf
<1> QED BY <1>1, <1>2

\* flush writes b, or nothing.
LEMMA FlushWrites ==
  ASSUME NEW b, NEW last, FlushOrKeep(b, last)
  PROVE  /\ Upsert(b) \/ UNCHANGED <<db, hw>>
         /\ \/ batch' = b /\ marked' = marked
            \/ batch' = EmptyBatch /\ Upsert(b)
BY DEF FlushOrKeep, FlushOk, FlushError, Keep

\* Where rows, history and buffered entries come from, across a flush.
LEMMA FlushOrigin ==
  ASSUME TypeOK, TypeOK', NEW b \in Batches, NEW last, NEW n \in Nat, n <= Len(log),
         FlushOrKeep(b, last), UNCHANGED log,
         WrittenFrom(Len(log)), HeldFrom(b, n),
         \A k \in Keys : db[k] # NoEntry => db[k].ts <= hw[k]
  PROVE  /\ WrittenFrom(Len(log))' /\ HeldFrom(batch, n)'
         /\ WrittenFrom(n) => WrittenFrom(n)'
         /\ \A k \in Keys : db'[k] # NoEntry => db'[k].ts <= hw'[k]
<1>1. \A o, k, s : Reports(o, k, s)' <=> Reports(o, k, s)
  BY DEF Reports, EntriesAt
<1>2. Len(log) \in Nat
  BY ReplayTypes
<1>3. ASSUME NEW k \in Keys
      PROVE  \/ hw'[k] = hw[k]
             \/ b[k] # NoEntry /\ hw'[k] = b[k].ts
  BY FlushWrites, UpsertRow
<1>4. ASSUME NEW k \in Keys, hw'[k] # NoTime, NEW m \in Int, n <= m,
             hw[k] # NoTime => \E o \in 0..(m - 1) : Reports(o, k, hw[k])
      PROVE  \E o \in 0..(m - 1) : Reports(o, k, hw[k])'
  <2>1. CASE hw'[k] = hw[k]
    BY <1>1, <1>4, <2>1
  <2>2. CASE b[k] # NoEntry /\ hw'[k] = b[k].ts
    <3>1. PICK o \in 0..(n - 1) : Reports(o, k, b[k].ts)
      BY <2>2 DEF HeldFrom
    <3>2. o \in 0..(m - 1)
      BY <1>4
    <3> QED BY <1>1, <2>2, <3>1, <3>2
  <2> QED BY <1>3, <2>1, <2>2
<1>5. WrittenFrom(Len(log))'
  <2> SUFFICES ASSUME NEW k \in Keys, hw'[k] # NoTime
               PROVE  \E o \in 0..(Len(log) - 1) : Reports(o, k, hw[k])'
    BY <1>1 DEF WrittenFrom
  <2>1. hw[k] # NoTime => \E o \in 0..(Len(log) - 1) : Reports(o, k, hw[k])
    BY DEF WrittenFrom
  <2>2. PICK m \in Int : m = Len(log) /\ n <= m
    BY <1>2
  <2>3. hw[k] # NoTime => \E o \in 0..(m - 1) : Reports(o, k, hw[k])
    BY <2>1, <2>2
  <2>4. \E o \in 0..(m - 1) : Reports(o, k, hw[k])'
    BY <1>4, <2>2, <2>3
  <2> QED BY <2>2, <2>4
<1>6. ASSUME WrittenFrom(n) PROVE WrittenFrom(n)'
  <2> SUFFICES ASSUME NEW k \in Keys, hw'[k] # NoTime
               PROVE  \E o \in 0..(n - 1) : Reports(o, k, hw[k])'
    BY <1>1 DEF WrittenFrom
  <2>1. hw[k] # NoTime => \E o \in 0..(n - 1) : Reports(o, k, hw[k])
    BY <1>6 DEF WrittenFrom
  <2> QED BY <1>4, <2>1
<1>7. HeldFrom(batch, n)'
  <2>1. CASE batch' = b
    BY <1>1, <2>1 DEF HeldFrom
  <2>2. CASE batch' = EmptyBatch
    BY <2>2 DEF HeldFrom, EmptyBatch
  <2> QED BY <2>1, <2>2, FlushWrites
<1>8. ASSUME NEW k \in Keys, db'[k] # NoEntry
      PROVE  db'[k].ts <= hw'[k]
  <2>1. hw[k] \in Int /\ (b[k] # NoEntry => b[k].ts \in Int)
    BY ReplayTypes, BatchRow
  <2>2. CASE UNCHANGED <<db, hw>>
    BY <1>8, <2>2
  <2>3. CASE Upsert(b)
    <3>1. CASE b[k] = NoEntry
      BY <1>8, <2>3, <3>1, UpsertRow
    <3>2. CASE b[k] # NoEntry
      <4>1. db'[k] = b[k] /\ (b[k].ts < hw[k] => hw'[k] = hw[k])
            /\ (~ (b[k].ts < hw[k]) => hw'[k] = b[k].ts)
        BY <2>3, <3>2, UpsertRow
      <4> QED BY <2>1, <3>2, <4>1
    <3> QED BY <3>1, <3>2
  <2> QED BY <2>2, <2>3, FlushWrites
<1> QED BY <1>5, <1>6, <1>7, <1>8

\* A flush pushes a row back only to what it owes to overwrite again.
LEMMA FlushHeals ==
  ASSUME TypeOK, TypeOK', NEW b \in Batches, NEW last, NEW n \in Nat, n <= Len(log),
         FlushOrKeep(b, last), UNCHANGED log,
         marked' <= n, committed <= n,
         WrittenFrom(Len(log)), HeldFrom(b, n),
         \A k \in Keys : db[k] # NoEntry => db[k].ts <= hw[k],
         \A k \in Keys : Stale(k) => committed # NoOffset /\ Again(k, committed),
         \A k \in Keys : Stale(k) => Again(k, marked),
         Owes(b, n)
  PROVE  /\ \A k \in Keys : Stale(k)' => committed # NoOffset /\ Again(k, marked)'
         /\ committed' = committed =>
              /\ \A k \in Keys : Stale(k)' => Again(k, committed)'
              /\ Owes(batch, n)'
<1>0. /\ Len(log) \in Nat /\ committed \in Int /\ marked \in Int /\ marked' \in Int
      /\ \A k \in Keys : hw[k] \in Int /\ (b[k] # NoEntry => b[k].ts \in Int)
  <2>1. marked' \in Int
    BY DEF TypeOK, GroupTypeOK, Offsets, NoOffset
  <2> QED BY <2>1, ReplayTypes, BatchRow
<1>1. \A o, k, s : Reports(o, k, s)' <=> Reports(o, k, s)
  BY DEF Reports, EntriesAt
<1>2. ASSUME NEW k \in Keys, hw'[k] = hw[k], NEW s, Again(k, s)
      PROVE  Again(k, s)'
  BY <1>1, <1>2 DEF Again
<1>3. CASE Upsert(b)
  <2>1. ASSUME NEW k \in Keys, Stale(k)'
        PROVE  /\ committed # NoOffset /\ hw'[k] = hw[k] /\ Again(k, n)
    <3>1. CASE b[k] = NoEntry
      <4>1. db'[k] = db[k] /\ hw'[k] = hw[k]
        BY <1>3, <3>1, UpsertRow
      <4>2. Stale(k)
        BY <2>1, <4>1 DEF Stale
      <4> QED BY <3>1, <4>1, <4>2 DEF Owes
    <3>2. CASE b[k] # NoEntry
      <4>1. db'[k] = b[k] /\ (b[k].ts < hw[k] => hw'[k] = hw[k])
            /\ (~ (b[k].ts < hw[k]) => hw'[k] = b[k].ts)
        BY <1>3, <3>2, UpsertRow
      <4>2. b[k].ts < hw'[k]
        BY <2>1, <4>1 DEF Stale
      <4>3. b[k].ts < hw[k] /\ hw'[k] = hw[k]
        BY <1>0, <3>2, <4>1, <4>2
      <4> QED BY <3>2, <4>3 DEF Owes
    <3> QED BY <3>1, <3>2
  <2>2. ASSUME NEW k \in Keys, Stale(k)'
        PROVE  /\ Again(k, n)' /\ Again(k, marked)'
               /\ committed' = committed => Again(k, committed)'
    <3>1. hw'[k] = hw[k] /\ Again(k, n)
      BY <2>1, <2>2
    <3>2. PICK o \in n..(Len(log) - 1) : Reports(o, k, hw[k])
      BY <3>1 DEF Again
    <3>3. /\ o \in n..(Len(log') - 1) /\ o \in marked'..(Len(log') - 1)
          /\ committed' = committed => o \in committed'..(Len(log') - 1)
      BY <1>0, <3>2
    <3>4. Reports(o, k, hw[k])'
      BY <1>1, <3>1, <3>2
    <3> QED BY <3>3, <3>4 DEF Again
  <2>3. committed = NoOffset => WrittenFrom(n)'
    BY FlushOrigin DEF Owes
  <2>4. ASSUME NEW k \in Keys, batch'[k] # NoEntry, batch'[k].ts < hw'[k]
        PROVE  committed # NoOffset /\ Again(k, n)'
    <3>1. batch' = b
      BY <2>4, FlushWrites DEF EmptyBatch
    <3>2. (b[k].ts < hw[k] => hw'[k] = hw[k]) /\ (~ (b[k].ts < hw[k]) => hw'[k] = b[k].ts)
      BY <1>3, <2>4, <3>1, UpsertRow
    <3>3. b[k].ts < hw[k] /\ hw'[k] = hw[k]
      BY <1>0, <2>4, <3>1, <3>2
    <3>4. committed # NoOffset /\ Again(k, n)
      BY <2>4, <3>1, <3>3 DEF Owes
    <3> QED BY <1>2, <3>3, <3>4
  <2>5. committed' = committed => Owes(batch, n)'
    BY <2>2, <2>3, <2>4 DEF Owes
  <2> QED BY <2>1, <2>2, <2>5
<1>4. CASE UNCHANGED <<db, hw>> /\ ~ Upsert(b)
  <2>1. batch' = b /\ marked' = marked
    BY <1>4, FlushWrites
  <2>2. \A k : Stale(k)' <=> Stale(k)
    BY <1>4 DEF Stale
  <2>3. \A k, s : Again(k, s)' <=> Again(k, s)
    BY <1>1, <1>4 DEF Again
  <2>4. ASSUME NEW k \in Keys, Stale(k)'
        PROVE  /\ committed # NoOffset /\ Again(k, marked)'
               /\ committed' = committed => Again(k, committed)'
    BY <1>1, <1>4, <2>1, <2>2, <2>4 DEF Again
  <2>5. committed' = committed => Owes(batch, n)'
    BY <1>1, <1>4, <2>1, <2>2, <2>3 DEF Owes, WrittenFrom
  <2> QED BY <2>4, <2>5
<1> QED BY <1>3, <1>4, FlushWrites

\* A step that flushes inside a session keeps the replay invariant, given what
\* the flush starts from.
LEMMA FlushReplays ==
  ASSUME IInv, IInv', ReplayInv, NEW b \in Batches, NEW last, NEW n \in Nat, n <= Len(log),
         FlushOrKeep(b, last), UNCHANGED log, proc = "session",
         committed' \in {committed, marked'}, marked <= marked', marked' <= n,
         proc' = "session" => committed' = committed /\ next' = n,
         HeldFrom(b, n), Orderly => Owes(b, n)
  PROVE  ReplayInv'
<1>1. TypeOK /\ TypeOK'
  BY DEF IInv
<1>2. /\ WrittenFrom(Len(log)) /\ committed <= marked
      /\ \A k \in Keys : db[k] # NoEntry => db[k].ts <= hw[k]
  BY DEF ReplayInv, OriginInv
<1>3. committed \in Int /\ marked \in Int /\ marked' \in Int /\ Len(log) \in Nat
  <2>1. marked' \in Int
    BY <1>1 DEF TypeOK, GroupTypeOK, Offsets, NoOffset
  <2> QED BY <1>1, <2>1, ReplayTypes
<1>4. /\ WrittenFrom(Len(log))' /\ HeldFrom(batch, n)'
      /\ \A k \in Keys : db'[k] # NoEntry => db'[k].ts <= hw'[k]
  BY <1>1, <1>2, FlushOrigin
<1>5. OriginInv'
  <2>1. proc' = "session" => committed' <= marked'
    BY <1>2, <1>3
  <2>2. proc' = "session" => HeldFrom(batch, next)'
    BY <1>4 DEF HeldFrom
  <2> QED BY <1>4, <2>1, <2>2 DEF OriginInv
<1>6. ASSUME Orderly' PROVE HealInv'
  <2>1. Orderly
    BY <1>6 DEF Orderly, LogInOrder, NothingMalformed, EntriesAt
  <2>2. /\ \A k \in Keys : Stale(k) => committed # NoOffset /\ Again(k, committed)
        /\ \A k \in Keys : Stale(k) => Again(k, marked)
        /\ Owes(b, n)
    BY <2>1 DEF ReplayInv, HealInv
  <2>3. /\ \A k \in Keys : Stale(k)' => committed # NoOffset /\ Again(k, marked)'
        /\ committed' = committed =>
             /\ \A k \in Keys : Stale(k)' => Again(k, committed)'
             /\ Owes(batch, n)'
    BY <1>1, <1>2, <1>3, <2>2, FlushHeals
  <2>4. CASE committed' = committed
    <3>1. /\ \A k \in Keys : Stale(k)' => committed # NoOffset /\ Again(k, committed)'
          /\ \A k \in Keys : Stale(k)' => Again(k, marked)'
          /\ Owes(batch, n)'
      BY <2>3, <2>4
    <3>2. proc' = "session" => Owes(batch, next)'
      BY <3>1 DEF Owes, WrittenFrom, Again
    <3> QED BY <2>4, <3>1, <3>2 DEF HealInv
  <2>5. CASE committed' # committed
    <3>1. committed' = marked' /\ proc' # "session" /\ committed' # NoOffset
      <4>1. committed' = marked' /\ proc' # "session"
        BY <2>5
      <4>2. committed <= marked' /\ committed # marked' /\ committed >= NoOffset
        BY <1>1, <1>2, <1>3, <2>5, <4>1 DEF TypeOK, GroupTypeOK, Offsets, NoOffset
      <4> QED BY <1>3, <4>1, <4>2 DEF NoOffset
    <3>2. ASSUME NEW k \in Keys, Stale(k)'
          PROVE  Again(k, committed)'
      BY <2>3, <3>1, <3>2 DEF Again
    <3> QED BY <3>1, <3>2 DEF HealInv
  <2> QED BY <2>4, <2>5
<1> QED BY <1>5, <1>6 DEF ReplayInv

\* Buffering a message, with or without a flush, keeps the replay invariant.
LEMMA ReceiveEntriesReplays ==
  ASSUME IInv, IInv', ReplayInv, ReceiveEntries
  PROVE  ReplayInv'
<1> DEFINE b == Absorb(batch, Taken)
<1>1. /\ HasMessage /\ Taken # Malformed /\ proc = "session" /\ next' = next + 1
      /\ UNCHANGED <<log, proc, committed, base>>
  BY DEF ReceiveEntries, HasMessage
<1>2. b \in Batches /\ FlushPre(b, next, next + 1)
  BY <1>1, ReceivePre
<1>3. FlushOrKeep(b, next)
  BY DEF ReceiveEntries, Flush, FlushOrKeep, FlushNothing, Keep
<1>4. next \in Nat /\ next + 1 <= Len(log) /\ next \in Offsets
  BY <1>1 DEF IInv, TypeOK, GroupTypeOK, Offsets, HasMessage
<1>5. marked <= marked' /\ marked' <= next + 1
  BY <1>1, <1>2, <1>3, <1>4, FlushTypes
<1>6. WrittenFrom(Len(log)) /\ HeldFrom(batch, next)
  BY <1>1 DEF ReplayInv, OriginInv
<1>7. HeldFrom(b, next + 1)
  BY <1>1, <1>6, AbsorbOwes
<1>8. Orderly => Owes(b, next + 1)
  BY <1>1, <1>6, AbsorbOwes DEF Orderly, ReplayInv, HealInv
<1> HIDE DEF b
<1>9. PICK n \in Nat : n = next + 1
  BY <1>4
<1> QED BY <1>1, <1>2, <1>3, <1>4, <1>5, <1>7, <1>8, <1>9, FlushReplays

\* So do the timer's flush and the last flush of a session.
LEMMA FlushStepsReplay ==
  ASSUME IInv, IInv', ReplayInv, TimerFlush \/ CloseClaim
  PROVE  ReplayInv'
<1>1. /\ proc = "session" /\ UNCHANGED <<log, next, base>>
      /\ committed' \in {committed, marked'}
      /\ proc' = "session" => committed' = committed
  BY DEF TimerFlush, CloseClaim, LeaveSession
<1>2. /\ batch \in Batches /\ lastMsg \in Offsets \cup {NoOffset} /\ next \in Nat
      /\ FlushPre(batch, lastMsg, next) /\ next <= Len(log)
  BY <1>1 DEF IInv, TypeOK, GroupTypeOK, Offsets, OffsetsInv, MarksDeliveredMessage,
              DeliveryInv, FlushPre
<1>3. FlushOrKeep(batch, lastMsg)
  BY DEF TimerFlush, CloseClaim, Flush, FlushOrKeep, FlushNothing, Keep
<1>4. marked <= marked' /\ marked' <= next
  BY <1>1, <1>2, <1>3, FlushTypes
<1>5. HeldFrom(batch, next) /\ (Orderly => Owes(batch, next))
  BY <1>1 DEF ReplayInv, OriginInv, HealInv
<1>6. PICK n \in Nat : n = next
  BY <1>2
<1>7. PICK b \in Batches : b = batch
  BY <1>2
<1> QED BY <1>1, <1>2, <1>3, <1>4, <1>5, <1>6, <1>7, FlushReplays

\* A malformed message ends what is said of well-formed topics.
LEMMA ReceiveMalformedReplays ==
  ASSUME IInv, IInv', ReplayInv, ReceiveMalformed
  PROVE  ReplayInv'
<1>1. /\ HasMessage /\ Taken = Malformed /\ proc = "session" /\ next' = next + 1
      /\ marked' = MarkAfter(next) /\ UNCHANGED <<log, proc, committed, batch, db, hw>>
  BY DEF ReceiveMalformed, HasMessage
<1>2. TypeOK /\ next \in Nat /\ next < Len(log) /\ Len(log) \in Nat
      /\ committed \in Int /\ marked \in Int
  BY <1>1, ReplayTypes DEF IInv, HasMessage
<1>3. ~ Orderly'
  <2>1. next \in 0..(Len(log') - 1) /\ log'[next + 1] = Malformed
    BY <1>1, <1>2 DEF Taken
  <2> QED BY <2>1 DEF Orderly, NothingMalformed
<1>4. \A o, k, s : Reports(o, k, s)' <=> Reports(o, k, s)
  BY <1>1 DEF Reports, EntriesAt
<1>5. marked' \in Int /\ marked' >= marked
  BY <1>1, <1>2, MarkForward
<1>6. committed <= marked /\ HeldFrom(batch, next)
  BY <1>1 DEF ReplayInv, OriginInv
<1>7. HeldFrom(batch, next)'
  <2>1. \A o \in 0..(next - 1) : o \in 0..(next' - 1)
    BY <1>1, <1>2
  <2> QED BY <1>1, <1>4, <1>6, <2>1 DEF HeldFrom
<1>8. WrittenFrom(Len(log))'
  BY <1>1, <1>4 DEF ReplayInv, OriginInv, WrittenFrom
<1>9. committed' <= marked'
  BY <1>1, <1>2, <1>5, <1>6
<1> QED BY <1>1, <1>3, <1>7, <1>8, <1>9 DEF ReplayInv, OriginInv

\* A session begins with nothing buffered, where a row that was pushed back
\* will be overwritten.
LEMMA JoinReplays ==
  ASSUME IInv, IInv', ReplayInv, Join
  PROVE  ReplayInv'
<1>1. /\ proc' = "session" /\ marked' = committed /\ batch' = EmptyBatch
      /\ UNCHANGED <<log, committed, db, hw>>
      /\ next' = IF committed = NoOffset THEN Len(log) ELSE committed
  BY DEF Join, JoinSession
<1>2. TypeOK /\ Len(log) \in Nat /\ committed \in Int
  BY ReplayTypes DEF IInv
<1>3. /\ \A o, k, s : Reports(o, k, s)' <=> Reports(o, k, s)
      /\ \A k, s : Again(k, s)' <=> Again(k, s)
      /\ \A k : Stale(k)' <=> Stale(k)
      /\ \A k \in Keys : batch'[k] = NoEntry
  BY <1>1 DEF Reports, EntriesAt, Again, Stale, EmptyBatch
<1>4. WrittenFrom(Len(log)) /\ \A k \in Keys : db[k] # NoEntry => db[k].ts <= hw[k]
  BY DEF ReplayInv, OriginInv
<1>5. OriginInv'
  <2>1. WrittenFrom(Len(log))'
    BY <1>1, <1>3, <1>4 DEF WrittenFrom
  <2>2. HeldFrom(batch, next)'
    BY <1>3 DEF HeldFrom
  <2> QED BY <1>1, <1>2, <1>4, <2>1, <2>2 DEF OriginInv
<1>6. ASSUME Orderly' PROVE HealInv'
  <2>1. Orderly
    BY <1>1, <1>6 DEF Orderly, LogInOrder, NothingMalformed, EntriesAt
  <2>2. \A k \in Keys : Stale(k) => committed # NoOffset /\ Again(k, committed)
    BY <2>1 DEF ReplayInv, HealInv
  <2>3. ASSUME NEW k \in Keys, Stale(k)'
        PROVE  /\ committed' # NoOffset
               /\ Again(k, committed)' /\ Again(k, marked)' /\ Again(k, next)'
    <3>1. committed # NoOffset /\ next' = committed /\ Again(k, committed)
      BY <1>1, <1>3, <2>2, <2>3
    <3> QED BY <1>1, <1>3, <3>1 DEF Again
  <2>4. committed' = NoOffset => WrittenFrom(next)'
    BY <1>1, <1>3, <1>4 DEF WrittenFrom
  <2>5. Owes(batch, next)'
    BY <1>3, <2>3, <2>4 DEF Owes
  <2> QED BY <2>3, <2>5 DEF HealInv
<1> QED BY <1>5, <1>6 DEF ReplayInv

\* Publishing adds to what will be read; a commit takes the mark over; between
\* sessions only the committed offset counts.
LEMMA GroupReplays ==
  ASSUME IInv, IInv', ReplayInv, GroupStep \/ Die
  PROVE  ReplayInv'
<1>0. /\ TypeOK /\ TypeOK' /\ Len(log) \in Nat /\ next \in Nat
      /\ committed \in Int /\ marked \in Int
  BY ReplayTypes DEF IInv
<1>1. UNCHANGED <<db, hw>>
  BY DEF GroupStep, Die
<1>2. \A k : Stale(k)' <=> Stale(k)
  BY <1>1 DEF Stale
<1>3. ASSUME NEW m \in Messages, Publish(m), UNCHANGED <<batch, lastMsg>>
      PROVE  ReplayInv'
  <2>1. log' = Append(log, m) /\ UNCHANGED <<proc, next, marked, committed>>
    BY <1>3 DEF Publish
  <2>2. Len(log') = Len(log) + 1 /\ LogKept
    BY <1>0, <2>1 DEF LogKept, TypeOK, GroupTypeOK
  <2>3. ASSUME NEW o \in 0..(Len(log) - 1)
        PROVE  /\ o \in 0..(Len(log') - 1) /\ log'[o + 1] = log[o + 1]
               /\ EntriesAt(o)' = EntriesAt(o)
    <3>1. o \in Nat /\ o < Len(log) /\ o \in 0..(Len(log') - 1) /\ o + 1 \in 1..Len(log)
      BY <1>0, <2>2
    <3>2. EntriesAt(o)' = EntriesAt(o)
      BY <1>0, <2>2, <3>1, LogKeptFacts
    <3> QED BY <2>2, <3>1, <3>2 DEF LogKept
  <2>4. \A o \in 0..(Len(log) - 1) : \A k, s : Reports(o, k, s)' <=> Reports(o, k, s)
    BY <2>3 DEF Reports
  <2>5. Orderly' => Orderly
    BY <2>3 DEF Orderly, LogInOrder, NothingMalformed
  <2>6. ASSUME NEW end \in Int, end <= Len(log), NEW o \in 0..(end - 1)
        PROVE  o \in 0..(Len(log) - 1)
    BY <1>0, <2>6
  <2>7. ASSUME NEW k, NEW s \in Nat, Again(k, s)
        PROVE  Again(k, s)'
    <3>1. PICK o \in s..(Len(log) - 1) : Reports(o, k, hw[k])
      BY <2>7 DEF Again
    <3>2. o \in 0..(Len(log) - 1) /\ o \in s..(Len(log') - 1)
      BY <1>0, <2>2, <3>1
    <3> QED BY <1>1, <2>4, <3>1, <3>2 DEF Again
  <2>8. OriginInv'
    <3>1. WrittenFrom(Len(log))'
      BY <1>0, <1>1, <2>3, <2>4 DEF ReplayInv, OriginInv, WrittenFrom
    <3>2. proc = "session" => HeldFrom(batch, next)'
      <4>1. proc = "session" => next <= Len(log)
        BY DEF IInv, OffsetsInv
      <4> SUFFICES ASSUME proc = "session", NEW k \in Keys, batch[k] # NoEntry
                   PROVE  \E o \in 0..(next - 1) : Reports(o, k, batch[k].ts)'
        BY <1>3, <2>1 DEF HeldFrom
      <4>2. PICK o \in 0..(next - 1) : Reports(o, k, batch[k].ts)
        BY DEF ReplayInv, OriginInv, HeldFrom
      <4>3. o \in 0..(Len(log) - 1)
        BY <1>0, <2>6, <4>1
      <4> QED BY <1>3, <2>4, <4>2, <4>3
    <3> QED BY <1>1, <2>1, <3>1, <3>2 DEF ReplayInv, OriginInv
  <2>9. ASSUME Orderly' PROVE HealInv'
    <3>1. HealInv
      BY <2>5, <2>9 DEF ReplayInv
    <3>2. ASSUME NEW k \in Keys, Stale(k)'
          PROVE  committed' # NoOffset /\ Again(k, committed)'
      <4>1. committed # NoOffset /\ Again(k, committed) /\ committed \in Nat
        BY <1>0, <1>2, <3>1, <3>2, ReplayTypes DEF HealInv
      <4>2. PICK c \in Nat : c = committed
        BY <4>1
      <4>3. Again(k, c)'
        BY <2>7, <4>1, <4>2
      <4> QED BY <2>1, <4>1, <4>2, <4>3 DEF Again
    <3>3. ASSUME NEW k \in Keys, Again(k, next)
          PROVE  Again(k, next)'
      <4>1. PICK c \in Nat : c = next
        BY <1>0
      <4>2. Again(k, c)'
        BY <2>7, <3>3, <4>1
      <4> QED BY <2>1, <4>1, <4>2 DEF Again
    <3>4. ASSUME proc = "session", NEW k \in Keys, Stale(k)'
          PROVE  Again(k, marked)'
      <4>1. committed # NoOffset /\ Again(k, marked)
        BY <1>2, <3>1, <3>4 DEF HealInv
      <4>2. committed <= marked
        BY <3>4 DEF ReplayInv, OriginInv
      <4>3. marked \in Nat
        BY <1>0, <4>1, <4>2, ReplayTypes
      <4>4. PICK c \in Nat : c = marked
        BY <4>3
      <4>5. Again(k, c)'
        BY <2>7, <4>1, <4>4
      <4> QED BY <2>1, <4>4, <4>5 DEF Again
    <3>5. ASSUME proc = "session" PROVE Owes(batch, next)'
      <4>1. Owes(batch, next) /\ next <= Len(log)
        BY <3>1, <3>5 DEF HealInv, IInv, OffsetsInv
      <4>2. committed' = NoOffset => WrittenFrom(next)'
        BY <1>0, <1>1, <2>1, <2>4, <2>6, <4>1 DEF Owes, WrittenFrom
      <4>3. ASSUME NEW k \in Keys, batch'[k] # NoEntry, batch'[k].ts < hw'[k]
            PROVE  committed' # NoOffset /\ Again(k, next)'
        BY <1>1, <1>3, <2>1, <3>3, <4>1, <4>3 DEF Owes
      <4>4. ASSUME NEW k \in Keys, Stale(k)'
            PROVE  Again(k, next)' \/ (batch'[k] # NoEntry /\ batch'[k].ts >= hw'[k])
        BY <1>1, <1>2, <1>3, <3>3, <4>1, <4>4 DEF Owes
      <4> QED BY <4>2, <4>3, <4>4 DEF Owes
    <3> QED BY <2>1, <3>2, <3>4, <3>5 DEF HealInv
  <2> QED BY <2>8, <2>9 DEF ReplayInv
<1>4. ASSUME UNCHANGED log
      PROVE  /\ \A o, k, s : Reports(o, k, s)' <=> Reports(o, k, s)
             /\ WrittenFrom(Len(log))' <=> WrittenFrom(Len(log))
             /\ \A k, s : Again(k, s)' <=> Again(k, s)
             /\ Orderly' <=> Orderly
  <2>1. \A o, k, s : Reports(o, k, s)' <=> Reports(o, k, s)
    BY <1>4 DEF Reports, EntriesAt
  <2>2. Orderly' <=> Orderly
    BY <1>4 DEF Orderly, LogInOrder, NothingMalformed, EntriesAt
  <2> QED BY <1>1, <1>4, <2>1, <2>2 DEF WrittenFrom, Again
<1>5. CASE AutoCommit /\ UNCHANGED <<batch, lastMsg>>
  <2>1. /\ proc = "session" /\ marked > committed /\ committed' = marked
        /\ UNCHANGED <<log, proc, next, marked, batch>>
    BY <1>5 DEF AutoCommit
  <2>2. committed' # NoOffset
    BY <1>0, <2>1 DEF TypeOK, GroupTypeOK, Offsets, NoOffset
  <2>3. OriginInv'
    BY <1>0, <1>1, <1>4, <2>1 DEF ReplayInv, OriginInv, HeldFrom
  <2>4. ASSUME Orderly' PROVE HealInv'
    <3>1. HealInv
      BY <1>4, <2>1, <2>4 DEF ReplayInv
    <3>2. ASSUME NEW k \in Keys, Stale(k)'
          PROVE  Again(k, committed)' /\ Again(k, marked)'
      <4>1. Again(k, marked)
        BY <1>2, <2>1, <3>1, <3>2 DEF HealInv
      <4> QED BY <1>1, <1>4, <2>1, <4>1 DEF Again
    <3>3. Owes(batch, next)'
      BY <1>1, <1>2, <1>4, <2>1, <2>2, <3>1 DEF HealInv, Owes, Again
    <3> QED BY <2>2, <3>2, <3>3 DEF HealInv
  <2> QED BY <2>3, <2>4 DEF ReplayInv
<1>6. CASE ((StartProcess \/ ExitProcess) /\ UNCHANGED <<batch, lastMsg>>) \/ Die
  <2>1. proc' # "session" /\ UNCHANGED <<log, committed>>
    BY <1>6 DEF StartProcess, ExitProcess, Die, Crash
  <2>2. OriginInv'
    BY <1>1, <1>4, <2>1 DEF ReplayInv, OriginInv
  <2>3. ASSUME Orderly' PROVE HealInv'
    <3>1. HealInv
      BY <1>4, <2>1, <2>3 DEF ReplayInv
    <3> QED BY <1>1, <1>2, <1>4, <2>1, <3>1 DEF HealInv, Again
  <2> QED BY <2>2, <2>3 DEF ReplayInv
<1> QED BY <1>3, <1>5, <1>6 DEF GroupStep

\* Clean-up deletes rows, and a row that is gone is not stale.
LEMMA CleanupReplays ==
  ASSUME IInv, ReplayInv, Cleanup \/ Tick \/ UNCHANGED vars
  PROVE  ReplayInv'
<1>1. UNCHANGED <<log, proc, next, marked, committed, batch, hw>>
  BY DEF Cleanup, Tick, vars, groupVars
<1>2. \A k \in Keys : db'[k] # NoEntry => db'[k] = db[k]
  BY DEF Cleanup, Tick, vars
<1>3. \A k \in Keys : Stale(k)' => Stale(k)
  BY <1>1, <1>2 DEF Stale
<1>4. /\ \A o, k, s : Reports(o, k, s)' <=> Reports(o, k, s)
      /\ Orderly' <=> Orderly
  BY <1>1 DEF Reports, Orderly, LogInOrder, NothingMalformed, EntriesAt
<1>5. /\ \A s : WrittenFrom(s)' <=> WrittenFrom(s)
      /\ \A k, s : Again(k, s)' <=> Again(k, s)
  BY <1>1, <1>4 DEF WrittenFrom, Again
<1>6. OriginInv'
  BY <1>1, <1>2, <1>4 DEF ReplayInv, OriginInv, WrittenFrom, HeldFrom
<1>7. ASSUME Orderly' PROVE HealInv'
  <2>1. HealInv
    BY <1>4, <1>7 DEF ReplayInv
  <2>2. ASSUME proc = "session" PROVE Owes(batch, next)'
    <3>1. Owes(batch, next)
      BY <2>1, <2>2 DEF HealInv
    <3> QED BY <1>1, <1>3, <1>4, <3>1 DEF Owes, WrittenFrom, Again
  <2>3. \A k \in Keys : Stale(k)' => committed' # NoOffset /\ Again(k, committed)'
    BY <1>1, <1>3, <1>4, <2>1 DEF HealInv, Again
  <2>4. ASSUME proc = "session", NEW k \in Keys, Stale(k)' PROVE Again(k, marked)'
    BY <1>1, <1>3, <1>4, <2>1, <2>4 DEF HealInv, Again
  <2> QED BY <1>1, <2>2, <2>3, <2>4 DEF HealInv
<1> QED BY <1>6, <1>7 DEF ReplayInv

\* Nothing has been written or read.
LEMMA InitReplay == Init => ReplayInv
<1> SUFFICES ASSUME Init PROVE ReplayInv
  OBVIOUS
<1>1. /\ \A k \in Keys : hw[k] = NoTime /\ db[k] = NoEntry
      /\ proc # "session"
  BY DEF Init, GroupInit
<1> QED BY <1>1 DEF ReplayInv, OriginInv, HealInv, WrittenFrom, Stale

\* Replay heals, whatever the topic, the batch size and the interleaving of
\* flush errors, commits, session ends and crashes: a session that has caught
\* up with an ordered, well-formed topic leaves in every row the newest that was
\* ever written for its key.
THEOREM ReplayHeals == Spec => []DrainedRowsAreNewest
<1>1. IInv /\ IInv' /\ ReplayInv /\ [Next]_vars => ReplayInv'
  BY ReceiveMalformedReplays, ReceiveEntriesReplays, FlushStepsReplay, JoinReplays,
     GroupReplays, CleanupReplays DEF Next
<1>2. IInv /\ ReplayInv => DrainedRowsAreNewest
  <2> SUFFICES ASSUME IInv, ReplayInv, Drained, Orderly, NEW k \in Keys, db[k] # NoEntry
               PROVE  db[k].ts = hw[k]
    BY DEF DrainedRowsAreNewest, Orderly
  <2>1. /\ Len(log) \in Nat /\ hw[k] \in Int /\ db[k].ts \in Int
    BY ReplayTypes DEF IInv
  <2>2. ~ Stale(k)
    <3> SUFFICES ASSUME Stale(k) PROVE FALSE
      OBVIOUS
    <3>1. Again(k, Len(log)) \/ batch[k] # NoEntry
      BY DEF Drained, ReplayInv, HealInv, Owes
    <3>2. ~ Again(k, Len(log)) /\ batch[k] = NoEntry
      BY <2>1 DEF Drained, Buffered, Again
    <3> QED BY <3>1, <3>2
  <2>3. db[k].ts <= hw[k]
    BY DEF ReplayInv, OriginInv
  <2> QED BY <2>1, <2>2, <2>3 DEF Stale
<1> QED BY InitReplay, Invariance, <1>1, <1>2, PTL DEF Spec
=============================================================================
