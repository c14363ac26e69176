----------------------------- MODULE DedupLoop -----------------------------
(***************************************************************************)
(* The loop of consumeMACBatch / consumeARPBatch over the entries of one   *)
(* message, iteration by iteration; BatchConsumer takes it as one step,    *)
(* Absorb.                                                                 *)
(***************************************************************************)
EXTENDS DedupBatch

CONSTANT Arrays         \* what messages decode to

ASSUME ArraysAssumption == Arrays \subseteq Seq(Entry)

VARIABLES
  held,         \* the batch map before the message
  entries,      \* the decoded message
  taken,        \* entries the loop is done with
  map           \* the batch map
loopVars == <<held, entries, taken, map>>

\* for _, e := range entries
LoopInit ==
  /\ held \in Batches
  /\ entries \in Arrays
  /\ taken = 0
  /\ map = held

\* Mutant: an entry as old as the buffered one replaces it.
BufferEntry_ties ==
  /\ taken < Len(entries)
  /\ taken' = taken + 1
  /\ LET e == entries[taken + 1] IN
       map' = IF map[e.key] = NoEntry \/ e.ts >= map[e.key].ts
              THEN [map EXCEPT ![e.key] = e]
              ELSE map
  /\ UNCHANGED <<held, entries>>

\* if cur, exists := batch[k]; !exists || e.Timestamp.After(cur.Timestamp)
BufferEntry ==
  /\ taken < Len(entries)
  /\ taken' = taken + 1
  /\ LET e == entries[taken + 1] IN
       map' = IF map[e.key] = NoEntry \/ e.ts > map[e.key].ts
              THEN [map EXCEPT ![e.key] = e]
              ELSE map
  /\ UNCHANGED <<held, entries>>

LoopSpec == LoopInit /\ [][BufferEntry]_loopVars

\* After any number of iterations of the deduplication loop the map is what
\* Absorb says of the entries seen so far: "keeping the one with the latest
\* timestamp", the first of several with that timestamp.
LoopIsAbsorb == map = Absorb(held, SubSeq(entries, 1, taken))
=============================================================================
