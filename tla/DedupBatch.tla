----------------------------- MODULE DedupBatch -----------------------------
(***************************************************************************)
(* The batch map of consumeMACBatch / consumeARPBatch in consumer/main.go: *)
(* what buffering the entries of one message does to it.                   *)
(***************************************************************************)
EXTENDS Integers, Sequences

CONSTANTS
  Keys,         \* (node_id, mac_address) or (node_id, ip_address)
  Vals,         \* the other columns of a row
  MaxTime,      \* bound: telemetry timestamps
  NoEntry       \* an absent map entry (or table row)

Times == 0..MaxTime
Entry == [key: Keys, ts: Times, val: Vals]

ASSUME DedupAssumption == MaxTime \in Nat /\ NoEntry \notin Entry

Batches == [Keys -> Entry \cup {NoEntry}]
EmptyBatch == [k \in Keys |-> NoEntry]
Buffered(b) == {k \in Keys : b[k] # NoEntry}

(* The loop over the entries of a message replaces the buffered entry of a *)
(* key only by a strictly newer one, so of one message the first of the    *)
(* newest entries of a key is the candidate.                               *)

IndicesOf(es, k) == {i \in DOMAIN es : es[i].key = k}

NewestOf(es, k) ==
  {i \in IndicesOf(es, k) : \A j \in IndicesOf(es, k) : es[j].ts <= es[i].ts}

FirstNewest(es, k) ==
  CHOOSE i \in NewestOf(es, k) : \A j \in NewestOf(es, k) : i <= j

\* Mutant: the comparison is the wrong way round.
Replaces_older(e, cur) == cur = NoEntry \/ e.ts < cur.ts

Replaces(e, cur) == cur = NoEntry \/ e.ts > cur.ts

Absorb(b, es) ==
  [k \in Keys |->
     IF /\ IndicesOf(es, k) # {}
        /\ Replaces(es[FirstNewest(es, k)], b[k])
     THEN es[FirstNewest(es, k)]
     ELSE b[k]]
=============================================================================
