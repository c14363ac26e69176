-------------------------- MODULE MCBatchConsumer --------------------------
(* Small instances of BatchConsumer for TLC. *)
EXTENDS BatchConsumer

CONSTANTS k1, k2, v

MCKeys == {k1, k2}
MCVals == {v}

E(k, t) == [key |-> k, ts |-> t, val |-> v]

\* A message with one entry, one with two keys, one that lists a key twice,
\* an older report of k1, and an empty array.
MCPayloads == { <<E(k1, 1)>>,
                <<E(k1, 0)>>,
                <<E(k2, 1), E(k1, 2)>>,
                <<E(k2, 0), E(k2, 2)>>,
                <<>> }

MCMessages == MCPayloads \cup {Malformed}
=============================================================================
