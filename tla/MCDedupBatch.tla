---------------------------- MODULE MCDedupBatch ----------------------------
(* A small instance of DedupLoop for TLC. *)
EXTENDS DedupLoop, SequencesExt

CONSTANTS k1, k2, v1, v2, MaxLen

MCKeys == {k1, k2}
MCVals == {v1, v2}
MCArrays == BoundedSeq(Entry, MaxLen)
=============================================================================
