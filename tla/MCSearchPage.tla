---------------------------- MODULE MCSearchPage ----------------------------
(* Small instances of SearchPage for TLC. *)
EXTENDS SearchPage, TLC

CONSTANTS t1, t2, t3, a, b

MCTerms == {t1, t2, t3}

\* Two rows of two hosts; three rows, two of one address and one without;
\* and nothing.
MCResults == t1 :> <<a, b>> @@ t2 :> <<b, NoIP, b>> @@ t3 :> <<>>
=============================================================================
