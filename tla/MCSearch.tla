------------------------------ MODULE MCSearch ------------------------------
(* Small instances of Search for TLC. *)
EXTENDS Search, TLC

CONSTANTS n1, n2, i1, i2, a, b, host, gi, vl

S(h, s, c) == [hex |-> h, sep |-> s, case |-> c]
MCMacStrings == {S(a, "colon", "lower"), S(a, "colon", "upper"), S(a, "hyphen", "lower"),
                 S(b, "dot", "mixed")}
MCRank == [i \in {gi, vl} |-> IF i = gi THEN 1 ELSE 3]

T(k, x) == [kind |-> k, arg |-> x]
MCTerms == {T("mac", a), T("mac", b), T("ip", i1), T("hostname", host), T("other", host)}

MCNodes == {n1, n2}
MCIPs == {i1, i2}
MCSymmetry == Permutations(MCNodes)
=============================================================================
