------------------------------ MODULE MCWebApp ------------------------------
(* Small instances of WebApp for TLC. *)
EXTENDS WebApp, TLC

CONSTANTS u1, u2, r1, r2

MCUsers == {u1, u2, Local}
MCRequests == {r1, r2}

\* Open, every account an administrator, and administrators by role.
MCConfigs == {[saml |-> FALSE, adminRole |-> FALSE, dbview |-> TRUE],
              [saml |-> TRUE, adminRole |-> FALSE, dbview |-> FALSE],
              [saml |-> TRUE, adminRole |-> TRUE, dbview |-> TRUE]}

\* Accounts and requests are interchangeable.
MCSymmetry == Permutations({u1, u2}) \cup Permutations(MCRequests)
=============================================================================
