------------------------------- MODULE Tokens -------------------------------
(***************************************************************************)
(* Personal access tokens of the web application: CreateHandler and        *)
(* RevokeHandler of tokens/handler.go, LookupToken and BearerOrSAML of     *)
(* tokens/auth.go, on the api_tokens table.  Each HTTP request runs in its *)
(* own goroutine.  CreateHandler counts the user's active tokens and       *)
(* inserts in two statements, with no transaction around them; LookupToken *)
(* writes last_used_at from a goroutine that outlives the request.         *)
(***************************************************************************)
EXTENDS Integers, FiniteSets

CONSTANTS
  Users,
  Requests,         \* create requests the server may be running at once
  MaxActiveTokens,  \* maxActiveTokens
  Lifetimes,        \* expires_days that pass validation; 0 is never
  MaxTokens,        \* bound: rows ever inserted
  MaxTime,          \* bound: the database's and the server's clock, in days
  NoToken, NoRequest

ASSUME TokensAssumption ==
  /\ MaxActiveTokens \in Nat \ {0} /\ MaxTokens \in Nat /\ MaxTime \in Nat
  /\ Lifetimes \subseteq Nat
  /\ IsFiniteSet(Requests)

Ids == 1..MaxTokens
Never == -1
NoTime == -1
Expiries == Nat \cup {Never}

Token == [user: Users, expires: Expiries, revoked: BOOLEAN,
          lastUsed: 0..MaxTime \cup {NoTime}]

ASSUME TokensNullAssumption ==
  /\ NoToken \notin Token
  /\ NoRequest \notin [user: Users, expires: Expiries]

VARIABLES
  tokens,       \* api_tokens, by id
  creating,     \* create requests between their COUNT and their INSERT
  touching,     \* ids whose last_used_at goroutine is still running
  now

vars == <<tokens, creating, touching, now>>

TypeOK ==
  /\ tokens \in [Ids -> Token \cup {NoToken}]
  /\ creating \in [Requests -> [user: Users, expires: Expiries] \cup {NoRequest}]
  /\ touching \subseteq {id \in Ids : tokens[id] # NoToken}
  /\ now \in 0..MaxTime

Init ==
  /\ tokens = [id \in Ids |-> NoToken]
  /\ creating = [r \in Requests |-> NoRequest]
  /\ touching = {}
  /\ now = 0

\* revoked_at IS NULL AND (expires_at IS NULL OR expires_at > now()).
Active(id) ==
  /\ tokens[id] # NoToken
  /\ ~ tokens[id].revoked
  /\ tokens[id].expires = Never \/ tokens[id].expires > now

ActiveOf(u) == {id \in Ids : Active(id) /\ tokens[id].user = u}
CreatingFor(u) == {r \in Requests : creating[r] # NoRequest /\ creating[r].user = u}

-----------------------------------------------------------------------------
(* CreateHandler *)

ExpiresAt(days) == IF days = 0 THEN Never ELSE now + days

\* Mutant: the limit is tested with > instead of >=.
BelowLimit_offByOne(u) == ~ (Cardinality(ActiveOf(u)) > MaxActiveTokens)

BelowLimit(u) == ~ (Cardinality(ActiveOf(u)) >= MaxActiveTokens)

\* The request is valid, expires_at is computed and the count is below the
\* limit.  (A bad request, a database error and 409 leave no trace.)
CountActive(r, u, days) ==
  /\ creating[r] = NoRequest
  /\ BelowLimit(u)
  /\ creating' = [creating EXCEPT ![r] = [user |-> u, expires |-> ExpiresAt(days)]]
  /\ UNCHANGED <<tokens, touching, now>>

\* INSERT, with the next id.  The client may never see the answer; the token
\* exists all the same.
InsertToken(r) ==
  /\ creating[r] # NoRequest
  /\ \E id \in Ids :
       /\ tokens[id] = NoToken
       /\ \A j \in Ids : j < id => tokens[j] # NoToken
       /\ tokens' = [tokens EXCEPT ![id] =
            [user |-> creating[r].user, expires |-> creating[r].expires,
             revoked |-> FALSE, lastUsed |-> NoTime]]
  /\ creating' = [creating EXCEPT ![r] = NoRequest]
  /\ UNCHANGED <<touching, now>>

\* generateToken or INSERT fails, or the client has gone away.
CreateFails(r) ==
  /\ creating[r] # NoRequest
  /\ creating' = [creating EXCEPT ![r] = NoRequest]
  /\ UNCHANGED <<tokens, touching, now>>

-----------------------------------------------------------------------------
(* RevokeHandler, LookupToken *)

\* UPDATE ... WHERE id = $1 AND user_id = $2 AND revoked_at IS NULL.
Revoke(u, id) ==
  /\ tokens[id] # NoToken
  /\ tokens[id].user = u
  /\ ~ tokens[id].revoked
  /\ tokens' = [tokens EXCEPT ![id].revoked = TRUE]
  /\ UNCHANGED <<creating, touching, now>>

\* Mutant: the token is looked up without its conditions.
Lookup_unchecked(id) ==
  /\ touching' = touching \cup {id}
  /\ UNCHANGED <<tokens, creating, now>>

\* The presented token is found: the request is served, and a goroutine is
\* started.  (Otherwise 401 or 500, and nothing changes.)
Lookup(id) ==
  /\ Active(id)
  /\ touching' = touching \cup {id}
  /\ UNCHANGED <<tokens, creating, now>>

\* Mutant: the goroutine writes back the row it was started with.
Touch_wholeRow(id) ==
  /\ id \in touching
  /\ touching' = touching \ {id}
  /\ tokens' = [tokens EXCEPT ![id].lastUsed = now, ![id].revoked = FALSE]
  /\ UNCHANGED <<creating, now>>

\* UPDATE api_tokens SET last_used_at = now() WHERE id = $1.
Touch(id) ==
  /\ id \in touching
  /\ touching' = touching \ {id}
  /\ tokens' = [tokens EXCEPT ![id].lastUsed = now]
  /\ UNCHANGED <<creating, now>>

\* The goroutine's three seconds are over, or its UPDATE failed.
TouchFails(id) ==
  /\ id \in touching
  /\ touching' = touching \ {id}
  /\ UNCHANGED <<tokens, creating, now>>

Tick ==
  /\ now < MaxTime
  /\ now' = now + 1
  /\ UNCHANGED <<tokens, creating, touching>>

Next ==
  \/ \E r \in Requests, u \in Users, days \in Lifetimes : CountActive(r, u, days)
  \/ \E r \in Requests : InsertToken(r) \/ CreateFails(r)
  \/ \E u \in Users, id \in Ids : Revoke(u, id)
  \/ \E id \in Ids : Lookup(id) \/ Touch(id) \/ TouchFails(id)
  \/ Tick

Spec == Init /\ [][Next]_vars

-----------------------------------------------------------------------------
(* Properties *)

\* How far the limit can be overrun: the check of CreateHandler is not atomic
\* with its INSERT, so each create request in flight may add one token after
\* the others were counted, and no more than that.
LimitWithinConcurrency ==
  \A u \in Users :
    Cardinality(ActiveOf(u)) + Cardinality(CreatingFor(u))
      <= MaxActiveTokens - 1 + Cardinality(Requests)

\* "can be revoked instantly": from the step that revokes a token on, nothing
\* makes it usable again, in particular not the last_used_at goroutine of a
\* lookup that was accepted before, nor a change of its owner or expiry.
RevocationIsFinal ==
  [][\A id \in Ids : tokens[id] # NoToken =>
       /\ tokens'[id] # NoToken
       /\ tokens[id].revoked => tokens'[id].revoked
       /\ tokens'[id].user = tokens[id].user
       /\ tokens'[id].expires = tokens[id].expires]_vars
=============================================================================
