---------------------------- MODULE WebAppProofs ----------------------------
(***************************************************************************)
(* The tokens and the guards of the web application around them.           *)
(*                                                                         *)
(* Tokens alone, for any number of users, tokens and concurrent create     *)
(* requests: the limit and revocation.  LimitWithinConcurrency counts the  *)
(* requests past their check together with the active tokens, and is       *)
(* inductive.                                                              *)
(*                                                                         *)
(* The application, for any number of browsers, accounts and requests and  *)
(* for every configuration: that tokens belong to entitled users is        *)
(* inductive only together with what the guards stand on, that whoever     *)
(* passes protectAdmin is entitled.                                        *)
(***************************************************************************)
EXTENDS WebApp, FiniteSetTheorems, TLAPS

-----------------------------------------------------------------------------
(* Tokens. *)

\* The sets that are counted are finite.
LEMMA CountsAreFinite ==
  /\ IsFiniteSet(Requests) /\ Cardinality(Requests) \in Nat
  /\ \A u : /\ IsFiniteSet(ActiveOf(u)) /\ Cardinality(ActiveOf(u)) \in Nat
            /\ IsFiniteSet(CreatingFor(u)) /\ Cardinality(CreatingFor(u)) \in Nat
            /\ Cardinality(CreatingFor(u)) <= Cardinality(Requests)
<1>1. IsFiniteSet(Requests) /\ IsFiniteSet(Ids)
  BY TokensAssumption, FS_Interval DEF Ids
<1>2. ASSUME NEW u
      PROVE  /\ IsFiniteSet(ActiveOf(u)) /\ IsFiniteSet(CreatingFor(u))
             /\ Cardinality(CreatingFor(u)) <= Cardinality(Requests)
  <2>1. ActiveOf(u) \subseteq Ids /\ CreatingFor(u) \subseteq Requests
    BY DEF ActiveOf, CreatingFor
  <2> QED BY <1>1, <2>1, FS_Subset
<1> QED BY <1>1, <1>2, FS_CardinalityType

\* Fewer active tokens and fewer requests keep a user within the bound.
LEMMA Shrinking ==
  ASSUME NEW u, NEW S, NEW T,
         S \subseteq ActiveOf(u), T \subseteq CreatingFor(u),
         Cardinality(ActiveOf(u)) + Cardinality(CreatingFor(u))
           <= MaxActiveTokens - 1 + Cardinality(Requests)
  PROVE  Cardinality(S) + Cardinality(T) <= MaxActiveTokens - 1 + Cardinality(Requests)
<1>1. IsFiniteSet(S) /\ Cardinality(S) <= Cardinality(ActiveOf(u))
  BY CountsAreFinite, FS_Subset
<1>2. IsFiniteSet(T) /\ Cardinality(T) <= Cardinality(CreatingFor(u))
  BY CountsAreFinite, FS_Subset
<1>3. Cardinality(S) \in Nat /\ Cardinality(T) \in Nat
  BY <1>1, <1>2, FS_CardinalityType
<1> QED BY <1>1, <1>2, <1>3, CountsAreFinite, TokensAssumption

\* An inserted row is a token, and the request that wrote it is over.
LEMMA InsertTypes ==
  ASSUME TypeOK, NEW r \in Requests, creating[r] # NoRequest
  PROVE  [user |-> creating[r].user, expires |-> creating[r].expires,
          revoked |-> FALSE, lastUsed |-> NoTime] \in Token
BY DEF TypeOK, Token

\* Every action keeps api_tokens and the requests well typed; a last_used_at
\* goroutine only ever runs for a row that exists.
THEOREM TokensTypeCorrect == Spec => []TypeOK
<1>1. Init => TypeOK
  BY TokensAssumption DEF Init, TypeOK
<1>2. TypeOK /\ [Next]_vars => TypeOK'
  <2> SUFFICES ASSUME TypeOK, [Next]_vars PROVE TypeOK'
    OBVIOUS
  <2>1. ASSUME NEW r \in Requests, NEW u \in Users, NEW days \in Lifetimes,
               CountActive(r, u, days)
        PROVE  TypeOK'
    <3>1. ExpiresAt(days) \in Expiries
      BY TokensAssumption DEF ExpiresAt, Expiries, TypeOK
    <3> QED BY <2>1, <3>1 DEF CountActive, TypeOK
  <2>2. ASSUME NEW r \in Requests, InsertToken(r)
        PROVE  TypeOK'
    <3> DEFINE t == [user |-> creating[r].user, expires |-> creating[r].expires,
                     revoked |-> FALSE, lastUsed |-> NoTime]
    <3>1. PICK id \in Ids : tokens[id] = NoToken /\ tokens' = [tokens EXCEPT ![id] = t]
      BY <2>2 DEF InsertToken
    <3>2. t \in Token /\ t # NoToken
      BY <2>2, InsertTypes, TokensNullAssumption DEF InsertToken
    <3>3. /\ creating' = [creating EXCEPT ![r] = NoRequest]
          /\ touching' = touching /\ now' = now
      BY <2>2 DEF InsertToken
    <3> HIDE DEF t
    <3>4. tokens' \in [Ids -> Token \cup {NoToken}]
      BY <3>1, <3>2 DEF TypeOK
    <3>5. \A j \in Ids : tokens[j] # NoToken => tokens'[j] # NoToken
      BY <3>1, <3>2 DEF TypeOK
    <3> QED BY <3>3, <3>4, <3>5 DEF TypeOK
  <2>3. ASSUME NEW r \in Requests, CreateFails(r)
        PROVE  TypeOK'
    BY <2>3 DEF CreateFails, TypeOK
  <2>4. ASSUME NEW u \in Users, NEW id \in Ids, Revoke(u, id)
        PROVE  TypeOK'
    <3>1. tokens[id] \in Token
      BY <2>4 DEF Revoke, TypeOK
    <3>2. [tokens[id] EXCEPT !.revoked = TRUE] \in Token
      BY <3>1 DEF Token
    <3>3. tokens' = [tokens EXCEPT ![id] = [tokens[id] EXCEPT !.revoked = TRUE]]
      BY <2>4 DEF Revoke
    <3>4. /\ tokens' \in [Ids -> Token \cup {NoToken}]
          /\ \A j \in Ids : tokens[j] # NoToken => tokens'[j] # NoToken
      BY <3>2, <3>3, TokensNullAssumption DEF TypeOK
    <3> QED BY <2>4, <3>4 DEF Revoke, TypeOK
  <2>5. ASSUME NEW id \in Ids, Lookup(id)
        PROVE  TypeOK'
    BY <2>5 DEF Lookup, Active, TypeOK
  <2>6. ASSUME NEW id \in Ids, Touch(id)
        PROVE  TypeOK'
    <3>1. tokens[id] \in Token /\ now \in 0..MaxTime
      BY <2>6 DEF Touch, TypeOK
    <3>2. [tokens[id] EXCEPT !.lastUsed = now] \in Token
      BY <3>1 DEF Token
    <3>3. tokens' = [tokens EXCEPT ![id] = [tokens[id] EXCEPT !.lastUsed = now]]
      BY <2>6 DEF Touch
    <3>4. /\ tokens' \in [Ids -> Token \cup {NoToken}]
          /\ \A j \in Ids : tokens[j] # NoToken => tokens'[j] # NoToken
      BY <3>2, <3>3, TokensNullAssumption DEF TypeOK
    <3> QED BY <2>6, <3>4 DEF Touch, TypeOK
  <2>7. ASSUME NEW id \in Ids, TouchFails(id)
        PROVE  TypeOK'
    BY <2>7 DEF TouchFails, TypeOK
  <2>8. CASE Tick
    BY <2>8, TokensAssumption DEF Tick, TypeOK
  <2>9. CASE UNCHANGED vars
    BY <2>9 DEF vars, TypeOK
  <2> QED BY <2>1, <2>2, <2>3, <2>4, <2>5, <2>6, <2>7, <2>8, <2>9 DEF Next
<1> QED BY <1>1, <1>2, PTL DEF Spec

\* What one step can do to the sets that are counted: only InsertToken adds an
\* active token, and it takes the request that had been counted for it.
LEMMA StepKeepsLimit ==
  ASSUME TypeOK, LimitWithinConcurrency, [Next]_vars
  PROVE  LimitWithinConcurrency'
<1> SUFFICES ASSUME NEW u \in Users
             PROVE  Cardinality(ActiveOf(u)') + Cardinality(CreatingFor(u)')
                      <= MaxActiveTokens - 1 + Cardinality(Requests)
  BY DEF LimitWithinConcurrency
<1>0. Cardinality(ActiveOf(u)) + Cardinality(CreatingFor(u))
        <= MaxActiveTokens - 1 + Cardinality(Requests)
  BY DEF LimitWithinConcurrency
<1>1. CASE ActiveOf(u)' \subseteq ActiveOf(u) /\ CreatingFor(u)' \subseteq CreatingFor(u)
  BY <1>0, <1>1, Shrinking
<1>2. ASSUME NEW r \in Requests, NEW u0 \in Users, NEW days \in Lifetimes,
             CountActive(r, u0, days)
      PROVE  Cardinality(ActiveOf(u)') + Cardinality(CreatingFor(u)')
               <= MaxActiveTokens - 1 + Cardinality(Requests)
  <2>1. ActiveOf(u)' = ActiveOf(u)
    BY <1>2 DEF CountActive, ActiveOf, Active
  <2>2. CASE u = u0
    <3>1. Cardinality(ActiveOf(u)) <= MaxActiveTokens - 1
      BY <1>2, <2>2, CountsAreFinite, TokensAssumption DEF CountActive, BelowLimit
    <3>2. CreatingFor(u)' \subseteq Requests
      BY DEF CreatingFor
    <3>3. Cardinality(CreatingFor(u)') \in Nat
          /\ Cardinality(CreatingFor(u)') <= Cardinality(Requests)
      BY <3>2, CountsAreFinite, FS_Subset, FS_CardinalityType
    <3> QED BY <2>1, <3>1, <3>3, CountsAreFinite, TokensAssumption
  <2>3. CASE u # u0
    <3>1. creating' = [creating EXCEPT ![r] = [user |-> u0, expires |-> ExpiresAt(days)]]
      BY <1>2 DEF CountActive
    <3>2. CreatingFor(u)' \subseteq CreatingFor(u)
      BY <2>3, <3>1 DEF CreatingFor, TypeOK
    <3> QED BY <2>1, <3>2, <1>1
  <2> QED BY <2>2, <2>3
<1>3. ASSUME NEW r \in Requests, InsertToken(r)
      PROVE  Cardinality(ActiveOf(u)') + Cardinality(CreatingFor(u)')
               <= MaxActiveTokens - 1 + Cardinality(Requests)
  <2> DEFINE t == [user |-> creating[r].user, expires |-> creating[r].expires,
                   revoked |-> FALSE, lastUsed |-> NoTime]
  <2>1. PICK id \in Ids : tokens[id] = NoToken /\ tokens' = [tokens EXCEPT ![id] = t]
    BY <1>3 DEF InsertToken
  <2>2. creating' = [creating EXCEPT ![r] = NoRequest] /\ now' = now /\ creating[r] # NoRequest
    BY <1>3 DEF InsertToken
  <2>3. \A j \in Ids : j # id => tokens'[j] = tokens[j]
    BY <2>1 DEF TypeOK
  <2>4. tokens'[id] = t /\ t.user = creating[r].user
    BY <2>1 DEF TypeOK
  <2>5. CreatingFor(u)' = CreatingFor(u) \ {r}
    BY <2>2 DEF CreatingFor, TypeOK
  <2>6. ActiveOf(u)' \subseteq ActiveOf(u) \cup {id}
    BY <2>2, <2>3 DEF ActiveOf, Active
  <2>7. CASE u = creating[r].user
    <3>1. r \in CreatingFor(u)
      BY <2>2, <2>7 DEF CreatingFor
    <3>2. Cardinality(CreatingFor(u)') = Cardinality(CreatingFor(u)) - 1
      BY <2>5, <3>1, CountsAreFinite, FS_RemoveElement
    <3>3. /\ IsFiniteSet(ActiveOf(u) \cup {id})
          /\ Cardinality(ActiveOf(u) \cup {id}) <= Cardinality(ActiveOf(u)) + 1
      <4>1. IsFiniteSet(ActiveOf(u)) /\ Cardinality(ActiveOf(u)) \in Nat
        BY CountsAreFinite
      <4>2. /\ IsFiniteSet(ActiveOf(u) \cup {id})
            /\ \/ Cardinality(ActiveOf(u) \cup {id}) = Cardinality(ActiveOf(u))
               \/ Cardinality(ActiveOf(u) \cup {id}) = Cardinality(ActiveOf(u)) + 1
        BY <4>1, FS_AddElement
      <4> QED BY <4>1, <4>2
    <3>4. /\ Cardinality(ActiveOf(u)') \in Nat
          /\ Cardinality(ActiveOf(u)') <= Cardinality(ActiveOf(u) \cup {id})
      BY <2>6, <3>3, FS_Subset, FS_CardinalityType
    <3>5. Cardinality(ActiveOf(u) \cup {id}) \in Nat
      BY <3>3, FS_CardinalityType
    <3> QED BY <1>0, <3>2, <3>3, <3>4, <3>5, CountsAreFinite, TokensAssumption
  <2>8. CASE u # creating[r].user
    <3>1. id \notin ActiveOf(u)'
      BY <2>4, <2>8 DEF ActiveOf
    <3> QED BY <2>5, <2>6, <3>1, <1>1
  <2> QED BY <2>7, <2>8
<1>4. ASSUME NEW r \in Requests, CreateFails(r)
      PROVE  ActiveOf(u)' \subseteq ActiveOf(u) /\ CreatingFor(u)' \subseteq CreatingFor(u)
  <2>1. tokens' = tokens /\ now' = now /\ creating' = [creating EXCEPT ![r] = NoRequest]
    BY <1>4 DEF CreateFails
  <2> QED BY <2>1 DEF ActiveOf, Active, CreatingFor, TypeOK
<1>5. ASSUME NEW u0 \in Users, NEW id \in Ids, Revoke(u0, id)
      PROVE  ActiveOf(u)' \subseteq ActiveOf(u) /\ CreatingFor(u)' \subseteq CreatingFor(u)
  <2>1. /\ tokens' = [tokens EXCEPT ![id] = [tokens[id] EXCEPT !.revoked = TRUE]]
        /\ creating' = creating /\ now' = now
    BY <1>5 DEF Revoke
  <2>2. \A j \in Ids : j # id => tokens'[j] = tokens[j]
    BY <2>1 DEF TypeOK
  <2>3. tokens'[id].revoked
    <3>1. tokens[id] \in Token
      BY <1>5 DEF Revoke, TypeOK
    <3> QED BY <2>1, <3>1 DEF TypeOK, Token
  <2> QED BY <2>1, <2>2, <2>3 DEF ActiveOf, Active, CreatingFor
<1>6. ASSUME NEW id \in Ids, Touch(id)
      PROVE  ActiveOf(u)' \subseteq ActiveOf(u) /\ CreatingFor(u)' \subseteq CreatingFor(u)
  <2>1. /\ tokens' = [tokens EXCEPT ![id] = [tokens[id] EXCEPT !.lastUsed = now]]
        /\ creating' = creating /\ now' = now
    BY <1>6 DEF Touch
  <2>2. tokens[id] \in Token /\ tokens[id] # NoToken
    BY <1>6, TokensNullAssumption DEF Touch, TypeOK
  <2>3. /\ \A j \in Ids : j # id => tokens'[j] = tokens[j]
        /\ tokens'[id].user = tokens[id].user
        /\ tokens'[id].expires = tokens[id].expires
        /\ tokens'[id].revoked = tokens[id].revoked
    BY <2>1, <2>2 DEF TypeOK, Token
  <2> QED BY <2>1, <2>2, <2>3 DEF ActiveOf, Active, CreatingFor
<1>7. ASSUME NEW id \in Ids, Lookup(id) \/ TouchFails(id)
      PROVE  ActiveOf(u)' \subseteq ActiveOf(u) /\ CreatingFor(u)' \subseteq CreatingFor(u)
  BY <1>7 DEF Lookup, TouchFails, ActiveOf, Active, CreatingFor
<1>8. CASE Tick \/ UNCHANGED vars
  <2>1. /\ tokens' = tokens /\ creating' = creating
        /\ now \in Nat /\ now' \in Nat /\ now' >= now
    BY <1>8, TokensAssumption DEF Tick, vars, TypeOK
  <2>2. ASSUME NEW j \in Ids, Active(j)' PROVE Active(j)
    <3>1. tokens[j] # NoToken /\ ~ tokens[j].revoked /\ tokens[j] \in Token
      BY <2>1, <2>2 DEF Active, TypeOK
    <3>2. tokens[j].expires \in Expiries
      BY <3>1 DEF Token
    <3>3. tokens[j].expires = Never \/ tokens[j].expires > now'
      BY <2>1, <2>2 DEF Active
    <3>4. tokens[j].expires = Never \/ tokens[j].expires > now
      BY <2>1, <3>2, <3>3 DEF Expiries, Never
    <3> QED BY <3>1, <3>4 DEF Active
  <2>3. ActiveOf(u)' \subseteq ActiveOf(u) /\ CreatingFor(u)' \subseteq CreatingFor(u)
    BY <2>1, <2>2 DEF ActiveOf, CreatingFor
  <2> QED BY <2>3, <1>1
<1> QED BY <1>1, <1>2, <1>3, <1>4, <1>5, <1>6, <1>7, <1>8 DEF Next

\* However many create requests race, a user never has more than
\* MaxActiveTokens - 1 + Cardinality(Requests) active tokens, the requests
\* already past their check included.
THEOREM LimitBounded == Spec => []LimitWithinConcurrency
<1>1. Init => LimitWithinConcurrency
  <2> SUFFICES ASSUME Init, NEW u \in Users
               PROVE  Cardinality(ActiveOf(u)) + Cardinality(CreatingFor(u))
                        <= MaxActiveTokens - 1 + Cardinality(Requests)
    BY DEF LimitWithinConcurrency
  <2>1. ActiveOf(u) = {} /\ CreatingFor(u) = {}
    BY DEF Init, ActiveOf, Active, CreatingFor
  <2> QED BY <2>1, FS_EmptySet, CountsAreFinite, TokensAssumption
<1>2. TypeOK /\ LimitWithinConcurrency /\ [Next]_vars => LimitWithinConcurrency'
  BY StepKeepsLimit
<1> QED BY <1>1, <1>2, TokensTypeCorrect, PTL DEF Spec

\* A revoked token stays revoked, and no token changes owner or expiry,
\* whatever lookups, goroutines and requests run beside it.
THEOREM RevocationStands == Spec => RevocationIsFinal
<1> DEFINE Kept(id) ==
      tokens[id] # NoToken =>
        /\ tokens'[id] # NoToken
        /\ tokens[id].revoked => tokens'[id].revoked
        /\ tokens'[id].user = tokens[id].user
        /\ tokens'[id].expires = tokens[id].expires
<1>1. ASSUME TypeOK, [Next]_vars, NEW i \in Ids PROVE Kept(i)
  <2>1. CASE tokens' = tokens
    BY <2>1
  <2>2. ASSUME NEW r \in Requests, InsertToken(r) PROVE Kept(i)
    <3>1. PICK id \in Ids :
            /\ tokens[id] = NoToken
            /\ tokens' = [tokens EXCEPT ![id] =
                 [user |-> creating[r].user, expires |-> creating[r].expires,
                  revoked |-> FALSE, lastUsed |-> NoTime]]
      BY <2>2 DEF InsertToken
    <3> QED BY <1>1, <3>1 DEF TypeOK
  <2>3. ASSUME NEW u \in Users, NEW id \in Ids, Revoke(u, id) PROVE Kept(i)
    <3>1. tokens' = [tokens EXCEPT ![id] = [tokens[id] EXCEPT !.revoked = TRUE]]
      BY <2>3 DEF Revoke
    <3>2. tokens[id] \in Token
      BY <1>1, <2>3 DEF Revoke, TypeOK
    <3>3. [tokens[id] EXCEPT !.revoked = TRUE] \in Token
      BY <3>2 DEF Token
    <3>4. CASE i = id
      BY <1>1, <3>1, <3>2, <3>3, <3>4, TokensNullAssumption DEF TypeOK, Token
    <3>5. CASE i # id
      BY <1>1, <3>1, <3>5 DEF TypeOK
    <3> QED BY <3>4, <3>5
  <2>4. ASSUME NEW id \in Ids, Touch(id) PROVE Kept(i)
    <3>1. tokens' = [tokens EXCEPT ![id] = [tokens[id] EXCEPT !.lastUsed = now]]
      BY <2>4 DEF Touch
    <3>2. tokens[id] \in Token /\ now \in 0..MaxTime
      BY <1>1, <2>4 DEF Touch, TypeOK
    <3>3. [tokens[id] EXCEPT !.lastUsed = now] \in Token
      BY <3>2 DEF Token
    <3>4. CASE i = id
      BY <1>1, <3>1, <3>2, <3>3, <3>4, TokensNullAssumption DEF TypeOK, Token
    <3>5. CASE i # id
      BY <1>1, <3>1, <3>5 DEF TypeOK
    <3> QED BY <3>4, <3>5
  <2> HIDE DEF Kept
  <2> QED BY <1>1, <2>1, <2>2, <2>3, <2>4
          DEF Next, vars, CountActive, CreateFails, Lookup, TouchFails, Tick
<1>2. TypeOK /\ [Next]_vars => [\A id \in Ids : Kept(id)]_vars
  BY <1>1
<1> QED BY <1>2, TokensTypeCorrect, PTL DEF Spec, RevocationIsFinal

-----------------------------------------------------------------------------
(* Types and the steps of Tokens. *)

\* The identity a request acts under is a user.
LEMMA SAMLUserIsUser ==
  ASSUME WebTypeOK, NEW b \in Browsers
  PROVE  SAMLUser(session[b]) \in Users
BY WebAssumption DEF WebTypeOK, SAMLUser, Session, Accounts

\* Whatever a browser does, api_tokens takes a step of Tokens or none.
LEMMA WebStepIsTokensStep ==
  ASSUME WebTypeOK, [WebNext]_allVars
  PROVE  [Next]_vars
<1>1. ASSUME NEW u \in Accounts, AssignRole(u) PROVE [Next]_vars
  BY <1>1 DEF AssignRole
<1>2. ASSUME NEW b \in Browsers, NEW u \in Accounts, Login(b, u) PROVE [Next]_vars
  BY <1>2 DEF Login
<1>3. ASSUME NEW b \in Browsers, SessionExpires(b) \/ Logout(b) \/ Index(b) \/ List(b)
      PROVE  [Next]_vars
  BY <1>3 DEF SessionExpires, Logout, Index, List
<1>4. ASSUME NEW b \in Browsers, NEW bearer, NEW r \in Requests, NEW days \in Lifetimes,
             Create(r, b, bearer, days)
      PROVE  [Next]_vars
  BY <1>4, SAMLUserIsUser DEF Create, Next
<1>5. ASSUME NEW b \in Browsers, NEW bearer, NEW id \in Ids, RevokeOwn(b, bearer, id)
      PROVE  [Next]_vars
  BY <1>5, SAMLUserIsUser DEF RevokeOwn, Next
<1>6. ASSUME NEW id \in Ids, UseToken(id) PROVE [Next]_vars
  BY <1>6 DEF UseToken, Next
<1>7. CASE TokenStep
  BY <1>7 DEF TokenStep, Next
<1>8. CASE UNCHANGED allVars
  BY <1>8 DEF allVars
<1> QED BY <1>1, <1>2, <1>3, <1>4, <1>5, <1>6, <1>7, <1>8 DEF WebNext

\* The menu leads to registered routes.
LEMMA LinksAreRoutes ==
  ASSUME NEW s
  PROVE  NavLinks(s) \subseteq DataRoutes \cup AdminRoutes
BY DEF NavLinks, DataRoutes, AdminRoutes

\* The routes depend on the configuration only.
LEMMA RoutesStay ==
  ASSUME config' = config
  PROVE  DataRoutes' = DataRoutes
BY DEF DataRoutes

\* Sessions, pages and entitlements are well typed, sessions exist only with
\* SAML, and every link a page shows leads to a route that is registered.
LEMMA WebTypesStay ==
  ASSUME WebTypeOK, [WebNext]_allVars
  PROVE  WebTypeOK'
<1> USE DEF WebTypeOK
<1>1. ASSUME NEW u \in Accounts, AssignRole(u) PROVE WebTypeOK'
  BY <1>1, RoutesStay DEF AssignRole
<1>2. ASSUME NEW b \in Browsers, NEW u \in Accounts, Login(b, u) PROVE WebTypeOK'
  <2>1. [user |-> u, admin |-> u \in admins] \in Session
    BY DEF Session
  <2>2. EmptyPage \in [links: SUBSET (DataRoutes \cup AdminRoutes), ids: SUBSET Ids]
    BY DEF EmptyPage
  <2>3. {u} \cap admins \subseteq Users /\ {u} \subseteq Users
    BY DEF Accounts
  <2> QED BY <1>2, <2>1, <2>2, <2>3, RoutesStay DEF Login
<1>3. ASSUME NEW b \in Browsers, SessionExpires(b) PROVE WebTypeOK'
  BY <1>3, RoutesStay DEF SessionExpires
<1>4. ASSUME NEW b \in Browsers, Logout(b) PROVE WebTypeOK'
  <2>1. EmptyPage \in [links: SUBSET (DataRoutes \cup AdminRoutes), ids: SUBSET Ids]
    BY DEF EmptyPage
  <2> QED BY <1>4, <2>1, RoutesStay DEF Logout
<1>5. ASSUME NEW b \in Browsers, Index(b) PROVE WebTypeOK'
  BY <1>5, RoutesStay, LinksAreRoutes DEF Index
<1>6. ASSUME NEW b \in Browsers, List(b) PROVE WebTypeOK'
  BY <1>6, RoutesStay DEF List, Listed
<1>7. CASE UNCHANGED webVars
  BY <1>7, RoutesStay DEF webVars
<1> QED BY <1>1, <1>2, <1>3, <1>4, <1>5, <1>6, <1>7
        DEF WebNext, Create, RevokeOwn, UseToken, TokenStep, allVars

LEMMA WebTypesBegin == WebInit => WebTypeOK
BY WebAssumption DEF WebInit, WebTypeOK, EmptyPage

\* Sessions, pages and entitlements stay well typed under every step.
THEOREM WebTypesCorrect == WebSpec => []WebTypeOK
<1>1. WebTypeOK /\ [WebNext]_allVars => WebTypeOK'
  BY WebTypesStay
<1> QED BY <1>1, WebTypesBegin, PTL DEF WebSpec

\* The application implements Tokens: sessions, roles, routes and pages add no
\* way to change api_tokens.
THEOREM WebImplementsTokens == WebSpec => ImplementsTokens
<1>1. WebInit => Init
  BY DEF WebInit
<1>2. WebTypeOK /\ [WebNext]_allVars => [Next]_vars
  BY WebStepIsTokensStep
<1> QED BY <1>1, <1>2, WebTypesCorrect, PTL DEF WebSpec, ImplementsTokens, Spec

\* What is proved of Tokens holds in the application; here the types.
LEMMA TokensStayTyped == WebSpec => []TypeOK
BY WebImplementsTokens, TokensTypeCorrect, PTL DEF ImplementsTokens

-----------------------------------------------------------------------------
(* Entitlement. *)

\* Whoever the guards take for an administrator is recorded as entitled.
AdminsEntitled ==
  /\ ~config.saml => Local \in entitled
  /\ \A b \in Browsers :
       session[b] # NoSession /\ hasAdminRole(session[b]) => session[b].user \in entitled

EntitledInv == AdminsEntitled /\ TokensOnlyForEntitled

\* A request that passes protectAdmin acts for an entitled user.
LEMMA AdminIsEntitled ==
  ASSUME WebTypeOK, AdminsEntitled, NEW b \in Browsers, protectAdmin(session[b])
  PROVE  SAMLUser(session[b]) \in entitled
BY DEF WebTypeOK, AdminsEntitled, protectAdmin, protect, SAMLUser

\* The token routes are behind protectAdmin, with or without a bearer token.
LEMMA TokenRoutesAreAdmin ==
  ASSUME NEW s, NEW bearer,
         NEW route \in {"/tokens", "GET /api/tokens", "POST /api/tokens", "DELETE /api/tokens", "/swagger"}
  PROVE  Admits(route, s, bearer) = protectAdmin(s)
<1>1. route \in AdminRoutes /\ route \notin DataRoutes /\ route \notin BrowserRoutes
  BY DEF AdminRoutes, DataRoutes, BrowserRoutes
<1> QED BY <1>1 DEF Admits

\* No step makes anyone an administrator who is not recorded.
LEMMA AdminsStayEntitled ==
  ASSUME WebTypeOK, AdminsEntitled, [WebNext]_allVars
  PROVE  AdminsEntitled' /\ entitled \subseteq entitled'
<1> USE DEF AdminsEntitled, WebTypeOK, hasAdminRole
<1>1. ASSUME NEW u \in Accounts, AssignRole(u)
      PROVE  AdminsEntitled' /\ entitled \subseteq entitled'
  BY <1>1 DEF AssignRole
<1>2. ASSUME NEW b \in Browsers, NEW u \in Accounts, Login(b, u)
      PROVE  AdminsEntitled' /\ entitled \subseteq entitled'
  <2>1. entitled \subseteq entitled' /\ config' = config /\ config.saml
    BY <1>2 DEF Login
  <2>2. ASSUME NEW d \in Browsers, session'[d] # NoSession, hasAdminRole(session[d])'
        PROVE  session'[d].user \in entitled'
    <3>1. CASE d # b
      BY <1>2, <2>1, <2>2, <3>1 DEF Login
    <3>2. CASE d = b
      <4>1. session'[b] = [user |-> u, admin |-> u \in admins]
        BY <1>2 DEF Login
      <4>2. config.adminRole => u \in admins
        <5>1. config.adminRole => session'[b].admin
          BY <2>1, <2>2, <3>2, Zenon
        <5>2. ASSUME NEW role PROVE [user |-> u, admin |-> role].admin = role
          OBVIOUS
        <5>3. session'[b].admin = (u \in admins)
          BY <4>1, <5>2, Zenon
        <5> QED BY <5>1, <5>3, Zenon
      <4>3. u \in entitled'
        BY <1>2, <4>2 DEF Login
      <4> QED BY <3>2, <4>1, <4>3
    <3> QED BY <3>1, <3>2
  <2> QED BY <2>1, <2>2
<1>3. ASSUME NEW b \in Browsers, SessionExpires(b)
      PROVE  AdminsEntitled' /\ entitled \subseteq entitled'
  BY <1>3 DEF SessionExpires
<1>4. ASSUME NEW b \in Browsers, Logout(b)
      PROVE  AdminsEntitled' /\ entitled \subseteq entitled'
  BY <1>4 DEF Logout
<1>5. ASSUME NEW b \in Browsers, Index(b) \/ List(b)
      PROVE  AdminsEntitled' /\ entitled \subseteq entitled'
  BY <1>5 DEF Index, List
<1>6. CASE UNCHANGED webVars
  BY <1>6 DEF webVars
<1> QED BY <1>1, <1>2, <1>3, <1>4, <1>5, <1>6
        DEF WebNext, Create, RevokeOwn, UseToken, TokenStep, allVars

\* A create request is started by an entitled user, and what it stores, in a
\* later step, is that user's.
LEMMA EntitlementStays ==
  ASSUME TypeOK, WebTypeOK, EntitledInv, [WebNext]_allVars
  PROVE  EntitledInv'
<1>1. AdminsEntitled' /\ entitled \subseteq entitled'
  BY AdminsStayEntitled DEF EntitledInv
<1> SUFFICES TokensOnlyForEntitled'
  BY <1>1 DEF EntitledInv
<1> USE DEF EntitledInv, TokensOnlyForEntitled
<1>2. CASE UNCHANGED <<tokens, creating>>
  BY <1>1, <1>2
<1>3. ASSUME NEW b \in Browsers, NEW bearer, NEW r \in Requests, NEW days \in Lifetimes,
             Create(r, b, bearer, days)
      PROVE  TokensOnlyForEntitled'
  <2>1. SAMLUser(session[b]) \in entitled
    BY <1>3, AdminIsEntitled, TokenRoutesAreAdmin DEF Create
  <2> QED BY <1>1, <1>3, <2>1 DEF Create, CountActive, TypeOK
<1>4. ASSUME NEW b \in Browsers, NEW bearer, NEW id \in Ids, RevokeOwn(b, bearer, id)
      PROVE  TokensOnlyForEntitled'
  BY <1>1, <1>4 DEF RevokeOwn, Revoke, TypeOK, Token
<1>5. ASSUME NEW r \in Requests, InsertToken(r) PROVE TokensOnlyForEntitled'
  BY <1>1, <1>5 DEF InsertToken, TypeOK
<1>6. ASSUME NEW r \in Requests, CreateFails(r) PROVE TokensOnlyForEntitled'
  BY <1>1, <1>6 DEF CreateFails, TypeOK
<1>7. ASSUME NEW id \in Ids, Touch(id) PROVE TokensOnlyForEntitled'
  BY <1>1, <1>7 DEF Touch, TypeOK, Token
<1>8. CASE \/ \E u \in Accounts : AssignRole(u)
           \/ \E b \in Browsers : \/ \E u \in Accounts : Login(b, u)
                                  \/ SessionExpires(b) \/ Logout(b) \/ Index(b) \/ List(b)
           \/ \E id \in Ids : UseToken(id) \/ TouchFails(id)
           \/ Tick
           \/ UNCHANGED allVars
  BY <1>2, <1>8 DEF AssignRole, Login, SessionExpires, Logout, Index, List, UseToken, Lookup,
                    TouchFails, Tick, vars, allVars
<1> QED BY <1>3, <1>4, <1>5, <1>6, <1>7, <1>8 DEF WebNext, TokenStep

\* Only users who had a session that may manage tokens ever own one, for any
\* number of browsers and requests: a leaked bearer token mints nothing.
THEOREM OnlyEntitledOwnTokens == WebSpec => []TokensOnlyForEntitled
<1>1. WebInit => EntitledInv
  BY DEF WebInit, Init, EntitledInv, AdminsEntitled, TokensOnlyForEntitled
<1>2. TypeOK /\ WebTypeOK /\ EntitledInv /\ [WebNext]_allVars => EntitledInv'
  BY EntitlementStays
<1>3. EntitledInv => TokensOnlyForEntitled
  BY DEF EntitledInv
<1> QED BY <1>1, <1>2, <1>3, TokensStayTyped, WebTypesCorrect, PTL DEF WebSpec

-----------------------------------------------------------------------------
(* Pages. *)

\* A page shows what the guards allowed its session when it was rendered.
PageOf(b) ==
  /\ page[b].links \subseteq NavLinks(session[b])
  /\ page[b].ids # {} => protectAdmin(session[b])
  /\ \A id \in page[b].ids : tokens[id] # NoToken /\ tokens[id].user = SAMLUser(session[b])

PageInv == \A b \in Browsers : protect(session[b]) => PageOf(b)

\* A token keeps its owner.
LEMMA OwnerStays ==
  ASSUME TypeOK, [Next]_vars, NEW id \in Ids, tokens[id] # NoToken
  PROVE  tokens'[id] # NoToken /\ tokens'[id].user = tokens[id].user
<1> USE TokensNullAssumption DEF TypeOK, Token
<1>1. ASSUME NEW r \in Requests, InsertToken(r)
      PROVE  tokens'[id] # NoToken /\ tokens'[id].user = tokens[id].user
  BY <1>1 DEF InsertToken
<1>2. ASSUME NEW u \in Users, NEW i \in Ids, Revoke(u, i)
      PROVE  tokens'[id] # NoToken /\ tokens'[id].user = tokens[id].user
  BY <1>2 DEF Revoke
<1>3. ASSUME NEW i \in Ids, Touch(i)
      PROVE  tokens'[id] # NoToken /\ tokens'[id].user = tokens[id].user
  BY <1>3 DEF Touch
<1>4. CASE UNCHANGED tokens
  BY <1>4
<1> QED BY <1>1, <1>2, <1>3, <1>4
        DEF Next, CountActive, CreateFails, Lookup, TouchFails, Tick, vars

\* A page that nobody touched stays right while its session is the same.
LEMMA PageStays ==
  ASSUME TypeOK, WebTypeOK, [Next]_vars, NEW b \in Browsers,
         config' = config, session'[b] = session[b], page'[b] = page[b],
         protect(session[b]) => PageOf(b)
  PROVE  (protect(session[b]) => PageOf(b))'
<1> SUFFICES ASSUME protect(session[b])' PROVE PageOf(b)'
  OBVIOUS
<1>1. protect(session[b]) /\ PageOf(b)
  BY DEF protect
<1>2. NavLinks(session[b])' = NavLinks(session[b])
  BY DEF NavLinks, hasAdminRole
<1>3. protectAdmin(session[b])' = protectAdmin(session[b])
  BY DEF protectAdmin, protect, hasAdminRole
<1>4. SAMLUser(session[b])' = SAMLUser(session[b])
  BY DEF SAMLUser
<1>5. page[b].ids \subseteq Ids
  BY DEF WebTypeOK
<1> QED BY <1>1, <1>2, <1>3, <1>4, <1>5, OwnerStays DEF PageOf

\* An empty page promises nothing.
LEMMA EmptyPageIsRight ==
  ASSUME NEW b, page'[b] = EmptyPage
  PROVE  PageOf(b)'
BY DEF PageOf, EmptyPage

LEMMA PagesStay ==
  ASSUME TypeOK, WebTypeOK, PageInv, [WebNext]_allVars
  PROVE  PageInv'
<1>1. [Next]_vars
  BY WebStepIsTokensStep
<1> SUFFICES ASSUME NEW d \in Browsers PROVE (protect(session[d]) => PageOf(d))'
  BY DEF PageInv
<1> DEFINE Same == config' = config /\ session'[d] = session[d] /\ page'[d] = page[d]
<1>2. CASE Same
  BY <1>1, <1>2, PageStays DEF PageInv
<1> HIDE DEF Same
<1>3. ASSUME NEW u \in Accounts, AssignRole(u) PROVE Same
  BY <1>3 DEF AssignRole, Same
<1>4. ASSUME NEW b \in Browsers, NEW u \in Accounts, Login(b, u)
      PROVE  (protect(session[d]) => PageOf(d))'
  <2>1. CASE d = b
    BY <1>4, <2>1, EmptyPageIsRight DEF Login, WebTypeOK
  <2>2. CASE d # b
    BY <1>2, <1>4, <2>2 DEF Login, WebTypeOK, Same
  <2> QED BY <2>1, <2>2
<1>5. ASSUME NEW b \in Browsers, SessionExpires(b)
      PROVE  (protect(session[d]) => PageOf(d))'
  <2>1. CASE d = b
    BY <1>5, <2>1 DEF SessionExpires, WebTypeOK, protect
  <2>2. CASE d # b
    BY <1>2, <1>5, <2>2 DEF SessionExpires, WebTypeOK, Same
  <2> QED BY <2>1, <2>2
<1>6. ASSUME NEW b \in Browsers, Logout(b)
      PROVE  (protect(session[d]) => PageOf(d))'
  <2>1. CASE d = b
    BY <1>6, <2>1, EmptyPageIsRight DEF Logout, WebTypeOK
  <2>2. CASE d # b
    BY <1>2, <1>6, <2>2 DEF Logout, WebTypeOK, Same
  <2> QED BY <2>1, <2>2
<1>7. ASSUME NEW b \in Browsers, Index(b)
      PROVE  (protect(session[d]) => PageOf(d))'
  <2>1. CASE d = b
    <3>1. page'[b] = [links |-> NavLinks(session[b]), ids |-> {}]
      BY <1>7 DEF Index, WebTypeOK
    <3>2. NavLinks(session[b])' = NavLinks(session[b])
      BY <1>7 DEF Index, NavLinks, hasAdminRole
    <3> QED BY <2>1, <3>1, <3>2 DEF PageOf
  <2>2. CASE d # b
    BY <1>2, <1>7, <2>2 DEF Index, WebTypeOK, Same
  <2> QED BY <2>1, <2>2
<1>8. ASSUME NEW b \in Browsers, List(b)
      PROVE  (protect(session[d]) => PageOf(d))'
  <2>1. CASE d = b
    <3>1. page'[b] = [links |-> {}, ids |-> Listed(SAMLUser(session[b]))]
      BY <1>8 DEF List, WebTypeOK
    <3>2. protectAdmin(session[b])'
      <4>1. protectAdmin(session[b])
        BY <1>8, TokenRoutesAreAdmin DEF List
      <4> QED BY <1>8, <4>1 DEF List, protectAdmin, protect, hasAdminRole
    <3>3. SAMLUser(session[b])' = SAMLUser(session[b]) /\ tokens' = tokens
      BY <1>8 DEF List, SAMLUser, vars
    <3> QED BY <2>1, <3>1, <3>2, <3>3 DEF PageOf, Listed
  <2>2. CASE d # b
    BY <1>2, <1>8, <2>2 DEF List, WebTypeOK, Same
  <2> QED BY <2>1, <2>2
<1>9. CASE UNCHANGED webVars
  BY <1>2, <1>9 DEF webVars, Same
<1> QED BY <1>2, <1>3, <1>4, <1>5, <1>6, <1>7, <1>8, <1>9
        DEF WebNext, Create, RevokeOwn, UseToken, TokenStep, allVars

\* The menu and the guards agree.
LEMMA LinksAreAdmitted ==
  ASSUME NEW s, protect(s), NEW link \in NavLinks(s)
  PROVE  Admits(link, s, NoBearer)
<1>1. CASE link = "/dbview" /\ config.dbview
  <2>1. link \in DataRoutes /\ link \notin BrowserRoutes /\ link \notin AdminRoutes
    BY <1>1 DEF DataRoutes, BrowserRoutes, AdminRoutes
  <2> QED BY <2>1 DEF Admits, BearerOrSAML
<1>2. CASE link \in {"/tokens", "/swagger"} /\ hasAdminRole(s)
  BY <1>2, TokenRoutesAreAdmin DEF protectAdmin
<1> QED BY <1>1, <1>2 DEF NavLinks

\* A browser whose session is alive can follow every link and manage every
\* token on display, in every configuration and whatever roles change.
THEOREM PagesWork == WebSpec => []PageWorks
<1>1. WebInit => PageInv
  BY DEF WebInit, PageInv, PageOf, EmptyPage
<1>2. TypeOK /\ WebTypeOK /\ PageInv /\ [WebNext]_allVars => PageInv'
  BY PagesStay
<1>3. PageInv => PageWorks
  BY LinksAreAdmitted, TokenRoutesAreAdmin DEF PageInv, PageOf, PageWorks
<1> QED BY <1>1, <1>2, <1>3, TokensStayTyped, WebTypesCorrect, PTL DEF WebSpec
=============================================================================
