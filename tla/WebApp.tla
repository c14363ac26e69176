------------------------------- MODULE WebApp -------------------------------
(***************************************************************************)
(* Access control of the web application: the route table and guards of    *)
(* webapp/main.go, hasAdminRole of saml.go, SAMLUser and BearerOrSAML of   *)
(* tokens/auth.go, composed with the tokens they protect (Tokens).  The    *)
(* SAML session is a signed cookie of the browser with the user and the    *)
(* roles the identity provider asserted at login; the provider and samlsp  *)
(* are external.                                                           *)
(***************************************************************************)
EXTENDS Tokens

CONSTANTS
  Browsers,
  Configs,      \* environments: SAML_ENABLED, SAML_ADMIN_ROLE set, DBVIEW_ENABLED
  Local,        \* SAMLUser's "local"
  NoSession,
  NoBearer      \* no Authorization header, or one that is no pfk_ token

ASSUME WebAssumption ==
  /\ Configs \subseteq [saml: BOOLEAN, adminRole: BOOLEAN, dbview: BOOLEAN]
  /\ Local \in Users /\ NoBearer \notin Ids

VARIABLES
  config,       \* the environment main was started with
  admins,       \* users to whom the identity provider assigns the role
  session,      \* per browser: the session cookie
  page,         \* per browser: menu links and token ids on display
  entitled      \* history: users who had a session that may manage tokens

webVars == <<config, admins, session, page, entitled>>
allVars == <<vars, webVars>>

Accounts == Users \ {Local}
Session == [user: Accounts, admin: BOOLEAN]

-----------------------------------------------------------------------------
(* Guards. *)

\* Mutant: a session without the role is enough.
hasAdminRole_any(s) == TRUE

hasAdminRole(s) ==
  ~config.saml \/ ~config.adminRole \/ (s # NoSession /\ s.admin)

\* samlsp's RequireAccount (without a session: redirected to the provider);
\* no middleware when SAML is off.
protect(s) == ~config.saml \/ s # NoSession

protectAdmin(s) == protect(s) /\ hasAdminRole(s)

\* A pfk_ token decides alone, whatever the session.
BearerOrSAML(s, bearer) == IF bearer # NoBearer THEN Active(bearer) ELSE protect(s)

\* The modules' Routes, as main calls them.
DataRoutes ==
  {"/api/search", "/api/port", "/api/portlookup", "/api/vlans", "/api/rdns"} \cup
  (IF config.dbview THEN {"/dbview", "/api/db-inspect", "/api/db-inspect-table"} ELSE {})
BrowserRoutes == {"/", "/api/me", "/logout"}
AdminRoutes == {"/tokens", "GET /api/tokens", "POST /api/tokens", "DELETE /api/tokens",
                "/swagger", "/api/openapi.json"}

\* Mutant: the token routes are registered like the data routes.
Admits_tokensAsData(route, s, bearer) ==
  CASE route \in DataRoutes \cup AdminRoutes -> BearerOrSAML(s, bearer)
    [] route \in BrowserRoutes -> protect(s)

Admits(route, s, bearer) ==
  CASE route \in DataRoutes -> BearerOrSAML(s, bearer)
    [] route \in BrowserRoutes -> protect(s)
    [] route \in AdminRoutes -> protectAdmin(s)

SAMLUser(s) == IF s = NoSession THEN Local ELSE s.user

\* Mutant: the menu is not filtered.
NavLinks_all(s) == {"/tokens", "/swagger"} \cup (IF config.dbview THEN {"/dbview"} ELSE {})

\* Mutant: the link of a module that is switched off stays.
NavLinks_dbview(s) == {"/dbview"} \cup (IF hasAdminRole(s) THEN {"/tokens", "/swagger"} ELSE {})

\* The index page's links: AdminOnly ones for administrators.
NavLinks(s) ==
  (IF config.dbview THEN {"/dbview"} ELSE {}) \cup
  (IF hasAdminRole(s) THEN {"/tokens", "/swagger"} ELSE {})

EmptyPage == [links |-> {}, ids |-> {}]

-----------------------------------------------------------------------------
\* Types; sessions exist only with SAML, and links lead to registered routes.
WebTypeOK ==
  /\ config \in Configs
  /\ admins \subseteq Accounts
  /\ session \in [Browsers -> Session \cup {NoSession}]
  /\ \A b \in Browsers : session[b] # NoSession => config.saml
  /\ page \in [Browsers -> [links: SUBSET (DataRoutes \cup AdminRoutes), ids: SUBSET Ids]]
  /\ entitled \subseteq Users

\* main reads the environment once and EnsureTable creates api_tokens.
\* Without SAML everyone is "local" and may manage tokens.
WebInit ==
  /\ Init
  /\ config \in Configs
  /\ admins = {}
  /\ session = [b \in Browsers |-> NoSession]
  /\ page = [b \in Browsers |-> EmptyPage]
  /\ entitled = IF config.saml THEN {} ELSE {Local}

\* External: the role is assigned to an account or taken away.
AssignRole(u) ==
  /\ config.saml
  /\ admins' = IF u \in admins THEN admins \ {u} ELSE admins \cup {u}
  /\ UNCHANGED <<vars, config, session, page, entitled>>

\* External: samlsp's /saml/ routes set the cookie after a login.
Login(b, u) ==
  /\ config.saml /\ session[b] = NoSession
  /\ session' = [session EXCEPT ![b] = [user |-> u, admin |-> u \in admins]]
  /\ page' = [page EXCEPT ![b] = EmptyPage]
  /\ entitled' = entitled \cup (IF config.adminRole THEN {u} \cap admins ELSE {u})
  /\ UNCHANGED <<vars, config, admins>>

\* External: the cookie expires; what is on display stays.
SessionExpires(b) ==
  /\ session[b] # NoSession
  /\ session' = [session EXCEPT ![b] = NoSession]
  /\ UNCHANGED <<vars, config, admins, page, entitled>>

\* Mutant: a logout forgets the user's tokens.
Logout_purges(b) ==
  /\ Admits("/logout", session[b], NoBearer)
  /\ session' = [session EXCEPT ![b] = NoSession]
  /\ page' = [page EXCEPT ![b] = EmptyPage]
  /\ tokens' = [id \in Ids |-> IF tokens[id] # NoToken /\ tokens[id].user = SAMLUser(session[b])
                               THEN NoToken ELSE tokens[id]]
  /\ UNCHANGED <<creating, touching, now, config, admins, entitled>>

\* /logout deletes the cookie (a failure is only logged) and leaves the page,
\* with or without SAML.
Logout(b) ==
  /\ Admits("/logout", session[b], NoBearer)
  /\ session' \in {session, [session EXCEPT ![b] = NoSession]}
  /\ page' = [page EXCEPT ![b] = EmptyPage]
  /\ UNCHANGED <<vars, config, admins, entitled>>

\* The index page with its menu.
Index(b) ==
  /\ Admits("/", session[b], NoBearer)
  /\ page' = [page EXCEPT ![b] = [links |-> NavLinks(session[b]), ids |-> {}]]
  /\ UNCHANGED <<vars, config, admins, session, entitled>>

\* Mutant: the tokens of all users are listed.
Listed_everyones(u) == {id \in Ids : tokens[id] # NoToken}

\* SELECT ... WHERE user_id = $1.
Listed(u) == {id \in Ids : tokens[id] # NoToken /\ tokens[id].user = u}

\* ListHandler, on the tokens page.
List(b) ==
  /\ Admits("GET /api/tokens", session[b], NoBearer)
  /\ page' = [page EXCEPT ![b] = [links |-> {}, ids |-> Listed(SAMLUser(session[b]))]]
  /\ UNCHANGED <<vars, config, admins, session, entitled>>

\* CreateHandler up to its INSERT, which comes later (InsertToken) even if
\* the session has ended by then.  A script may send a bearer token along.
Create(r, b, bearer, days) ==
  /\ Admits("POST /api/tokens", session[b], bearer)
  /\ CountActive(r, SAMLUser(session[b]), days)
  /\ UNCHANGED webVars

\* RevokeHandler.
RevokeOwn(b, bearer, id) ==
  /\ Admits("DELETE /api/tokens", session[b], bearer)
  /\ Revoke(SAMLUser(session[b]), id)
  /\ UNCHANGED webVars

\* A data request with a pfk_ token.
UseToken(id) == Lookup(id) /\ UNCHANGED webVars

TokenStep ==
  /\ \/ \E r \in Requests : InsertToken(r) \/ CreateFails(r)
     \/ \E id \in Ids : Touch(id) \/ TouchFails(id)
     \/ Tick
  /\ UNCHANGED webVars

WebNext ==
  \/ \E u \in Accounts : AssignRole(u)
  \/ \E b \in Browsers :
       \/ \E u \in Accounts : Login(b, u)
       \/ SessionExpires(b) \/ Logout(b) \/ Index(b) \/ List(b)
       \/ \E bearer \in Ids \cup {NoBearer} :
            \/ \E r \in Requests, days \in Lifetimes : Create(r, b, bearer, days)
            \/ \E id \in Ids : RevokeOwn(b, bearer, id)
  \/ \E id \in Ids : UseToken(id)
  \/ TokenStep

WebSpec == WebInit /\ [][WebNext]_allVars

-----------------------------------------------------------------------------
(* Properties *)

\* README: token management "requires a SAML browser session - a leaked bearer
\* token cannot be used to mint or revoke tokens".  Every stored token, and
\* every one about to be stored, belongs to a user who had a session with the
\* admin role (any session, if no role is configured; "local" only without
\* SAML), although creation takes two steps and sessions end in between.
TokensOnlyForEntitled ==
  /\ \A id \in Ids : tokens[id] # NoToken => tokens[id].user \in entitled
  /\ \A r \in Requests : creating[r] # NoRequest => creating[r].user \in entitled

\* A browser whose session is alive can follow every link it shows and manage
\* every token it lists: the menu's filter agrees with the guards the routes
\* were registered with, and the list with RevokeHandler's owner check.
PageWorks ==
  \A b \in Browsers : protect(session[b]) =>
    /\ \A link \in page[b].links : Admits(link, session[b], NoBearer)
    /\ \A id \in page[b].ids :
         /\ Admits("DELETE /api/tokens", session[b], NoBearer)
         /\ tokens[id].user = SAMLUser(session[b])

\* Whatever sessions, roles and routes do, the token table only sees the steps
\* of Tokens: what is proved there (the bound on the limit, final revocation)
\* holds in the application.
ImplementsTokens == Spec
=============================================================================
