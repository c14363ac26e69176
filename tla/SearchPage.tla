----------------------------- MODULE SearchPage -----------------------------
(***************************************************************************)
(* The script of the search page, webapp/views/index.html: searches whose  *)
(* answers arrive later and in any order (the button is disabled while one *)
(* runs, but Ctrl+Enter and Clear are not), a result table that is built   *)
(* anew by every answer and every click on a header, and a reverse-DNS     *)
(* request per address whose answer is written into the cells that were    *)
(* there when it was sent.  What the server answers is a parameter.        *)
(***************************************************************************)
EXTENDS Integers, Sequences, FiniteSets

CONSTANTS
  Terms,        \* what may be typed into the textarea (never empty)
  Results,      \* Results[t]: the addresses of the rows found for t
  NotFound,     \* the terms t with a not_found list
  NoIP,         \* a row without an address
  Pending,      \* a hostname cell that says "..."
  Dash,         \* a hostname cell that says "-": no address, or no name
  MaxSearches,  \* bound: searches started
  MaxClicks     \* bound: clicks on Clear and on headers

VARIABLES
  asked,        \* the searches started, in order: their terms
  inflight,     \* the searches whose fetch has not settled
  loading,      \* the spinner is shown
  disabled,     \* searchBtn.disabled
  error, empty, card, missing,   \* errorBox, emptyState, resultsCard and notFoundBox are shown
  data,         \* currentData
  cells,        \* resultBody: the address and the hostname cell of each row
  rdns,         \* reverse-DNS requests that have not settled
  clicks,
  rendered,     \* history: the search whose answer resultBody shows
  apart         \* history: the last search neither overlapped another one nor
                \* was cleared while it ran

box == <<error, empty, card, missing>>
table == <<data, cells, rdns, rendered>>
vars == <<asked, inflight, loading, disabled, box, table, clicks, apart>>

Searches == 1..MaxSearches
IPs == UNION {{Results[t][i] : i \in DOMAIN Results[t]} : t \in Terms}

ASSUME PageAssumption ==
  /\ MaxSearches \in Nat /\ MaxClicks \in Nat
  /\ NotFound \subseteq Terms
  /\ \A t \in Terms : Results[t] \in Seq(IPs)
  /\ Pending \notin IPs /\ Dash \notin IPs /\ Pending # Dash

\* The cells a request was sent for, by position; live until the table is
\* built anew, when they leave the document.
Lookup == [ip: IPs, at: SUBSET Nat, live: BOOLEAN]

\* Types; the hostname request of a pending cell is under way.
TypeOK ==
  /\ asked \in Seq(Terms) /\ Len(asked) <= MaxSearches
  /\ inflight \subseteq 1..Len(asked)
  /\ loading \in BOOLEAN /\ disabled \in BOOLEAN /\ apart \in BOOLEAN
  /\ \A shown \in {error, empty, card, missing} : shown \in BOOLEAN
  /\ data \in Seq(IPs)
  /\ cells \in Seq([ip: IPs, host: IPs \cup {Pending, Dash}])
  /\ rdns \subseteq Lookup
  /\ \A i \in DOMAIN cells : cells[i].host = Pending => \E q \in rdns : q.live /\ i \in q.at
  /\ clicks \in 0..MaxClicks /\ rendered \in 0..MaxSearches

Init ==
  /\ asked = <<>> /\ inflight = {}
  /\ loading = FALSE /\ disabled = FALSE
  /\ error = FALSE /\ empty = FALSE /\ card = FALSE /\ missing = FALSE
  /\ data = <<>> /\ cells = <<>> /\ rdns = {}
  /\ clicks = 0 /\ rendered = 0 /\ apart = TRUE

-----------------------------------------------------------------------------
(* The result table. *)

\* A fresh row: its hostname is still to come.
Row(ip) == [ip |-> ip, host |-> IF ip = NoIP THEN Dash ELSE Pending]

\* resolveHostnames: one request per address, for all its cells.
Lookups(rows) ==
  {[ip |-> ip, at |-> {i \in DOMAIN rows : rows[i] = ip}, live |-> TRUE] :
     ip \in {rows[i] : i \in DOMAIN rows} \ {NoIP}}

\* resultBody.innerHTML = buildRows(rows), then resolveHostnames; the cells of
\* earlier requests are no longer in the document.
Build(rows) ==
  /\ cells' = [i \in DOMAIN rows |-> Row(rows[i])]
  /\ rdns' = {[q EXCEPT !.live = FALSE] : q \in rdns} \cup Lookups(rows)

\* Mutant: sorting does not look the hostnames up again.
Rebuild_unresolved(rows) ==
  /\ cells' = [i \in DOMAIN rows |-> Row(rows[i])]
  /\ rdns' = {[q EXCEPT !.live = FALSE] : q \in rdns}

\* applySortAndRender.
Rebuild(rows) == Build(rows)

Orders(rows) ==
  {[i \in DOMAIN rows |-> rows[p[i]]] :
     p \in {f \in [DOMAIN rows -> DOMAIN rows] : \A i, j \in DOMAIN rows : f[i] = f[j] => i = j}}

\* A click on a header of the visible table, which sorts by its column.
Sort ==
  /\ clicks < MaxClicks /\ clicks' = clicks + 1
  /\ card /\ data # <<>>
  /\ \E rows \in Orders(data) : Rebuild(rows)
  /\ UNCHANGED <<asked, inflight, loading, disabled, box, data, rendered, apart>>

\* Mutant: the answer is written by position into whatever table there is.
Written_byPosition(q, host) ==
  [i \in DOMAIN cells |-> IF i \in q.at THEN [cells[i] EXCEPT !.host = host] ELSE cells[i]]

\* tds.forEach: a cell that has left the document is written unseen.
Written(q, host) ==
  [i \in DOMAIN cells |->
     IF q.live /\ i \in q.at THEN [cells[i] EXCEPT !.host = host] ELSE cells[i]]

\* /api/rdns answers with the name of q.ip, or with none; or the fetch fails.
Resolve(q) ==
  /\ rdns' = rdns \ {q}
  /\ \E host \in {q.ip, Dash} : cells' = Written(q, host)
  /\ UNCHANGED <<asked, inflight, loading, disabled, box, data, rendered, clicks, apart>>

-----------------------------------------------------------------------------
(* doSearch. *)

\* Mutant: the previous results stay until the answer.
doSearch_keepsCard(t) ==
  /\ Len(asked) < MaxSearches
  /\ asked' = Append(asked, t)
  /\ inflight' = inflight \cup {Len(asked) + 1}
  /\ loading' = TRUE /\ disabled' = TRUE
  /\ error' = FALSE /\ empty' = FALSE /\ missing' = FALSE
  /\ apart' = (inflight = {})
  /\ UNCHANGED <<card, table, clicks>>

\* Up to the await.
doSearch(t) ==
  /\ Len(asked) < MaxSearches
  /\ asked' = Append(asked, t)
  /\ inflight' = inflight \cup {Len(asked) + 1}
  /\ loading' = TRUE /\ disabled' = TRUE
  /\ error' = FALSE /\ empty' = FALSE /\ card' = FALSE /\ missing' = FALSE
  /\ apart' = (inflight = {})
  /\ UNCHANGED <<table, clicks>>

ClickSearch(t) == ~disabled /\ doSearch(t)
CtrlEnter(t) == doSearch(t)

\* finally: whichever search settles, the page is ready again.
Finally(n) ==
  /\ inflight' = inflight \ {n}
  /\ loading' = FALSE /\ disabled' = FALSE

\* renderResults.  Without rows, the old data stay behind the hidden card.
Answer(n) ==
  /\ n \in inflight
  /\ LET t == asked[n] IN
       /\ missing' = (t \in NotFound)
       /\ empty' = (Results[t] = <<>> /\ t \notin NotFound)
       /\ card' = (Results[t] # <<>>)
       /\ IF Results[t] # <<>>
          THEN data' = Results[t] /\ rendered' = n /\ Build(Results[t])
          ELSE UNCHANGED table
  /\ Finally(n)
  /\ UNCHANGED <<asked, error, clicks, apart>>

\* Mutant: the button is enabled again after a success only.
SearchFails_noFinally(n) ==
  /\ n \in inflight
  /\ error' = TRUE
  /\ inflight' = inflight \ {n}
  /\ UNCHANGED <<asked, loading, disabled, empty, card, missing, table, clicks, apart>>

\* The fetch is rejected, or the status is not ok.
SearchFails(n) ==
  /\ n \in inflight
  /\ error' = TRUE
  /\ Finally(n)
  /\ UNCHANGED <<asked, empty, card, missing, table, clicks, apart>>

Clear ==
  /\ clicks < MaxClicks /\ clicks' = clicks + 1
  /\ error' = FALSE /\ empty' = FALSE /\ card' = FALSE /\ missing' = FALSE
  /\ data' = <<>>
  /\ apart' = (apart /\ inflight = {})
  /\ UNCHANGED <<asked, inflight, loading, disabled, cells, rdns, rendered>>

Next ==
  \/ \E t \in Terms : ClickSearch(t) \/ CtrlEnter(t)
  \/ \E n \in inflight : Answer(n) \/ SearchFails(n)
  \/ \E q \in rdns : Resolve(q)
  \/ Sort
  \/ Clear

\* Every fetch settles.  The user need not do anything.
Fairness ==
  /\ \A n \in Searches : WF_vars(Answer(n) \/ SearchFails(n))
  /\ WF_vars(\E q \in rdns : Resolve(q))

Spec == Init /\ [][Next]_vars /\ Fairness

-----------------------------------------------------------------------------
(* Properties *)

\* What the page shows is the outcome of the last search: rows are those of
\* its answer, and an error is not shown beside them, except after searches
\* that overlapped or that were cleared before they were answered (the script
\* renders whatever arrives).
ShowsLastSearch ==
  apart => /\ card => rendered = Len(asked) /\ inflight = {}
           /\ ~(error /\ (card \/ empty \/ missing))

\* A hostname is only ever shown beside the address it was asked for, however
\* late its answer comes and whatever was rendered or sorted since; a row
\* without an address never gets one.
HostnameOfItsRow ==
  \A i \in DOMAIN cells :
    /\ cells[i].host \in {cells[i].ip, Pending, Dash}
    /\ cells[i].ip = NoIP => cells[i].host = Dash

\* A search always gives the page back, button and spinner, whichever of
\* several overlapping ones fails.
SearchEnds == (disabled \/ loading) ~> (~disabled /\ ~loading)

\* Every hostname that is being waited for is resolved or given up, after the
\* last sort too.
HostnamesResolve ==
  (\E i \in DOMAIN cells : cells[i].host = Pending) ~>
     (\A i \in DOMAIN cells : cells[i].host # Pending)
=============================================================================
