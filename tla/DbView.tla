------------------------------- MODULE DbView -------------------------------
(***************************************************************************)
(* The database view: TableHandler of webapp/internal/dbview/handler.go    *)
(* and the script of webapp/views/dbview.html.  Each tab of the page shows *)
(* one table, a page of it at a time, filtered by its search box.  The     *)
(* handler answers from three statements without a transaction; the script *)
(* reads a tab's state before it awaits the answer and again afterwards,   *)
(* and refuses to start a load while one is running.                       *)
(***************************************************************************)
EXTENDS Integers, FiniteSets

CONSTANTS
  Tabs,         \* mac, arp, interface, vlan
  Queries,      \* what may be typed into a search box
  NoQuery,      \* the empty search box
  Matches,      \* Matches[q]: the rows whose columns match q
  PageSize,     \* PAGE_SIZE
  MaxId,        \* bound: rows ever inserted into a table
  NoRequest,    \* no fetch is running
  Loading, Failed   \* a tab that shows its spinner, or an error

Ids == 1..MaxId
CeilDiv(n, d) == (n + d - 1) \div d
PageNumbers == 1..(CeilDiv(MaxId, PageSize) + 1)

ASSUME DbViewAssumption ==
  /\ Tabs # {} /\ PageSize \in Nat \ {0} /\ MaxId \in Nat
  /\ NoQuery \in Queries
  /\ Matches \in [Queries -> SUBSET Ids] /\ Matches[NoQuery] = Ids

VARIABLES
  table,        \* the rows of each table, by id
  nextId,       \* BIGSERIAL of each table
  state,        \* tableState: page, query, pages, loading
  input,        \* the text in each search box
  timer,        \* debounceTimers: a timer is running
  request,      \* the running fetch of each tab, or NoRequest
  view,         \* what each tab shows: its rows, Loading or Failed
  refreshing,   \* loadAllTables is running (refreshBtn.disabled)
  awaiting,     \* the loads its Promise.all waits for
  refused       \* history: a load was refused during the last load of the tab

vars == <<table, nextId, state, input, timer, request, view, refreshing, awaiting, refused>>

Steps == {"total", "filtered", "rows", "answer"}

Request == [page: PageNumbers, query: Queries, step: Steps, total: 0..MaxId,
            filtered: 0..MaxId, rows: SUBSET Ids, quiet: BOOLEAN]

\* Rows as shown, labelled with page and query; "of" is what was asked for.
View == [rows: SUBSET Ids, total: 0..MaxId, filtered: 0..MaxId, pages: PageNumbers,
         page: PageNumbers, query: Queries,
         of: [page: PageNumbers, query: Queries], quiet: BOOLEAN]

ASSUME MarkersAssumption ==
  NoRequest \notin Request /\ Loading \notin View /\ Failed \notin View

TypeOK ==
  /\ table \in [Tabs -> SUBSET Ids]
  /\ nextId \in [Tabs -> 1..(MaxId + 1)]
  /\ \A t \in Tabs : \A id \in table[t] : id < nextId[t]
  /\ state \in [Tabs -> [page: PageNumbers, query: Queries, pages: PageNumbers,
                         loading: BOOLEAN]]
  /\ input \in [Tabs -> Queries] /\ timer \in [Tabs -> BOOLEAN]
  /\ request \in [Tabs -> Request \cup {NoRequest}]
  /\ view \in [Tabs -> View \cup {Loading, Failed}]
  /\ refreshing \in BOOLEAN /\ awaiting \subseteq Tabs
  /\ refused \in [Tabs -> BOOLEAN]

-----------------------------------------------------------------------------
(* TableHandler *)

Found(t, q) == table[t] \cap Matches[q]

\* ORDER BY id DESC LIMIT size OFFSET offset.
Block(ids, size, offset) ==
  {id \in ids : LET above == Cardinality({j \in ids : j > id})
                IN  offset <= above /\ above < offset + size}

\* Mutant: an empty result has no page.
PagesOf_unclamped(filtered) == CeilDiv(filtered, PageSize)

\* Mutant: one page too many when the last one is full.
PagesOf_extra(filtered) == filtered \div PageSize + 1

PagesOf(filtered) == IF CeilDiv(filtered, PageSize) < 1 THEN 1 ELSE CeilDiv(filtered, PageSize)

At(t, step) == request[t] # NoRequest /\ request[t].step = step

page == <<state, input, timer, view, refreshing, awaiting, refused>>

\* SELECT COUNT(*); without a query the filtered total is the total.
ReadTotal(t) ==
  /\ At(t, "total")
  /\ LET n == Cardinality(table[t]) IN
       request' = [request EXCEPT ![t].total = n,
                     ![t].filtered = IF request[t].query = NoQuery THEN n ELSE @,
                     ![t].step = IF request[t].query = NoQuery THEN "rows" ELSE "filtered"]
  /\ UNCHANGED <<table, nextId, page>>

\* SELECT COUNT(*) ... WHERE.
ReadFiltered(t) ==
  /\ At(t, "filtered")
  /\ request' = [request EXCEPT ![t].step = "rows",
                   ![t].filtered = Cardinality(Found(t, request[t].query))]
  /\ UNCHANGED <<table, nextId, page>>

\* SELECT ... ORDER BY id DESC LIMIT OFFSET.
ReadRows(t) ==
  /\ At(t, "rows")
  /\ request' = [request EXCEPT ![t].step = "answer",
                   ![t].rows = Block(Found(t, request[t].query), PageSize,
                                     (request[t].page - 1) * PageSize)]
  /\ UNCHANGED <<table, nextId, page>>

\* The consumer inserts a row or the clean-up deletes some; a running request
\* is no longer answered from one state of the table.
Disturb(t) ==
  request' = IF request[t] = NoRequest THEN request
             ELSE [request EXCEPT ![t].quiet = FALSE]

Insert(t) ==
  /\ nextId[t] <= MaxId
  /\ table' = [table EXCEPT ![t] = @ \cup {nextId[t]}]
  /\ nextId' = [nextId EXCEPT ![t] = @ + 1]
  /\ Disturb(t)
  /\ UNCHANGED page

Delete(t, id) ==
  /\ id \in table[t]
  /\ table' = [table EXCEPT ![t] = @ \ {id}]
  /\ Disturb(t)
  /\ UNCHANGED <<nextId, page>>

-----------------------------------------------------------------------------
(* The page: starting a load *)

NewRequest(s) == [page |-> s.page, query |-> s.query, step |-> "total", total |-> 0,
                  filtered |-> 0, rows |-> {}, quiet |-> TRUE]

\* loadTable of every tab in ts, after the caller has set the tabs' states to
\* s: a tab that is loading is left alone.
LoadTables(ts, s) ==
  LET starts == {t \in ts : ~ state[t].loading} IN
    /\ state' = [t \in Tabs |-> IF t \in starts THEN [s[t] EXCEPT !.loading = TRUE] ELSE s[t]]
    /\ request' = [t \in Tabs |-> IF t \in starts THEN NewRequest(s[t]) ELSE request[t]]
    /\ view' = [t \in Tabs |-> IF t \in starts THEN Loading ELSE view[t]]
    /\ refused' = [t \in Tabs |-> IF t \in starts THEN FALSE
                                  ELSE refused[t] \/ t \in ts]

\* Mutant: the query is taken over at every key stroke.
Type_undebounced(t, q) ==
  /\ input' = [input EXCEPT ![t] = q]
  /\ timer' = [timer EXCEPT ![t] = TRUE]
  /\ state' = [state EXCEPT ![t].query = q]
  /\ UNCHANGED <<table, nextId, request, view, refreshing, awaiting, refused>>

\* An input event restarts the debounce timer.
Type(t, q) ==
  /\ input' = [input EXCEPT ![t] = q]
  /\ timer' = [timer EXCEPT ![t] = TRUE]
  /\ UNCHANGED <<table, nextId, state, request, view, refreshing, awaiting, refused>>

\* 350 ms later.
Debounce(t) ==
  /\ timer[t]
  /\ timer' = [timer EXCEPT ![t] = FALSE]
  /\ LoadTables({t}, [state EXCEPT ![t].query = input[t], ![t].page = 1])
  /\ UNCHANGED <<table, nextId, input, refreshing, awaiting>>

\* buildPagination: the pages its buttons lead to - the first, the last, a
\* window of seven, the previous and the next.
Window == 7

Buttons(p, pages) ==
  LET low == IF p - Window \div 2 < 1 THEN 1 ELSE p - Window \div 2
      end == IF low + Window - 1 > pages THEN pages ELSE low + Window - 1
      start == IF end - Window + 1 < 1 THEN 1 ELSE end - Window + 1
  IN  IF pages <= 1 THEN {}
      ELSE {1, pages} \cup start..end
           \cup (IF p <= 1 THEN {} ELSE {p - 1})
           \cup (IF p >= pages THEN {} ELSE {p + 1})

Shown(t) == view[t] \notin {Loading, Failed}

\* goPage; the buttons are hidden while a tab loads and after an error.
GoPage(t, p) ==
  /\ Shown(t)
  /\ p \in Buttons(view[t].page, view[t].pages)
  /\ 1 <= p /\ p <= state[t].pages
  /\ LoadTables({t}, [state EXCEPT ![t].page = p])
  /\ UNCHANGED <<table, nextId, input, timer, refreshing, awaiting>>

\* loadAllTables up to its await; Promise.all of no loads is done at once.
Refresh ==
  /\ ~ refreshing
  /\ LoadTables(Tabs, [t \in Tabs |-> [state[t] EXCEPT !.page = 1]])
  /\ awaiting' = {t \in Tabs : ~ state[t].loading}
  /\ refreshing' = (awaiting' # {})
  /\ UNCHANGED <<table, nextId, input, timer>>

-----------------------------------------------------------------------------
(* The page: the answer *)

\* loadTable returns; the last one lets loadAllTables go on.
Settle(t) ==
  /\ awaiting' = awaiting \ {t}
  /\ refreshing' = (awaiting' # {})
  /\ request' = [request EXCEPT ![t] = NoRequest]
  /\ UNCHANGED <<table, nextId, input, timer, refused>>

\* The answer is shown, labelled with the tab's present page and query.
LoadOk(t) ==
  /\ At(t, "answer")
  /\ LET r == request[t] IN
       /\ view' = [view EXCEPT ![t] =
            [rows |-> r.rows, total |-> r.total, filtered |-> r.filtered,
             pages |-> PagesOf(r.filtered), page |-> state[t].page,
             query |-> state[t].query,
             of |-> [page |-> r.page, query |-> r.query], quiet |-> r.quiet]]
       /\ state' = [state EXCEPT ![t].pages = PagesOf(r.filtered), ![t].loading = FALSE]
  /\ Settle(t)

\* Mutant: loading is reset after the try block, not in finally.
LoadFails_noFinally(t) ==
  /\ request[t] # NoRequest
  /\ view' = [view EXCEPT ![t] = Failed]
  /\ UNCHANGED state
  /\ Settle(t)

\* Mutant: the error is not caught, so Promise.all rejects and the rest of
\* loadAllTables is not run.
LoadFails_uncaught(t) ==
  /\ request[t] # NoRequest
  /\ view' = [view EXCEPT ![t] = Failed]
  /\ state' = [state EXCEPT ![t].loading = FALSE]
  /\ request' = [request EXCEPT ![t] = NoRequest]
  /\ UNCHANGED <<table, nextId, input, timer, refused, refreshing, awaiting>>

\* A statement failed (500), or the connection did.
LoadFails(t) ==
  /\ request[t] # NoRequest
  /\ view' = [view EXCEPT ![t] = Failed]
  /\ state' = [state EXCEPT ![t].loading = FALSE]
  /\ Settle(t)

-----------------------------------------------------------------------------
\* The script has just run its last line, loadAllTables(), on some tables.
Init ==
  /\ nextId \in [Tabs -> 1..(MaxId + 1)]
  /\ table = [t \in Tabs |-> 1..(nextId[t] - 1)]
  /\ state = [t \in Tabs |-> [page |-> 1, query |-> NoQuery, pages |-> 1, loading |-> TRUE]]
  /\ input = [t \in Tabs |-> NoQuery]
  /\ timer = [t \in Tabs |-> FALSE]
  /\ request = [t \in Tabs |-> NewRequest(state[t])]
  /\ view = [t \in Tabs |-> Loading]
  /\ refreshing = TRUE /\ awaiting = Tabs
  /\ refused = [t \in Tabs |-> FALSE]

Next ==
  \/ \E t \in Tabs : ReadTotal(t) \/ ReadFiltered(t) \/ ReadRows(t)
  \/ \E t \in Tabs : Insert(t)
  \/ \E t \in Tabs, id \in Ids : Delete(t, id)
  \/ \E t \in Tabs, q \in Queries : Type(t, q)
  \/ \E t \in Tabs : Debounce(t)
  \/ \E t \in Tabs, p \in PageNumbers : GoPage(t, p)
  \/ Refresh
  \/ \E t \in Tabs : LoadOk(t) \/ LoadFails(t)

Spec == Init /\ [][Next]_vars

\* Statements finish and a fetch settles, with an answer or an error.
Fairness ==
  \A t \in Tabs :
    WF_vars(ReadTotal(t) \/ ReadFiltered(t) \/ ReadRows(t) \/ LoadOk(t) \/ LoadFails(t))

FairSpec == Spec /\ Fairness

-----------------------------------------------------------------------------
(* Properties *)

\* No tab wedges.  loadTable refuses to run while loading is set, so the flag
\* must never outlive its fetch, and the refresh button must never be disabled
\* without a load that will enable it again.
NeverWedged ==
  /\ \A t \in Tabs : state[t].loading <=> request[t] # NoRequest
  /\ refreshing => awaiting # {} /\ \A t \in awaiting : state[t].loading

\* Rows are labelled with a page or query other than their own only when a
\* search or refresh came during the load and was refused.
MislabelledOnlyIfRefused ==
  \A t \in Tabs : Shown(t) /\ ~ refused[t] =>
    view[t].of = [page |-> view[t].page, query |-> view[t].query]

\* The paging arithmetic of handler and page agree: of a table that did not
\* change during the request, every page before the last is full, the last is
\* not empty unless nothing was found, and pages behind the last are empty.
QuietPageIsFull ==
  \A t \in Tabs : Shown(t) /\ view[t].quiet =>
    LET v == view[t] n == Cardinality(v.rows) IN
      /\ v.of.page < v.pages => n = PageSize
      /\ v.of.page = v.pages => (n > 0 \/ v.filtered = 0)
                                /\ (v.of.page - 1) * PageSize + n = v.filtered
      /\ v.of.page > v.pages => n = 0

\* loadAllTables comes to its end: the refresh button is enabled again,
\* whatever the loads return and whoever changes the tables meanwhile.
RefreshEnds == refreshing ~> ~ refreshing
=============================================================================
