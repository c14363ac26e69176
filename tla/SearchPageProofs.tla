-------------------------- MODULE SearchPageProofs --------------------------
(***************************************************************************)
(* Safety of the search page's script, for every set of terms and answers. *)
(* The inductive invariant says which cells a running reverse-DNS request  *)
(* may still write (those of its own address, as long as they are in the   *)
(* document), and that a search nobody interfered with finds the page      *)
(* empty when it is answered.                                              *)
(***************************************************************************)
EXTENDS SearchPage, TLAPS

\* A request whose cells are in the document was sent for the address in them.
LookupsInv ==
  \A q \in rdns : q.live =>
    q.ip # NoIP /\ \A i \in q.at : i \in DOMAIN cells => cells[i].ip = q.ip

\* While a search that nobody interfered with runs, it is the only one, and
\* neither results nor messages are shown.
ApartInv ==
  apart => /\ inflight \subseteq {Len(asked)}
           /\ inflight # {} => ~card /\ ~error /\ ~empty /\ ~missing

IInv == TypeOK /\ LookupsInv /\ HostnameOfItsRow /\ ApartInv /\ ShowsLastSearch

-----------------------------------------------------------------------------
(* The result table. *)

Cell == [ip: IPs, host: IPs \cup {Pending, Dash}]

\* The parts of the type invariant that are about the table.
TableOK ==
  /\ data \in Seq(IPs)
  /\ cells \in Seq(Cell)
  /\ rdns \subseteq Lookup
  /\ \A i \in DOMAIN cells : cells[i].host = Pending => \E q \in rdns : q.live /\ i \in q.at

TableInv == TableOK /\ LookupsInv /\ HostnameOfItsRow

\* The parts that are about the searches.
SearchesOK ==
  /\ asked \in Seq(Terms) /\ Len(asked) <= MaxSearches
  /\ inflight \subseteq 1..Len(asked)
  /\ rendered \in 0..MaxSearches

FlagsOK ==
  /\ loading \in BOOLEAN /\ disabled \in BOOLEAN /\ apart \in BOOLEAN
  /\ error \in BOOLEAN /\ empty \in BOOLEAN /\ card \in BOOLEAN /\ missing \in BOOLEAN
  /\ clicks \in 0..MaxClicks

\* The type invariant is the conjunction of these parts.
LEMMA TypeParts == TypeOK <=> SearchesOK /\ FlagsOK /\ TableOK
BY DEF TypeOK, SearchesOK, FlagsOK, TableOK, Cell

\* The same after a step.
LEMMA TypePartsNext == TypeOK' <=> SearchesOK' /\ FlagsOK' /\ TableOK'
BY DEF TypeOK, SearchesOK, FlagsOK, TableOK, Cell

\* A fresh row shows no name yet, and none ever if it has no address.
LEMMA RowFacts ==
  ASSUME NEW ip \in IPs
  PROVE  /\ Row(ip) \in Cell /\ Row(ip).ip = ip
         /\ Row(ip).host \in {Pending, Dash}
         /\ ip = NoIP => Row(ip).host = Dash
         /\ Row(ip).host = Pending => ip # NoIP
BY PageAssumption DEF Row, Cell

\* Every address of the rows is looked up, for the cells it is in.
LEMMA LookupsFacts ==
  ASSUME NEW rows \in Seq(IPs)
  PROVE  /\ Lookups(rows) \subseteq Lookup
         /\ \A q \in Lookups(rows) :
              q.live /\ q.ip # NoIP /\ \A i \in q.at : i \in DOMAIN rows /\ rows[i] = q.ip
         /\ \A i \in DOMAIN rows : rows[i] # NoIP => \E q \in Lookups(rows) : q.live /\ i \in q.at
<1>0. DOMAIN rows \subseteq Nat /\ \A i \in DOMAIN rows : rows[i] \in IPs
  OBVIOUS
<1> DEFINE Q(ip) == [ip |-> ip, at |-> {i \in DOMAIN rows : rows[i] = ip}, live |-> TRUE]
           Seen == {rows[i] : i \in DOMAIN rows} \ {NoIP}
<1>1. ASSUME NEW ip \in Seen
      PROVE  /\ Q(ip) \in Lookup
             /\ Q(ip).live /\ Q(ip).ip # NoIP
             /\ \A i \in Q(ip).at : i \in DOMAIN rows /\ rows[i] = Q(ip).ip
  BY <1>0 DEF Lookup
<1>2. Lookups(rows) = {Q(ip) : ip \in Seen}
  BY DEF Lookups
<1>3. ASSUME NEW i \in DOMAIN rows, rows[i] # NoIP
      PROVE  \E q \in Lookups(rows) : q.live /\ i \in q.at
  <2>1. rows[i] \in Seen
    BY <1>3
  <2>2. Q(rows[i]) \in Lookups(rows)
    BY <1>2, <2>1
  <2>3. Q(rows[i]).live /\ i \in Q(rows[i]).at
    OBVIOUS
  <2> QED BY <2>2, <2>3
<1>4. ASSUME NEW q \in Lookups(rows)
      PROVE  /\ q \in Lookup /\ q.live /\ q.ip # NoIP
             /\ \A i \in q.at : i \in DOMAIN rows /\ rows[i] = q.ip
  <2>1. PICK ip \in Seen : q = Q(ip)
    BY <1>2, <1>4
  <2> HIDE DEF Q, Seen
  <2> QED BY <1>1, <2>1
<1> QED BY <1>3, <1>4

\* Building the table anew takes the cells of all earlier requests out of the
\* document and starts a request for every address.
LEMMA BuildFacts ==
  ASSUME TableInv, NEW rows \in Seq(IPs), Build(rows)
  PROVE  /\ cells' \in Seq(Cell)
         /\ rdns' \subseteq Lookup
         /\ \A i \in DOMAIN cells' : cells'[i].host = Pending
                                       => \E q \in rdns' : q.live /\ i \in q.at
         /\ LookupsInv' /\ HostnameOfItsRow'
<1>0. /\ DOMAIN rows = 1..Len(rows) /\ Len(rows) \in Nat
      /\ \A i \in DOMAIN rows : rows[i] \in IPs
  OBVIOUS
<1>1. cells' = [i \in 1..Len(rows) |-> Row(rows[i])] /\ DOMAIN cells' = DOMAIN rows
  BY <1>0 DEF Build
<1>2. \A i \in 1..Len(rows) : Row(rows[i]) \in Cell
  BY <1>0, RowFacts
<1>3. cells' \in Seq(Cell)
  BY <1>0, <1>1, <1>2
<1>4. ASSUME NEW q \in rdns
      PROVE  [q EXCEPT !.live = FALSE] \in Lookup /\ ~ [q EXCEPT !.live = FALSE].live
  <2>1. q \in Lookup
    BY DEF TableInv, TableOK
  <2> QED BY <2>1 DEF Lookup
<1>5. \A q \in rdns' : q \in Lookup /\ (q.live => q \in Lookups(rows))
  <2>1. ASSUME NEW q \in rdns', q \notin Lookups(rows)
        PROVE  q \in Lookup /\ ~ q.live
    <3>1. PICK p \in rdns : q = [p EXCEPT !.live = FALSE]
      BY <2>1 DEF Build
    <3> QED BY <1>4, <3>1
  <2> QED BY <2>1, LookupsFacts
<1>6. \A i \in DOMAIN cells' : /\ cells'[i] = Row(rows[i]) /\ rows[i] \in IPs
  BY <1>0, <1>1
<1>7. LookupsInv'
  <2> SUFFICES ASSUME NEW q \in rdns', q.live
               PROVE  q.ip # NoIP /\ \A i \in q.at : i \in DOMAIN cells' => cells'[i].ip = q.ip
    BY DEF LookupsInv
  <2>1. /\ q.ip # NoIP
        /\ \A i \in q.at : i \in DOMAIN rows /\ rows[i] = q.ip
    BY <1>5, LookupsFacts
  <2> QED BY <1>6, <2>1, RowFacts
<1>8. HostnameOfItsRow'
  BY <1>6, RowFacts DEF HostnameOfItsRow
<1>9. ASSUME NEW i \in DOMAIN cells', cells'[i].host = Pending
      PROVE  \E q \in rdns' : q.live /\ i \in q.at
  <2>1. i \in DOMAIN rows /\ rows[i] # NoIP
    BY <1>1, <1>6, <1>9, RowFacts
  <2>2. Lookups(rows) \subseteq rdns'
    BY DEF Build
  <2> QED BY <2>1, <2>2, LookupsFacts
<1> QED BY <1>3, <1>5, <1>7, <1>8, <1>9

\* A sorted table has the same addresses.
LEMMA OrdersFacts ==
  ASSUME NEW rows \in Seq(IPs), NEW sorted \in Orders(rows)
  PROVE  sorted \in Seq(IPs)
<1>1. PICK p \in [DOMAIN rows -> DOMAIN rows] : sorted = [i \in DOMAIN rows |-> rows[p[i]]]
  BY DEF Orders
<1>2. DOMAIN rows = 1..Len(rows) /\ Len(rows) \in Nat /\ \A i \in DOMAIN rows : rows[i] \in IPs
  OBVIOUS
<1>3. \A i \in 1..Len(rows) : rows[p[i]] \in IPs
  BY <1>1, <1>2
<1> QED BY <1>1, <1>2, <1>3

\* The answer of a reverse-DNS request is written beside its own address.
LEMMA ResolveFacts ==
  ASSUME TableInv, NEW q \in rdns, Resolve(q)
  PROVE  TableInv'
<1> USE DEF TableInv
<1>0. /\ rdns' = rdns \ {q} /\ data' = data /\ q \in Lookup /\ q.ip \in IPs
      /\ cells \in Seq(Cell) /\ DOMAIN cells = 1..Len(cells) /\ Len(cells) \in Nat
  BY DEF Resolve, TableOK, Lookup
<1>1. PICK host \in {q.ip, Dash} : cells' = Written(q, host)
  BY DEF Resolve
<1>2. host # Pending /\ host \in IPs \cup {Pending, Dash}
  BY <1>0, <1>1, PageAssumption
<1>3. ASSUME NEW i \in DOMAIN cells
      PROVE  /\ cells'[i] \in Cell /\ cells'[i].ip = cells[i].ip
             /\ IF q.live /\ i \in q.at THEN cells'[i].host = host ELSE cells'[i] = cells[i]
  <2>1. cells[i] \in Cell
    BY <1>0
  <2>2. CASE q.live /\ i \in q.at
    <3>1. cells'[i] = [cells[i] EXCEPT !.host = host]
      BY <1>1, <2>2 DEF Written
    <3> QED BY <1>2, <2>1, <2>2, <3>1 DEF Cell
  <2>3. CASE ~ (q.live /\ i \in q.at)
    <3>1. cells'[i] = cells[i]
      BY <1>1, <2>3 DEF Written
    <3> QED BY <2>1, <2>3, <3>1
  <2> QED BY <2>2, <2>3
<1>4. DOMAIN cells' = DOMAIN cells /\ cells' \in Seq(Cell)
  <2>1. cells' = [i \in 1..Len(cells) |-> cells'[i]]
    BY <1>0, <1>1 DEF Written
  <2> QED BY <1>0, <1>3, <2>1
<1>5. ASSUME NEW i \in DOMAIN cells', cells'[i].host = Pending
      PROVE  \E r \in rdns' : r.live /\ i \in r.at
  <2>1. i \in DOMAIN cells /\ ~ (q.live /\ i \in q.at) /\ cells[i].host = Pending
    BY <1>2, <1>3, <1>4, <1>5
  <2>2. PICK r \in rdns : r.live /\ i \in r.at
    BY <2>1 DEF TableOK
  <2> QED BY <1>0, <2>1, <2>2
<1>6. TableOK'
  BY <1>0, <1>4, <1>5 DEF TableOK
<1>7. LookupsInv'
  BY <1>0, <1>3, <1>4 DEF LookupsInv
<1>8. HostnameOfItsRow'
  <2> SUFFICES ASSUME NEW i \in DOMAIN cells'
               PROVE  /\ cells'[i].host \in {cells'[i].ip, Pending, Dash}
                      /\ cells'[i].ip = NoIP => cells'[i].host = Dash
    BY DEF HostnameOfItsRow
  <2>1. CASE q.live /\ i \in q.at
    <3>1. cells[i].ip = q.ip /\ q.ip # NoIP
      BY <1>4, <2>1 DEF LookupsInv
    <3> QED BY <1>1, <1>3, <1>4, <2>1, <3>1
  <2>2. CASE ~ (q.live /\ i \in q.at)
    BY <1>3, <1>4, <2>2 DEF HostnameOfItsRow
  <2> QED BY <2>1, <2>2
<1> QED BY <1>6, <1>7, <1>8

-----------------------------------------------------------------------------
(* The step of the invariant, action by action. *)

\* Nothing that is about the table has changed, but for data behind a hidden
\* card.
LEMMA TableKept ==
  ASSUME TableInv, cells' = cells, rdns' = rdns, data' \in Seq(IPs)
  PROVE  TableInv'
BY DEF TableInv, TableOK, LookupsInv, HostnameOfItsRow

PageInv == SearchesOK /\ FlagsOK /\ ApartInv /\ ShowsLastSearch

\* A search starts with an empty page.
LEMMA SearchStep ==
  ASSUME IInv, NEW t \in Terms, doSearch(t)
  PROVE  IInv'
<1>1. TableInv /\ PageInv
  BY TypeParts DEF IInv, TableInv, PageInv
<1>2. TableInv'
  BY <1>1, TableKept DEF doSearch, table, TableInv, TableOK
<1>3. /\ asked' \in Seq(Terms) /\ Len(asked') = Len(asked) + 1 /\ Len(asked) \in Nat
      /\ Len(asked') <= MaxSearches /\ MaxSearches \in Nat
  BY <1>1, PageAssumption DEF doSearch, PageInv, SearchesOK
<1>4. SearchesOK'
  <2>1. inflight' = inflight \cup {Len(asked) + 1} /\ inflight \subseteq 1..Len(asked)
    BY <1>1 DEF doSearch, PageInv, SearchesOK
  <2>2. inflight' \subseteq 1..Len(asked')
    <3>1. \A n \in inflight : n \in 1..(Len(asked) + 1)
      BY <1>3, <2>1
    <3>2. Len(asked) + 1 \in 1..(Len(asked) + 1)
      BY <1>3
    <3> QED BY <1>3, <2>1, <3>1, <3>2
  <2>3. rendered' = rendered
    BY DEF doSearch, table
  <2> QED BY <1>1, <1>3, <2>2, <2>3 DEF PageInv, SearchesOK
<1>5. FlagsOK' /\ ~card' /\ ~error' /\ ~empty' /\ ~missing'
  BY <1>1 DEF doSearch, PageInv, FlagsOK
<1>6. apart' => inflight' = {Len(asked')}
  BY <1>3 DEF doSearch
<1>7. ApartInv' /\ ShowsLastSearch'
  BY <1>5, <1>6 DEF ApartInv, ShowsLastSearch
<1> QED BY <1>2, <1>4, <1>5, <1>7, TypePartsNext DEF IInv, TableInv

\* An answer that nothing overlapped is that of the last search, and comes to
\* a page without an error.
LEMMA AnswerStep ==
  ASSUME IInv, NEW n \in inflight, Answer(n)
  PROVE  IInv'
<1>1. TableInv /\ PageInv
  BY TypeParts DEF IInv, TableInv, PageInv
<1> DEFINE t == asked[n]
<1>2. t \in Terms /\ Results[t] \in Seq(IPs) /\ n \in 1..Len(asked) /\ Len(asked) \in Nat
  BY <1>1, PageAssumption DEF PageInv, SearchesOK
<1>3. TableInv'
  <2>1. CASE Results[t] = <<>>
    BY <1>1, <2>1, TableKept DEF Answer, table, TableInv, TableOK
  <2>2. CASE Results[t] # <<>>
    <3>1. data' = Results[t] /\ Build(Results[t])
      BY <2>2 DEF Answer
    <3> QED BY <1>1, <1>2, <3>1, BuildFacts DEF TableInv, TableOK
  <2> QED BY <2>1, <2>2
<1>4. SearchesOK'
  BY <1>1, <1>2, PageAssumption DEF Answer, Finally, table, PageInv, SearchesOK
<1>5. FlagsOK'
  <2>1. /\ missing' = (t \in NotFound)
        /\ empty' = (Results[t] = <<>> /\ t \notin NotFound)
        /\ card' = (Results[t] # <<>>)
    BY DEF Answer
  <2>2. missing' \in BOOLEAN
    BY <2>1, SMT
  <2>3. empty' \in BOOLEAN
    BY <2>1, SMT
  <2>4. card' \in BOOLEAN
    BY <2>1, SMT
  <2> QED BY <1>1, <2>2, <2>3, <2>4 DEF Answer, Finally, PageInv, FlagsOK
<1>6. apart' => /\ inflight' = {} /\ ~error'
                /\ card' => rendered' = Len(asked')
  BY <1>1, <1>2 DEF Answer, Finally, PageInv, ApartInv
<1>7. ApartInv' /\ ShowsLastSearch'
  BY <1>6 DEF ApartInv, ShowsLastSearch
<1> QED BY <1>3, <1>4, <1>5, <1>7, TypePartsNext DEF IInv, TableInv

\* So does a failure.
LEMMA FailStep ==
  ASSUME IInv, NEW n \in inflight, SearchFails(n)
  PROVE  IInv'
<1>1. TableInv /\ PageInv
  BY TypeParts DEF IInv, TableInv, PageInv
<1>2. TableInv'
  BY <1>1, TableKept DEF SearchFails, table, TableInv, TableOK
<1>3. SearchesOK' /\ FlagsOK'
  BY <1>1 DEF SearchFails, Finally, table, PageInv, SearchesOK, FlagsOK
<1>4. apart' => inflight' = {} /\ ~card' /\ ~empty' /\ ~missing'
  BY <1>1 DEF SearchFails, Finally, PageInv, ApartInv
<1>5. ApartInv' /\ ShowsLastSearch'
  BY <1>4 DEF ApartInv, ShowsLastSearch
<1> QED BY <1>2, <1>3, <1>5, TypePartsNext DEF IInv, TableInv

\* Sorting builds the table anew from the same answer.
LEMMA SortStep ==
  ASSUME IInv, Sort
  PROVE  IInv'
<1>1. TableInv /\ PageInv
  BY TypeParts DEF IInv, TableInv, PageInv
<1>2. TableInv'
  <2>1. PICK rows \in Orders(data) : Build(rows)
    BY DEF Sort, Rebuild
  <2>2. data \in Seq(IPs) /\ data' = data
    BY <1>1 DEF Sort, TableInv, TableOK
  <2>3. rows \in Seq(IPs)
    BY <2>1, <2>2, OrdersFacts
  <2> QED BY <1>1, <2>1, <2>2, <2>3, BuildFacts DEF TableInv, TableOK
<1>3. SearchesOK' /\ FlagsOK'
  BY <1>1, PageAssumption DEF Sort, box, PageInv, SearchesOK, FlagsOK
<1>4. ApartInv' /\ ShowsLastSearch'
  BY <1>1 DEF Sort, box, PageInv, ApartInv, ShowsLastSearch
<1> QED BY <1>2, <1>3, <1>4, TypePartsNext DEF IInv, TableInv

\* Clear hides everything.
LEMMA ClearStep ==
  ASSUME IInv, Clear
  PROVE  IInv'
<1>1. TableInv /\ PageInv
  BY TypeParts DEF IInv, TableInv, PageInv
<1>2. TableInv'
  BY <1>1, TableKept DEF Clear
<1>3. SearchesOK'
  BY <1>1 DEF Clear, PageInv, SearchesOK
<1>4. FlagsOK'
  <2>1. apart' = (apart /\ inflight = {})
    BY DEF Clear
  <2>2. apart' \in BOOLEAN
    BY <2>1, SMT
  <2>3. clicks' \in 0..MaxClicks
    BY <1>1, PageAssumption DEF Clear, PageInv, FlagsOK
  <2> QED BY <1>1, <2>2, <2>3 DEF Clear, PageInv, FlagsOK
<1>5. ApartInv' /\ ShowsLastSearch'
  BY <1>1 DEF Clear, PageInv, FlagsOK, ApartInv, ShowsLastSearch
<1> QED BY <1>2, <1>3, <1>4, <1>5, TypePartsNext DEF IInv, TableInv

\* A hostname does not touch the rest of the page.
LEMMA ResolveStep ==
  ASSUME IInv, NEW q \in rdns, Resolve(q)
  PROVE  IInv'
<1>1. TableInv /\ PageInv
  BY TypeParts DEF IInv, TableInv, PageInv
<1>2. TableInv'
  BY <1>1, ResolveFacts
<1>3. SearchesOK' /\ FlagsOK'
  BY <1>1 DEF Resolve, box, PageInv, SearchesOK, FlagsOK
<1>4. ApartInv' /\ ShowsLastSearch'
  BY <1>1 DEF Resolve, box, PageInv, ApartInv, ShowsLastSearch
<1> QED BY <1>2, <1>3, <1>4, TypePartsNext DEF IInv, TableInv

\* The invariant holds from the start and is kept by every step.
LEMMA Inductive ==
  /\ Init => IInv
  /\ IInv /\ [Next]_vars => IInv'
<1>1. Init => IInv
  <2> SUFFICES ASSUME Init PROVE IInv
    OBVIOUS
  <2>1. SearchesOK
    BY PageAssumption DEF Init, SearchesOK
  <2>c. clicks \in 0..MaxClicks
    BY PageAssumption DEF Init
  <2>f. FlagsOK
    BY <2>c DEF Init, FlagsOK
  <2>2. TableOK /\ LookupsInv /\ HostnameOfItsRow
    BY DEF Init, TableOK, LookupsInv, HostnameOfItsRow
  <2>3. ApartInv /\ ShowsLastSearch
    BY DEF Init, ApartInv, ShowsLastSearch
  <2> QED BY <2>1, <2>f, <2>2, <2>3, TypeParts DEF IInv
<1>2. ASSUME IInv, [Next]_vars
      PROVE  IInv'
  <2>1. CASE \E t \in Terms : ClickSearch(t) \/ CtrlEnter(t)
    BY <1>2, <2>1, SearchStep DEF ClickSearch, CtrlEnter
  <2>2. CASE \E n \in inflight : Answer(n) \/ SearchFails(n)
    BY <1>2, <2>2, AnswerStep, FailStep
  <2>3. CASE \E q \in rdns : Resolve(q)
    BY <1>2, <2>3, ResolveStep
  <2>4. CASE Sort
    BY <1>2, <2>4, SortStep
  <2>5. CASE Clear
    BY <1>2, <2>5, ClearStep
  <2>6. CASE UNCHANGED vars
    <3>1. TypeOK'
      BY <1>2, <2>6 DEF IInv, TypeOK, vars, box, table
    <3>2. LookupsInv' /\ HostnameOfItsRow'
      BY <1>2, <2>6 DEF IInv, LookupsInv, HostnameOfItsRow, vars, table
    <3>3. ApartInv' /\ ShowsLastSearch'
      BY <1>2, <2>6 DEF IInv, ApartInv, ShowsLastSearch, vars, box, table
    <3> QED BY <3>1, <3>2, <3>3 DEF IInv
  <2> QED BY <1>2, <2>1, <2>2, <2>3, <2>4, <2>5, <2>6 DEF Next
<1> QED BY <1>1, <1>2

-----------------------------------------------------------------------------
(* The theorems. *)

\* The inductive invariant is an invariant, with or without fairness.
THEOREM Invariant == Spec => []IInv
BY Inductive, PTL DEF Spec

\* The page's state is well typed, and every pending hostname cell has a
\* request under way that will write it.
THEOREM TypeCorrect == Spec => []TypeOK
<1>1. IInv => TypeOK
  BY DEF IInv
<1> QED BY <1>1, Invariant, PTL

\* A late reverse-DNS answer never ends up beside another address: it holds
\* references to cells, and a table built anew has new ones.
THEOREM HostnamesBesideTheirRows == Spec => []HostnameOfItsRow
<1>1. IInv => HostnameOfItsRow
  BY DEF IInv
<1> QED BY <1>1, Invariant, PTL

\* A search that no other search or Clear ran into determines what is shown:
\* the script drops answers in no other way, so overlapping is the only way
\* to an older search's rows.
THEOREM LastSearchShown == Spec => []ShowsLastSearch
<1>1. IInv => ShowsLastSearch
  BY DEF IInv
<1> QED BY <1>1, Invariant, PTL
=============================================================================
