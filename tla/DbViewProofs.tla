---------------------------- MODULE DbViewProofs ----------------------------
(***************************************************************************)
(* Safety of the database view, for any number of tabs, rows and queries   *)
(* and every page size.  Beside the type invariant, the inductive          *)
(* invariant keeps the loading flag and the list of awaited loads in step  *)
(* with the running fetches, ties a fetch to the page and query of its tab *)
(* unless a load was refused, and says what the three statements of        *)
(* TableHandler have found so far in a table that did not change.  The     *)
(* paging arithmetic rests on how many rows LIMIT and OFFSET leave.        *)
(***************************************************************************)
EXTENDS DbView, FiniteSetTheorems, TLAPS

TabState == [page: PageNumbers, query: Queries, pages: PageNumbers, loading: BOOLEAN]

\* What QuietPageIsFull says of the rows of a page.
FullPage(p, pages, filtered, rows) ==
  LET n == Cardinality(rows) IN
    /\ p < pages => n = PageSize
    /\ p = pages => (n > 0 \/ filtered = 0) /\ (p - 1) * PageSize + n = filtered
    /\ p > pages => n = 0

AwaitedInv == awaiting # {} => refreshing

\* A fetch asks for what its tab will say it shows, unless a load was refused.
LabelInv ==
  \A t \in Tabs : state[t].loading /\ ~ refused[t] =>
    request[t].page = state[t].page /\ request[t].query = state[t].query

\* What the statements have found in a table that did not change.
ReadsOf(t, r) ==
  /\ r.step = "rows" => r.filtered = Cardinality(Found(t, r.query))
  /\ r.step = "answer" => FullPage(r.page, PagesOf(r.filtered), r.filtered, r.rows)

ReadInv ==
  \A t \in Tabs : request[t] # NoRequest /\ request[t].quiet => ReadsOf(t, request[t])

IInv ==
  /\ TypeOK /\ NeverWedged /\ AwaitedInv
  /\ LabelInv /\ MislabelledOnlyIfRefused
  /\ ReadInv /\ QuietPageIsFull

-----------------------------------------------------------------------------
(* LIMIT and OFFSET. *)

\* How many rows come before id in ORDER BY id DESC.
Above(S, id) == Cardinality({j \in S : j > id})

\* Tables are finite.
LEMMA IdsFinite ==
  ASSUME NEW S \in SUBSET Ids
  PROVE  /\ IsFiniteSet(S) /\ Cardinality(S) \in 0..MaxId /\ Cardinality(S) \in Nat
         /\ S \subseteq Int
<1>1. IsFiniteSet(1..MaxId) /\ Cardinality(1..MaxId) = MaxId
  BY DbViewAssumption, FS_Interval
<1>2. IsFiniteSet(S) /\ Cardinality(S) <= MaxId
  BY <1>1, FS_Subset DEF Ids
<1>3. Cardinality(S) \in Nat
  BY <1>2, FS_CardinalityType
<1> QED BY <1>2, <1>3, DbViewAssumption DEF Ids

\* Rows have positions 0, 1, ... in that order, each position one row.
LEMMA AboveBijective ==
  ASSUME NEW S \in SUBSET Ids
  PROVE  [id \in S |-> Above(S, id)] \in Bijection(S, 0..(Cardinality(S) - 1))
<1> DEFINE n == Cardinality(S)
           f == [id \in S |-> Above(S, id)]
<1>1. IsFiniteSet(S) /\ n \in Nat /\ \A id \in S : id \in Int
  BY IdsFinite
<1>2. ASSUME NEW id \in S
      PROVE  /\ IsFiniteSet({j \in S : j > id})
             /\ Above(S, id) \in 0..(n - 1)
  <2>1. {j \in S : j > id} \in SUBSET (S \ {id})
    BY <1>1
  <2>2. IsFiniteSet(S \ {id}) /\ Cardinality(S \ {id}) = n - 1
    BY <1>1, FS_RemoveElement
  <2>3. IsFiniteSet({j \in S : j > id}) /\ Cardinality({j \in S : j > id}) <= n - 1
    BY <2>1, <2>2, FS_Subset
  <2>4. Cardinality({j \in S : j > id}) \in Nat
    BY <2>3, FS_CardinalityType
  <2> QED BY <1>1, <2>3, <2>4 DEF Above
<1>i. ASSUME NEW id \in S
      PROVE  Above(S, id) \in Int
  <2>1. Above(S, id) \in 0..(n - 1)
    BY <1>2
  <2> QED BY <1>1, <2>1
<1>3. ASSUME NEW a \in S, NEW b \in S, a < b
      PROVE  Above(S, a) > Above(S, b)
  <2>1. {j \in S : j > b} \in SUBSET ({j \in S : j > a} \ {b})
    BY <1>1, <1>3
  <2>2. /\ IsFiniteSet({j \in S : j > a} \ {b})
        /\ Cardinality({j \in S : j > a} \ {b}) = Cardinality({j \in S : j > a}) - 1
    <3>1. b \in {j \in S : j > a}
      BY <1>1, <1>3
    <3> QED BY <1>2, <3>1, FS_RemoveElement
  <2>3. Cardinality({j \in S : j > b}) <= Cardinality({j \in S : j > a} \ {b})
    BY <2>1, <2>2, FS_Subset
  <2>4. Above(S, a) \in Int /\ Above(S, b) \in Int
    BY <1>i
  <2> QED BY <2>2, <2>3, <2>4 DEF Above
<1>4. f \in [S -> 0..(n - 1)]
  BY <1>2
<1>5. \A a, b \in S : f[a] = f[b] => a = b
  <2> SUFFICES ASSUME NEW a \in S, NEW b \in S, f[a] = f[b], a # b
               PROVE  FALSE
    OBVIOUS
  <2>1. Above(S, a) = Above(S, b)
    OBVIOUS
  <2>3. Above(S, a) \in Int /\ Above(S, b) \in Int
    BY <1>i
  <2>2. a < b \/ b < a
    BY <1>1
  <2> QED BY <1>3, <2>1, <2>2, <2>3
<1>6. f \in Injection(S, 0..(n - 1))
  BY <1>4, <1>5 DEF Injection, IsInjective
<1>7. IsFiniteSet(0..(n - 1)) /\ Cardinality(0..(n - 1)) = n
  <2>1. n - 1 \in Int
    BY <1>1
  <2>2. /\ IsFiniteSet(0..(n - 1))
        /\ Cardinality(0..(n - 1)) = IF 0 > n - 1 THEN 0 ELSE (n - 1) - 0 + 1
    BY <2>1, FS_Interval
  <2> QED BY <1>1, <2>2
<1>8. f \in Surjection(S, 0..(n - 1))
  BY <1>6, <1>7, FS_Injection
<1> QED BY <1>6, <1>8 DEF Bijection

\* LIMIT size OFFSET off leaves the rows at positions off, off + 1, ... of the
\* result, at most size of them.
LEMMA BlockCardinality ==
  ASSUME NEW S \in SUBSET Ids, NEW size \in Nat, NEW off \in Nat
  PROVE  /\ Block(S, size, off) \in SUBSET S
         /\ LET n == Cardinality(S) IN
              Cardinality(Block(S, size, off)) =
                IF n <= off THEN 0 ELSE IF n - off < size THEN n - off ELSE size
<1> DEFINE n == Cardinality(S)
           B == Block(S, size, off)
           last == IF n <= off + size THEN n - 1 ELSE off + size - 1
           f == [id \in S |-> Above(S, id)]
           g == [id \in B |-> Above(S, id)]
<1>1. IsFiniteSet(S) /\ n \in Nat
  BY IdsFinite
<1>2. B = {id \in S : off <= Above(S, id) /\ Above(S, id) < off + size}
  BY DEF Block, Above
<1>3. B \in SUBSET S /\ IsFiniteSet(B)
  <2>1. B \in SUBSET S
    BY <1>2
  <2> QED BY <1>1, <2>1, FS_Subset
<1>4. f \in Bijection(S, 0..(n - 1))
  BY AboveBijective
<1>5. \A id \in S : Above(S, id) \in 0..(n - 1)
  BY <1>4 DEF Bijection, Injection
<1>6. \A a, b \in S : Above(S, a) = Above(S, b) => a = b
  BY <1>4 DEF Bijection, Injection, IsInjective
<1>7. \A k \in 0..(n - 1) : \E id \in S : Above(S, id) = k
  BY <1>4 DEF Bijection, Surjection
<1> HIDE DEF n, B, f
<1>8. \A id \in B : id \in S /\ Above(S, id) \in off..last
  BY <1>1, <1>2, <1>5
<1>9. g \in [B -> off..last]
  BY <1>8
<1>10. g \in Injection(B, off..last)
  BY <1>6, <1>8, <1>9 DEF Injection, IsInjective
<1>11. \A k \in off..last : \E id \in B : g[id] = k
  <2> SUFFICES ASSUME NEW k \in off..last
               PROVE  \E id \in B : g[id] = k
    OBVIOUS
  <2>1. k \in 0..(n - 1) /\ off <= k /\ k < off + size
    BY <1>1
  <2>2. PICK id \in S : Above(S, id) = k
    BY <1>7, <2>1
  <2>3. id \in B
    BY <1>2, <2>1, <2>2
  <2> QED BY <2>2, <2>3
<1>12. ExistsBijection(B, off..last)
  BY <1>9, <1>10, <1>11 DEF ExistsBijection, Bijection, Surjection
<1>13. Cardinality(B) = Cardinality(off..last)
  BY <1>3, <1>12, FS_Bijection
<1>14. last \in Int
  BY <1>1
<1> HIDE DEF last
<1>15. Cardinality(off..last) = IF off > last THEN 0 ELSE last - off + 1
  BY <1>14, FS_Interval
<1>16. Cardinality(B) = IF n <= off THEN 0 ELSE IF n - off < size THEN n - off ELSE size
  BY <1>1, <1>13, <1>15 DEF last
<1> QED BY <1>3, <1>16 DEF n, B

\* Rounding up, by its two bounds.
LEMMA CeilDivFacts ==
  ASSUME NEW n \in Nat
  PROVE  /\ CeilDiv(n, PageSize) \in Nat
         /\ n <= CeilDiv(n, PageSize) * PageSize
         /\ CeilDiv(n, PageSize) * PageSize < n + PageSize
<1> DEFINE d == PageSize
           a == n + d - 1
           c == a \div d
<1>1. d \in Nat \ {0} /\ a \in Nat
  BY DbViewAssumption
<1> HIDE DEF d, a
<1>2. c \in Nat /\ c * d <= a /\ a < (c + 1) * d
  BY <1>1
<1>3. (c + 1) * d = c * d + d /\ c * d \in Int
  BY <1>1, <1>2
<1> HIDE DEF c
<1>4. a < c * d + d
  BY <1>2, <1>3
<1>5. n <= c * d /\ c * d < n + d
  BY <1>1, <1>2, <1>3, <1>4 DEF a
<1> QED BY <1>2, <1>5 DEF CeilDiv, a, c, d

\* Multiplication by the page size is monotone.
LEMMA TimesMonotone ==
  ASSUME NEW a \in Int, NEW b \in Int, a <= b
  PROVE  a * PageSize <= b * PageSize /\ a * PageSize \in Int /\ b * PageSize \in Int
<1> DEFINE d == PageSize
<1>1. d \in Nat
  BY DbViewAssumption
<1> HIDE DEF d
<1>2. a * d <= b * d /\ a * d \in Int /\ b * d \in Int
  BY <1>1
<1> QED BY <1>2 DEF d

\* More rows do not have fewer pages, and every number of pages is a page
\* number.
LEMMA PagesFacts ==
  ASSUME NEW n \in 0..MaxId
  PROVE  /\ PagesOf(n) \in PageNumbers
         /\ PagesOf(n) \in Nat /\ PagesOf(n) >= 1
         /\ n <= PagesOf(n) * PageSize
         /\ (PagesOf(n) - 1) * PageSize < n \/ (n = 0 /\ PagesOf(n) = 1)
<1> DEFINE d == PageSize
           c == CeilDiv(n, PageSize)
           C == CeilDiv(MaxId, PageSize)
<1>1. d \in Nat /\ d > 0 /\ n \in Nat /\ MaxId \in Nat /\ n <= MaxId
  BY DbViewAssumption
<1>2. c \in Nat /\ n <= c * d /\ c * d < n + d
  BY <1>1, CeilDivFacts
<1>3. C \in Nat /\ MaxId <= C * d
  BY <1>1, CeilDivFacts
<1>4. c <= C
  <2> SUFFICES ASSUME C + 1 <= c PROVE FALSE
    BY <1>2, <1>3
  <2>1. (C + 1) * d <= c * d /\ (C + 1) * d \in Int /\ c * d \in Int
    BY <1>2, <1>3, TimesMonotone
  <2>2. (C + 1) * d = C * d + d /\ C * d \in Int
    BY <1>1, <1>3
  <2> HIDE DEF d, c, C
  <2> QED BY <1>1, <1>2, <1>3, <2>1, <2>2
<1>5. PagesOf(n) = IF c < 1 THEN 1 ELSE c
  BY DEF PagesOf
<1>6. CASE c < 1
  <2>1. c = 0 /\ PagesOf(n) = 1
    BY <1>2, <1>5, <1>6
  <2>2. n = 0
    <3> HIDE DEF c, d
    <3> QED BY <1>1, <1>2, <2>1
  <2>3. PagesOf(n) * PageSize \in Nat
    BY <1>1, <2>1
  <2>4. PagesOf(n) \in PageNumbers
    BY <1>3, <2>1 DEF PageNumbers
  <2> QED BY <1>1, <2>1, <2>2, <2>3, <2>4
<1>7. CASE ~ (c < 1)
  <2>1. PagesOf(n) = c /\ c \in 1..(C + 1)
    BY <1>2, <1>3, <1>4, <1>5, <1>7
  <2>2. (c - 1) * d = c * d - d /\ c * d \in Int
    BY <1>1, <1>2
  <2>3. (c - 1) * d < n
    <3> HIDE DEF c, d
    <3> QED BY <1>1, <1>2, <2>2
  <2> QED BY <1>2, <2>1, <2>3 DEF PageNumbers
<1> QED BY <1>6, <1>7

\* The page p that TableHandler reads from an unchanging result is what the
\* page numbers promise.
LEMMA FullPageFacts ==
  ASSUME NEW S \in SUBSET Ids, NEW p \in Nat \ {0}
  PROVE  FullPage(p, PagesOf(Cardinality(S)), Cardinality(S),
                  Block(S, PageSize, (p - 1) * PageSize))
<1> DEFINE n == Cardinality(S)
           d == PageSize
           P == PagesOf(n)
           off == (p - 1) * d
           m == Cardinality(Block(S, d, off))
<1>1. n \in 0..MaxId /\ n \in Nat /\ d \in Nat /\ d > 0
  BY IdsFinite, DbViewAssumption
<1>2. P \in Nat /\ P >= 1 /\ n <= P * d /\ ((P - 1) * d < n \/ (n = 0 /\ P = 1))
  BY <1>1, PagesFacts
<1>3. off \in Nat
  BY <1>1
<1>4. m = IF n <= off THEN 0 ELSE IF n - off < d THEN n - off ELSE d
  BY <1>1, <1>3, BlockCardinality
<1>5. /\ \A a, b \in Int : a <= b => a * d <= b * d
      /\ P * d \in Int /\ (P - 1) * d \in Int /\ (P - 1) * d = P * d - d
      /\ p * d \in Int /\ off = p * d - d
  <2>1. \A a, b \in Int : a <= b => a * d <= b * d
    BY TimesMonotone
  <2> HIDE DEF n, d, P
  <2> QED BY <1>1, <1>2, <2>1
<1> HIDE DEF n, d, P, off, m
<1>6. CASE p < P
  <2>1. p * d <= (P - 1) * d
    BY <1>2, <1>5, <1>6
  <2> QED BY <1>1, <1>2, <1>3, <1>4, <1>5, <1>6, <2>1 DEF FullPage, n, d, P, off, m
<1>7. CASE p = P
  <2>1. m > 0 \/ n = 0
    BY <1>1, <1>2, <1>3, <1>4, <1>5, <1>7
  <2>2. off + m = n
    <3>1. off <= n /\ n - off <= d
      BY <1>1, <1>2, <1>3, <1>5, <1>7
    <3> QED BY <1>1, <1>3, <1>4, <3>1
  <2> QED BY <1>7, <1>2, <2>1, <2>2 DEF FullPage, n, d, P, off, m
<1>8. CASE p > P
  <2>1. P * d <= off
    <3>1. (P + 1) * d <= p * d
      BY <1>2, <1>5, <1>8
    <3>2. (P + 1) * d = P * d + d
      BY <1>1, <1>2
    <3> QED BY <1>1, <1>5, <3>1, <3>2
  <2>2. m = 0
    BY <1>1, <1>2, <1>3, <1>4, <1>5, <2>1
  <2> QED BY <1>2, <1>8, <2>2 DEF FullPage, n, d, P, off, m
<1> QED BY <1>2, <1>6, <1>7, <1>8

-----------------------------------------------------------------------------
(* The types, in parts. *)

DbOK ==
  /\ table \in [Tabs -> SUBSET Ids]
  /\ nextId \in [Tabs -> 1..(MaxId + 1)]
  /\ \A t \in Tabs : \A id \in table[t] : id < nextId[t]

RequestsOK == request \in [Tabs -> Request \cup {NoRequest}]

PageOK ==
  /\ state \in [Tabs -> TabState]
  /\ input \in [Tabs -> Queries] /\ timer \in [Tabs -> BOOLEAN]
  /\ view \in [Tabs -> View \cup {Loading, Failed}]
  /\ refreshing \in BOOLEAN /\ awaiting \subseteq Tabs
  /\ refused \in [Tabs -> BOOLEAN]

\* The type invariant is the conjunction of these parts.
LEMMA TypeParts == TypeOK <=> DbOK /\ RequestsOK /\ PageOK
BY DEF TypeOK, DbOK, RequestsOK, PageOK, TabState

\* The same after a step.
LEMMA TypePartsNext == TypeOK' <=> DbOK' /\ RequestsOK' /\ PageOK'
BY DEF TypeOK, DbOK, RequestsOK, PageOK, TabState

\* A running fetch.
LEMMA RequestFacts ==
  ASSUME RequestsOK, NEW t \in Tabs, request[t] # NoRequest
  PROVE  /\ request[t] \in Request
         /\ request[t].page \in PageNumbers /\ request[t].query \in Queries
         /\ request[t].step \in Steps /\ request[t].total \in 0..MaxId
         /\ request[t].filtered \in 0..MaxId /\ request[t].rows \in SUBSET Ids
         /\ request[t].quiet \in BOOLEAN
<1>1. request[t] \in Request
  BY DEF RequestsOK
<1> QED BY <1>1 DEF Request

\* Page numbers start at 1.
LEMMA PageNumberFacts ==
  /\ \A p \in PageNumbers : p \in Nat \ {0}
  /\ 1 \in PageNumbers
<1>1. CeilDiv(MaxId, PageSize) \in Nat
  BY DbViewAssumption, CeilDivFacts
<1> QED BY <1>1 DEF PageNumbers

\* What a query finds in a table.
LEMMA FoundFacts ==
  ASSUME DbOK, NEW t \in Tabs, NEW q \in Queries
  PROVE  /\ Found(t, q) \in SUBSET Ids
         /\ q = NoQuery => Found(t, q) = table[t]
<1>1. table[t] \in SUBSET Ids /\ Matches[q] \in SUBSET Ids /\ Matches[NoQuery] = Ids
  BY DbViewAssumption DEF DbOK
<1> QED BY <1>1 DEF Found

-----------------------------------------------------------------------------
(* The steps of TableHandler and of the other writers of a table. *)

\* The fetch of tab t goes on; what it asks for stays.
FetchGoesOn(t) ==
  /\ request[t] # NoRequest
  /\ RequestsOK'
  /\ \A u \in Tabs : u # t => request'[u] = request[u]
  /\ request'[t] \in Request
  /\ request'[t].page = request[t].page /\ request'[t].query = request[t].query
  /\ UNCHANGED page

\* No tab looks different while a fetch goes on.
LEMMA FetchKeepsPage ==
  ASSUME IInv, NEW t \in Tabs, FetchGoesOn(t)
  PROVE  /\ PageOK' /\ NeverWedged' /\ AwaitedInv'
         /\ LabelInv' /\ MislabelledOnlyIfRefused' /\ QuietPageIsFull'
<1>u. UNCHANGED <<state, input, timer, view, refreshing, awaiting, refused>>
  BY DEF FetchGoesOn, page
<1>1. PageOK'
  BY <1>u, TypeParts DEF IInv, PageOK
<1>2. request'[t] # NoRequest
  BY MarkersAssumption DEF FetchGoesOn
<1>3. \A u \in Tabs : request'[u] # NoRequest <=> request[u] # NoRequest
  BY <1>2 DEF FetchGoesOn
<1>4. NeverWedged' /\ AwaitedInv'
  BY <1>u, <1>3 DEF IInv, NeverWedged, AwaitedInv
<1>5. \A u \in Tabs : request'[u].page = request[u].page /\ request'[u].query = request[u].query
  BY DEF FetchGoesOn
<1>6. LabelInv'
  BY <1>u, <1>5 DEF IInv, LabelInv
<1>7. MislabelledOnlyIfRefused'
  BY <1>u DEF IInv, MislabelledOnlyIfRefused, Shown
<1>8. QuietPageIsFull'
  BY <1>u DEF IInv, QuietPageIsFull, Shown
<1> QED BY <1>1, <1>4, <1>6, <1>7, <1>8

\* What was found in the other tables stays found.
LEMMA OtherReads ==
  ASSUME IInv, NEW t \in Tabs, FetchGoesOn(t),
         \A u \in Tabs : u # t => table'[u] = table[u],
         request'[t].quiet => ReadsOf(t, request[t])'
  PROVE  ReadInv'
<1> SUFFICES ASSUME NEW u \in Tabs, request'[u] # NoRequest, request'[u].quiet
             PROVE  ReadsOf(u, request[u])'
  BY DEF ReadInv
<1>1. CASE u = t
  BY <1>1
<1>2. CASE u # t
  <2>1. request'[u] = request[u] /\ table'[u] = table[u]
    BY <1>2 DEF FetchGoesOn
  <2>2. ReadsOf(u, request[u])
    BY <2>1 DEF IInv, ReadInv
  <2> QED BY <2>1, <2>2 DEF ReadsOf, Found
<1> QED BY <1>1, <1>2

\* A fetch that goes on keeps the invariant when it reads what is in its table.
LEMMA FetchStep ==
  ASSUME IInv, NEW t \in Tabs, FetchGoesOn(t), DbOK',
         \A u \in Tabs : u # t => table'[u] = table[u],
         request'[t].quiet => ReadsOf(t, request[t])'
  PROVE  IInv'
<1>1. ReadInv'
  BY OtherReads
<1>2. /\ PageOK' /\ NeverWedged' /\ AwaitedInv'
      /\ LabelInv' /\ MislabelledOnlyIfRefused' /\ QuietPageIsFull'
  BY FetchKeepsPage
<1>3. TypeOK'
  BY <1>2, TypePartsNext DEF FetchGoesOn
<1> QED BY <1>1, <1>2, <1>3 DEF IInv

\* A fetch record whose changed fields are of their types is a fetch record.
LEMMA GoesOn ==
  ASSUME IInv, NEW t \in Tabs, request[t] # NoRequest, NEW r \in Request,
         request' = [request EXCEPT ![t] = r],
         r.page = request[t].page, r.query = request[t].query,
         UNCHANGED page
  PROVE  FetchGoesOn(t) /\ request'[t] = r
<1>1. request \in [Tabs -> Request \cup {NoRequest}]
  BY TypeParts DEF IInv, RequestsOK
<1>2. request' \in [Tabs -> Request \cup {NoRequest}]
  BY <1>1
<1>3. request'[t] = r /\ \A u \in Tabs : u # t => request'[u] = request[u]
  BY <1>1
<1> QED BY <1>2, <1>3 DEF FetchGoesOn, RequestsOK

\* A table that did not change is as it was.
LEMMA SameDb ==
  ASSUME IInv, UNCHANGED <<table, nextId>>
  PROVE  DbOK'
BY TypeParts DEF IInv, DbOK

\* The first count: without a query it is the filtered count too.
LEMMA ReadTotalStep ==
  ASSUME IInv, NEW t \in Tabs, ReadTotal(t)
  PROVE  IInv'
<1> DEFINE n == Cardinality(table[t])
           q == request[t].query
           r == [request[t] EXCEPT !.total = n,
                   !.filtered = IF q = NoQuery THEN n ELSE @,
                   !.step = IF q = NoQuery THEN "rows" ELSE "filtered"]
<1>0. RequestsOK /\ DbOK
  BY TypeParts DEF IInv
<1>1. request[t] # NoRequest
  BY DEF ReadTotal, At
<1>2. request[t] \in Request /\ q \in Queries
  BY <1>0, <1>1, RequestFacts
<1>3. n \in 0..MaxId
  BY <1>0, IdsFinite DEF DbOK
<1>4. r \in Request /\ r.page = request[t].page /\ r.query = q
  BY <1>2, <1>3 DEF Request, Steps
<1>5. request' = [request EXCEPT ![t] = r]
  BY DEF ReadTotal
<1>6. UNCHANGED page /\ UNCHANGED <<table, nextId>>
  BY DEF ReadTotal
<1>7. FetchGoesOn(t) /\ request'[t] = r
  BY <1>1, <1>4, <1>5, <1>6, GoesOn
<1>8. ReadsOf(t, request[t])'
  <2>1. r.step # "answer" /\ (r.step = "rows" => q = NoQuery /\ r.filtered = n)
    BY <1>2 DEF Request
  <2>2. q = NoQuery => Found(t, q) = table[t]
    BY <1>0, <1>2, FoundFacts
  <2>3. table' = table
    BY <1>6
  <2> HIDE DEF r
  <2> QED BY <1>4, <1>7, <2>1, <2>2, <2>3 DEF ReadsOf, Found
<1>9. DbOK'
  BY <1>6, SameDb
<1> QED BY <1>6, <1>7, <1>8, <1>9, FetchStep

\* The second count is of the rows the query finds.
LEMMA ReadFilteredStep ==
  ASSUME IInv, NEW t \in Tabs, ReadFiltered(t)
  PROVE  IInv'
<1> DEFINE q == request[t].query
           n == Cardinality(Found(t, q))
           r == [request[t] EXCEPT !.step = "rows", !.filtered = n]
<1>0. RequestsOK /\ DbOK
  BY TypeParts DEF IInv
<1>1. request[t] # NoRequest
  BY DEF ReadFiltered, At
<1>2. request[t] \in Request /\ q \in Queries
  BY <1>0, <1>1, RequestFacts
<1>3. n \in 0..MaxId
  BY <1>0, <1>2, FoundFacts, IdsFinite
<1>4. r \in Request /\ r.page = request[t].page /\ r.query = q
  BY <1>2, <1>3 DEF Request, Steps
<1>5. request' = [request EXCEPT ![t] = r]
  BY DEF ReadFiltered
<1>6. UNCHANGED page /\ UNCHANGED <<table, nextId>>
  BY DEF ReadFiltered
<1>7. FetchGoesOn(t) /\ request'[t] = r
  BY <1>1, <1>4, <1>5, <1>6, GoesOn
<1>8. ReadsOf(t, request[t])'
  <2>1. r.step = "rows" /\ r.filtered = n
    BY <1>2 DEF Request
  <2>3. table' = table
    BY <1>6
  <2> HIDE DEF r
  <2> QED BY <1>4, <1>7, <2>1, <2>3 DEF ReadsOf, Found
<1>9. DbOK'
  BY <1>6, SameDb
<1> QED BY <1>6, <1>7, <1>8, <1>9, FetchStep

\* The rows are a full page of what was counted, if nothing changed between.
LEMMA ReadRowsStep ==
  ASSUME IInv, NEW t \in Tabs, ReadRows(t)
  PROVE  IInv'
<1> DEFINE q == request[t].query
           p == request[t].page
           B == Block(Found(t, q), PageSize, (p - 1) * PageSize)
           r == [request[t] EXCEPT !.step = "answer", !.rows = B]
<1>0. RequestsOK /\ DbOK
  BY TypeParts DEF IInv
<1>1. request[t] # NoRequest /\ request[t].step = "rows"
  BY DEF ReadRows, At
<1>2. request[t] \in Request /\ q \in Queries /\ p \in Nat \ {0}
  BY <1>0, <1>1, RequestFacts, PageNumberFacts
<1>3. Found(t, q) \in SUBSET Ids
  BY <1>0, <1>2, FoundFacts
<1>b. B \in SUBSET Ids
  BY <1>3 DEF Block
<1>4. r \in Request /\ r.page = p /\ r.query = q
  BY <1>2, <1>b DEF Request, Steps
<1>5. request' = [request EXCEPT ![t] = r]
  BY DEF ReadRows
<1>6. UNCHANGED page /\ UNCHANGED <<table, nextId>>
  BY DEF ReadRows
<1>7. FetchGoesOn(t) /\ request'[t] = r
  BY <1>1, <1>4, <1>5, <1>6, GoesOn
<1>8. ASSUME request'[t].quiet
      PROVE  ReadsOf(t, request[t])'
  <2>1. /\ r.step = "answer" /\ r.rows = B /\ r.filtered = request[t].filtered
        /\ r.quiet = request[t].quiet
    BY <1>2 DEF Request
  <2>2. request[t].filtered = Cardinality(Found(t, q))
    BY <1>1, <1>7, <1>8, <2>1 DEF IInv, ReadInv, ReadsOf
  <2>3. FullPage(p, PagesOf(Cardinality(Found(t, q))), Cardinality(Found(t, q)), B)
    BY <1>2, <1>3, FullPageFacts
  <2> HIDE DEF r, B, p
  <2>4. FullPage(r.page, PagesOf(r.filtered), r.filtered, r.rows)
    BY <1>4, <2>1, <2>2, <2>3
  <2> QED BY <1>7, <2>1, <2>4 DEF ReadsOf
<1>9. DbOK'
  BY <1>6, SameDb
<1> QED BY <1>6, <1>7, <1>8, <1>9, FetchStep

\* A write to the table of a tab: a running fetch is no longer quiet, and an
\* idle tab has nothing to lose.
LEMMA DisturbStep ==
  ASSUME IInv, NEW t \in Tabs, Disturb(t), UNCHANGED page, DbOK',
         \A u \in Tabs : u # t => table'[u] = table[u]
  PROVE  IInv'
<1>0. RequestsOK /\ PageOK
  BY TypeParts DEF IInv
<1>1. CASE request[t] # NoRequest
  <2> DEFINE r == [request[t] EXCEPT !.quiet = FALSE]
  <2>1. request[t] \in Request
    BY <1>0, <1>1, RequestFacts
  <2>2. r \in Request /\ r.page = request[t].page /\ r.query = request[t].query
        /\ r.quiet = FALSE
    BY <2>1 DEF Request
  <2>3. request' = [request EXCEPT ![t] = r]
    BY <1>1 DEF Disturb
  <2>4. FetchGoesOn(t) /\ request'[t] = r
    BY <1>1, <2>2, <2>3, GoesOn
  <2> QED BY <2>2, <2>4, FetchStep
<1>2. CASE request[t] = NoRequest
  <2>1. UNCHANGED <<request, state, input, timer, view, refreshing, awaiting, refused>>
    BY <1>2 DEF Disturb, page
  <2>2. TypeOK'
    <3>1. RequestsOK' /\ PageOK'
      BY <1>0, <2>1 DEF RequestsOK, PageOK
    <3> QED BY <3>1, TypePartsNext
  <2>3. ReadInv'
    <3> SUFFICES ASSUME NEW u \in Tabs, request'[u] # NoRequest, request'[u].quiet
                 PROVE  ReadsOf(u, request[u])'
      BY DEF ReadInv
    <3>1. request'[u] = request[u] /\ table'[u] = table[u]
      BY <1>2, <2>1
    <3>2. ReadsOf(u, request[u])
      BY <3>1 DEF IInv, ReadInv
    <3> QED BY <3>1, <3>2 DEF ReadsOf, Found
  <2>4. NeverWedged' /\ AwaitedInv' /\ LabelInv'
    BY <2>1 DEF IInv, NeverWedged, AwaitedInv, LabelInv
  <2>5. MislabelledOnlyIfRefused'
    BY <2>1 DEF IInv, MislabelledOnlyIfRefused, Shown
  <2>6. QuietPageIsFull'
    BY <2>1 DEF IInv, QuietPageIsFull, Shown
  <2> QED BY <2>2, <2>3, <2>4, <2>5, <2>6 DEF IInv
<1> QED BY <1>1, <1>2

\* The consumer's insert gets an id above every other.
LEMMA InsertStep ==
  ASSUME IInv, NEW t \in Tabs, Insert(t)
  PROVE  IInv'
<1>1. DbOK
  BY TypeParts DEF IInv
<1>2. /\ nextId[t] \in 1..(MaxId + 1) /\ nextId[t] <= MaxId
      /\ table' = [table EXCEPT ![t] = @ \cup {nextId[t]}]
      /\ nextId' = [nextId EXCEPT ![t] = @ + 1]
  BY <1>1 DEF DbOK, Insert
<1>3. nextId[t] \in Ids /\ nextId[t] + 1 \in 1..(MaxId + 1)
  BY <1>2, DbViewAssumption DEF Ids
<1>4. table' \in [Tabs -> SUBSET Ids] /\ nextId' \in [Tabs -> 1..(MaxId + 1)]
  BY <1>1, <1>2, <1>3 DEF DbOK
<1>5. \A u \in Tabs : \A id \in table'[u] : id < nextId'[u]
  <2> SUFFICES ASSUME NEW u \in Tabs, NEW id \in table'[u]
               PROVE  id < nextId'[u]
    OBVIOUS
  <2>1. CASE u # t
    BY <1>1, <1>2, <2>1 DEF DbOK
  <2>2. CASE u = t
    <3>1. (id \in table[t] \/ id = nextId[t]) /\ nextId'[t] = nextId[t] + 1
      BY <1>1, <1>2, <2>2 DEF DbOK
    <3>2. id \in Ids /\ (id < nextId[t] \/ id = nextId[t])
      BY <1>1, <1>3, <3>1 DEF DbOK
    <3> QED BY <1>2, <2>2, <3>1, <3>2, DbViewAssumption DEF Ids
  <2> QED BY <2>1, <2>2
<1>6. \A u \in Tabs : u # t => table'[u] = table[u]
  BY <1>1, <1>2 DEF DbOK
<1>7. DbOK'
  BY <1>4, <1>5 DEF DbOK
<1> QED BY <1>6, <1>7, DisturbStep DEF Insert

\* The clean-up's delete.
LEMMA DeleteStep ==
  ASSUME IInv, NEW t \in Tabs, NEW id \in Ids, Delete(t, id)
  PROVE  IInv'
<1>1. DbOK
  BY TypeParts DEF IInv
<1>2. table' = [table EXCEPT ![t] = @ \ {id}] /\ nextId' = nextId
  BY DEF Delete
<1>3. table' \in [Tabs -> SUBSET Ids]
  BY <1>1, <1>2 DEF DbOK
<1>4. \A u \in Tabs : table'[u] \in SUBSET table[u] /\ (u # t => table'[u] = table[u])
  BY <1>1, <1>2 DEF DbOK
<1>5. DbOK'
  BY <1>1, <1>2, <1>3, <1>4 DEF DbOK
<1> QED BY <1>4, <1>5, DisturbStep DEF Delete

\* A key stroke, and a step that changes nothing.
LEMMA TypeStep ==
  ASSUME IInv, UNCHANGED <<table, nextId, state, request, view, refreshing, awaiting, refused>>,
         input' \in [Tabs -> Queries], timer' \in [Tabs -> BOOLEAN]
  PROVE  IInv'
<1>1. DbOK' /\ RequestsOK' /\ PageOK'
  BY TypeParts DEF IInv, DbOK, RequestsOK, PageOK
<1>2. NeverWedged' /\ AwaitedInv' /\ LabelInv'
  BY DEF IInv, NeverWedged, AwaitedInv, LabelInv
<1>3. MislabelledOnlyIfRefused' /\ QuietPageIsFull'
  BY DEF IInv, MislabelledOnlyIfRefused, QuietPageIsFull, Shown
<1>4. ReadInv'
  BY DEF IInv, ReadInv, ReadsOf, Found
<1>5. TypeOK'
  BY <1>1, TypePartsNext
<1> QED BY <1>2, <1>3, <1>4, <1>5 DEF IInv

-----------------------------------------------------------------------------
(* Starting a load. *)

\* loadTable of the tabs ts, asked for as s: the tabs that were idle fetch,
\* show their spinner and are asked for what they say; a tab that was loading
\* keeps its fetch and notes the refusal.
LEMMA LoadTablesStep ==
  ASSUME IInv, NEW ts \in SUBSET Tabs, NEW s \in [Tabs -> TabState],
         \A t \in Tabs : s[t].loading = state[t].loading,
         \A t \in Tabs \ ts : s[t] = state[t],
         LoadTables(ts, s)
  PROVE  /\ RequestsOK' /\ state' \in [Tabs -> TabState]
         /\ view' \in [Tabs -> View \cup {Loading, Failed}]
         /\ refused' \in [Tabs -> BOOLEAN]
         /\ \A t \in Tabs : state'[t].loading <=> request'[t] # NoRequest
         /\ \A t \in Tabs : state'[t].loading <=> state[t].loading \/ t \in ts
         /\ LabelInv' /\ MislabelledOnlyIfRefused' /\ QuietPageIsFull'
         /\ \A t \in Tabs : request'[t] # NoRequest =>
              request'[t] = request[t] \/ request'[t].step = "total"
<1> DEFINE starts == {t \in ts : ~ state[t].loading}
<1>0. RequestsOK /\ PageOK
  BY TypeParts DEF IInv
<1>1. ASSUME NEW t \in Tabs
      PROVE  /\ s[t] \in TabState /\ s[t].page \in PageNumbers /\ s[t].query \in Queries
             /\ NewRequest(s[t]) \in Request
             /\ NewRequest(s[t]).step = "total"
             /\ NewRequest(s[t]).page = s[t].page /\ NewRequest(s[t]).query = s[t].query
             /\ [s[t] EXCEPT !.loading = TRUE] \in TabState
             /\ [s[t] EXCEPT !.loading = TRUE].loading
             /\ [s[t] EXCEPT !.loading = TRUE].page = s[t].page
             /\ [s[t] EXCEPT !.loading = TRUE].query = s[t].query
  <2>1. s[t] \in TabState
    OBVIOUS
  <2>2. s[t].page \in PageNumbers /\ s[t].query \in Queries
    BY <2>1 DEF TabState
  <2>3. 0 \in 0..MaxId
    BY DbViewAssumption
  <2>4. NewRequest(s[t]) \in Request
    BY <2>2, <2>3 DEF NewRequest, Request, Steps
  <2>5. /\ NewRequest(s[t]).step = "total"
        /\ NewRequest(s[t]).page = s[t].page /\ NewRequest(s[t]).query = s[t].query
    BY DEF NewRequest
  <2>6. /\ [s[t] EXCEPT !.loading = TRUE] \in TabState
        /\ [s[t] EXCEPT !.loading = TRUE].loading
        /\ [s[t] EXCEPT !.loading = TRUE].page = s[t].page
        /\ [s[t] EXCEPT !.loading = TRUE].query = s[t].query
    BY <2>1 DEF TabState
  <2> QED BY <2>1, <2>2, <2>4, <2>5, <2>6
<1>2. ASSUME NEW t \in Tabs, t \in starts
      PROVE  /\ state'[t] = [s[t] EXCEPT !.loading = TRUE]
             /\ request'[t] = NewRequest(s[t])
             /\ view'[t] = Loading /\ refused'[t] = FALSE
  BY <1>2 DEF LoadTables
<1>3. ASSUME NEW t \in Tabs, t \notin starts
      PROVE  /\ state'[t] = s[t] /\ request'[t] = request[t]
             /\ view'[t] = view[t] /\ refused'[t] = (refused[t] \/ t \in ts)
  BY <1>3 DEF LoadTables
<1>4. /\ state' = [t \in Tabs |-> state'[t]] /\ request' = [t \in Tabs |-> request'[t]]
      /\ view' = [t \in Tabs |-> view'[t]] /\ refused' = [t \in Tabs |-> refused'[t]]
  BY DEF LoadTables
<1>n. \A t \in Tabs : state[t].loading <=> request[t] # NoRequest
  BY DEF IInv, NeverWedged
<1>s. ASSUME NEW t \in Tabs, t \in starts
      PROVE  /\ state'[t].loading /\ request'[t] # NoRequest /\ request'[t].step = "total"
             /\ request'[t].page = state'[t].page /\ request'[t].query = state'[t].query
  <2>1. state'[t] = [s[t] EXCEPT !.loading = TRUE] /\ request'[t] = NewRequest(s[t])
    BY <1>s, <1>2
  <2>2. NewRequest(s[t]) # NoRequest
    BY <1>1, MarkersAssumption
  <2>3. state'[t].loading /\ state'[t].page = s[t].page /\ state'[t].query = s[t].query
    BY <1>1, <2>1
  <2> QED BY <1>1, <2>1, <2>2, <2>3
<1> HIDE DEF starts
<1>5. ASSUME NEW t \in Tabs
      PROVE  /\ state'[t] \in TabState /\ request'[t] \in Request \cup {NoRequest}
             /\ view'[t] \in View \cup {Loading, Failed}
  BY <1>0, <1>1, <1>2, <1>3 DEF PageOK, RequestsOK
<1>6. ASSUME NEW t \in Tabs
      PROVE  refused'[t] \in BOOLEAN
  <2>1. CASE t \in starts
    BY <1>2, <2>1
  <2>2. CASE t \notin starts
    BY <1>3, <2>2
  <2> QED BY <2>1, <2>2
<1>7. RequestsOK' /\ state' \in [Tabs -> TabState]
      /\ view' \in [Tabs -> View \cup {Loading, Failed}] /\ refused' \in [Tabs -> BOOLEAN]
  BY <1>4, <1>5, <1>6 DEF RequestsOK
<1>8. ASSUME NEW t \in Tabs
      PROVE  /\ state'[t].loading <=> request'[t] # NoRequest
             /\ state'[t].loading <=> state[t].loading \/ t \in ts
             /\ request'[t] # NoRequest =>
                  request'[t] = request[t] \/ request'[t].step = "total"
  <2>1. CASE t \in starts
    <3>1. t \in ts
      BY <2>1 DEF starts
    <3> QED BY <1>s, <2>1, <3>1
  <2>2. CASE t \notin starts
    BY <1>3, <1>n, <2>2 DEF starts
  <2> QED BY <2>1, <2>2
<1>9. LabelInv'
  <2> SUFFICES ASSUME NEW t \in Tabs, state'[t].loading, ~ refused'[t]
               PROVE  request'[t].page = state'[t].page /\ request'[t].query = state'[t].query
    BY DEF LabelInv
  <2>1. CASE t \in starts
    BY <1>s, <2>1
  <2>2. CASE t \notin starts
    <3>1. t \notin ts /\ ~ refused[t]
      BY <1>3, <2>2
    <3>2. state'[t] = state[t] /\ request'[t] = request[t]
      BY <1>3, <2>2, <3>1
    <3> QED BY <3>1, <3>2 DEF IInv, LabelInv
  <2> QED BY <2>1, <2>2
<1>10. ASSUME NEW t \in Tabs, view'[t] \notin {Loading, Failed}
       PROVE  view'[t] = view[t] /\ (~ refused'[t] => ~ refused[t])
  <2>1. t \notin starts
    BY <1>2, <1>10
  <2> QED BY <1>3, <2>1
<1>11. MislabelledOnlyIfRefused'
  BY <1>10 DEF IInv, MislabelledOnlyIfRefused, Shown
<1>12. QuietPageIsFull'
  BY <1>10 DEF IInv, QuietPageIsFull, Shown
<1> QED BY <1>7, <1>8, <1>9, <1>11, <1>12

\* Nothing has been read by a fetch that has just started.
LEMMA LoadStep ==
  ASSUME IInv, NEW ts \in SUBSET Tabs, NEW s \in [Tabs -> TabState],
         \A t \in Tabs : s[t].loading = state[t].loading,
         \A t \in Tabs \ ts : s[t] = state[t],
         LoadTables(ts, s), UNCHANGED <<table, nextId>>,
         input' \in [Tabs -> Queries], timer' \in [Tabs -> BOOLEAN],
         refreshing' \in BOOLEAN, awaiting' \in SUBSET Tabs, AwaitedInv',
         refreshing' => awaiting' # {} /\ \A t \in awaiting' : state[t].loading \/ t \in ts
  PROVE  IInv'
<1>1. /\ RequestsOK' /\ state' \in [Tabs -> TabState]
      /\ view' \in [Tabs -> View \cup {Loading, Failed}]
      /\ refused' \in [Tabs -> BOOLEAN]
      /\ \A t \in Tabs : state'[t].loading <=> request'[t] # NoRequest
      /\ \A t \in Tabs : state'[t].loading <=> state[t].loading \/ t \in ts
      /\ LabelInv' /\ MislabelledOnlyIfRefused' /\ QuietPageIsFull'
      /\ \A t \in Tabs : request'[t] # NoRequest =>
           request'[t] = request[t] \/ request'[t].step = "total"
  BY LoadTablesStep
<1>2. PageOK'
  BY <1>1 DEF PageOK
<1>3. TypeOK'
  BY <1>1, <1>2, SameDb, TypePartsNext
<1>4. NeverWedged'
  BY <1>1 DEF NeverWedged
<1>5. ReadInv'
  <2> SUFFICES ASSUME NEW t \in Tabs, request'[t] # NoRequest, request'[t].quiet
               PROVE  ReadsOf(t, request[t])'
    BY DEF ReadInv
  <2>1. CASE request'[t].step = "total"
    BY <2>1 DEF ReadsOf
  <2>2. CASE request'[t] = request[t]
    <3>1. ReadsOf(t, request[t])
      BY <2>2 DEF IInv, ReadInv
    <3> QED BY <2>2, <3>1 DEF ReadsOf, Found
  <2> QED BY <1>1, <2>1, <2>2
<1> QED BY <1>1, <1>3, <1>4, <1>5 DEF IInv

\* A load of one tab that loadAllTables does not wait for.
LEMMA LoadOneStep ==
  ASSUME IInv, NEW t \in Tabs, NEW p \in PageNumbers, NEW q \in Queries,
         LoadTables({t}, [state EXCEPT ![t].query = q, ![t].page = p]),
         UNCHANGED <<table, nextId, input, refreshing, awaiting>>,
         timer' \in [Tabs -> BOOLEAN]
  PROVE  IInv'
<1> DEFINE s == [state EXCEPT ![t].query = q, ![t].page = p]
<1>1. PageOK /\ state \in [Tabs -> TabState]
  BY TypeParts DEF IInv, PageOK
<1>2. s \in [Tabs -> TabState] /\ \A u \in Tabs : s[u].loading = state[u].loading
  BY <1>1 DEF TabState
<1>3. \A u \in Tabs \ {t} : s[u] = state[u]
  BY <1>1
<1>4. input' \in [Tabs -> Queries] /\ refreshing' \in BOOLEAN /\ awaiting' \in SUBSET Tabs
  BY <1>1 DEF PageOK
<1>5. AwaitedInv'
  BY DEF IInv, AwaitedInv
<1>6. refreshing' => awaiting' # {} /\ \A u \in awaiting' : state[u].loading \/ u \in {t}
  BY DEF IInv, NeverWedged
<1> HIDE DEF s
<1>7. LoadTables({t}, s)
  BY DEF s
<1> QED BY <1>2, <1>3, <1>4, <1>5, <1>6, <1>7, LoadStep

\* The debounce timer takes the search box over.
LEMMA DebounceStep ==
  ASSUME IInv, NEW t \in Tabs, Debounce(t)
  PROVE  IInv'
<1>1. input[t] \in Queries /\ timer \in [Tabs -> BOOLEAN]
  BY TypeParts DEF IInv, PageOK
<1>2. timer' \in [Tabs -> BOOLEAN]
  BY <1>1 DEF Debounce
<1> QED BY <1>1, <1>2, PageNumberFacts, LoadOneStep DEF Debounce

\* A button leads to a page.
LEMMA GoPageStep ==
  ASSUME IInv, NEW t \in Tabs, NEW p \in PageNumbers, GoPage(t, p)
  PROVE  IInv'
<1>1. timer' \in [Tabs -> BOOLEAN] /\ state \in [Tabs -> TabState]
  BY TypeParts DEF IInv, PageOK, GoPage
<1>2. state[t] \in TabState /\ state[t].query \in Queries
  BY <1>1 DEF TabState
<1>3. [state EXCEPT ![t].query = state[t].query, ![t].page = p] = [state EXCEPT ![t].page = p]
  BY <1>1, <1>2 DEF TabState
<1> QED BY <1>1, <1>2, <1>3, LoadOneStep DEF GoPage

\* loadAllTables waits exactly for the loads it started.
LEMMA RefreshStep ==
  ASSUME IInv, Refresh
  PROVE  IInv'
<1> DEFINE s == [t \in Tabs |-> [state[t] EXCEPT !.page = 1]]
<1>1. PageOK /\ state \in [Tabs -> TabState]
  BY TypeParts DEF IInv, PageOK
<1>2. s \in [Tabs -> TabState] /\ \A t \in Tabs : s[t].loading = state[t].loading
  BY <1>1, PageNumberFacts DEF TabState
<1>3. input' \in [Tabs -> Queries] /\ timer' \in [Tabs -> BOOLEAN]
  BY <1>1 DEF PageOK, Refresh
<1>4. awaiting' = {t \in Tabs : ~ state[t].loading} /\ refreshing' = (awaiting' # {})
  BY DEF Refresh
<1>5. refreshing' \in BOOLEAN /\ awaiting' \in SUBSET Tabs /\ AwaitedInv'
  BY <1>4 DEF AwaitedInv
<1>6. refreshing' => awaiting' # {} /\ \A t \in awaiting' : state[t].loading \/ t \in Tabs
  BY <1>4
<1> HIDE DEF s
<1>7. LoadTables(Tabs, s) /\ UNCHANGED <<table, nextId>>
  BY DEF Refresh, s
<1> QED BY <1>2, <1>3, <1>5, <1>6, <1>7, LoadStep

-----------------------------------------------------------------------------
(* The answer. *)

\* A load ends: its tab is idle and awaited no more.
LEMMA SettleStep ==
  ASSUME IInv, NEW t \in Tabs, Settle(t), NEW v \in View \cup {Loading, Failed},
         NEW x \in TabState, ~ x.loading,
         view' = [view EXCEPT ![t] = v], state' = [state EXCEPT ![t] = x],
         v \notin {Loading, Failed} /\ ~ refused[t] =>
           v.of = [page |-> v.page, query |-> v.query],
         v \notin {Loading, Failed} /\ v.quiet =>
           FullPage(v.of.page, v.pages, v.filtered, v.rows)
  PROVE  IInv'
<1>0. DbOK /\ RequestsOK /\ PageOK
  BY TypeParts DEF IInv
<1>1. /\ awaiting' = awaiting \ {t} /\ refreshing' = (awaiting' # {})
      /\ request' = [request EXCEPT ![t] = NoRequest]
      /\ UNCHANGED <<table, nextId, input, timer, refused>>
  BY DEF Settle
<1>2. /\ state'[t] = x /\ view'[t] = v /\ request'[t] = NoRequest
      /\ \A u \in Tabs : u # t =>
           state'[u] = state[u] /\ view'[u] = view[u] /\ request'[u] = request[u]
  BY <1>0, <1>1 DEF PageOK, RequestsOK
<1>3. refreshing' \in BOOLEAN /\ AwaitedInv'
  BY <1>1 DEF AwaitedInv
<1>4. /\ state' \in [Tabs -> TabState] /\ view' \in [Tabs -> View \cup {Loading, Failed}]
      /\ RequestsOK' /\ awaiting' \subseteq Tabs
  BY <1>0, <1>1 DEF PageOK, RequestsOK
<1>5. PageOK'
  BY <1>0, <1>1, <1>3, <1>4 DEF PageOK
<1>6. TypeOK'
  BY <1>1, <1>4, <1>5, SameDb, TypePartsNext
<1>7. NeverWedged'
  <2>1. \A u \in Tabs : state[u].loading <=> request[u] # NoRequest
    BY DEF IInv, NeverWedged
  <2>2. ASSUME NEW u \in Tabs
        PROVE  state'[u].loading <=> request'[u] # NoRequest
    BY <1>2, <2>1
  <2>3. ASSUME NEW u \in awaiting'
        PROVE  state'[u].loading
    <3>1. u \in awaiting /\ u # t /\ u \in Tabs
      BY <1>0, <1>1, <2>3 DEF PageOK
    <3>2. state[u].loading
      BY <3>1 DEF IInv, NeverWedged, AwaitedInv
    <3> QED BY <1>2, <3>1, <3>2
  <2>4. refreshing' => awaiting' # {}
    BY <1>1
  <2> QED BY <2>2, <2>3, <2>4 DEF NeverWedged
<1>8. LabelInv'
  <2> SUFFICES ASSUME NEW u \in Tabs, state'[u].loading, ~ refused'[u]
               PROVE  request'[u].page = state'[u].page /\ request'[u].query = state'[u].query
    BY DEF LabelInv
  <2>1. u # t
    BY <1>2
  <2> QED BY <1>1, <1>2, <2>1 DEF IInv, LabelInv
<1>9. ReadInv'
  <2> SUFFICES ASSUME NEW u \in Tabs, request'[u] # NoRequest, request'[u].quiet
               PROVE  ReadsOf(u, request[u])'
    BY DEF ReadInv
  <2>1. request'[u] = request[u] /\ table' = table
    BY <1>1, <1>2
  <2>2. ReadsOf(u, request[u])
    BY <2>1 DEF IInv, ReadInv
  <2> QED BY <2>1, <2>2 DEF ReadsOf, Found
<1>10. MislabelledOnlyIfRefused'
  <2> SUFFICES ASSUME NEW u \in Tabs, view'[u] \notin {Loading, Failed}, ~ refused'[u]
               PROVE  view'[u].of = [page |-> view'[u].page, query |-> view'[u].query]
    BY DEF MislabelledOnlyIfRefused, Shown
  <2>1. CASE u = t
    BY <1>1, <1>2, <2>1
  <2>2. CASE u # t
    BY <1>1, <1>2, <2>2 DEF IInv, MislabelledOnlyIfRefused, Shown
  <2> QED BY <2>1, <2>2
<1>11. QuietPageIsFull'
  <2> SUFFICES ASSUME NEW u \in Tabs, view'[u] \notin {Loading, Failed}, view'[u].quiet
               PROVE  FullPage(view'[u].of.page, view'[u].pages, view'[u].filtered, view'[u].rows)
    BY DEF QuietPageIsFull, Shown, FullPage
  <2>1. CASE u = t
    BY <1>2, <2>1
  <2>2. CASE u # t
    BY <1>2, <2>2 DEF IInv, QuietPageIsFull, Shown, FullPage
  <2> QED BY <2>1, <2>2
<1> QED BY <1>3, <1>6, <1>7, <1>8, <1>9, <1>10, <1>11 DEF IInv

\* The answer is shown as what the tab says now.
LEMMA LoadOkStep ==
  ASSUME IInv, NEW t \in Tabs, LoadOk(t)
  PROVE  IInv'
<1> DEFINE r == request[t]
           v == [rows |-> r.rows, total |-> r.total, filtered |-> r.filtered,
                 pages |-> PagesOf(r.filtered), page |-> state[t].page,
                 query |-> state[t].query,
                 of |-> [page |-> r.page, query |-> r.query], quiet |-> r.quiet]
           x == [state[t] EXCEPT !.pages = PagesOf(r.filtered), !.loading = FALSE]
<1>0. RequestsOK /\ PageOK
  BY TypeParts DEF IInv
<1>1. r # NoRequest /\ r.step = "answer"
  BY DEF LoadOk, At
<1>2. /\ r.page \in PageNumbers /\ r.query \in Queries /\ r.total \in 0..MaxId
      /\ r.filtered \in 0..MaxId /\ r.rows \in SUBSET Ids /\ r.quiet \in BOOLEAN
  BY <1>0, <1>1, RequestFacts
<1>3. PagesOf(r.filtered) \in PageNumbers
  BY <1>2, PagesFacts
<1>4. state[t] \in TabState /\ state[t].page \in PageNumbers /\ state[t].query \in Queries
  <2>1. state[t] \in TabState
    BY <1>0 DEF PageOK
  <2> QED BY <2>1 DEF TabState
<1>5. v \in View
  <2> HIDE DEF r
  <2> QED BY <1>2, <1>3, <1>4 DEF View
<1>6. x \in TabState /\ ~ x.loading
  BY <1>3, <1>4 DEF TabState
<1>7. view' = [view EXCEPT ![t] = v] /\ state' = [state EXCEPT ![t] = x] /\ Settle(t)
  BY DEF LoadOk
<1>8. ~ refused[t] => v.of = [page |-> v.page, query |-> v.query]
  <2>1. state[t].loading
    BY <1>1 DEF IInv, NeverWedged
  <2>2. ~ refused[t] => r.page = state[t].page /\ r.query = state[t].query
    BY <2>1 DEF IInv, LabelInv
  <2> HIDE DEF r
  <2> QED BY <2>2
<1>9. v.quiet => FullPage(v.of.page, v.pages, v.filtered, v.rows)
  <2>1. r.quiet => FullPage(r.page, PagesOf(r.filtered), r.filtered, r.rows)
    BY <1>1 DEF IInv, ReadInv, ReadsOf
  <2> HIDE DEF r
  <2> QED BY <2>1
<1> HIDE DEF v, x
<1> QED BY <1>5, <1>6, <1>7, <1>8, <1>9, SettleStep

\* An error leaves the tab idle too.
LEMMA LoadFailsStep ==
  ASSUME IInv, NEW t \in Tabs, LoadFails(t)
  PROVE  IInv'
<1> DEFINE x == [state[t] EXCEPT !.loading = FALSE]
<1>1. state[t] \in TabState
  BY TypeParts DEF IInv, PageOK
<1>2. x \in TabState /\ ~ x.loading
  BY <1>1 DEF TabState
<1>3. view' = [view EXCEPT ![t] = Failed] /\ state' = [state EXCEPT ![t] = x] /\ Settle(t)
  BY DEF LoadFails
<1> HIDE DEF x
<1> QED BY <1>2, <1>3, SettleStep

-----------------------------------------------------------------------------
(* The invariant. *)

\* The script starts with a load of every tab, on tables without gaps.
LEMMA InitHolds == Init => IInv
<1> SUFFICES ASSUME Init PROVE IInv
  OBVIOUS
<1>1. DbOK
  <2>1. /\ nextId \in [Tabs -> 1..(MaxId + 1)] /\ table = [t \in Tabs |-> 1..(nextId[t] - 1)]
    BY DEF Init
  <2>2. ASSUME NEW t \in Tabs
        PROVE  1..(nextId[t] - 1) \in SUBSET Ids /\ \A id \in 1..(nextId[t] - 1) : id < nextId[t]
    <3>1. nextId[t] \in 1..(MaxId + 1)
      BY <2>1
    <3> QED BY <3>1, DbViewAssumption DEF Ids
  <2> QED BY <2>1, <2>2 DEF DbOK
<1>2. ASSUME NEW t \in Tabs
      PROVE  /\ state[t] \in TabState /\ state[t].loading
             /\ request[t] \in Request /\ request[t] # NoRequest
             /\ request[t].step = "total"
             /\ request[t].page = state[t].page /\ request[t].query = state[t].query
             /\ view[t] = Loading
  <2>1. state[t] = [page |-> 1, query |-> NoQuery, pages |-> 1, loading |-> TRUE]
    BY DEF Init
  <2>2. state[t] \in TabState /\ state[t].page \in PageNumbers /\ state[t].query \in Queries
    BY <2>1, PageNumberFacts, DbViewAssumption DEF TabState
  <2>3. request[t] = NewRequest(state[t]) /\ view[t] = Loading
    BY DEF Init
  <2>4. 0 \in 0..MaxId
    BY DbViewAssumption
  <2>5. NewRequest(state[t]) \in Request
    BY <2>2, <2>4 DEF NewRequest, Request, Steps
  <2>6. request[t].step = "total" /\ request[t].page = state[t].page
        /\ request[t].query = state[t].query
    BY <2>3 DEF NewRequest
  <2> QED BY <2>1, <2>2, <2>3, <2>5, <2>6, MarkersAssumption
<1>3. RequestsOK
  <2>1. request = [t \in Tabs |-> NewRequest(state[t])]
    BY DEF Init
  <2>2. request = [t \in Tabs |-> request[t]]
    BY <2>1
  <2> QED BY <1>2, <2>2 DEF RequestsOK
<1>4. PageOK
  <2>1. state \in [Tabs -> TabState]
    BY PageNumberFacts, DbViewAssumption DEF Init, TabState
  <2> QED BY <2>1, DbViewAssumption DEF Init, PageOK
<1>5. NeverWedged /\ AwaitedInv
  <2>1. refreshing => awaiting # {} /\ \A t \in awaiting : state[t].loading
    BY <1>2, DbViewAssumption DEF Init
  <2>2. AwaitedInv
    BY DEF Init, AwaitedInv
  <2> QED BY <1>2, <2>1, <2>2 DEF NeverWedged
<1>6. LabelInv
  BY <1>2 DEF LabelInv
<1>7. ReadInv
  BY <1>2 DEF ReadInv, ReadsOf
<1>8. MislabelledOnlyIfRefused /\ QuietPageIsFull
  BY <1>2 DEF MislabelledOnlyIfRefused, QuietPageIsFull, Shown
<1>9. TypeOK
  BY <1>1, <1>3, <1>4, TypeParts
<1> QED BY <1>5, <1>6, <1>7, <1>8, <1>9 DEF IInv

\* Every step of the page, the handler and the writers keeps the invariant.
LEMMA Inductive == IInv /\ [Next]_vars => IInv'
<1> SUFFICES ASSUME IInv, [Next]_vars PROVE IInv'
  OBVIOUS
<1>0. input \in [Tabs -> Queries] /\ timer \in [Tabs -> BOOLEAN]
  BY TypeParts DEF IInv, PageOK
<1>1. ASSUME NEW t \in Tabs, ReadTotal(t) \/ ReadFiltered(t) \/ ReadRows(t)
      PROVE  IInv'
  BY <1>1, ReadTotalStep, ReadFilteredStep, ReadRowsStep
<1>2. ASSUME NEW t \in Tabs, Insert(t) PROVE IInv'
  BY <1>2, InsertStep
<1>3. ASSUME NEW t \in Tabs, NEW id \in Ids, Delete(t, id) PROVE IInv'
  BY <1>3, DeleteStep
<1>4. ASSUME NEW t \in Tabs, NEW q \in Queries, Type(t, q) PROVE IInv'
  <2>1. input' \in [Tabs -> Queries] /\ timer' \in [Tabs -> BOOLEAN]
    BY <1>0, <1>4 DEF Type
  <2>2. UNCHANGED <<table, nextId, state, request, view, refreshing, awaiting, refused>>
    BY <1>4 DEF Type
  <2> QED BY <2>1, <2>2, TypeStep
<1>5. ASSUME NEW t \in Tabs, Debounce(t) PROVE IInv'
  BY <1>5, DebounceStep
<1>6. ASSUME NEW t \in Tabs, NEW p \in PageNumbers, GoPage(t, p) PROVE IInv'
  BY <1>6, GoPageStep
<1>7. CASE Refresh
  BY <1>7, RefreshStep
<1>8. ASSUME NEW t \in Tabs, LoadOk(t) \/ LoadFails(t) PROVE IInv'
  BY <1>8, LoadOkStep, LoadFailsStep
<1>9. CASE UNCHANGED vars
  BY <1>0, <1>9, TypeStep DEF vars
<1> QED BY <1>1, <1>2, <1>3, <1>4, <1>5, <1>6, <1>7, <1>8, <1>9 DEF Next

\* The invariant holds in every state of the database view.
THEOREM Invariant == Spec => []IInv
BY InitHolds, Inductive, PTL DEF Spec

\* Type correctness of the database view: among others, the page and number of
\* pages a tab remembers are always pages the table can have.
THEOREM TypeCorrect == Spec => []TypeOK
<1>1. IInv => TypeOK
  BY DEF IInv
<1> QED BY <1>1, Invariant, PTL

\* No tab wedges: the loading flag never outlives its fetch, and the refresh
\* button is disabled only while a load runs that will enable it again.
THEOREM TabsNeverWedge == Spec => []NeverWedged
<1>1. IInv => NeverWedged
  BY DEF IInv
<1> QED BY <1>1, Invariant, PTL

\* Rows are labelled with a page or query other than their own only if a load
\* was refused while they were fetched.
THEOREM LabelsAreRight == Spec => []MislabelledOnlyIfRefused
<1>1. IInv => MislabelledOnlyIfRefused
  BY DEF IInv
<1> QED BY <1>1, Invariant, PTL

\* The paging arithmetic: every page of an unchanging result is full up to the
\* last one, which holds exactly the rest, and pages behind it are empty.
THEOREM PagesAreFull == Spec => []QuietPageIsFull
<1>1. IInv => QuietPageIsFull
  BY DEF IInv
<1> QED BY <1>1, Invariant, PTL
=============================================================================
