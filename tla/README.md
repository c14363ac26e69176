# Formal models of the telemetry pipeline

TLA+ models of SwitchNetconf + PortFinder: the collector that receives Cisco
dial-out telemetry, the consumer that writes it to PostgreSQL, and the web
application that reads it. The models are checked by TLC on small instances
and the central safety properties are proved with TLAPS for all instances.
File and line references are to the repository (`src/` below).

## 1. The system

### Components, state, operations

| Part | Source | State it keeps | Operations |
|------|--------|----------------|------------|
| Device (external) | - | running configuration, tables | periodic pushes (full state), on-change pushes (deltas) |
| Collector | `collector/main.go` | open streams, one goroutine each; the push in hand | start, `MdtDialout` loop, `dispatch`, `publishMAC/ARP/Interface/Vlan`, graceful stop |
| Broker (external) | - | one partition per topic, the group's committed offsets | append, fetch, commit |
| Consumer, MAC and ARP | `consumer/main.go` `consumeMACBatch`, `consumeARPBatch` | a batch map, `lastMsg`, a timer | buffer, flush on size / timer / close, mark |
| Consumer, interfaces and VLANs | `consumer/main.go` `ConsumeClaim`, `handleInterface`, `handleVlan` | none | one upsert per message, mark on success |
| Clean-up | `consumer/main.go` `startCleanup` | a ticker | delete rows older than their TTL |
| Database | `migrations/001_init.sql` | four telemetry tables and `api_tokens` | single statements |
| Access tokens | `webapp/internal/tokens` | `api_tokens`; a goroutine per accepted lookup | create, list, revoke, look up, touch `last_used_at` |
| Access control | `webapp/main.go`, `webapp/saml.go`, `tokens/auth.go` | its configuration; SAML sessions (cookies, external) | `protect`, `protectAdmin`, `BearerOrSAML`, the route table, menu, logout |
| Search, port info, port lookup, VLANs, reverse DNS | `webapp/internal/...` | none | read-only queries |
| Database view | `webapp/internal/dbview`, `webapp/views/dbview.html` | per-table page, query, loading flag in the browser | count, filter, page; debounce, load, refresh |
| Pages | `webapp/views/*.html` | searches under way, results, host names, sort order | search, clear, sort, resolve host names, token list |

### Interaction

A device keeps a periodic and an on-change stream open; each is a gRPC call
with its own goroutine, so the two are not ordered with respect to each other.
`dispatch` publishes synchronously and the push is acknowledged whatever
`dispatch` returned. The consumer is one process in one consumer group; sarama
commits marked offsets in the background and when a session ends. Everything
downstream communicates through PostgreSQL only: consumer upserts, the
clean-up goroutine, and the web application's statements interleave freely.

### What is hard here

* an `Exec` that fails may have been committed; marks are committed later than
  they are made; sessions end and processes die between any two of these steps;
* a batch spans several messages but has one mark; a malformed message is
  marked on its own while older ones are still buffered;
* periodic and on-change pushes overtake each other, get lost, or arrive
  twice, while three message states (absent, empty, value) have to be kept apart;
* counting and inserting tokens are two statements of concurrent requests, and
  a background update outlives its request;
* the same interface arrives in differently shaped trees and under differently
  spelled names, and one push becomes many sends that can fail half way;
* a stop has to drain handlers whose streams devices never close;
* each route gets its guard by position in a call, and rights are read from a
  cookie that outlives them;
* the pages read shared state before an `await` and use it after.

`PROJECT.json` lists each of these as a hazard at its line.

### Properties that make the parts correct

* Consumer, batches: what is committed is in the table (at-least-once); a
  flush never marks what was not delivered; nothing stays buffered for ever;
  after a replay the rows are the newest again.
* Consumer, configuration: only a message whose handler failed is lost; rows
  never go back in time, are never a mixture that contradicts their own report,
  and go only after the TTL.
* Pipeline: the row shows what is configured - after a snapshot, and, for the
  tri-state fields, after deltas alone.
* Collector: what a device reports is published, as far as the messages can
  carry it and as it was meant, and in order per stream, or its loss is logged;
  a stop waits for devices only.
* Tokens: the limit, up to the concurrency the code allows; revocation is final;
  only a session that may manage tokens ever creates one.
* Access control: what a page offers is what its session may do.
* Search: a MAC learned in colon or dotted form is found, however it is typed
  and in whatever case it is stored; a MAC has one row with a port for each
  spelling that is stored; a host's present address is found unless `mac_table`
  has its MAC in another case only.
* Database view: no tab wedges, rows are labelled with the query and page they
  answer, the pages of a table at rest partition it, a refresh ends.
* Search page: it shows the answer to the last search, host names stand beside
  their address, and nothing stays pending or disabled for ever.

## 2. Modules

```
ConsumerGroup --+-- BatchConsumer --+-- MCBatchConsumer
DedupBatch -----+                   +-- BatchConsumerProofs
   +-- DedupLoop -------------------+
          +-- MCDedupBatch

ConsumerGroup --+-- ConfigConsumer --+-- MCConfigConsumer
ConfigRow ------+        |           +-- ConfigConsumerProofs
   |                     |  (INSTANCE, refinement)
   |                TelemetryTable
   +-- ConfigPipeline --+-- MCConfigPipeline
                        +-- ConfigPipelineProofs

TelemetryTree --+-- MCCollector
Collector ------+
   +-- CollectorProofs

Tokens --- WebApp --+-- MCWebApp
                    +-- WebAppProofs

DbView --+-- MCDbView        Search --+-- MCSearch        SearchPage --+-- MCSearchPage
         +-- DbViewProofs             +-- SearchProofs                 +-- SearchPageProofs
```

**ConsumerGroup** - one partition and the group session on it, from how
`consumer/main.go` uses sarama. `log` is the partition, `next` the position of
the claim, `marked` what `MarkMessage` left, `committed` what the broker knows.
Background commit, the end of a session with or without its last commit, exit
and crash are separate actions. `JoinSession` starts at the committed offset,
or at the end of the log without one (`OffsetNewest`). The history variable
`base` remembers where the present line of commits began; delivery properties
speak of offsets from `base` on. One partition and one member, because the
deployment has one consumer and topics with one partition.

**DedupBatch** - the batch map and `Absorb`, which says in one expression what
the loop over a message's entries leaves in it: for each key the first of the
newest entries, unless what is buffered is as new.

**DedupLoop** - the loop itself, one iteration per step. Its run and its theorem
show that it computes `Absorb`.

**BatchConsumer** - `consumeMACBatch` / `consumeARPBatch` (identical but for
columns). One action per case of the select loop, each with the whole of
`flush` inside it. `FlushError` covers both outcomes of a failed `Exec`.
`db` is the table, `hw` (history) the newest timestamp ever written per key.
The stop/drain/reset of the timer is abstracted to "the timer may fire".

**ConfigRow** - the two guarded `COALESCE` upserts on one row: `Param` is the
statement parameter (with `NULLIF` for VLAN status), `Inserted` the `VALUES`
list (with the default 1 of `access_vlan`), `Merged` the `SET` list, `Newer`
the `WHERE` guard.

**TelemetryTable** - the abstract specification: what readers of a
configuration table may rely on whatever order messages come in.

**ConfigConsumer** - `ConsumeClaim`'s loop over `handleInterface` /
`handleVlan`, clean-up, sessions and crashes. `setAt` (history) dates the
report each cell came from; with `asOf` derived from `db` it is the refinement
mapping to TelemetryTable.

**ConfigPipeline** - one interface from the device's configuration to its row:
`Configure` and `Periodic` push onto two streams, `Collect` is an iteration of
`MdtDialout` with `publishInterface`, `WireCell` the JSON fate of a field
(pointer, `omitempty`, plain bool), `Consume` the upsert. The device side is
external, taken from the collector's comments on what pushes contain. After
the end of a session or a crash, `Redeliver` resumes at some committed offset;
`SkipToNewest` is the session that has no valid one, because nothing was
committed yet or because the topic's retention (one hour,
docker-compose.yml:42) has passed it.

**TelemetryTree** - the parsers of the collector as functions from a decoded
push to the list of messages it becomes, in sending order. A field keeps its
local name, whether a YANG prefix stands before it, whether it carries a value,
and its children; text is atomic except for interface names (letters and rest,
because `expandIfName` takes them apart) and masks (octets, because
`maskToPrefixLen` counts their ones). `collectInterfaces` iterates the same
stack walk as the code, `WalkStep` being one turn of its loop.

**Collector** - the process around them: streams open and end, `Recv` takes a
push, each `SendMessage` is a step that may succeed (once or, after a retry,
twice) or fail (with or without having been appended), a failure ends the
parser, and the push is acknowledged either way. `Exit` is the return of
`GracefulStop`, which has a guard and no deadline. `topic` stands for the four
topics in the order of their appends, each message with the stream and push it
came from. What dispatch makes of a push (`Parsed`), the reports the device put
into it (`Meaning`) and the message that carries a report (`Carried`) are
constants; `MCCollector` takes the first from TelemetryTree, applied to trees
that it builds from small reports in every layout the collector's comments name
(flat, chained, in a further container; VLANs under `switchport-config` or
`switchport`; both VLAN models; MAC and ARP rows nested or not), and the second
directly from the reports, which are states of one or two interfaces, VLANs or
rows, and a delta that empties an interface's fields without mentioning
`shutdown`. `Carried` is what the Go types and their JSON can hold of a report,
and not all of it: an emptied VRF, MTU or VLAN status is omitted, and `shutdown`
is false where a report does not mention it (section 6). Past that, the
properties allow no loss and no invention. A request that the producer gave up
is not executed by the broker later.

**WebApp** - the guards, the route table and the menu of the web application
around Tokens, which it extends: a request is admitted by `Admits` for its
route, the session cookie and the bearer token it carries, and only then takes
the step of Tokens. Sessions carry the role as it was at login. A create
request counts and inserts in two steps, and its session may end in between.
`entitled` (history) records who ever had a session that may manage tokens.

**SearchPage** - the script of the index page: `doSearch` up to its `await`,
`Answer` and `SearchFails` after it with the whole of `renderResults` and
`finally` inside, Clear, sorting, and one reverse-DNS request per address. A
request holds the cells it was sent for; when the table is rebuilt they leave
the document (`live`), as captured `td` elements do. A row is its address, a
host name is the address it was looked up for, and sorting may produce any
order.

**Tokens** - `api_tokens` and its handlers. `CreateHandler` is two actions
(`CountActive`, `InsertToken`) with the request's state between them, because
it is two statements; `Lookup` starts the goroutine that `Touch` ends.

**DbView** - the tabs of the database page and `TableHandler`. A request is a
record that goes through the handler's statements one at a time (`ReadTotal`,
`ReadFiltered`, `ReadRows`), while the consumer inserts and the clean-up
deletes rows. On the page, `LoadTables` is `loadTable` with its early return
while a load runs, started by `Debounce`, `GoPage` and `Refresh`; `LoadOk` and
`LoadFails` are what follows the `await`. `state` is `tableState`, `view` what
is rendered, with the page and query the handler was asked for beside the ones
it is labelled with. Rows are ids; which of them a search text matches is
fixed, so an update that changes whether a row matches is not modelled.

**Search** - `POST /api/search`. `searchSQL` as set expressions: `DISTINCT ON`
may keep any of equally ranked rows, so `LatestArp`, `BestMac` and `LatestOf`
are sets of possible results and `Handler` answers from any of them. MAC
addresses keep their spelling (`[hex, sep, case]`; separators colon, dot, hyphen
or none), because it decides what belongs together: `DISTINCT ON` and the join
(sql.go:40, :49, :73) go by the string, the `WHERE` clause and `NOT EXISTS`
(sql.go:77, :99) by the string in lower case, and nothing by the digits alone.
Host names resolve to any set of addresses, none included. The statement reads
one snapshot, so the tables change again only when the answer has been sent
(`Respond`), and the properties relate it to the tables it was computed from.

## 3. Runs

| Run | Shows | Bounds |
|-----|-------|--------|
| `dedup_loop` | the loop computes `Absorb` after every iteration | every start batch over 2 keys, 2 values and 2 timestamps; messages of up to 3 entries, so ties and duplicates occur within and across |
| `batch_safety` | `LossOnlyBehindMalformed`, `MarksDeliveredMessage`, `DrainedRowsAreNewest`, and under fairness `PublishedIsWritten` | 3 messages out of 6 kinds (newer, older, two keys, duplicated key, empty array, malformed), batch size 2, so that flushes come from size, timer and close |
| `batch_replay` | counterexample to `RowIsNewestWritten` | as `batch_safety` |
| `config_safety` | `LossOnlyOfFailed`, `RowShowsItsReport`, `NoResurrection`, refinement of TelemetryTable | 3 messages out of 6 kinds: snapshot, clear, snapshot without the cleared column, deltas, another row, malformed |
| `pipeline` | `SnapshotHeals`, `DeltasMirror` | 3 pushes on two streams, one field of each marshalling kind, clock to 3, TTL 1 |
| `pipeline_removed`, `pipeline_shutdown` | counterexamples, see section 6 | as `pipeline` |
| `dbview` | `NeverWedged`, `MislabelledOnlyIfRefused`, `QuietPageIsFull`, and under fairness `RefreshEnds` | one tab, page size 2, tables of 0 to 4 rows, an empty and a non-empty search, any number of user actions |
| `search` | `KnownMacFound`, `OneRowPerSpelling`, `CurrentIpFound` | 3 rows in any distribution over 2 switches, 2 addresses and 4 spellings of 2 MACs (one with colons in two cases and with hyphens, the other dotted in mixed case); an access port and a VLAN interface; any subset of 5 terms |
| `collector` | `NoSilentLoss`, `NothingInvented`, `OrderPerStream`, and under fairness `StopHangsOnlyOnDevices` | two streams: one sends any of 18 pushes (every kind, report and layout), the other two pushes out of a MAC table and an undecodable one; any number of restarts |
| `webapp` | `TokensOnlyForEntitled`, `PageWorks`, `LimitWithinConcurrency`, `RevocationIsFinal`, refinement of Tokens | one browser, two accounts, two concurrent create requests, limit 1, two tokens, one day; SAML off, SAML without and with an admin role |
| `search_page` | `ShowsLastSearch`, `HostnameOfItsRow`, and under fairness `SearchEnds`, `HostnamesResolve` | three searches, two clicks on Clear or a header; answers of two rows, of three rows with a repeated and a missing address, and of none |

Why these are enough: three messages let one be committed, one be flushed but
not committed and one be buffered when a crash comes, which is every relative
position the offsets can have; two keys separate "this key" from "another key";
a clock that passes the TTL once lets rows expire, be refreshed and come back.
The limit of tokens matters only relative to the requests in flight, so limit 1
with two requests shows what limit 10 would. Four rows of page size 2 make
empty, partial and full last pages, and a page left behind by deletions. Tabs
share nothing but the refresh button, which waits for the loads it started and
is not held up by a tab that was loading already; both cases occur with one
tab. Three rows let a MAC be learned and have two addresses, or an address move
between two MACs; they also let one MAC stand in both tables, or twice in one,
under different spellings, and every exception that the properties make for
that occurs: without it the run finds a violation. Streams of the collector share only the topic, so one stream
that tries every push and another that interleaves and repeats are enough for
both the parsers and the order; two interfaces of a type make the shortest
chain with a link, and the reports hold every state of an optional field
(absent, empty, set); a MAC or ARP row lacks only its key. Three searches allow one to be answered, one late and one new. One
browser is enough for `webapp`, since sessions are cookies that do not know of
each other and a browser logs in again as someone else. Section 4 says which of
the properties are proved for instances of every size.

`dedup_loop` ends when the message does, `pipeline` when its pushes and its
clock are used up, and `search_page` when its searches and clicks are, so
deadlock is not checked there; the other runs check it. Accounts and requests
of `webapp` and the switches of `search` are symmetric; only safety is checked
with them.

**Fairness.** `batch_safety`: the select loop takes a ready message
(weak fairness of receiving: Go's `select` chooses among the ready cases and
neither starves), and the timer is reset after every expiry, so a flush is
attempted again and again; weak fairness of the *successful* timer flush says
that PostgreSQL does not fail on the same batch for ever. Nothing is assumed of
sessions, crashes or commits: `PublishedIsWritten` promises only while the
session lasts. `dbview`: a request's statements run and its fetch settles, with
an answer or an error (weak fairness of the two together, so neither outcome is
promised); a browser settles every fetch when the connection ends. Nothing is
assumed of the user, the timer or the consumer. `search_page`: likewise every
search and every reverse-DNS request settles, in either way; the server bounds
the latter by three seconds. `collector`: `SendMessage` returns (`Retry.Max`
and the connection timeouts bound it) in either way, goroutines are scheduled,
and `GracefulStop` returns once no handler is left; nothing is assumed of
devices, signals or the broker's success.

## 4. Proofs

Every invariant, action property and refinement that a run checks is a theorem,
for all values of the constants that satisfy the modules' assumptions. Each proof module states its inductive
invariant, a lemma per action, and the theorems. The invariants were checked
with TLC on the runs' instances before they were proved.

**BatchConsumerProofs** - `TypeCorrectness`, `AtLeastOnce`
(`LossOnlyBehindMalformed`), `MarkIsDelivered` (`MarksDeliveredMessage`),
`ReplayHeals` (`DrainedRowsAreNewest`), and of the loop `LoopComputesAbsorb`
(`LoopIsAbsorb`): absorbing one more entry is one more iteration
(`AbsorbAppend`), so the claim about the entries taken so far is inductive.

The claim about committed offsets is not inductive: committed offsets come
from marks, and marks from a batch. `IInv` therefore adds (`OffsetsInv`) that
base, committed, marked and next are in order within the log, and
(`DeliveryInv`) that during a session everything before the *mark* is written
or excused, and everything before the *position* is written, buffered with
something at least as new, or excused by a malformed message already marked.
The lemma `AbsorbCovers` says that buffering loses nothing: every entry of the
message and everything buffered before is covered by what the map holds
afterwards. `FlushDelivery` turns "buffered" into "written" when a flush
succeeds, and the rest is stability: the history only grows, the log is only
appended to.

`ReplayHeals` needs to know why a row that a replay pushed back will be put
right. `ReplayInv` says that all rows and buffered entries come from the topic
(`OriginInv`), and, for an ordered and well-formed topic, that the message with
the newest entry of a stale row comes again from the committed offset, from the
mark, and from the present position unless it is buffered already (`HealInv`,
`Owes`). A drained session has nothing ahead and nothing buffered, so no row is
stale.

**ConfigConsumerProofs** - `TypeCorrect`, `CommittedIsHandled`
(`LossOnlyOfFailed`), `RowsShowReports` (`RowShowsItsReport`),
`NothingResurrected` (`NoResurrection`), and `Refinement`: the consumer
implements TelemetryTable. `IInv` adds that everything before the position of a
session was handled or failed (not only what is committed), that every row is
dated by a report of the topic which it shows in full (`RowOrigin`), and that
no cell is newer than its row (`CellsNotNewer`), which is what the `WHERE`
guard compares. The refinement maps a row to its date; an upsert or a clean-up
is a step of the table and everything else a stutter.

**ConfigPipelineProofs** - `TypeCorrect`, `SnapshotsHeal` (`SnapshotHeals`),
`DeltasAreMirrored` (`DeltasMirror`), for any columns of the three marshalling
kinds, any values, and any number of pushes. Two invariants:

* `SnapInv`: every push dated after the last change has the cells that are
  configured, and every such entry what these are on the wire. A change resets
  the date, so that there are none; only periodic pushes make new ones. Losses,
  replays and reordering do not matter to it.
* `MirrorInv`, while all is in order and nothing was lost: pushes are dated and
  published in the order they were made (`OrderInv`); of those in flight that
  say something of a column, the last is right (`FlightInv`); with none in
  flight, the last entry that can be read, or read again, is right (`LastInv`);
  and when no entry is left that the guard would let change the column, the row
  is right (`RowInv`). The step that matters is the upsert of an entry: those
  behind it are dated no earlier, so if none of them may change the column,
  none speaks of it, and the entry was the last to do so.

**CollectorProofs** - `TypeCorrect`, `TopicInOrder` (`OrderPerStream`),
`NothingLost` (`NoSilentLoss`) and `NothingMadeUp` (`NothingInvented`), for any
streams, pushes and parsers. `OrderPerStream` is about the
order of pushes, not of the messages of one push. The last two have a hypothesis
each about the parsers: that `Parsed` contains the message that carries each
report of a push (`ParsersComplete`), and nothing else (`ParsersSound`). On `MCCollector`'s trees and layouts the parsers
satisfy them, which the run shows by checking the two conclusions; in general
they are folds over trees. `IInv` says of what is still to be sent that it is
of the last push of its stream (`WorkInv`), of what is in the topic that it was
parsed from the push it names (`TopicInv`), and of all that was parsed and not
given up that it is in one of these places (`SentInv`).

**WebAppProofs** - first the tokens alone, for every limit and every finite set
of requests: `TokensTypeCorrect`, `LimitBounded` (`LimitWithinConcurrency`,
inductive on its own: a create request passes the count only while the user is
below the limit, so active tokens plus pending creates stay within the limit
plus the other requests) and the action property `RevocationStands`. Then, for
any number of browsers, accounts and requests and every configuration:

* `WebTypesCorrect`: `WebSpec => []WebTypeOK`;
* `WebImplementsTokens`: `WebSpec => Spec`, the specification of Tokens, so the
  theorems about tokens carry over. Every step of the application is a
  step of Tokens or leaves its variables alone; the only fact needed is that
  the identity a request acts under is a user;
* `OnlyEntitledOwnTokens`: `WebSpec => []TokensOnlyForEntitled`. Not inductive
  alone: `AdminsEntitled` adds that whoever `hasAdminRole` accepts is recorded,
  and `TokenRoutesAreAdmin` that the token routes are behind `protectAdmin`
  whatever bearer token is sent;
* `PagesWork`: `WebSpec => []PageWorks`, from `PageInv`: while a session lives,
  its page shows at most the links of the menu and tokens that exist and are
  its user's (`OwnerStays`: a token keeps its owner).

**DbViewProofs** - `TypeCorrect`, `TabsNeverWedge` (`NeverWedged`),
`LabelsAreRight` (`MislabelledOnlyIfRefused`), `PagesAreFull`
(`QuietPageIsFull`), for any tabs, tables, queries and page size. `IInv` keeps
the awaited loads of a refresh in step with the button, ties a running fetch to
the page and query of its tab unless a load was refused (`LabelInv`), and says
what the statements that already ran have found in a table that did not change
(`ReadInv`). The paging arithmetic rests on how many rows `LIMIT` and `OFFSET`
leave, proved from the cardinality of the rows above an id. The proof needs a
page that has tabs: a refresh of none would never enable its button.

**SearchProofs** - `TypeCorrect`, `LearnedMacsAreFound` (`KnownMacFound`),
`ShownOncePerSpelling` (`OneRowPerSpelling`), `PresentAddressesAreFound`
(`CurrentIpFound`), for any tables, terms and spellings, and whichever of
equally ranked rows `DISTINCT ON` keeps. The tables change again only when the
answer has been sent, so the properties are inductive together with the type
invariant, and the work is in the one step that computes the query.

**SearchPageProofs** - `TypeCorrect`, `HostnamesBesideTheirRows`
(`HostnameOfItsRow`), `LastSearchShown` (`ShowsLastSearch`), for any terms,
answers and number of searches. `LookupsInv` says that the cells a running
reverse-DNS request may still write are of its own address; `ApartInv` that a
search nobody interfered with is the only one, and finds the page empty.

**Assumptions.** The constants are assumed to be what the code makes them: the
batch size and the page size are positive, the columns of `IfEntry` are of one
marshalling kind each, configured values are not the empty value,
`interface_table` has no `NULLIF` column, MAC strings are digits with separators
and a case,
"no port" is not an interface, the markers for absent rows, requests and
answers are not rows, requests or answers, and a page has tabs. TLC evaluates
all of them on the instances.

**Only model-checked.** Liveness (`PublishedIsWritten`, `RefreshEnds`,
`StopHangsOnlyOnDevices`, `SearchEnds`, `HostnamesResolve`), since fairness is
outside the prover's reach; and that the parsers publish what the device meant,
folds over trees. The three counterexamples of section 6 are by their nature TLC's.

## 5. Plan

1. (done) consumer group, batch consumer, configuration consumer, one-interface
   pipeline, tokens; proofs for the batch consumer and tokens.
2. (done) database view: `TableHandler`'s separate statements and the page's
   `loadTable` / `goPage` / `loadAllTables` / debounce state machine.
3. (done) search: the query's halves as set expressions and `not_found`.
4. (done) collector: the parsers, several sends per push with failures in the
   middle, streams, graceful stop and restarts.
5. (done) access control: guards, routes, menu and sessions around the tokens.
6. (done) search page: overlapping searches, Clear, sorting, reverse DNS.
7. (done) retention and restarts in the pipeline.
8. (done) proofs for WebApp: it implements Tokens, `TokensOnlyForEntitled`,
   `PageWorks`.
9. (done) proofs for ConfigConsumer, ConfigPipeline, Collector, DbView, Search
   and SearchPage, and of `DrainedRowsAreNewest`.
10. To come: that the fields of a removed column which the pipeline theorems
    except are wrong only in the ways section 6 lists (which removals stay, and
    until when), and parser facts that need no fold (`expandIfName`,
    `WalkStep`).

## 6. Disagreements found

* Rows of `mac_table` / `arp_table` can go back to older telemetry after a
  crash (`batch_replay`), although "each row always reflects the most recent
  telemetry snapshot" (README.md:391). `DrainedRowsAreNewest` shows that the
  replay repairs them once it has caught up.
* The clear of a removed field is dropped when a newer periodic snapshot
  overtakes it, and no later snapshot removes the value (`pipeline_removed`).
* A delta of any other field resets `shutdown` to false until the next
  snapshot (`pipeline_shutdown`); it is why `NothingInvented` lets the message
  of a report that does not mention `shutdown` say false.

Met on the way, without a run of their own:

* Concurrent create requests of one user pass the count together
  (tokens/handler.go:81), so "Each user is limited to 10 active tokens"
  (README.md:193) does not hold strictly; `LimitWithinConcurrency` says by how
  much it can be overrun.
* An address that is in `arp_table` is reported as not found when its MAC has a
  newer address and is in `mac_table` (search/sql.go:40), although
  search/module.go:31 says "Returns all matching rows from the telemetry
  database"; `CurrentIpFound` says which addresses are found.
* One MAC stored in two spellings has two rows with a port, because
  `DISTINCT ON` compares strings (search/sql.go:40, :49), and spellings that
  differ in more than case add a row without one; search/sql.go:35-36 says that
  "stale duplicates (e.g. a device that moved ports) do not produce multiple
  result rows" and :46-47 that of several switches "the physical access port
  entry" is preferred. `OneRowPerSpelling` says that there is no other way to a
  second row.
* An address whose MAC is in `arp_table` as AA:.. and in `mac_table` as aa:.. is
  reported as not found: the join misses it (search/sql.go:73) and `NOT EXISTS`
  (:99), which compares in lower case, takes it for joined. search/sql.go:37
  says that the second half "catches IPs whose MAC hasn't yet appeared in
  mac_table"; an address between the two halves is in neither. `CurrentIpFound`
  excepts exactly these.
* A MAC stored with hyphens or bare is not found by its digits: `normalizeMac`
  makes the colon and the dotted form (search/sql.go:15-32), "so the query
  matches regardless of which format the device wrote to the database".
  `KnownMacFound` covers the two forms.
* `/api/openapi.json` is registered behind the admin guard
  (swagger/module.go:26), although README.md:176 says that it is "always
  accessible without authentication".
* A search answered after Clear, or after a later search, is rendered all the
  same (views/index.html:711); `ShowsLastSearch` says that this is the only way
  to stale results.
* VRF and MTU are plain fields with `omitempty` (collector/main.go:84): their
  removal is not marshalled, and the old value stays in a row that is refreshed,
  although README.md:376 says "VRF name if configured". `NoSilentLoss` and
  `NothingInvented` take their removal, and that of a VLAN's status, as not carried.
* A removed voice VLAN is stored as 0 (collector/main.go:490), although
  README.md:379 says "`NULL` if not configured".
* A search typed while a load runs is refused (views/dbview.html:489); the
  running load then shows its unfiltered rows and counts under the new query.
  `MislabelledOnlyIfRefused` says that this is the only way to wrong labels.
* Search terms that are neither a MAC, an IPv4 address nor a host name are
  dropped without being reported (search/handler.go:54-60), although
  search/types.go:23 wants to "report which terms had no match".

Also the documented defaults of `DATA_TTL_DYNAMIC`
and `DATA_TTL_STATIC` (README.md:482-483, `1h` and `24h`) differ from the
code's (`5m` and `25h`, consumer/main.go:374, :378), and the example `7d`
there is not a Go duration.

## 7. Not modelled

The generated protobuf code (but for the getters of a field's value, which are
in TelemetryTree), static pages and styles, the assembled API description,
deployment files, logging, and the wording and format of answers have no state the properties could speak of. Port info, port lookup and the
VLAN list are single read-only statements whose joins are on unique keys: every
answer is a snapshot of the tables. `InspectHandler` dumps the tables and is not
used by the page. The token page reloads its list after each change and keeps
nothing else; its handlers are modelled. How tokens are generated and hashed,
and how samlsp and the identity provider establish a session, is taken as
given. A database statement that never returns (`Exec` without a timeout,
consumer/main.go:127) is not modelled: the handler then stops for good.
