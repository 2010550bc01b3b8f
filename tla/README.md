# Verification of keylens

keylens is a read-only terminal browser for Redis-compatible servers: a tree of
the keyspace, the value of the selected key, server panes, and a BullMQ lens with
queues, jobs and live throughput. This directory models the parts of it whose
behaviour depends on the order in which things happen, checks the models with TLC
and proves with TLAPS, for every value of the constants, every safety property but those
of the key tree: of the key browser, of reading a key, of the scan, of the queues tab and
its table, of the reads of the panes, of the events and their graph, and of a session.

Paths below are relative to `src/crates/`.

## 1. The system

One process, one tokio runtime.

| Part | Code | State | Talks to |
|---|---|---|---|
| Event loop and App | `keylens/src/browse.rs`, `app.rs` | cursor, rows, pending key, shown value, error, spinner, panes, filters, `fetch_at` | requests channel (`try_send`, refused when full), updates channel |
| Worker | `keylens/src/worker.rs` | scanner, filter, `complete`, the running read and INFO refresh | serves requests in order; waits for room in the updates channel |
| Key read | `worker.rs` `spawn_detail`, `keylens-conn/src/value.rs` | one task, aborted by a newer selection | updates channel |
| INFO refresh | `worker.rs` `spawn_info` | one task, never two | updates channel |
| Scanner | `keylens-conn/src/conn.rs` `KeyScanner` | position in the SCAN of every primary | server |
| Events reader | `browse.rs` `StreamerHandle`, `keylens/src/events.rs` | connection of its own, a cursor per stream, failure budget | updates channel |
| Throughput | `lenses/keylens-bullmq/src/events.rs` | per queue, one bucket per second | fed by the App |
| Key tree | `keylens-ui/src/tree.rs` | trie, expanded paths | owned by the App |
| BullMQ lens | `lenses/keylens-bullmq/src/lens.rs`, `keys.rs`, `job.rs` | the prefix adopted at detection | called by the worker |
| Connection | `keylens-conn/src/conn.rs`, `capability.rs` | capabilities, round trip | worker and reader have one each |
| Rendering | `keylens/src/ui.rs`, `panes.rs`, `queues.rs`, `keylens-ui` | none | reads the App |

Both channels hold 32 messages (`CHANNEL_SIZE`). The UI never waits: a request is
refused when there is no room. Everybody else waits for the updates channel.

### What is hard, and what makes it correct

* **Key browser.** A debounced fetch, a full channel, a read that is aborted by a
  newer one, replies that carry little. Correct when the answer to the key the App
  waits for always arrives, and spinner and "loading" mean that something is on its way.
* **Scan.** One walk cut into batches by two caps, restarted by filters, pages that
  fail. Correct when "complete" means that the tree holds the filter's keys.
* **Queues tab.** Three levels, cursors that are indices into lists that change,
  answers that say less than the requests. Correct when what is painted belongs to
  the heading it is painted under.
* **Events reader.** Cursors that start at `$`, bursts, failures with a budget.
  Correct when every event is recorded once, in order, and giving up is told.
* **Series.** Out-of-order seconds and eviction by number. Correct when the graph
  shows what was recorded.
* **Key tree.** Folding, expansion kept by path, a cursor kept by path. Correct when
  the rows are those of the tree and a key press acts on the row it was pressed on.
* **Key read.** Twenty commands at once, told apart by position, while other clients
  write the key; or two trips between which it changes. Correct when no slot is taken
  for another, a failure costs its own field, and "missing" has a reason.
* **Session.** Handshake with a deadline, probes that fail for two reasons, panes
  loaded when first opened, detection over a capped walk, quitting with tasks under
  way. Correct when a pane that says loading is being loaded, what a pane says of the
  server is true, and nothing survives the end.
* **Pane reads.** Probes, types of keys, the table of queues, a page of jobs, a job, the
  cluster and the channels each take several commands, matched to cells by position,
  on a cluster routed one by one. Correct when every cell shows its own reply, one
  failure costs one cell, and a page is the page asked for up to the ends of `i64`.
* **Queue table.** A layout for every width, and a graph of a history cut to that width.
  Correct when nothing is clipped and the graph is the history.
* **Consumer groups.** Four commands between which groups come, go and are drained.
  Correct when what is said of a group was so, and what is left out has its reason.
* **Not modelled:** reconnecting (section 8).

`PROJECT.json` lists every hazard of this kind at its line with the properties that
cover it, or the reason none does yet.

## 2. Modules

| Module | What it is |
|---|---|
| `KeyBrowser` | selection, fetch timer, value pane, spinner; worker, key read, INFO refresh; both channels |
| `ScanSession` | chips, rescan, more, `scan_batch`, client-side typing, failing pages, the set of keys in the tree |
| `ScanSessionProofs` | proofs about `ScanSession` |
| `QueueBrowser` | the queues tab and the worker's three requests for it |
| `QueueBrowserProofs` | proofs about `QueueBrowser` |
| `DataFacts` | lemmas about numbers, sums, sequences, and what messages on their way will do |
| `EventsReader` | attach, `events::run`, `parse_xread`, and the App's side of its updates |
| `EventsReaderProofs` | proofs about `EventsReader` |
| `Series` | `Series::record`, `window`, `rate` |
| `KeyTreeRows` | what the rows should be, without recursion, as a function of keys and expanded paths |
| `KeyTreeView` | `KeyTree` as it recurses, with the App's `rebuild` and the keys that use it |
| `KeysTabProofs` | proofs about `KeyBrowser`, and about `KeyTreeView` |
| `KeyRead` | `read_key`: both paths, slot layout, decoding by position, other clients' writes |
| `DetailRead` | what fills the value pane: `KeyRead`, then a stream's groups (`stream_info`) |
| `KeyReadProofs` | proofs about both, and that `DetailRead` implements `KeyRead` |
| `CheckedArithmetic` | `page_range`, `page_bounds`, `elapsed`, and what Redis makes of bounds |
| `PaneReads` | probes, typing of keys, queue summaries, a page of jobs, a job, cluster, channels |
| `QueueTable` | the layout of the queue table; composes `PaneReads` and `Series` |
| `QueueTableProofs` | proofs about it and all that it is composed of, `CheckedArithmetic` included |
| `LazyPanes` | abstract: what a lazily loaded pane promises |
| `Session` | splash and handshake, probes, detection, server panes, start of the reader, quitting |
| `SessionProofs` | proofs about `Session`, which implements `LazyPanes` |
| `MC*` | instances for TLC: small sets and symmetry |

Each component has its own module and its own view of the two channels. They meet
in the App, and the cut is made where one does not read what the other writes:
`KeyBrowser` keeps only the row under the cursor and lets a batch put any row there;
`KeyTreeView` says which row that is; `ScanSession` says what the batches hold and
lets other requests only take room in the channel (`AskOther`); `EventsReader` ends
where `Throughput::record` begins and `Series` starts there. `KeyRead` is what a
running key read of `KeyBrowser` does on the wire, and `DetailRead` contains it whole,
with the groups of a stream after it. `PaneReads` is what one request of `QueueBrowser`
or `Session` does on the wire, `CheckedArithmetic` what it computes the bounds of its
page with. `QueueTable` puts the cells of `PaneReads` and the history of `Series` side by
side at a width. `Session` is the frame around all of them: to it a key read is a task
that runs or was aborted, a scan a reply.

### How state and actions correspond to the code

* **KeyBrowser.** `under` is the row at `App.selected`; `pending`, `detail`, `dirty`,
  `error`, `loading` are the App's fields, `fetchAt` the loop's timer, `working` the
  request `Worker::run` is at, `reading` the key of `detail_task`, `late` an aborted
  read that may still reply, `refreshing` the `info_task`. One action per key
  binding group (`MoveCursor`, `JumpCursor`, `EnterKey`, `Rearrange`, `AskScan`), per
  `select!` branch (`FetchTimer`, `InfoTick`, `Apply*`), per worker step and per
  task. `FlushSelection` is the disjunction of the function's five returns. The
  model names an error by the call that failed; the code keeps only its text.
* **ScanSession.** `filter` is the pair of chips, `wfilter` the worker's copy, and
  `scanner` how many pages the walk has passed. `found` counts keys with repetitions,
  as `keys.len()` does. The history variables `lossy` and `refused` record that keys
  were dropped and that a rescan was not accepted; no action reads them.
* **QueueBrowser.** Cursors count from one. A page remembers whose it is and a job
  what was asked for; the code's updates do not, and only properties look. `overtaken`
  is history: the panes whose last load was not sent or whose heading a new list moved.
* **EventsReader.** Entries are numbered; `ids` are the cursors, `after` what they
  stand for once XREAD has arrived (this is where `$` is resolved), `out` the update
  in `tx.send`. A reply may leave out streams that have entries. An update is the events
  of each stream in their order; how `parse_xread` mixes streams is left out, since the
  App files every event under its own queue.
* **Series.** A bucket is its second and total.
* **KeyTreeView.** A key is the sequence of its segments, zero the empty one. The
  code's recursions (the fold of a chain, `walk`, `collect_branches`) are recursive
  functions over the nodes of the trie: `walk[n][p]` are the rows of node `n` under the
  path `p` it is called with, which the code does not take from `n` but joins as it goes.
* **KeyRead.** A reply is abstracted to the content of the key it was computed from
  (its type and the write that put it there), so fields of one answer can be compared.
  `batch` is the pipeline, `replies` its answers by position, `head` what the first of
  the two trips returned. All commands of a read name one key, hence one server and
  one connection: they are executed in order, others' writes between any two.
  `tokio::join!` of size and value is a batch of two for the same reason. `caps` is
  what the probes found: every command that is not refused, and possibly one that is,
  since a lost probe counts as available. `held` (what the key held since the read
  began) and `hurt` (the commands that failed) are history.
* **DetailRead.** `stage` is where `detail` is: at rest, in `KeyRead`, or at one of the
  four commands. A group is the change that made it what it is and whether entries are
  pending, so parts of one row can be compared. Groups change only while they are being
  inspected: at the first command about them they are any a stream may have by then.
* **PaneReads.** What is read is a *cell*, a key or a fact of the server, and a reply is
  the content of a cell, which says whose it is and which write put it there. `ask` is
  the request, `batch` its commands, `answered` and `replies` are by position. Over one
  connection commands are executed in order; on a cluster in any order within a chunk
  (`Ready`), and `Slot` is what `join_all` makes of that. The probes run serially on
  a cluster. `Misaligned` is a pipeline that came back short.
* **QueueTable.** `width` is the pane's, columns are counted and not named. `NameW`,
  `Columns` and `SparkW` are the steps of `layout`.
* **LazyPanes.** A pane is idle, loading, ready, unavailable or failed; `Session` maps
  `due` to the requests and answers of the pane wherever they are.
* **Session.** `step` is where `Conn::connect` is, `client` whether it was told to
  quit, `caps` its capabilities, `pane` the App's pane states, `detected` its
  detections; `walk` is the position in `scan_meta_keys` and in the sample of `detect`.
  `Goto` and `Reload` are `load_view` without and with force, `Fetch` stands for every
  other request. `tasks` are the worker's two tasks and the events reader; what they
  send is the subject of `KeyBrowser` and `EventsReader`. `asked` and `broken` are
  history.

Each module also holds, just before the action it changes, the altered forms of
actions (marked *Mutant*) that `PROJECT.json` uses to show that every property can
fail: a dropped guard, a retry that is forgotten, a wrong cursor.

## 3. Runs

| Run | Instance | What it shows |
|---|---|---|
| `browser_safety` | 2 interchangeable keys, requests 2, updates 1, INFO | types; the newest selection is the awaited one; its answer is never dropped; the spinner has a scan behind it |
| `browser_live` | 1 key, requests 2, updates 1, no INFO | the spinner stops, a sent read ends, a refused selection is fetched |
| `browser_stuck` | 2 keys | **violated:** the pane says loading with nothing on its way |
| `scan_session` | 3 keys on 3 pages, target 3, 2 pages a batch, 3 filters | complete means all; chips name the scan; pressing `m` ends |
| `scan_lost` | the same | **violated:** complete, no error, keys missing |
| `queue_session` | 2 queues, 2 states, pages of up to 2, channels of 1 | cursors on lists; settled panes fit; the page has the state of its heading; loads end |
| `events_reader` | 2 streams of up to 4 entries, reads of 2, 3 failures | once and in order; giving up is told; bursts are picked up |
| `events_missed` | 1 stream of 2 entries | **violated:** entries added while live are never read |
| `queue_table` | 2 queues, 2 states, chunks of 4, 3 keys and 3 probes, 1 write, 1 lost command; 7 seconds, window of 3; widths to 26 | cells show their own replies; pages are the pages asked for; the graph is the history; the row fits |
| `key_tree` | 6 keys, batches of 1, expand-all up to 5 | rows are those of the tree; every key has its row; a batch leaves the cursor on its row |
| `key_read` | 3 types, 2 writes, 1 lost and 1 refused command; 2 groups, cap of 1, 2 changes, 1 failure | values were held; missing and errors have a reason; one failure, one field; bounded reads only; groups were the stream's |
| `session` | 3 servers, 1 pane beside queues and stats, requests 2, updates 1, 1 lost command | panes keep `LazyPanes`' promise and tell the truth; detection is right; no task outlives it |

### Why the bounds are enough

* **Channels.** The initial requests fill a channel of two, so refusals happen from
  the first state on, and a channel of one for updates makes every sender wait.
  Larger capacities only delay both. The proofs hold for all capacities.
* **Keys.** Two keys suffice for a selection and the one it supersedes; a third
  selection meets the same guards. `browser_live` has one key, as its properties are
  about one request; the branch row is there to move away to.
* **Pages.** With three pages, two a batch and a target of three, batches end by each
  of the three conditions and a page repeats a key of another.
* **Queues.** A list loses its first queue, so that an index points at another; a page
  is empty, shrinks and grows. Two states are what cycling needs.
* **Streams.** Four entries against reads of two give a burst of more than one read;
  the unreadable entry is the last of its read, where the cursor must pass it.
* **Queue table.** Six commands in chunks of four make a chunk wait for another; three
  keys, typed two to a pipeline, make two pipelines, and one key is repeated. `i64` has
  three bits (`MaxInt` is 2, `MaxSize` 5), so that every offset and limit of a page is
  tried, those beyond both ends included. The read, the history and the width share no
  variable, so each is explored while the others rest (`Apart`). The widths go from
  nothing to more than a row ever takes.
* **Series.** Seven seconds are more than twice the window, so seconds are inside,
  at the edge and outside of it, with gaps.
* **Tree.** The keys have a key that is a branch, chains that fold and are split
  by a later key, and empty segments. More keys change nothing but the time it takes.
* **Key read.** A string (its own bounded read), a hash (a cursor) and a stream (needs
  no probe of its own to be read, and has groups) are the cases of `Needs`; a set is a
  hash to it, lists and sorted sets are streams without groups. Two writes change the
  type and change it back. Two groups exceed the cap of one. What the commands about
  groups do does not depend on how the key was read, so they are followed where no
  command of the read failed (`OneFailingPart`).
* **Session.** A standalone server, a managed one that refuses, an old clone without
  SCAN's TYPE option; their keyspaces have queues within and beyond every cap, names
  found twice, and keys that are not hashes. One pane stands for all that are loaded
  alike; it is the cluster pane, whose gate has the most outcomes.

`CHECK_DEADLOCK FALSE` stands where the bounded environment runs out of entries or
events (`events_*`, `queue_table`, whose reads end too) and where the program ends (`session`); nowhere else.

## 4. Fairness, and why the code justifies it

The runtime polls every task that is ready, calls to the server end
(`COMMAND_TIMEOUT`, `BLOCK_MS`) and `select!` chooses among ready branches at
random, so none is passed over for ever. Hence weak fairness of the worker, the
tasks, the timer and `Apply`. Those that send into the updates channel get strong
fairness: room may come and go, but tokio's senders wait in order of arrival. No
fairness is assumed of the user except in `WalkEnds`, where the user who keeps
pressing `m` is the hypothesis (`SF(AskMore)`), and none of the INFO tick.
`SelectionFetched` assumes that keyboard and tick rest in the end (`InputRests`), since
both may keep the channel full.

## 5. What is proved

`KeysTabProofs` of `KeyBrowser`, for any set of keys, any capacities and with or without INFO:

* `TypeCorrect`: `Spec => []TypeOK`.
* `SpinnerSound`: `Spec => []SpinnerMeansScan`. The property is inductive together
  with `TypeOK`: every step that takes a scan from one place puts it into the next.
* `NewestRead`: `Spec => []NewestReadIsPending`. Not what a read of `spawn_detail` alone
  gives: it needs that a refused send resets the mark and that the channel is in order,
  so that the newest selection in it is the last to be served.
* `AnswerDelivered`: `Spec => AnswerIsDelivered`, an action property: a step that
  keeps the awaited key either keeps its read in flight, shows its value or paints an
  error. Serving a `Select` aborts a read; by `NewestRead` the awaited one is not lost.

`KeysTabProofs` of `KeyTreeView`, for any keys, batches and limits:

* `RowsAreRight`: `NoLeadingSeparator => (TreeSpec => []RowsAreOfTheTree)`: the recursive
  walk, with its folds, its partition and the paths it joins, computes the rows that
  `KeyTreeRows` defines by sets of nodes. `EveryKeyShown`: likewise `EveryKeyHasItsRow`.
  The hypothesis is that no key begins with the separator. The code needs it (section 7).
* `CursorKept`: `TreeSpec => BatchKeepsCursor`, and `TreeTypes`: `TreeSpec =>
  []TreeTypeOK`, of every key.
* The invariant (`TreeInv`) is that the rows are what `walk` makes of the present keys and
  marks and that the cursor is on one of them; TLC confirms it on the instance of
  `key_tree`. It is inductive because every action that changes either one rebuilds
  (`RebuildIs`). What remains is about the operators. The
  recursive functions exist, since a node's value needs those of deeper nodes only and the
  longest key bounds the depth (`RecursionDown`, `WalkIs`). The fold of a child ends at the
  nearest row below it (`FoldedIs`); children are listed branches first (`ListedIs`); all
  below one child comes before all below the next (`BlocksApart`). From the leaves up, a
  node's rows are then exactly those shown below it, in order (`WalkShows`), and a set has
  one listing in a strict order (`SortedIsOrdered`). `CollectIs`: `expand_all` collects every branch.

`KeyReadProofs`, for any types in any order of the slots (`KindsAssumption`: known
types, none twice), any number of writes, and any commands refused or lost:

* `SpeculativeLayout`, `HeadLayout`, `BodyLayout`: every slot of a batch holds the
  command its position names, with the conditional one last. All else rests on these.
* `SlotsApart`: `Spec => []ShownWasHeld`; `MissingExplained`: `Spec =>
  []MissingIsExplained`; `ErrorExplained`: `Spec => []ErrorIsOfTheValue`;
  `ReadsAreBounded`: `Spec => []BoundedReadsOnly`; and `TypeCorrect`.
* They say something of ended reads only, so the invariant speaks of the read under
  way: the key's content is among those it held since the read began (`Fresh`), every
  reply fits the command of its slot and has a reason where it is an error
  (`ByCommand`), and the batch is that of the phase (`Stage`). TLC confirms it on the
  instance of `key_read`. A step either adds a reply that fits (`ReplyKeeps`), or
  returns (`MetaKeeps`, `ErrKeeps`), or is another client's (`ReplaceKeeps`).
* `FailuresStayApart`: `Spec => []OneFailureOneField`, of a key nobody touched during the
  read. In two trips the second one's value stands beside what the first one left, so the
  invariant is a second one (`Exact`): on the second trip, type, time to live and memory
  are exact where their commands got through.

`QueueTableProofs`, for integers of any width and pages of any size:

* `RangeIsThePage`: bounds that are not refused select exactly the positions asked for,
  of a collection of any length; `RefusalIsNeeded`: only an empty page or one past the
  last position is refused; `PagesMeet`: consecutive pages lose and repeat nothing;
  `OnePageRule`: `page_range` and `page_bounds`, written in two crates, agree on a page of the bound.

`ScanSessionProofs`, for any keyspace, pages, filters, caps and channel capacities:

* `ScanTypes`, `CompleteScans` (`Spec => []CompleteIsAll`) and `ChipsAreTrue` (`Spec =>
  []ChipsNameTheScan`). Both properties are about rest, so the invariant says what the
  tree and the chips *will* be once the messages on their way have been taken:
  `Will(x, N, s, A, B)`, for a set that is now `N`, messages `s`, of which `A` empty it and
  `B` put `x` there. To take a message from the head does not change it and to send one
  at the end does what the message says (`WillAtHead`, `WillAtEnd` in `DataFacts`); so
  each action is one use of one of the two.

`QueueBrowserProofs`, for any lists, states and channel capacities:

* `QueueTypes`, `PagesAreOfTheShownState` (`Spec => []PageOfShownState`) and
  `PanesFitOnceSettled` (`Spec => []SettledPanesFit`). Requests are answered in their
  order, so the last load of a kind counts, wherever it is: among the requests, at the
  worker, among the updates (`Due`). The invariant: the last one is the one the heading
  asks for, or there is none and the pane fits (`PageFits`, `JobFits`). `StateFits` is
  inductive by itself, because `[` and `]` replace the page at once.

`KeyReadProofs` of `DetailRead`, for any groups, cap, changes and failures:

* `DetailIsARead`: `DetailSpec` implements `KeyRead`'s `Spec`, so all that is proved
  of a read holds of what fills the pane. `GroupsHeld`: `DetailSpec =>
  []GroupsAreTheStreams`; the invariant (`GroupInv`) says of every group already
  inspected what the property says of all at the end, and that the one under inspection
  was there when it was listed. `DetailTypes`: `DetailSpec => []DetailTypeOK`.

`EventsReaderProofs`, for any streams, bursts, failure budgets and capacities:

* `TypeCorrect`, and `EventsAreRecordedOnce`: `Spec => []ExactlyOnceInOrder`. The property
  counts what is recorded together with what is in the channel and in `tx.send`, so that
  taking or sending an update changes nothing of it, and a read that returns entries appends
  them to both sides: the numbers past the cursor come after all before it (`InOrderJoins`).
  Inductive only with `Cursors`: a cursor never points past the log, and is `$` exactly
  where nothing has been read yet, where nothing may have been recorded either.

`QueueTableProofs`, of the table, for any window, layout and width:

* `RowsFit`: `TableSpec => []TableFits`. The columns are the least number at which one more
  does not fit, so those shown fit (`ColumnsFit`), and the graph takes at most what they
  leave. It says nothing of which goes first where both cannot stay (section 7).
* `GraphsAreTheHistory`: `TableSpec => []GraphIsHistory`. The property is about what `window`
  and `rate` add up; the invariant (`SeriesInv`) is about the buckets, second by second: of
  every second still within the window of the newest event, the bucket holds all that was
  ever offered, or there is none and nothing was. That a bucket pushed out by number is
  out of the window by time needs that the buckets are in order and are at least as far
  apart in seconds as in position (`SecondsApart`), which is by induction. That the sum
  over the buckets of an interval is the sum over its seconds (`TotalsAdd`, `OfferedAdd`)
  is by induction on the set, one bucket taken out at a time.

`QueueTableProofs`, of the reads of the panes, for any queues, states, keys, probes,
channels, limits and chunk sizes, any number of writes and of lost commands:

* `CellsAreOwn`: `TableSpec => []CellsAreTheirOwn`; `PagesAreThePage`: `TableSpec =>
  []PageIsThePage`; `TablesAreTyped`: `TableSpec => []TableTypeOK`.
* The properties speak of reads that are done; the invariant (`PaneInv`) of one under way.
  `WorldInv`: what a cell holds is among what it has held. `StageInv`: the batch is the one
  of the stage, and what the stage before found was its own cell's. `ReplyInv`: each
  reply answers the command at its position (`Answers`), whichever came first.
  `OutcomeInv`: what the properties say. Without `StageInv` a position says nothing
  about the cell, without `ReplyInv` a reply nothing about its position.
* Nothing that has been held or lost is ever forgotten (`Grows`), so what a reply answers
  it answers for good (`AnswersStay`, `StageStays`): a write, an answer and a loss keep the
  invariant by that alone. Each `Finish...` is then one lemma that reads the rows off the
  replies. For the table it needs that the flat batch is cut at the right places
  (`SummaryIs`: command `Base(i) + 1 + j` is that of state `j` of queue `i`, from
  `FlattenBlocks`); for typed keys that a chunk's types follow those before (`TypesFollow`)
  and that the rows kept are those of the wanted keys (`TypedIs`, from `ChosenIs`); for a
  page `RangeIsThePage`; that no duration decoded overflows, whatever `i64`s the stamps are
  (`WritesAssumption`), is part of `TablesAreTyped`.

`SessionProofs`, for any servers, panes and capacities:

* `PanesAreLazy`: `Session` implements `LazyPanes`, under the refinement that maps `due` to
  the panes with a request queued, served or answered; `LoadingIsUnderWay` follows.
* `SessionTypes`, `PanesTellTheTruth` (`Spec => []PaneSaysWhy`) and `NoTaskIsLeftBehind`
  (`Spec => []NothingOutlives`). The last needs that a task started after the abort
  of its worker is aborted by the worker's drop, for every order of the three, and that
  none is started before there is a worker (`Phases`). It is about tasks only: the client
  is told to quit where the handshake fails (`GiveUp`), and is left open both by q at the
  splash and by quitting, until the process ends.
* `VerdictsAreRight`: `Spec => []DetectionIsRight`, for any keyspace and any limits. The
  invariant (`DetectInv`): detection is queued once, so no verdict is out while it is at
  work, and its names are those of the pages it read. That the names it reports are
  within the limit, and none only where there are none, is `SmallestFew`: in a finite set
  of numbers the ranks are dense (`RanksAreDense`). It rests on a key having one form
  however often SCAN returns it (`InstancesAssumption`).

Each has the layout: initial states, one step per action of `Next`, and the temporal
step. The assumptions are those of the module: capacities of at least two and one
(`Init` queues two requests), and that the names of the constants are distinct. TLC
evaluates them on every run that uses the module.

The induction theorems of the library take an operator as a parameter, which none of the
provers can instantiate. `DataFacts` states induction for a *set* of numbers instead
(`Induction`, from the library's well-founded minimum), with which sums, ranks, flattened
sequences, the order of buckets and the existence of recursive functions (`Recursion`) are
proved. It also has what the community modules'
`Min`, `Max`, `MapThenSumSet` and `FlattenSeq` return, from their definitions.

## 6. What is only model-checked

* All liveness (`SpinnerStops`, `ReadEnds`, `SelectionFetched`, `WalkEnds`, `LoadsEnd`,
  `StatusIsTold`, `BurstIsPickedUp`): fairness and ENABLED are beyond this prover.

Every other property of the passing runs is a theorem of section 5 as well. The theorems
about the rows say nothing of keys that begin with the separator.

## 7. Findings

Each with a run that shows it:

1. *Stuck loading* (`app.rs:602`): a failed read stays marked as asked for; after the
   error is cleared nothing fetches the key again, and enter on it is a no-op.
2. *Lost keys* (`worker.rs:297`): an error in mid-batch drops the batch's earlier pages.
3. *Missed events* (`events.rs:92`): `$` is resolved by each XREAD until one returns
   something.

Noted without a run:

* *Old error* (`worker.rs:485`): errors carry no key, so that of a superseded read
  is painted under the key selected since.
* *Wrong heading* (`app.rs:307`): a page of jobs does not say whose it is, so one
  queue's page can be painted under another's heading until its own arrives.
* *Stuck page* (`app.rs:430`): with two reloads of the list on their way the first lets
  a queue be entered, the second may take it off the list; `[` and `]` then send nothing,
  the page asked for is dropped and the pane says loading. `LoadsEnd` excepts it.
* *Hidden queues* (`lens.rs:322`): without SCAN's TYPE option one key that is not a
  hash but has a queue's name fails the whole detection; `DetectionIsRight` excepts it.
* Keys that begin with `:` get rows whose path lacks it (`tree.rs:196`): hence the
  hypothesis of `RowsAreRight` and `EveryKeyShown`.
* The layout of the queue table drops the graph before any optional column, so at 80
  columns there is none, though `queues.rs:35` and the repository's README (line 383)
  say columns are dropped rather than the graph. `TableFits` holds either way: it asks
  that the row fits its pane and the graph its bounds, not which of the two goes.
* Where the Streams probe was refused, `stream_info` returns a default and the pane says
  length 0 and no consumer groups (`ui.rs:344`).
* A group whose entries were all acknowledged between XINFO and XPENDING shows the range
  of an empty reply.
* Counts of nine digits are wider than their column (`queues.rs:231`).
* A `Rescan` whose first page fails leaves the old tree to be mixed with the next
  batch (`worker.rs:297`).

## 8. Not modelled, and the plan

What could come next:

1. An abstract value pane, "asked, then answered for what is selected", with
   `KeyBrowser` shown to implement it.
2. `EventsReader` composed with `Series`: from the stream's entries to the graph.
3. What reconnecting in mid-session does to reads under way: it is the client
   library's, and the code only sees commands that fail, which the models have.
4. The subtree counts beside the branches, which `insert_with_kind` keeps up on the way
   down.

Not planned: parsers, decoding and rendering (stateless), the command line, and what
the client library does on the wire. The scan is modelled over a keyspace that does
not change: of one that does, SCAN promises nothing about keys that come and go.
