# cortex-viz: a TLA+ verification project

cortex-viz is a local visualisation server for an assistant's memory: a Python
HTTP server (`ThreadingHTTPServer`, one thread per request) over PostgreSQL, a
background process that builds a large graph and streams it to the server, a
client of an external code-graph service (AP), and a browser application. This
directory holds TLA+ modules for the parts of it whose correctness depends on
the order in which threads, processes and connections act, the TLC
configurations that check them, and proofs for the TLA+ proof system (TLAPS).

Paths and line numbers below refer to files under `src/cortex_viz/`, those of
the browser to `src/ui/`.

## 1. Inventory of the system

| component | state | operations | interacts with | hard behaviour |
|---|---|---|---|---|
| Live activity spine (`server/http_standalone_activity.py`, `server/activity_stream.py`, `infrastructure/activity_store.py`, `ui/unified/js/activity_stream.js`) | table `session_activity`, an in-process deque, two cursors per connection, the browser's `Last-Event-ID` | ingest POST, blast-radius pass, replay, tail, reconnect | capture hook, PostgreSQL, browser | ids given out before commits, replay overlapping tail, two cursor namespaces, a deque that drops, restarts |
| Event buffer (`server/graph_event_stream.py`) | deque, closed flag, condition variable | emit, subscribe, close, reset | activity spine, build endpoint | positions in a bounded deque; reset outside the lock |
| Background build (`server/build_process.py`, `graph_appliers.py`, `graph_cache_state.py`, `graph_build.py`, `graph_response.py`) | epoch, child handle, bounded queue, drain thread, cache, phases, progress | start, kill, refuse, drain, watchdog, appliers, `get_graph_response`, `ensure_build_started` | HTTP threads, child process | late messages of a retired build, kills racing starts, crashes, timeouts, an unlocked probe |
| The child's program (`server/graph_build_run.py`, `graph_build_l6.py`, `graph_build_merge.py`, `graph_build_helpers.py`) | its own copy of cache, phases, progress | stages: skeleton, baseline, AST sweep; messages to the queue | AP bridge, PostgreSQL | failures half way, what travels on the queue and what in the graph file |
| Stores (`infrastructure/layout_pg_store.py`, `lod_pg_store.py`, `snapshot_pg_store.py`, written by `server/graph_build_helpers.py` and `POST /api/recompute_layout`) | three PostgreSQL tables: layout, level-of-detail pyramid, snapshot | recompute, bin, replace, read | build child, HTTP threads | every statement is a transaction of its own; kills between statements; two writers |
| Full-graph delivery (`server/http_standalone_fullstream.py`, `ui/unified/js/graph_stream_loader.js`, `ui/brain/js/data.js`, `ui/unified-viz.html`) | frames to write, sockets, the loader's queue, a page's retries | stream, pump, pause and resume, retry, fall back, give up | stores, build progress | connections ended by close, snapshots replaced between two streams, flow control |
| MCP client and AP bridge (`infrastructure/mcp_client*.py`, `ap_bridge.py`, `workflow_graph_source_ast.py`) | pending calls, child process, reader, idle timer, bridge lock | connect, handshake, call, read, time out, close | AP subprocess, build child and HTTP threads | answers after timeouts, close during a call, a child that ignores its end |
| Server lifecycle (`server/viz_instance.py`, `http_launcher.py`, `http_standalone.py`, `handlers/open_visualization.py`) | registry file, ports, processes, idle clock | launch, probe, kill, spawn, bind, register, idle stop | other launches, browser | check-then-spawn, stale registry, recycled pids |
| Layout authority (`server/layout_authority*.py`, `handlers/graph_stream.py`) | slots, waiting symbols and edges, event log, subscriber queues | add node/edge, re-emit, done; emit, subscribe, replay, reset | builder, SSE clients | arrival in any order, bounded buffers |
| Build endpoint (`server/http_standalone_sse.py`) | cursor of a connection | replay, tail, done | event buffer | see section 6 |
| Capture hook (`hooks/activity_capture.py`) | none | POST with a deadline | activity spine | duplicate or lost POSTs |
| AST cache, memory readers, probes (`infrastructure/`) | caches of query results, the boundary of a paged read | reads | PostgreSQL, files | pages of memories by a heat that other programs change |
| Graph builder (`core/workflow_graph*.py`, `handlers/workflow_graph_streaming.py`, and its callers in `server/graph_build_run.py`, `graph_build_l6.py`, `graph_build_merge.py`, `graph_build_wiki_source.py`) | the builder's tables and their index, what was retained of each chunk, the cumulative cache, the paths known | ingest of every source, discard of a chunk, validate, merge, sweep over the projects, page to file | build child, AP | chunks discarded by position, relations across chunks, batches before their edges, one file under several spellings |
| Record sources (`infrastructure/workflow_graph_source*.py`) | none | queries and file reads that yield the records | PostgreSQL, files | few |
| Wiki, trace, discussion, git and dashboard endpoints | none | reads | PostgreSQL, files | none beyond I/O |
| Browser UI (`ui/`) | view state | rendering, polling | HTTP | its reconnects and loaders are modelled |

What makes the components correct:

- **Activity spine**: no activity twice or out of order; no stored row hidden
  below a resume point; every stored row arrives; resume points are row ids.
- **Build**: one builder at a time; a retired build cannot damage its
  successor; a finished build leaves the whole graph; progress ends; a failed
  build is reported as failed.
- **Graph builder**: what the chunks take out of the builder is lost to nobody;
  the baseline still validates; an edge is merged after its ends; one file is one
  node, whoever names it.
- **Stores**: a reader never sees two layouts mixed or two snapshots; a build
  that nothing disturbs leaves everything in place whatever came before it.
- **Full-graph delivery**: what a page calls loaded is one whole graph; a load
  ends; memory is bounded.
- **MCP client**: an answer answers what was asked; nobody waits on a dead
  connection; one connection; every question ends; children do not leak.
- **Lifecycle**: who edits the source gets a server that knows the edit; one
  server as long as launches do not overlap; a launch ends.
- **Layout authority**: a slot for every node, edges after both end points,
  symbols after their file, one position per node.

How the parts meet. A launch starts a server; the server starts a build child,
which puts the graph together from the sources and from the symbols it asks the
AP bridge for, streams what it merges back over a queue,
and writes layout, pyramid and snapshot; a page streams the snapshot, polls the
build's progress and follows the activity spine. Each arrow of this chain is a
module below, and two abstract modules say what the middle of the chain offers
its readers (`GraphShelf`, `GraphFetch`).

## 2. Plan, and where it stands

| step | modules | state |
|---|---|---|
| 1. spine | `ActivityFeed` (abstract), `ActivityStream` | checked; all safety proved, the refinement of `ActivityFeed` for POSTs one at a time |
| 2. build | `BuildEpochs`: server, child, queue and drain in one module, because what is interesting is their interleaving | checked; all four safety properties proved |
| 3. placement | `LayoutAuthority` | checked; all five properties proved |
| 4. bridge | `McpClient` | checked; type and the three safety properties proved |
| 5. stores | `GraphShelf` (abstract), `GraphStore` | checked; type, the four invariants and the refinement proved |
| 6. delivery | `GraphFetch` (abstract, composed of `GraphShelf`), `GraphLoader` | checked; type, the invariant and the refinement proved |
| 7. lifecycle | `ServerLifecycle` | checked; type, the developer's guarantee and the one server proved |
| 8. assembly | `WorkflowGraph` (the builder's operations), `GraphAssembly` (the build that uses them) | checked; all six invariants proved |

Every safety property that a passing run checks now has a theorem. Left for
later: the sentences of section 4 that fail only for a stated reason, proved
without that reason (as `NoRowIsOvertakenInTurn` does for `NothingOvertaken`);
the composition of `GraphAssembly` with `BuildEpochs` (in which the graph is three
parts); `LayoutLog`, the event log of
the layout authority with its subscribers (section 6 says why it comes last).

## 3. Modules

### ActivityFeed

The promise to a browser: a log that grows at its end, and for each client a
feed that hands over the next row it is still owed (`Hand`) or gives up the
oldest part of a backlog (`GiveUp`, the replay window of `read_recent`).

### ActivityStream

| TLA+ | code |
|---|---|
| `nextId`, `committed` | the sequence of `session_activity.id`; the rows a query sees |
| `ingest[p]` | a thread in `serve_activity_ingest`, between INSERT, commit and emit |
| `buf`, `evicted` | the deque of `GraphEventStream`; whether it has ever dropped an event |
| `passes`, `impactBusy` | threads of `_trigger_impact` not yet at the lock; `_impact_lock` |
| `conn`, `cursor`, `durable`, `rows` | a thread in `serve_activity_stream`: where it stands, `buffer_cursor`, `durable_since`, replay rows still to write |
| `lastId`, `got`, `skipped` | the browser: Last-Event-ID, what it received, what replay windows left out |

Actions follow the handlers: `Insert`, `Commit`, `RecordFails`, `Emit`,
`EmitFails`; `ImpactStart`, `ImpactEmit`, `ImpactNothing`; `Connect` (the deque
length is noted *before* the replay), `Query`, `ReplayRow`, `TailSkip`,
`TailActivity`, `TailImpact`, `Drop`; `Restart`. Each is as atomic as the code:
an insert and its commit are two steps because PostgreSQL sequences are not
transactional; `Query` is one snapshot; each SSE write is one step. A frame that
the kernel took and the network lost is the same, for the browser, as a
connection dropped before it, so delivery and write are one step.

### BuildEpochs

| TLA+ | code |
|---|---|
| `roster`, `fp` | `_roster_fingerprint()`, `_graph_roster_fingerprint` |
| `req[r]` | an HTTP thread in `get_graph_response` / `ensure_build_started` |
| `lock`, `epoch`, `proc` | `_proc_lock` where it is held over several steps, `_epoch`, `_proc` |
| `child[e]`, `alive`, `queue[e]` | the child's remaining messages and what it has merged, its process, its `mp.Queue` |
| `drain[e]` | the drain thread of epoch e and the message in its hands |
| `serverEpoch`, `cache`, `payload`, `ready`, `prog` | `_SERVER_EPOCH`, `_graph_cache`, `_phase_payloads`, `PHASES`, `_build_progress` |
| `late`, `faults` | history: messages applied after their epoch was over; faults so far |

The graph is three parts: the skeleton and the AST symbols, which the child
streams, and the baseline, which reaches the server only with the pickled graph
file. A child is the list of messages it has still to put on its queue
(`Script`); `BuildError` and `WorkerError` replace the rest of it by what the two
`except` blocks send (that of `_worker` covers what it does before the build and,
after it, the writing of the graph file); `Die` cuts its queue anywhere, since the feeder thread of
an `mp.Queue` dies with the process. `begin_epoch` is two steps (two critical
sections), the epoch check of an applier and its critical section are two steps,
`_is_alive` is two reads, kill is three steps around an unlocked
`terminate`/`join`.

Left out: the wording, percentages and clocks of progress messages, node and
edge contents (a part is present with the epoch that brought it), the filter
parameters of `/api/graph`, the mode without a database url, and a pipe torn in
the middle of one pickled message.

### LayoutAuthority

| TLA+ | code (`server/layout_authority.py`) |
|---|---|
| `anchors`, `reserved` | `_DomainRegistry`: index and reservation with which a domain's anchor was frozen; `_reserved` |
| `counts`, `petals`, `hubs` | `_counts` of the (domain, kind) buckets and of a file's symbols; keys of `_hub_angles` |
| `slots`, `waiting`, `pending`, `dropped`, `closed` | `_slots`, `_pending_symbols`, `_pending_edges` (oldest first), `_edges_dropped`, `_closed` |
| `work`, `again` | what the method that holds `_lock` has still to do: nodes to emit, waiting symbols to place, edges to flush; slots `request_subtree` re-emits |
| `shown`, `lines` | a client that reads the stream: last slot of each node, edges |
| `sent`, `edgesSent`, `lost`, `requests` | history: what the producer sent, symbols that met a full buffer, subtree requests |

A public method begins only when the lock is free (`Unlocked`); what it sets off
is one step per event, because subscribers see the events one by one. `AddNode`
and `AddSymbolEarly` are the two ways through `add_node`; `EmitSlot` puts the
waiting symbols of a file in front of what else there is to do, `PlaceSymbol`
is one round of `_flush_pending_symbols`, `FlushEdge` and `EdgesFlushed` are
`_try_flush_pending_edges_for`. A slot is kept as the arguments of
`compute_slot` (anchor, hub, index; for a symbol the slot of its file), so two
slots are equal when the code computes them from the same values. The kinds
that share arcs around the domain are one kind, `ring`.

Left out: coordinates and wire formats, the counters that only `stats` and the
`done` event report, the pressure channel, and the event log behind `emit`
(its sequence numbers, subscribers and resets are the next module of the plan).
The authority is built on demand (`server/graph_cache_state.py:41-52`) and at
this commit only tests and benchmarks feed it (`server/graph_build_l6.py:513-521`).

### McpClient

| TLA+ | code |
|---|---|
| `at[c]`, `ask`, `on` | where the coroutine behind thread c's `_SyncLoop.run` stands, its question, the client it works with |
| `lock`, `current`, `bridgeUp` | `APBridge._lock`, `_client`, `_connected` |
| `req`, `fut`, `got` | the caller's last JSON-RPC request, the state of its future, what the answer in it answers |
| `connected`, `handle`, `reader`, `watch` | per client: `_connected`, `_proc`, `_reader_task`, `_idle_task` |
| `nextId`, `pending`, `inbox` | `_req_id`, `_pending`, requests the child may still answer |
| `child` | the subprocess: running, told to exit by a task that waits for it (`exiting`) or by one that does not (`deserted`), gone |

Everything but the child runs on one asyncio loop, so a step is what runs
between two awaits: `Ask` and `Lock` up to the spawn or the call, `Spawned`,
`Initialize`, `ListTools`, `ToolsListed`, `Connected` (the handshake),
`HandshakeFails`, `ConnectTimeout`, `Reap` (its failures), `Drained`,
`CallEnds`, `CallTimeout`, `GiveUp` (`_SyncLoop.run`'s own bound), `Answer`,
`ReaderStops`, `StreamFails`, `IdleClose`, `CloseBridge`. A request carries what
it really asks and an answer what it answers, though the code matches ids and
nothing else. A child may ignore that it is told to exit: `Reap` kills one that does when its grace period is over, and a task that is
cancelled in `aclose` before that deserts it (`IdleClose`,
`ConnectTimeoutClosing`). An answer of the handshake that is not what the client
can use raises in `_perform_handshake` and is the same here as an error.
Left out: the first use of a `_SyncLoop` by two threads at once, each of which may
make a loop (`_ensure_loop` takes no lock,
`infrastructure/workflow_graph_source_ast_async.py:91-106`; the model has one
loop), what is asked (the bridge's queries are one kind of
call), the discovery of graphs and commands, `run_iter`'s paging, pools with
several loops.

### GraphShelf and GraphStore

`GraphShelf` is the promise to a reader of the durable graph: one graph, or
none; a graph never replaces another in one step. `GraphStore` is the writers.

| TLA+ | code |
|---|---|
| `rows` | `workflow_graph_layout` |
| `lod` | `workflow_graph_layout_lod`, for each fingerprint the rows that were binned |
| `snaps` | rows of `workflow_graph_snapshot_scoped` for this scope |
| `work[k]` | how far a worker is in `run_recompute` and, a build child, in the snapshot write; `got` is what the paged read of the pyramid has seen |
| `last`, `overlap`, `built` | history |

Each action is one SQL statement, since the pools are opened with
`autocommit=True` (`infrastructure/memory_read.py:185-195`) and every `commit()`
is empty; `executemany` is one pipeline and so one implicit transaction. `Die`
kills a worker between two statements, `StatementFails` makes one fail, with the
handlers' own consequences. A graph is the set of its nodes and is its own
topology fingerprint; positions are told apart by the run that computed them.
Left out: the migration of the legacy table (its backfill runs when a reader
finds the new table empty, also between another writer's DELETE and INSERT), the
returns without igraph or with an empty graph (the builder then stores the
fingerprint "unknown"), the readers of tiles and quadtrees, and
`upsert_positions`, which nothing calls.

### GraphFetch and GraphLoader

`GraphFetch` composes `GraphShelf` with one page: it is handed one whole graph
that was on the shelf since it asked, or is refused. `GraphLoader` is the code.

| TLA+ | code |
|---|---|
| `served`, `ready` | the snapshot; `full_ready` of `/api/graph/progress` |
| `conn` | a thread in `serve_graph_full_stream` and the sockets: frames left, in flight, open or closed |
| `reader`, `queue`, `counts`, `got` | `graph_stream_loader.js`: the pending read, the queue, `counts` and `sawDone`, what this attempt was given |
| `canvas`, `loads` | the galaxy: nodes ever appended, calls of `_loadFullGraph` |
| `at`, `tries`, `page` | where the page stands, streams and documents asked for, which page |

`Write` and `Close` are the server; `Read`, `ReadEnd` and `Pump` the loader with its
two water marks; `Loaded`, `Truncated`, `Document`, `NoDocument`,
`DocumentFails`, `Poll` the two pages, which differ in what they do with a
truncated stream. A galaxy whose request for the document fails asks once more,
one that is answered with an error does not (`ui/unified-viz.html:610-620,
664-671`). Left out: the layout of frames, edges (frames of the same kind),
rendering, and switches to the graph tab, which start the polling again after it
has ended (`ui/unified-viz.html:859-861`): `stopped` is where the page stands
until then.

### WorkflowGraph and GraphAssembly

`WorkflowGraph` has no variables: it is the builder as a record and each ingest
method as an operator on it, with `finalize` and `validate_graph`.
`GraphAssembly` is `run_build` over it.

| TLA+ | code |
|---|---|
| `b.nodes`, `b.order`, `b.lines` | `_nodes`, `_node_order`, `_edges` of `WorkflowGraphBuilder` (an edge is its ends and its kind, as `_dedupe_and_link` tells edges apart) |
| `b.member`, `b.owners` | `domain_id` and `extra_domain_ids`; `_file_domains` with the keys of `_file_tool_counts` |
| `at`, `pos`, `taken` | the stage of the build and the source it reads; rows read (bound `MaxRows`) |
| `capped` | `CORTEX_VIZ_MEMORY_LIMIT` above 0, where nothing is discarded |
| `heat` | table `memories`: `heat_base` of each id (an ordinal, 0 for an id that is not there) |
| `last`, `yielded`, `over` | `last_heat` and `last_id`, `yielded` of `iter_hot_memories_chunked`; whether it has returned |
| `page` | rows of the page it yielded that are not ingested yet |
| `risen` | history: ids inserted or heated since the first page |
| `struct`, `chunk`, `seen`, `kept` | `_struct_n` and the edges below `_struct_e`; the chunk of memories; `_retained_memory_pg_ids`; `retained_memory_nodes` and `_edges` |
| `twin` | history: a builder that is given the same rows and never discards |
| `cache` | `_graph_cache`: ids, the domains of the first record of each id, edges |
| `fileId`, `known` | `file_id_by_path`, `proj_symbol_ids` of `run_l6` |
| `todo`, `cross` | what of the project at hand is still to be merged; `cross_edges` |

Stages: `skeleton` (skills and hooks, merged on their own), `structure`,
`relations` after `FilesAreMade` (`_finalize_files`), `memories` (`ReadPage`, one
query; `ReadMemory`, `ReadAbout`, `ChunkEnds` with `Discard`; `HeatChanges`, any
other program that writes the table), `between` (associations, successions,
documents, which are looked up by the ids that were retained), `sweep`
(`LoadProject` or `SkipProject`, `MergeBatch`, `MergeLines`, `MergeCross`),
`sources` (`ResolveSources`). A source yields any of its rows, each stage reads
its sources in the order of the code, and `_ensure_domain`, tool hubs, hub
domains and the names that fall back to `global` are as in the code.

Ids are tuples that begin with their kind, paths are a root and a path below it
(`<<"", f>>` is a path AP left relative). Abstracted: `file_id_by_path` also knows
every shorter suffix of a path, here one; where several files share a suffix
the code takes the first of a set, here any; within a stage the order of the
nodes that one loop appends is open, since properties depend on where they begin;
the table of memories changes only when a page is done with, since only the next
query sees it, and a memory stays in its domain; the page is cut by
`(heat_base, id)`, whose comparison is exact since the boundary is cast to
`real`. Left out: the filter by domain that a request may ask for; the queries that yield
the rows; labels, colours, heat and every other attribute; symbols without a
file and references without a name, which the code skips; the live deltas
(`_emit_delta`, which at this commit only fill a buffer nobody reads, section 6);
the path with native AST in the baseline (`defer_native_ast=False`), which the
build does not take; exceptions of a source, which end the build and are steps of
`BuildEpochs`; the disk cache of AST answers.

### ServerLifecycle

| TLA+ | code |
|---|---|
| `proc`, `port` | server processes from start to gone; the port each holds |
| `fresh`, `tabs` | the server's idle clock; browser streams |
| `announced` | the URL a server prints to its launcher |
| `entry` | the registry file of `viz_instance` |
| `edits`, `mem[l].since` | mtime of the newest source file, now and when the launch began |
| `at[l]`, `mem[l]` | where a launch stands in `open_visualization.handler` / `launch_server` and what it has read |

A launch: `Call`, `Sweep` (the handler's `_kill_port`), `Read`, `Probe`,
`Reread`, `ListPort`, `Kill`, `Wait`, `ProbeMain`, `Spawn`,
`ReadAnnouncement` / `NoAnnouncement`, `Return`. A server: `Bind`, `Register`,
`Serve`, `Ages`, `IdleStop`, `Gone`, `Crash`; pids may be given to other
programs (`Recycle`), tabs opened and closed, the source edited. Left out: the
script `visualize_bootstrap.py` (it is looked for under `mcp_server/`, which this
repository does not have), a foreign program on the port that answers HTTP.
A child is assumed to come up or die, because the launcher's `readline` has no
timeout. `OnPort` takes `lsof` to be there and to name every process: where it is
missing or fails the code goes on with an empty list (`http_launcher.py:30-33`,
`viz_instance.py:306`), kills nobody, and `DevGetsCurrentServer` does not hold
(with `OnPort` empty TLC finds it violated within the bounds of `Launches`).

### MC and proof modules

`MC*` modules name the finite sets; `*_proofs` hold theorems. Definitions
commented `Seeded fault` are plausible bugs of one handler; substituting one for
the definition it mirrors makes the property it is paired with in `PROJECT.json`
fail, which shows that the property watches that handler.

## 4. Runs

`CHECK_DEADLOCK FALSE` everywhere: the bounds below run out (no more rows, no
more epochs, no more launches), and a system with nothing to do may stop.

| run | bounds | result |
|---|---|---|
| ActivityConcurrent | 2 ingest threads, 1 browser, 3 rows, deque of 2, window of 2, 2 drops, 1 restart, failing emits | holds: type, once-and-in-order, resume points |
| ActivityOneProducer | 1 ingest thread, 3 rows, deque of 6 (never full), 1 drop, 1 restart; fair | holds: every row arrives, implements `ActivityFeed` |
| ActivityOvertaken | 2 ingest threads, 2 rows | **violated**: a row is hidden below the resume point |
| BuildRekick | 2 HTTP threads, 2 epochs, fixed roster, queue of 1 | holds: one builder, one stale message at most |
| BuildFaults | 1 HTTP thread, 2 epochs, 2 rosters, one of crash / queue error / unreadable file | holds: type, an ended graph is whole |
| BuildOneEpoch | 1 build, bridge on or off, queue of 3, up to two of crash / build error / worker error; fair | holds: every build ends |
| LayoutSmall | 7 nodes (2 domains, hub, file, 2 symbols, memory), 4 edges of which 2 join the same nodes, buffers of 2, reservation of 1, one symbol sent twice, 1 subtree request | holds: type, edges after their ends, symbols after and around their file, nothing ready waits, slots final |
| McpCalls | 2 threads, 2 questions, 2 clients, 2 faults, children that may ignore everything; fair | holds: type, answers match, no waiter on a dead connection, one connection, every question ends, every child goes unless its close is cancelled |
| StoreWriters | a build child and an HTTP worker, 2 graphs of at most 3 nodes, 4 runs, pages of 2, 2 kills or failed statements | holds: type, layouts never mix, pyramids whole, an undisturbed run stores all, implements `GraphShelf` |
| Loading | both pages, 2 graphs, water marks 2 and 1, 2 frames in flight, 3 changes of the snapshot, 2 faults; fair | holds: type, the canvas has the graph, implements `GraphFetch`, every load ends |
| Launches | an installed launcher and a developer's, 3 launches, 3 servers, 1 edit, 1 fault; fair | holds: type, the developer's server is current, one server, every launch ends |
| Assembly | 4 rows, symbols, references and changed heats of 22 sources and 2 projects (one with a root, one without), 3 memories of heats 0 to 2, chunks and batches of 2, no limit or one of 3 memories | holds: type, the baseline validates, no memory is passed over, the discard loses nothing, edges after their ends, one node per file |

Why these bounds are enough to be interesting: two ingest threads suffice for
any commit/emit inversion, since an inversion is between two rows; three rows
let a row be overtaken, replayed and tailed; a deque of two is full when a third
event comes; two epochs are enough for one to be late for the other; two
requests for every race on the one handle; a queue of one already blocks the
child between any two messages, and a longer one is used where what is lost with
a dying process matters. Two clients let an old one outlive its successor's
connect; two questions let the answer to one come when the other waits. Four
runs of the store writers let each worker follow what the other left half done,
and two kills can strike either; pages of two make a three-node layout a paged
read. Three changes of the snapshot let a graph be withdrawn, published and
withdrawn under one load. Three launches let one find the ruins of a second
while a third is under way; `MaxPid >= MaxLaunches`, so that a launch never
fails for want of pids (safety of `Launches` was also checked with 2 faults).
In `Assembly` four rows are two memories of two chunks, a node the structure has
without an order, and a relation between them; or an event, a symbol of the same
file, a page and a reference. What needs more rows at once (an edge between
memories of two full chunks beside an entity and a page) is covered by the proof,
which has no bound. Three memories of which two share a heat let a page of two
end between them; two rows and a change leave one more row for the memory that
was cooled and comes again, and a limit of three is then met with a memory unread.

**Fairness.** `ActivityStream!Fairness`: a POST handler that began goes on, a
connection's thread runs, and an `EventSource` reconnects (the browser does it
by itself, `ui/unified/js/activity_stream.js`). Nothing makes new POSTs, drops
or restarts happen. `BuildEpochs!ServerFairness`: threads that were started run
on; `ChildFairness`: the child sends and exits. `McpClient!Fairness`: the event
loop runs its tasks and timers, and nothing makes a child answer, take a frame
or exit when it is told to (`EveryChildGoes` states as its own premise where it
needs that it does). `GraphLoader!FairSpec`:
the server's thread, the reader, the pump and the page's own steps go on;
answers to a request come or fail; changes of the snapshot and cuts are never
forced. `ServerLifecycle!FairSpec`: a launch goes on, a server that started
comes up or dies, a process that was signalled goes. Requests, edits, roster
changes and faults are never forced anywhere.

### What the documents say and the code does not keep

The violation run quotes a sentence of the code's documentation in
`PROJECT.json`. The modules state more such sentences, which no run checks, at
their ends; TLC finds each of them violated within the bounds of the run named:

- `EpochIsolation` (BuildRekick). `server/graph_cache_state.py:89-92` says a
  stale child "can never corrupt the new build's state". `apply_delta` compares
  epochs at `server/graph_appliers.py:139` and takes the lock at 141: when
  `begin_epoch` runs in between, the delta lands in the cache it has just
  emptied. `StaleAtMostOnce` is what holds.
- `FailedBuildIsReported` (BuildOneEpoch). `server/graph_appliers.py:216-218`
  says error and killed "set the phase so the UI shows the build ended".
  `run_build` catches its own exceptions (`graph_build_run.py:533-539`), so that
  `_worker` sends `done ok` and the error phase becomes `full_ready`.
- `ReadyPhaseIsImmutable` (BuildOneEpoch). `server/graph_cache_state.py:220-221`
  says "Once a phase is READY its payload is immutable". Phases L2 to L5
  are flagged while the baseline is in the child only: they are empty until the graph
  file comes. The phases that are streamed do not grow after they are ready.
- `EveryRowArrives` with a deque of 2 (ActivityOneProducer's bounds).
  `server/activity_stream.py:6-7` says a subscriber "replays from its cursor and
  then blocks for new events". Positions index the deque: once it is full
  (100,000 events) its length stops growing, and a subscriber at its end waits
  for ever while events arrive and heartbeats keep the connection open.
- `EveryBuildEnds` for a child that hangs alive (BuildOneEpoch without
  `ChildFairness`): the drain's timeout finds it alive each time, so timeout and
  watchdog alternate for ever, against `server/build_process.py:180-182`.
- `NoChildIsLeaked` (McpCalls). `infrastructure/mcp_client.py:288-289` says
  aclose will "Escalate rather than leak it". `_idle_loop` awaits aclose, and
  aclose cancels `_idle_task`, the task that runs it; and the connect timeout can
  cancel the aclose of a handshake that failed, after which the second aclose
  finds no process. Neither kill nor reap happens then, and a child that ignores
  SIGTERM stays (`deserted`). `EveryChildGoes` is what holds: every child is told
  to exit, one that ignores a close that waits is killed, and one that does exit
  when it is told to is always gone.
- `SnapshotStays` (StoreWriters). `server/http_standalone_endpoints.py:101-102`
  says "once a build has completed once, the snapshot is always available and
  identical". DELETE and INSERT are two transactions: a kill between them loses it.
- `PyramidMatchesLayout` (StoreWriters). `infrastructure/lod_pg_store.py:73`
  bins "the just-persisted full layout", and
  `core/layout_engine.py:32-33` says that equal fingerprints "reuse the same
  coords"; but `layout` never uses its seed, so that a second run over one graph has
  other coordinates, and the pyramid of the first, which is fresh by
  fingerprint, is kept.
- `GalaxyIsOneGraph` (Loading). `ui/unified-viz.html:673` says "latch only on
  real, complete data", 638-640 that "the second pass only fills in what the
  first one missed": if the snapshot changed in between, nodes of two graphs are
  on the canvas.
- `CurrentServersStay` (Launches). `server/http_launcher.py:280-282` says "A
  running server is killed ONLY when the source actually changed since it
  started". Without the bootstrap script, which this repository does not have,
  a developer's `open_visualization` first kills whatever is on port 3458
  (`handlers/open_visualization.py:429`), current or not.
- `ServersAreFound` (Launches). `server/viz_instance.py:15` says the registry
  serves to "discover the live instance whatever port it actually bound":
  launches that overlap overwrite each other's entry, and a server on a port of
  its own is then in no registry.
- `OnlyServersAreKilled` (Launches). `server/http_launcher.py:30` says "Kill any
  process listening on ``port``": `lsof -i` lists every process with a socket on
  the port, a browser with a tab open too; and the branch for stale sources
  (`http_launcher.py:290-295`) signals the registry's pid though
  `viz_instance.py:176-177` warns that "Pid-alive alone is not enough".

Facts the models contain besides:

- With a single HTTP thread a kill never reaches `terminate`: a request only
  gets there when its probe found no live child. Kills come from two requests
  that both saw the roster change before either stored the new fingerprint
  (`server/graph_response.py:59-95`), and the second then kills the build the
  first has just started for that same roster.
- `_is_alive` is called without `_proc_lock` (`server/graph_response.py:62`) and
  reads the handle twice: the drain may drop it in between (`AnswerError`).
- A child that sends its last messages and exits between the drain's timeout and
  its look at the process is declared killed, and its graph is lost
  (`server/build_process.py:188-197`).
- A drain that ends on an error of the queue drops the handle of a child that is
  alive (`server/build_process.py:199-200, 252-255`); a second child then builds
  beside it. `OneBuilder` sets the builds aside that meet that fault, and holds
  for every other.
- The partial graph of a crashed or killed build is served as current until the
  roster changes. Progress says `full_ready` before the graph file is installed,
  and installing it does not raise `phase_seq`.
- The layout authority (`server/layout_authority.py`): an edge between two nodes
  that already have a waiting edge of another kind replaces it, and no counter
  says so (418-421): `edges_dropped` counts pairs of nodes; a symbol beyond the
  capacity of its file is lost without a count (274-276); a symbol whose parent
  is placed later and is no file waits for ever (388); a domain's own node is
  placed by the reservation of the moment it arrives, its members by the one of
  the moment the domain was first met, which differ once more than 16 domains
  are known (316-320, 82-91).
- MCP: the idle watch does not ask whether a call is in flight, and closes its
  client after 300 s although `ap_bridge.py:287-289` disables the call timeout
  (the caller gets an error, so that `EveryAskEnds` holds); writing a frame has no
  timeout but `_SyncLoop.run`'s; a connect timeout can cut the close of a failed
  handshake short; entries of failed writes stay in `_pending` and keep `busy`
  true.
- Stores: `memory_read.query` says that DML "would be rolled back", and the pool
  commits it; when writers overlap, a pyramid can be binned from two layouts, which is why
  `PyramidIsWhole` excludes overlap; one build child at a time is a guarantee of one
  server, not of two (`OneBuildAtATime`).
- Loading: at `full_ready` the galaxy calls `_loadFullGraph` once and stops
  polling: if that load fails, the page stays partial (`stopped`).
- Lifecycle: `_is_cortex_root` looks for `mcp_server/`, and
  `_FRESHNESS_SUBTREES` names `mcp_server` and `ui`; this repository's package is
  `cortex_viz/`, so that a checkout of it is never a dev source, and edits under
  `cortex_viz/` are not seen. `started_at` is taken at registration; the idle
  watchdog's look at the clock and the shutdown are two steps; only event-stream
  endpoints mark a server as in use for longer than a request;
  `ensure_build_started` runs before the bind, so that two servers that race
  build side by side.

- Assembly: `core/workflow_graph_builder.py:78-79` says that `len(_node_order)`
  and `len(_nodes)` are equal "always"; `ingest_skill_usage` and
  `ingest_mcp_usage` write `_nodes` alone, as
  `handlers/workflow_graph_streaming.py:295-304` knows. The discard therefore
  counts in `_node_order` (the mutant of `BaselineIsValid` counts in `_nodes`, and
  the baseline is rejected), and the live deltas, which slice the order by a
  count of nodes, miss nodes.
- `iter_memories_chunked` says that it reads by a server-side cursor
  (`infrastructure/workflow_graph_source_pg.py:295, 306`), which would be one
  snapshot of the table; what it calls sends one query for each page
  (`infrastructure/memory_read.py:1088`). A memory that is heated above the
  boundary before its page comes is therefore not in the build
  (`NoMemoryIsPassedOver` excepts it), and one that is cooled comes twice.
- A domain that only memories belong to is created anew, retained and popped
  with every chunk; the retained list then has it once per chunk, it is counted as a
  memory, and the merge keeps one.
- `_merge` keeps the first record of an id. Skills, hooks and their domains are
  merged with the skeleton, so that the domains a skill is given later and the
  coordinates of the bake do not reach the cache, although
  `graph_build_run.py:206-210` says that the baseline's merge re-emits the same
  ids with coordinates.
- Edges between projects are merged with no look at their ends
  (`graph_build_l6.py:546-563`): those to a symbol AP has not listed dangle in the
  cache. `LinesHaveEnds` sets them aside.
- A file of a project without a root keeps its relative path and, since
  `file_id_by_path` knows suffixes, can be resolved to a file of another
  repository: `FilesAreOneNode` speaks of projects with a root.

## 5. Proofs

All theorems hold for every value of the constants that satisfies the module's
assumptions (counts are naturals, capacities are positive, fault sets are sets
of known faults, graphs are finite and hold their domain, at most one worker is a
build child, a launcher is installed or a developer's). Each run's inductive
invariant was first checked by TLC within the run's bounds.

`ActivityStream_proofs`:

- `TypeCorrect`: `TypeOK` is inductive, the bound of the deque included
  (`PushType`); a position that moves on stays in the deque (`AdvanceType`).
- `ResumePointCorrect`: `TypeOK /\ ResumePointIsDurable` is inductive: every
  delivery moves both ids, `Connect` copies one to the other.
- `DeliveryIsOnceAndInOrder`: order alone is not inductive. The invariant adds
  that everything delivered is at most `lastId`, and that the rows still to be
  replayed lie above `durable`; then each delivery is of an id above the resume
  point. Nothing in it depends on the order of commits or emits, which is why it
  holds where `NothingOvertaken` does not.
- `SpineIsTheFeed` (`FeedSafety`) and `NoRowIsOvertakenInTurn`
  (`NothingOvertaken`), under `InTurn` (one POST at a time, no fragment raises)
  and while nothing was evicted: the three conditions without which TLC finds
  them violated. `FeedInv` says that ids are committed and stand in the deque
  in order (`RowsInOrder`, `EventsInOrder`); that what a client is owed lies above
  its resume point, and what a window left out has a window's worth of newer rows,
  so that no later window takes it in again (`Resumable`); and that what a
  served client is owed is in its replay, ahead of it in the deque, or recorded and
  about to be emitted, in this order (`Covered`). `ReplayIsNext` and `EventIsNext`
  then say that what is sent is the oldest row the client is owed, and `QueryOwes`
  with `WindowIsNewest` that a window leaves out a prefix of the backlog.

`BuildEpochs_proofs`:

- `BuildTypeCorrect`: one lemma per group of actions (requests, start, child,
  drain), and one for the scripts of the child.
- `StaleBuildIsBounded`: `late[e] <= 1`. The invariant `GateInv` says that only
  the holder of `_proc_lock` is in the middle of a start (`OneStarter`), that
  `serverEpoch` follows `epoch` except in the one step between the two
  (`EpochsAgree`), that only begun epochs have a drain (`DrainsHaveBegun`), and
  `Gate`: an epoch that is not over has no late message, and an epoch that is
  over and has one is no longer past its check. Since `serverEpoch` only grows,
  a retired epoch never passes the check again.
- `OneBuilderAtATime`: `OneBuilder`. `Line` says what one epoch's child, queue
  and drain hold between them: "done" is the last message, the graph file the one
  before it, a child that is gone has nothing to send, and a drain joins only
  after "done" or a queue error. With it `BuilderInv` is inductive: a child that
  still has messages to send is the one of the handle (`HandleIsKept`); whoever
  starts a build found no child alive, and else the handle is the newest child's
  (`HandleIsNewest`); who is killed has nothing to send when its handle is dropped
  (`VictimsDie`).
- `EndedBuildIsWhole`: `EndedGraphIsWhole`. While only messages of epoch `e` have
  touched the server (`OwnState`), `WholeOf(e)` says of a build that is to end well
  that the graph file is still on its way or the cache has all that the child
  has merged, and that the message that flags a phase is on its way or the phase is
  flagged.

`LayoutAuthority_proofs`:

- `LayoutTypeCorrect`: with the finiteness of the known domains (the next index
  is their number) the types are inductive; `RemoveAtType` bounds the buffer.
- `EdgesAreDrawable`: `LinesHaveEnds`. It is not inductive, because the code
  sends an edge when its ends are *placed*, while the client needs them *shown*.
  `PlacedIsShown` says that the two sets differ only while the next thing to do
  is the emission of the node just placed; edges are flushed in other states.
- `SlotsAreFinal`, `SymbolsAroundTheirFile`, `NothingReadyIsHeld`, from one
  invariant, `LayoutInv`. A symbol that is sent once waits once and is not placed
  (`WaitingOnce`, `Waits`), and once let through has left the buffer and is let
  through once (`Works`, `OnceOnly`); so it is placed once, and what the client
  has is the authority's slot or is being emitted (`Shows`). A placed symbol
  has the slot of its file inside its own (`Family`). Nothing is forgotten: a node
  is lost, placed, waiting or let through (`Accounted`), only the file that is
  emitted next has symbols waiting (`FilesLetThrough`), and an edge with both ends
  placed is about to be flushed (`EdgesAreDue`); with no work left these are
  `NothingReadyWaits`. `SlotsAreFinal` is a property of steps.

`McpClient_proofs` (`McpInvariant` proves the inductive invariant `Inv`):

- `McpTypeCorrect`, `AnswersAreMatched`, `WaitersAreWatched`,
  `OneConnectionOnly`. Beside the types, `Inv` says that the bridge's lock is
  held exactly by a caller in its section; that a client is connected only
  between its handshake and its release, with its handle and a reader; that an
  id in `_pending` or still to be answered is at most `_req_id`, and that two
  requests of one client with one id are one request. The last is why a late
  answer to a call that timed out cannot resolve a younger future, and it rests
  on the counter only growing; connections are unique because a client becomes
  connected only under the lock, by the caller that replaced a dead one.

`GraphStore_proofs` (`StoreInv`):

- `StoreTypeCorrect`, `LayoutsNeverMix`, `SnapshotIsSingle`, and
  `SnapshotImplementsShelf`, which is `Spec => ShelfSafety`: each step maps to a
  withdrawal, a publication or a stutter. `StoreInv` adds to the properties that
  a worker that is not idle has a graph and a run of its own (`ActiveHasRun`),
  and that between the two statements of the one build child the snapshot is
  empty (`GapIsEmpty`), which needs that nobody else writes it.
- `PyramidsAreWhole`, `UndisturbedRunsAreStored`, from `Solo`: while no two workers
  have overlapped there is one worker (`Alone`), and where it stands tells what the
  tables hold (`Stage`): no rows before its insert, its rows after it, and, while
  it reads pages, exactly the rows up to the last page. That a page leaves no gap,
  and that a short page is the last, is `PageHasNoGap` and `ShortPageIsLast`;
  they need a least row of a set, which is taken from the order of the naturals
  being well-founded, since induction over the set is not available.

`ServerLifecycle_proofs` (`LaunchInv`):

- `LaunchTypeCorrect`, `DevServerIsCurrent`. The guarantee for a developer
  rests on a chain: what the registry names registered before it was announced
  and is as old as its entry says (`EntriesAreSound`, `EntriesAreOld`,
  `AnnouncedHaveServed`); ports are held by one process (`PortsAreHeld`); after
  the sweep, whoever comes to hold the well-known port registered after the edits
  the launch knows (`PortIsCleared`); the launch's own child did too
  (`ChildIsNew`), and so did whatever URL it settles on (`UrlIsNew`).
- `OneServerAtATime`: `OneServer`. As long as launches have not overlapped and no
  live server was missed, one launch is under way (`OneByOne`), a server that has
  registered is the one in the registry (`Written`), one that comes up is awaited
  by the launch that spawned it (`Awaited`), and a launch that has passed its
  probes knows that nobody serves, or whom it is about to kill (`Sees`).

`GraphLoader_proofs` (`LoaderInvariant` proves the inductive invariant `LoaderInv`):

- `LoaderTypeCorrect`, `LoadedGraphIsOnCanvas`, and `LoadIsOneFetch`, which is
  `Spec => FetchSafety`, the refinement of `GraphFetch` and with it of
  `GraphShelf`. The frames of the graph a stream delivers are at every moment cut
  into four pieces that follow one another: what is applied, what is queued, what
  the sockets hold, what is still to be written (`Cuts`); a stream that was cut
  has lost a tail of them, so that "done" arrives only behind all the rest, and a
  second attempt begins with nothing of the first (`Offline`). Then "done" with
  the announced number of nodes is the whole graph, whatever the snapshot
  became meanwhile.

`GraphAssembly_proofs` (`AssemblyInv`):

- `AssembledLinesHaveEnds`, `DiscardIsLossless`. `AssemblyInv` has a part for
  each stretch of the build. `EarlyInv`: up to the memories nothing has been taken
  out, and the builder is `Sane` (the order is a sequence of known nodes, no
  memory is among them, a discussion has a domain; one lemma per ingest method
  says that it keeps this). `MidInv`, while memories come and go: builder and
  retained parts are together the twin (`Together`); what is behind `_struct_n`,
  and what was, is memories and their domains (`Order`), so that a cut takes
  no structural node; the memories of the twin are those that were seen
  (`SeenAreThere`), so that a lookup by ids alone finds what a lookup of nodes would,
  and each has its edge to its domain, so that reading a cooled one again adds nothing;
  edges of chunks have their ends in the twin (`KeptHaveEnds`). `SweepInv`:
  the edges still to be merged, and `fileId`, name nodes that are in the cache
  or go out before them.
- `PagesPassNothingOver`, by an invariant of its own (`PagesInv`): what is in the
  table all along is seen, in the page at hand, or still behind the boundary
  (`Ahead`), and once the generator has returned before its limit nothing is
  behind it (`NoneBehind`). The step that fetches a page needs that its rows are
  before the rest in the order of the key, and that a page that is empty without
  the limit being met means an empty rest.
- `BaselinePassesValidation`, by `HomeInv`. A builder is `Whole` when every edge
  starts at a node and ends at one or at a file that `_finalize_files` will make,
  and every node has the domains its kind needs; each ingest method keeps that
  (`Grows`, one lemma per method). Once memories come and go, what is `Sound` is the
  builder less what the chunk has added, with the edges below `_struct_e`; that
  a chunk adds only what is behind `_struct_n` is why a cut leaves what validates.
- `FilesAreNamedAlike`, by `OneNodeInv`: `fileId` gives a path with a root its own
  file (`NamedFiles`), the edge that defines a symbol ends at the file of its
  path (`InItsFile`), every symbol known has that edge in the cache or on its way
  (`KnownAreDefined`), and the baseline brings no symbols of its own.
- `AssemblyTypeCorrect`, by `Types`: the chunk and the page together never exceed
  the chunk size, because a page is fetched for an empty chunk and its rows go
  from the one to the other.
- The theorems assume `RowsAreTyped`: associations join memories, `about_entity` a
  memory and an entity, documents a page and a memory, as the queries select them;
  the domains of a skill are a list; memory ids are finitely many naturals, and a
  memory stays in its domain. And `ProjectsAreTyped`: AP knows finitely many symbols
  and references of a project, and is asked for the tables of `_AP_REL_TABLES`
  (`infrastructure/workflow_graph_source_ast_edges.py:64-96`), whose edges are
  calls, imports, memberships and uses.

**What the proofs changed.** `OneBuilder` was first stated with an exception
for builds that are being killed and none for a queue error; the proof showed
that it is the other way round, and it is stated so now. `GraphLoader!Outcome` had two CASE guards that overlap, which
leaves its value open (TLC takes the first); they are disjoint now. The counts
of frames are cardinalities, not folds, because what a fold computes for every
sequence is out of the prover's reach.

**Only model-checked**: every liveness property (`EveryRowArrives`,
`EveryBuildEnds`, `EveryAskEnds`, `EveryChildGoes`, `EveryLoadEnds`,
`EveryLaunchEnds`), because the prover has no rule for fairness and ENABLED. The
violation run needs no proof: TLC shows the behaviour.

## 6. Not modelled, and why

- **Build endpoint and the rest of the event buffer.** `reset`, `close` and
  chunking run in the spawned child, in a buffer of its own that nobody
  subscribes to (`server/graph_build_run.py:541-546`), and the shipped pages do
  not load `graph_event_stream.js`; the endpoint only sends heartbeats. (If it
  were fed, a `Last-Event-ID` of an old process would make it skip the first
  batches of a new one.)
- **Event log of the layout authority.** At this commit only tests and
  benchmarks feed an authority, and its stream is not routed
  (`server/graph_build_l6.py:513-521`).
- **Capture hook.** A short client of a POST that the spine accepts at any time.
- **AST cache, record sources, memory readers, probes.** Queries without state
  of their own, but for the paged read of the memories, which `GraphAssembly` has;
  that their pools commit every statement is modelled in `GraphStore`.
- **Wiki, trace, discussion, git and dashboard endpoints.** Request and answer
  over files and tables, nothing kept between two requests.
- **Rendering, packaging, scripts, vendored code.** Not part of what the
  properties are about.

Most of the lines of the implementation are of the last four kinds, and so the
modules cover a small share of all lines: they cover the parts that keep state
and share it.
