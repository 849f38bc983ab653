# Window Mirror: TLA+ models, checks and proofs

Window Mirror is a desktop browser for debugging web traffic. A Rust backend
(`src-tauri/`, Tauri 2) runs an intercepting HTTP proxy, a certificate
authority, a timeline database, a WASM sandbox and a static analyser; a Solid
frontend (`packages/frontend/`) has a kernel with plugins, services and
configuration, and the user interface. This directory models the backend's
concurrent core and the parts of the frontend that keep state, checks the models
with TLC and proves their safety with TLAPS: every invariant, action property and
refinement that a run checks, but the one about tables of constants (`TablesFit`).

## 1. Inventory of the system

| Component | Code | State | Operations | What is hard, and what makes it correct |
|---|---|---|---|---|
| Rules engine | `rules_engine.rs` | rule list, regex cache, each under an async RwLock | add, update, delete, toggle, reorder; evaluate for a request or a response | edits race evaluations; two locks; the order of the list. Cache and list agree, an evaluation sees one list, the order is by priority or as the user put it |
| Pause and resume | `mitm_proxy.rs` 384-397, 683-728 | `paused` map of queued edits, one `Notify` per exchange | hold, resume, time out, client leaves | lost wake-ups, the timeout against a late resume, a handler dropped while it waits. Every held exchange ends, with one submitted edit or none |
| Exchange handlers | `mitm_proxy.rs` 401-852 | `PENDING` queues per host, history ring, statistics, events | handle_request, handle_response, clear_history, replay_request | many exchanges at once over shared queues; exchanges without a response. Responses belong to requests, nothing is counted, announced or paired twice |
| Proxy lifecycle | `mitm_proxy.rs` 229-359, `chromium_launcher.rs` | task slot, launcher slot, listeners, processes | start, stop, set_config, regenerate_ca, launch, kill | check-then-act over awaits; aborted tasks release their port late; the process may end at any point. No listener is lost track of, and each signs with the stored pair |
| CA manager | `ca_manager.rs` | certificate and key, in files and in memory | initialize, generate | crashes and failed writes between two files. The pair in use is a pair, and a whole one is not replaced |
| Locks | `commands.rs`, `state.rs`, `mitm_proxy.rs` | fourteen async RwLocks | every Tauri command and handler | lock order, a command that waits for itself. Commands return |
| Timeline | `timeline.rs`, `setup.rs` | broadcast channel, two tables of an embedded database | forward, append, recent, export, restart | lag, failing appends, restarts, two indexes of one truth. Requests that were announced are stored, once, in their latest form |
| Plugin kernel | `PluginRegistry.ts`, `KernelBootstrap.ts` | map of plugins, load order, configurations, `enabled` flags; manifests | install, uninstall, update, enable, disable, reload, configure; start, stop, restart | calls interleave at awaits; hooks reject. The records agree; what is enabled can be stopped; manifests of several files fit each other |
| Kernel services | `KernelBootstrap.ts` | subscribers and streams, hooks, windows and tabs | publish, stream; hook, unhook, fetch; create, close | consumers slower than publishers, arrays that change under an iterator, ids that are milliseconds. Nothing is lost or done twice |
| Configuration | `ConfigurationSystem.ts` | values, schemas, profiles, watchers, IndexedDB | get, set, delete, profiles, import, export, watch, the settings page | the constructor does not wait for its reads; calls overlap at awaits; objects are shared. Values are valid, watchers current, profiles apart |
| DevTools | `TanStackDevTools.ts` | WebSocket, timer, flags | connect, reconnect, disconnect | late events of a socket against a timer and the user's calls. One connection, that comes back |
| Store and tabs | `appStore.ts`, `TabBar.tsx`, `Sidebar.tsx`, `MonacoEditor.tsx` | open files, their order, active file, models, positions | add, remove, reorder, activate, edit, scroll | several records of one set; a delayed write. The active file is open, positions belong to their file |
| Events | `appStore.ts`, `TimelinePanel.tsx`, `ConsolePanel.tsx`, `ProxyHistoryPanel.tsx` | the last 10,000 events, a selection, a filter | add, clear, select, filter | limits in two places. The newest are shown |
| Settings dialog | `SettingsModal.tsx`, `appStore.ts` | store, overrides, localStorage | set, load | three copies of one value, each merged in another way. What is set is kept, and no other setting changes |
| Target view | `TargetView.tsx` | address, history, spinner | navigate, back, forward, reload, load | a page that moves on its own, with a load event or without, and may not be read. Of a frame that was heard, spinner and buttons are right |
| Command palette | `CommandPalette.tsx`, `Sidebar.tsx` | query, selection, mode | type, move, run | an index that outlives its list. What is picked runs |
| Tables | `SASTEngine.ts`, `MonacoLSPIntegration.ts`, `MITMProxyEngine.ts`, `WASSandboxEngine.ts`, `BrowserKernel.ts` | none: languages, rules, servers, manifests, types | | tables of several files that speak of each other must agree |
| Workspaces | `workspace.rs`, `commands.rs` 365-474 | workspace files, tables of open files | create, switch, load, save; open, save, close a file | crashes between writes |
| Persistence | `state.rs` 198-272 | three JSON files | load and persist | torn files, defaults taken for lost data |
| Sandbox | `sandbox.rs` | engine, settings, guest on a blocking thread | execute, snapshot, restore | the timeout does not cancel the guest |
| Event bus | `events.rs` | broadcast channel | emit, subscribe | only lag, which Timeline has |
| Static analysis | `sast.rs` | compiled rules, results | scan a file, a tree | none kept between scans |
| Program start, packaging | `main.rs`, build files | none of their own | | |

How they interact. The user interface calls Tauri commands (`commands.rs`),
which take the locks of `AppState` and call methods of `MITMProxyEngine`. The
engine owns the rules engine, the CA manager, the launcher and the listener's
task; hudsucker calls `handle_request` and `handle_response` in tasks of their
own, which read the rules, hold exchanges in `paused`, pair through `PENDING`
and send events on a broadcast channel. `setup.rs` subscribes to that channel
and writes the timeline. `start` and `regenerate_ca` initialize the CA under its
write lock, and the listener signs with what it has. The frontend's kernel runs
in the browser's event loop: it hands its services (bus, network, renderer,
storage) to plugins and makes the main window; the panels and dialogs of the user
interface share the store. It shares nothing with the backend but commands
and events.

## 2. Modules and how they correspond to the code

The `map` of `PROJECT.json` gives the source lines of every definition. In all
modules an action is what runs between two suspension points (`await`), so the
interleavings of TLC are those of the async runtime. Constants named `Max...`
are bounds of the checks, everything else describes the program. Variables
that only remember something for the properties are marked "history" where they
are declared.

### Backend

**RulesEngine.** `rules` is the Vec of rules, `compiled` the keys of the regex
cache. An edit that changes regexes has two steps (the list under its lock;
then `compile_regexes`), with `editing` true in between. It holds the write lock
throughout, so `NoReaders` guards it. An evaluation (`Begin`, `Scan`,
`ScanEnd`) holds the read lock while it passes over the rules one at a time.
`sort_by` is stable: `Arrange` is the permutation it makes. `Reordered` is the
closed form of the code's quadratic loop; `Moves` is that loop, one id after the
other, and `ReorderIsTheLoop` compares the two. Matching itself is abstracted to
which rules' conditions hit which traffic.

**RuleDecisions** is what the engine promises the handlers: a list that may change at
any moment, and questions each decided in one step, by the first rule of the list
that applies. It has no locks, no cache and no position in a list. RulesEngine
implements it (`DecidesAtOnce`): an evaluation under way is a question that is not
decided yet, and it is decided by its last step.

**ExchangeHold, PauseResume.** `ExchangeHold` says what holding an exchange
promises: it is released once, with the edit somebody submitted or none, and it
is released. `PauseResume` has the code's steps: the handler inserts,
announces, creates its `Notify` future, waits, is woken or expires, takes the
entry and forwards; `resume` looks up, stores, notifies, each under a different
lock. `notify_waiters` wakes existing futures only. `ClientGone` drops the
handler at a suspension point, as hyper does.

**ProxyExchange.** `pc` follows each exchange through both handlers, arm by arm
of the rule action (block, redirect, mock, modify, pause, script, pass).
`pending` is `PENDING`, `history` the ring, `published` the events by request
id, `stats` the counters. `Pair` pops the front of any queue that is not
empty, which is what the code does. `Lose` ends an exchange that gets no
`handle_response`. Bodies, headers and the text of the exports are left out.

**ProxyLifecycle.** `caller` is where each `start` is; `task` and `chromium` are
the two slots; `listeners` and `browsers` have everything that was ever
spawned, since dropping a handle ends neither. `Check` and `Store` are separate,
with the initialisation of the CA and the spawn between them. A listener binds
its port some time after the spawn (`Bind`), and an aborted one releases it some
time after the abort (`Ended`).
`Crash` ends the process: listeners end with it, a Chromium goes on running and is
forgotten.

**AppLocks.** A command is a script, a sequence of read, write and drop requests
on named locks, transcribed from the code's guards with their scopes. tokio's
RwLock is modelled as first come, first served; a queued writer stops later
readers. Tasks run any of the scripts, one after the other.

**CAManager.** Pairs are numbers. `TruncateCert`, `FillCert`, `TruncateKey`,
`FillKey` are the two `fs::write` calls; a crash (`Restart`) may come between any
two and a write may fail. `Loadable` is what `try_load` accepts: a certificate
that parses and a key that parses, whatever their pairs. The user may delete files
or configure other paths at any time; `tampered` remembers that it happened.

**ProxyWithCA.** The two composed: a step is one of ProxyLifecycle and one of
CAManager at once, or one of the latter alone. `holder` is who holds the write
lock of `ca` across the writes of `generate()`; `taken` the authority a start has
made, `signs` that of each listener. ProxyLifecycle alone takes the
initialization for one step; the composition is shown to implement it
(`LifecycleIsKept`).

**Timeline.** `sent` is the broadcast channel of one run of the program, of
which the last `Capacity` events can still be received; `next` is the
forwarder's position. A row's status is 0 until its event has the response.
`Commit` writes both tables; `AppendFails` neither. `Restart` opens the file
again or falls back to memory. Alone, it takes any events that keep to the guards of
`Send`: one exchange per request, and none of a request of an earlier run.

**ExchangeTimeline** composes ProxyExchange with Timeline: each step of a handler
that emits is at once a `Broadcast` on the channel (`Emission`), the others leave the
channel alone (`Silence`), and the forwarder runs beside them (`Storing`). Nothing
looks at the guards of `Send` here; that the handlers keep to them is `TimelineIsFed`,
the composition being a refinement of Timeline. `ProgramRestart` ends the
handlers, their queues and counters with the forwarder; the database stays. `gaps`
remembers that an event of this run was skipped or not stored.

### Frontend

**PluginKernel.** A call is the list of pieces it has still to run; a piece ends
where the code awaits. Hooks may reject, which throws out of the call; the
kernel's `start` catches it. A plugin object (with its `enabled` flag) outlives
its entry in the map, as in JavaScript. `overlapped` remembers that two calls
were in progress at one time, which is what the code does not survive.

**Manifests.** The manifests of the built-in plugins and of the engines, the
points they override, `register` over the whole table and the conflicts it warns of.

**MessageBus, NetworkStack, Windows.** The services of the kernel. A stream is
its queue and whether its consumer is between two calls of `next()`; a `publish`
may be cut short by another subscriber's exception. `fetch` iterates over the live
array of hooks, as `for...of` does, with a suspension at each. A registration is a
function on a list, and `remove()` of any of its handles takes the first of the
function, so one that was registered twice can lose the other's place. Windows and
tabs are objects with an id that the caller gives or that is the time; of two with
one id the Map keeps the later. `start` and `stop` of the kernel make and close the
main window with awaits in between: it is registered one step before the kernel has
it (`made`), and a `stop` whose plugins reject ends where it is.

**ConfigSchemas, ConfigValidation, Configuration.** `ConfigSchemas` has all
built-in settings with type, range, enumeration and default, the checks a schema
makes of a value itself, and what each widget of the settings page produces.
`ConfigValidation` is the validator, which is recursive, as schemas are nested.
`Configuration` does not depend on it: its constant `SettingValid` says which
settings are accepted, which the instances take from `ConfigValidation` and the
proofs leave open. `Configuration` is the manager over IndexedDB: `own`
and `entries` are the properties and the entries of its Map, which the code
uses side by side; `heap` the section objects that maps share; `queue` the storage
requests in order, each of which may fail; a reload loses memory and queue. A
call waits where the code awaits, the constructor like the others. It is the
manager over `IndexedDBStorage`, the storage written for it in the same file. The
kernel as it stands gives it another one: `SimpleStorageEngine` (`KernelBootstrap.ts`
23-69, 486-487), a Map in memory, which stores in the call itself, fails never, keeps
the objects it is given and not copies of them, and is empty after a reload. What the
module says of the storage (its queue, its copies, failures and what a reload finds) is
said of the class, not of that wiring.

**DevToolsClient.** `socket` is the state of each WebSocket, `ws` the one in the
client's field, `timers` the reconnects pending. `new WebSocket` may throw.

**EditorTabs.** `openFiles`, `fileOrder` and `activeFile` of the store, the
editor's models and the 150 ms timer that writes a scroll position. The store merges
the object it is given, so a removed file stays in `openFiles`: `ghosts`. The effect
that makes a model (`RunEffect`) reads the file's positions, so it runs again where
one of the active file is written, by an edit or by the timer.

**EventPanels, SettingsModal, TargetView, Palette.** Each the state of one part of
the user interface with its handlers; their limits (10,000 and 500 events)
and lists (settings, commands) are constants of the instance.

In SettingsModal the store, what was read with the page and what localStorage has are
objects of one or two levels, as in the code, and each merge is the code's: `Spread`
for the spread of `get` and for `setSettings`, which both go one level deep, `WithPath`
for the copying merge of `set`.

TargetView models the frame it drives: `entries`, `position` and `target` are the
frame's own, external. Entries of one document are `joined`: the frame goes between
them, or adds one (a fragment, `pushState`), without a load event, and a navigation may
bring no document (`NoDocument`: a download, an answer 204). `unheard` remembers that
the frame did such a thing since the last load event.

**Ordering.** What `filter`, `sort` and removal from arrays yield, in closed form, by
the rank of each element: used by PluginKernel, MessageBus, NetworkStack, EditorTabs,
EventPanels and Timeline, since the proofs cannot use recursive definitions.

**Languages.** The table of the scanner, its rules, the table of the editor and
that of the language servers, with the lookups that are done in them.

`MC*.tla` give the instances: model values, rule lists, symmetry. `*Proofs.tla`
hold theorems. `MCInterception`, `MCFrontend`, `MCProgress` and `MCProxyWithCA` put
several components into one run: a variable `part` chooses, once, which of them moves. The
parts share no state, so nothing is lost: the graph is the union of theirs.
In `MCProxyWithCA` the parts are the life cycle alone, the CA alone and the two
composed. In `MCProxyExchange` they are the handlers alone, through every arm of the
rules, and the handlers with the timeline.

## 3. What the runs show

| Run | Question | Bounds |
|---|---|---|
| `interception` | do edits that race an evaluation keep cache and list together, is RuleDecisions implemented, and is the order what it should be? Do map and wake-ups of held exchanges agree; does every held exchange end; is ExchangeHold implemented? | 3 rules over 2 ids (so ids repeat) of 4 shapes, with 2 priorities (so priorities tie), valid and invalid regexes; reorder lists up to length 3, with unknown, missing and repeated ids; an evaluation inside an edit's two steps. 2 exchanges, 2 resumes, 3 edits: two resumes of one exchange, or one each, with timeouts and disconnects at any point |
| `proxy_exchange` | is a request paired once, is none forgotten, does `PENDING` drain, do the counters agree? Is Timeline implemented, and do its rows show what was announced? | 2 exchanges over 2 hosts in flight together, every request and response action, losses, a clear_history at any point, a history of 2; with the timeline: 4 events on a channel of 2, so it overruns, failing appends, a restart at any point, after which the two exchanges may be old and new (`FedPlaces`: without the arms that count an intervention) |
| `app_locks` | which circles of waits exist? | 3 tasks and every command (three suffice for reader, queued writer, reader) |
| `proxy_with_ca` | is every listener stoppable; do crashes and failed writes leave a mixed pair or replace a whole one; does every listener sign with the stored pair; is the life cycle implemented? | 2 callers that do not overlap, 3 listeners, 2 browsers, 2 ports; 3 pairs with any number of crashes, deletions and configurations; composed: 2 listeners, 2 pairs, 1 browser (a regeneration between two starts) |
| `frontend` | plugins: do the records agree, does a stop disable all? Configuration: are values valid, watchers current, stored profiles consistent? Bus, hooks, windows: is anything lost, skipped or left? Tabs, panels, palette: does each show what it holds? Does the dialog keep what is set? Do the tables fit? | 2 calls over 2 plugins, hooks that reject; 3 calls of the configuration, 2 at a time, a profile besides the default, a reload, a failing request; 2 streams and 3 payloads; a request and 4 registrations of 2 functions (so one is registered twice); 3 windows and a tab in 2 moments, one of whose ids callers also give; 3 files; a list of 3 events of 6; 3 settings, two of one section, 2 page loads, a write that fails; 3 queries (for none, one and two commands) |
| `progress` | does the forwarder catch up, the connection come back? Do rows go back, does reconnecting add sockets? Of a frame that was heard, does the spinner go, is the way back offered? | 3 events for 2 requests and a channel of 2, so it overruns; failing appends, a restart, a clock set back; 4 sockets, 3 calls of connect, 2 of disconnect; 2 documents, one of another origin, each with a fragment or without, a history of 3 |

Why these are enough: the hazards are races of two actors (two calls, an edit and
an evaluation, a timer and a call) or one limit passed once, and each bound admits
that with one more step of each kind; every mutant below is found within them.
The states are the components' own, not products.

Runs in which TLC finds a statement of the repository violated (the quotes are
in `findings`):

| Run | What happens |
|---|---|
| `resume_ok` | a `resume` that comes between the paused event and the creation of the future, or at the timeout, returns Ok and the exchange is forwarded unmodified |
| `proxy_pairing` | with two exchanges in flight a response is recorded as the answer to the other host's request |
| `set_mode` | `set_mode` waits for a lock it holds; the mode is never persisted |
| `start_twice` | two overlapping starts make two listeners; one can never be stopped |
| `settings_stored` | `set` assigns to properties of the Map object, `persist` stores its entries: what is set is never stored |
| `kept_is_shown` | a setting is kept in localStorage; after the page is loaded again the store has its default, which `get` shows over what was kept |

The models show more of what the code does that a reader may not expect. No run
is spent on it; the properties are worded so that they hold beside it:

- `reorder_rules` leaves a list that is not sorted by priority, and the next add,
  update or toggle sorts the user's order away (`SortedUnlessReordered`);
- a forwarded exchange is in the history twice, once without its response, and a
  replay is not in it (`RecordRequest`, `RecordExchange` and `Replay` of ProxyExchange);
- a second launch replaces the launcher whose browser is alive, and `stop` kills
  only the stored one (`StoredBrowserLives` speaks of that one);
- after a file was deleted or another path configured, a certificate is accepted
  with another pair's key (hence `~tampered` in `CrashLeavesNoMixedPair`);
- after a lag, requests are missing from the timeline (`ForwarderCatchesUp` says
  only that the rest follows, `RowsAreAnnounced` has `~gaps`);
- a response can be paired with a request of another handler that is pushed but not
  announced yet; its exchange is emitted first, the request after it, and the row
  goes back to status 0 for good (`RowsAreAnnounced` says "what was announced last",
  not "that it was answered");
- an `enable` between the hooks of `unregister` leaves an enabled plugin without
  an entry (hence `~overlapped`); after stop and start of the kernel, `register`
  refuses the built-in plugins, which stay disabled;
- configuration: what is stored is invisible to `get`; a profile shares its section
  objects with the one it was made of; calls made while the constructor reads are
  written over (hence `~early`); an import's two saves can be torn by a reload, and
  `switchProfile` makes a profile current before that is saved: where the save
  fails, a deletion of the old profile leaves the storage with a current profile that
  does not exist (hence `~torn`; a run of three calls is too short for that one, the
  proof of `StoredCurrentExists` found it); an import may name a current profile that
  neither it nor the storage has (`~torn` again);
  a set whose request failed has assigned and notifies nobody; the settings page
  gives eight editors the path "other"; `export` writes the key `profile` and
  `import` reads `currentProfile`;
- what is published between the making of a stream and its first `next()` is
  lost (hence "from its consumer's first pull on"); a hook removed at or before the
  place a request has reached in its list makes it skip another (hence `~disturbed`);
  `remove()` of a function that is registered twice takes the first of the two,
  whichever handle is used; windows of one id replace each other; when `start` and
  `stop` of the kernel overlap, it can be stopped with its window open (hence
  `~mixed`);
- what a lost request leaves in `PENDING` stays there and shifts the pairs that follow
  (`IdleMeansDrained` is about exchanges that all ran to their end); after a reset of
  the statistics the counters no longer agree (hence `clears = 0`);
- a number whose schema has no bounds gets a slider from 0 to 100, also where its
  default lies outside (`TablesFit` asks only whether what a widget yields is accepted);
- after `disconnect()` the `onclose` that follows it connects again;
- a file is listed on after it was removed, and an editor that shows a file for the
  second time throws where it makes the model again (hence `~refused`); so does the
  effect when the active file's cursor or scroll position is written, which leaves the
  editor as it is;
- a change of a setting that localStorage refuses is gone with the page, and nobody is
  told;
- `updateSettings` merges one level deep, so the patch of one setting replaces its
  section: its other settings are gone from the store, and shown as nothing, until the
  page is loaded again; localStorage has them still (`WrittenIsKept`);
- the reload button loads the address that was entered last, also when a link was
  followed since;
- Enter on the address that is shown leaves the spinner on, and so do an address that
  differs in its fragment, a download and an answer 204, until something is loaded,
  and reloading an address with a fragment loads nothing;
  after `pushState`, a fragment link or a step of the page itself the way back may not
  be offered where there is one (hence `~unheard` in `LoadsAreHeard`); after going
  back, forward is not offered; pages of another origin offer neither;
- the palette is made with `isOpen={false}`, which nothing changes.

Deadlock is not checked (`CHECK_DEADLOCK FALSE`) where a bound or the system
itself ends the behaviour: all exchanges done, all calls made, all objects used.
In AppLocks a deadlock is what the invariants are about.

**Fairness.** PauseResume: weak fairness of each handler, whose wait is under
`tokio::time::timeout`; nothing is assumed of the user, who may never resume.
AppLocks (in `set_mode`): weak fairness of every task and of every lock's queue,
which tokio's scheduler and fair locks provide; no command is assumed to be called.
Timeline: weak fairness of the forwarder's task and its append. DevToolsClient:
weak fairness of the timer and of the close of a socket that is closing, which
the browser provides; strong fairness of a socket's opening, since a server that
is tried again and again has to accept at some time, or no client could connect.
The other modules state safety only. TargetView has no fairness: a browser does not
promise that a navigation ends in a load event, and many do not.

**Symmetry** is used of the tasks in `app_locks`, the callers in `proxy_with_ca`
and the calls in `frontend`: none of them is ordered, and no property of these runs
has fairness.

**Mutants.** Beside a definition that a property depends on there is a mutated
form of it (its comment says "For the mutant of ..."), a bug that could have
been made there: an update that does not recompile, a stop that does not abort,
an append that is not awaited. `mutants` in PROJECT.json says which property
refutes which.

## 4. What is proved

All theorems hold for every value of the constants that satisfies the named
assumption of the module (`RulesAssumption`, `PauseAssumption`,
`ExchangeAssumption`, `LocksAssumption`, `PluginAssumption`, `ConfigAssumption`, ...),
which say no more than that distinguished values are distinct, bounds are
numbers, some sets finite and inputs of the shape the callers give them. TLC
evaluates each of them. Where a theorem states a property, a run checks it on a
small instance too (`property` in `theorems`); the others are types and facts the
proofs need, most of which no run repeats. Every invariant an argument rests on was
first checked by TLC.

| Module | About |
|---|---|
| RulesEngineProofs | RulesEngine, and that it implements RuleDecisions |
| PauseResumeProofs | PauseResume, and that it implements ExchangeHold |
| ProxyExchangeProofs | ProxyExchange, and that ExchangeTimeline implements Timeline |
| ProxyWithCAProofs | ProxyLifecycle, CAManager, and that ProxyWithCA implements the first |
| AppLocksProofs | AppLocks |
| KernelProofs | PluginKernel, MessageBus, NetworkStack, Configuration |
| InterfaceProofs | DevToolsClient, Windows, SettingsModal, Palette, EventPanels, EditorTabs, TargetView, Timeline |
| OrderingProofs | the operators of Ordering |

**RulesEngineProofs.** `IInv` joins the type invariant, `CacheCoherent`,
`PassedRulesDoNotApply` and `SortedUnlessReordered`. The cache alone is not
inductive: that a scan never misses needs that no edit is half done while there
are readers, which is in the type invariant. The lemmas about `SortRules`,
`Reordered` and `CompiledOf` (the result is a sequence of rules, it is sorted,
what it does to the regexes) carry most of the argument. Theorems: types, cache
coherence, no evaluation misses the cache, passed rules do not apply, and the
list is sorted until the next reorder.

`EngineDecidesAtOnce` is the refinement. The decision takes place at the step that
finds a rule or the end: the rule found is the first that applies to the whole list,
since those before it do not (`PassedRulesDoNotApply`), and the list is that of this
moment, since no edit runs while there is a reader.

`ReorderingIsTheLoop`: for any list, with repeated ids too, and any list of ids, the
closed form is what the loop leaves. `Arrange` visits exactly the listing of its
positions by increasing key (`Lists`, `ArrangeIsListing`), so two listings are enough:
`LoopHolds` says that after n passes the loop's `moved` is the listing, by slot, of the
rules whose slot is at most n, and its `left` that of the others, in their old order.
`MovesUnfold` says what one pass does, `LoopStarts` and `LoopGoesOn` are the base and
the step; where an id names several rules, the n-th mention of it goes with the n-th
of them (`Places`). As the induction theorems of the library are out of reach, the
induction is over the least number of passes for which the claim fails (`Least`).

**PauseResumeProofs.** `IInv` adds to the checked invariants that only announced
exchanges are resumed (`CalledAfterAnnounce`), that an edit once queued stays
until the handler takes it (`QueuedEdit`), and that a woken handler was woken
by a resume that had stored (`WokenByResume`). Without the last two nothing
connects the entry a handler takes to the resume that woke it. `RefinesHold`
maps each step to a step of `ExchangeHold` or a stutter: the detailed protocol
implements the safety of the abstract one.

**ProxyExchangeProofs.** `IInv` says where each request can be: in no queue
before it is pushed, in its host's queue exactly once until a response takes it,
paired with one exchange afterwards. Response count and request count are
related by an injection argument: at a `Pair`, more requests were pushed than
popped, so some queue is not empty. Theorems: types (with the ring's bound),
pairing at most once, queues by host, no request forgotten, a response finds a
request, one answer per request, and `PENDING` drains. `CountersStayConsistent`
needs an invariant of its own: the exchanges of which something may yet be counted
are themselves counted (`CounterInv`), and since a lost one does not tell what of
it was, the sums are inequalities.

*With the timeline*, for any clock, capacity and number of restarts: `FeedInv` joins
`IInv` with what connects the two. `EventsTell`: the events of a request on the
channel are those in `published`, and the latest shows whether it was answered; with
`AnsweredOnce` after the step, a second exchange cannot go out. `PastIsOver`: a request
with a timestamp and no event in this run is of an earlier one, its exchange is
lost, and it is in no queue and no pairing, so no response of this run takes it.
These two are the guards of Timeline's `Send`, and give `HandlersFeedTheTimeline`. For
`TheTimelineShowsWhatWasAnnounced`, `NoGaps` says that what the forwarder received is
stored or being stored, and the row of the last event stored stands
(`RowShowsLastAppended`, which holds as appends are awaited): once the forwarder has
caught up, the greatest position of a request is stored, and `EventsTell` says what it
shows.

**ProxyWithCAProofs.** *CAManager*: `CaInv` adds to `CrashLeavesNoMixedPair` that the
key file is written last (`KeyIsLast`): where it parses, the certificate beside it is
of its pair; it does not parse while a pair is being written. That a mixed pair is
never *loaded* is not inductive without it, since the loading only looks at whether
both files parse. `WholePairIsKept` follows because `initialize` loads what parses.
*ProxyLifecycle*: `LifecycleInv` joins the types with three parts: the handle in a
start's hands is a listener that the slot does not have (`HandleInHand`); while
starts do not overlap there is one, and the slot is empty until it stores
(`OneStart`, which carries `SerialStartsKeepTrack`); and the process being launched is
alive and not the stored one (`LaunchingLives`). `BindFailure` is the action property
that whoever cannot bind lost to a listener that runs or was aborted. *Composition*:
each composed step is shown to be one of CAManager or a stutter (`CaPart`), so `CaInv`
carries over; and, under `Lock` (the lock is held just while a pair is written, and
the manager is empty then), one of ProxyLifecycle or a stutter (`LifecyclePart`): that
is `CompositionImplementsLifecycle`. `ListenersSign` needs two more: the pair in
memory is the one in the files (`PemIsStored`), and so is the authority of a start
that is building and of each listener (`AuthorityIsStored`): `WholePairStays` is what
keeps them true when a regeneration comes between.

**AppLocksProofs.** That tasks which block each other include one of the faulty
commands is an argument by lock order, for any number of tasks. `Level` orders the
locks; `Orderly` says that a script asks for a lock only while what it has in hand
comes before it, and is shown of each command's script from its parts (`Concat`).
The lock `config` has no place in the order, as commands take it before and after
`ca`; but only `set_proxy_config`, one of the causes, writes it, and readers do not
wait for readers. `LocksInv` carries the order from the script to what a
task holds, waits for and has left (`InOrder`), through every grant and release. Of a
set of tasks that wait for each other, take one that waits for the last lock anybody
waits for: who holds that lock, or stands before it in the queue, waits for a later
one, which there is none of. `TheBackendGoesOn` draws the conclusion: while commands
are under way and none of them is a cause, one can run or some lock can be granted,
for were all waiting behind locks that cannot be granted, all of them together would
be such a set.

**KernelProofs.** *PluginKernel*: a call is a list of pieces, so `PluginInv` speaks of
what is left of it: what may be skipped follows in order (`PiecesInOrder`), and, as
long as calls did not overlap, what is being deleted is disabled and a stop has still
to visit whatever is enabled (`Serial`). `RegistryAgrees` needs no such condition.
*MessageBus*: what a stream has yielded and has queued is, together, rising and
complete (`Complete`), which a poll leaves alone. *NetworkStack*: registrations
are numbered as they come, so each list rises, and what a request has asked lies below what is
still to come (`Asked`): no registration is asked twice, whatever is removed. Which of
its registrations a function loses is not up to the caller, so `HooksAreKept` says
what is true of functions: a registration leaves its list only when `remove()` was
called for its function on that list.

*Configuration*, for any paths, values and profiles, any number of calls, reloads
and failures, and any validation: `ConfigTypes` says that no reference dangles, that
copies have none, and that each call in progress waits for one request of the kind
its place in the code makes. Requests are served in the order they are made, so what
will be stored once those before a position are served is a function of the queue
(`Stored`), and the properties of the storage become properties of every position:

- `ProfilesAgreeInStore`: at every position the profile to be stored as current is
  among those to be stored, or an import's second save is still to come (`Agrees`,
  `Excused`), and what is in memory agrees with the last position (`MemoryAgrees`).
  Data is queued and stored under the profile it is of (`DataApart`), since the owner
  of the entries is the current profile once the constructor is done; before that no
  call has run, and what it has read is what is stored (`BootPhase`).
- `SettingsStayValid`: a value that is set replaces one setting of one section. That
  no other section changes with it needs that the sections of the properties are
  objects of their own: made by `set`, each for its key (`OwnIds`), while profiles,
  imports and loads make others.
- `WatchersHearTheLast`: the last call in the queue that will notify is about to tell
  what get returns, or, if there is none, the watchers were told that (`Told`). It
  holds because a call assigns and queues its request in one step.

**InterfaceProofs.** *DevToolsClient*: `DtInv`: live sockets and pending timers
together are never more than the calls of `connect`, by a counting lemma for a socket
that is made (`NewSocketAdds`) and one that closes (`ClosesRemoves`); a client that
takes itself for connected has an open socket. *Windows*: a window lists its own
tabs, and while starts and stops of the kernel do not overlap, a stopped kernel has no
main window registered (`StoppedHasNoMain`), so the windows that are open are
registered. *EditorTabs*: what the delayed update is to write is of the file it is for
(`TimerFits`), which is what keeps positions with their file. *Palette*,
*EventPanels*: inductive with the ranges of their state. *SettingsModal*: that a nested
merge leaves the other paths as they are, of its own section and of others, and that
an object stays one along every path that is set. *TargetView*: entries
of one document are of one origin (`HistoryOK`), and while the frame was heard the
index is never less than its position (`Followed`), which steps back and forward and
moves within a document keep. *Timeline*: events are
appended one by one (`OneByOne`), each with its request's first timestamp
(`Stamped`), and in memory and on disk both tables have the same rows (`Paired`): so
a row shows the last event appended, and the recent rows are those of the export.

**OrderingProofs.** What the operators of Ordering return, preserve and bound: `Nth` is
a bijection that follows the order, `Sifted` keeps what is chosen in its order,
`Without` removes, an appended or inserted element is where it should be. Their
induction is over the least counterexample (`Least`), since the library's induction
theorems take an operator.

Only model-checked: liveness (HeldExchangesEnd, ForwarderCatchesUp, Reconnects
and the liveness of ExchangeHold), since the prover has no fairness or
ENABLED; and `TablesFit`, which evaluates the recursive validator over all built-in
tables: recursion is out of the provers' reach, and there is no constant in it that
a theorem would leave open. The violations of section 3 are TLC's.

## 5. What is not modelled

- Byte contents (bodies, headers, certificates): the cut of a body at
  `max_body_size` and the captured body that is put back after an edit
  (`mitm_proxy.rs` 734, 894-915) are listed as hazards without a property.
- Text formats (HAR, cURL, JSONL), parsing of regexes and URLs, process and
  trust-store commands, layout.
- `state.rs` and `workspace.rs` files: written whole and read at the next start,
  which takes defaults for what it cannot read; what a crash may cost is not stated
  anywhere.
- `sandbox.rs`: one call into wasmtime per execution; `sast.rs` and `sqlite_db.rs`: no
  state between calls.
- Of KernelBootstrap the storage in memory, which is what the configuration is kept in
  today (see Configuration in section 2), with its namespaces and transactions (whose only
  transactions have no caller), request/respond, processes and sandboxes (which are
  placeholders); of TanStackDevTools the local listeners and panels; of
  `SASTEngine.ts` the scanner, which finds no files and matches nothing yet.
- `MITMProxyEngine.ts`, `WASSandboxEngine.ts`, `MonacoLSPIntegration.ts` and
  `BrowserKernel.ts` declare types, tables and manifests and implement nothing; the
  tables are modelled (Manifests, Languages), their types are not.
- hudsucker, hyper, tokio, redb, wasmtime, rcgen, IndexedDB, Monaco and Solid are
  external: the modules state what the code relies on.

Components without a module are listed with the reason in `components`.

## 6. What could follow

1. *BodyCapture*: `read_body` with its cap, `truncated`, edits of Modify and Pause
   against the captured body that is put back.
2. *Persistence* and *Workspace*: the files with crashes between writes, over an
   abstract specification of what is durable once its command returned.
3. Abstract specifications of the kernel's services (a bus that delivers, a store of
   profiles) that MessageBus and Configuration implement, as ExchangeHold is of
   PauseResume and RuleDecisions of RulesEngine.
4. Composition of RulesEngine and PauseResume with ProxyExchange, which takes a
   decision of the rules and the release of a held exchange for one step each, as
   RuleDecisions and ExchangeHold do.
