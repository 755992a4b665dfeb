# HTTPeek: verification project

HTTPeek is an intercepting HTTP proxy with a desktop GUI (Go, Wails, React). A
proxy server accepts connections, decrypts TLS where it may, passes every
exchange through a chain of interceptors and on to its server, tells listeners
of it (the GUI, the mobile hub, the database), and lets the user pause, change,
answer or block it. The window keeps its own copies of all this, and changes
them by events, by answers that come late, and by what the user does meanwhile.
This project models the parts of both where several goroutines, handlers,
failures or restarts meet, checks them with TLC on small instances and proves
the central facts with TLAPS for all instances.

Contents: 1 inventory, 2 plan, 3 modules and their correspondence to the code,
4 runs and bounds, 5 fairness, 6 proofs, 7 disagreements between code and
comments, and behaviour the properties except, 8 what is not modelled.

## 1. Inventory

The proxy and its application (Go):

| Component | State | Operations | Interacts with | Hard behaviour | Correct when |
|---|---|---|---|---|---|
| Breakpoint interceptor (`pkg/interceptor/breakpoint.go`) | rules, maps of paused requests and responses, per pause a channel of capacity 1, a timer, a cleanup goroutine | OnRequest, OnResponse, SetRules, six answers | called by a connection's goroutine; answered from GUI or mobile API; released by the connection's context | answer, second answer, timer and cleanup race under one mutex | answering never hangs; the call returns the accepted answer or a timeout; every pause ends |
| Exchange path (`pkg/proxy/handler.go`, `sse.go`, `ws.go`) | per connection: the request being served, tunnel target, capture flag; the client's socket | read, CONNECT, TLS, chain, forward, stream, upgrade, reply | chain, transport, listeners | settings change during an exchange; failures at every stage; keep-alive; listeners and clients that do not read | captures are whole; nothing captured goes out untold; only a local reply can be lost unnoticed |
| Chain, filter, hosts, block and map rules (`pkg/interceptor/`) | rule lists under mutexes | PreConnect, OnRequest, Execute, OnResponse, SetRules | called on the exchange path | rules replaced while exchanges are in flight | one decision per exchange |
| Proxy server (`pkg/proxy/server.go`) | config, listener, running flag, context, wait group | Start, Stop, Restart, accept loop | called by `app_proxy.go`; parent of all contexts | operations overlap; Stop takes no lock; ports that cannot be bound | one accept loop; the flag tells the truth; calls return |
| Application (`app.go`, `app_proxy.go`) | `a.mu`, current session, system proxy | StartProxy, StopProxy, SetProxyPort, SetSSLEnabled, SetExternalProxy, SetSystemProxy, exit | all of the above | two mutexes, not taken by everybody | the system proxy points at a served port unless set by hand |
| Rule persistence (`internal/services/rules.go`, `app_rules.go`) | `rules.json`, its backup and temporary file | setters, Save, Load, import | interceptors, file system | concurrent saves; crash between system calls; refused calls | files are whole; a restart finds the last save |
| Session storage (`pkg/storage/session_repo.go`, `db.go`) | tables sessions, requests, favorites | save, prune, import, delete, favorite | event listener of `app.go`, GUI, mobile API | one goroutine per saved request prunes; deletion overtakes saves | no orphans; favorites survive; counts are right; ceiling holds |
| HAR (`pkg/storage/har.go`) | none | parse, format | import | IDs are the same on every import | an import is complete or absent |
| Runs of launched programs (`app_launcher.go`) | rows of external_interceptor_runs | launch, stop, list, mark stopped at startup | GUI, adb, frida | rows and programs part | a routed device can be freed |
| SOCKS5 (`pkg/proxy/socks5.go`) | none | handshake, tunnel | exchange path | waits for the client before replying | the handshake ends |
| LAN discovery, HTTP/3 (`discovery.go`, `quic_server.go`) | running, stop channel | Start, Stop, loop | server | stop channel replaced while the loop runs | one loop while running |
| Mobile hub (`mobile_api.go`, bridges) | connections, devices | register, broadcast, disconnect, REST | listeners, GUI | slow or vanished devices; lists reported out of order | devices listed are connected |
| Certificates (`pkg/cert/`) | CA, cache with expiry, remote certificates | GetCertificate, RegisterRemoteCert | TLS on the exchange path | concurrent generation, invalidation, expiry | a valid certificate is returned |
| Throttling, rule identity (`throttle.go`, `rule_ids.go`) | token buckets; none | wait; make unique | chain; setters | bodies larger than the burst; suffixes that collide | slowed, not refused; IDs unique |
| Rewrite, crypto, script, report | rules, script engine | transform | chain | user code | an outcome of OnRequest or OnResponse |
| External interceptors, trust stores, Go toolbox, gRPC, logging | processes, files | commands | operating system | none of its own | not modelled |

The window (`src/frontend/src`). JavaScript runs one handler at a time, so all
of its races are between handlers: an answer comes when the state it was asked
for is gone, or a handler goes on after its `await` with what it was rendered
with.

| Component | State | Operations | Interacts with | Hard behaviour | Correct when |
|---|---|---|---|---|---|
| Traffic store (`store/useProxyStore.ts`, `App.tsx`) | list, map by ID, favorites, limit | events, toggles, removal, import, eviction, cleanup | events of the application; favorites table | an exchange is kept three times and changed in one place | list shows what was told; favorites are stored; cuts keep the newest |
| Traffic page (`request/`) | filters, memoised list, marks, selection, folded domains | search, mark, repeat, delete, switch tab | traffic store | a list memoised on fewer values than it reads | the rows are those the filters select; what is open stays open |
| Breakpoint editor (`App.tsx`, `editor/RequestEditor.tsx`) | the pause shown, fields | execute, abort, close | breakpoint bindings | pauses replace one another; a button makes two calls | an answer is one the user clicked for that pause |
| Rule dialogs (`rules/*Dialog.tsx`) | store's list, draft | open, toggle, edit, save, cancel | setters of the application | store and application may part; drafts share objects | what is shown is in force; Cancel changes nothing |
| Rule form (`rules/QuickRuleDialog.tsx`, `SuggestedRulesCard.tsx`) | snapshot of an exchange, fields | open, templates, effects | traffic store | effects overwrite what was typed | what was typed stays |
| Proxy panel (`desktop/Toolbar.tsx`, `SslWidget.tsx`, `PCCertDialog.tsx`, ...) | status, one question | start, stop, port, SSL, system proxy, CA | application | handlers store stale statuses or none; a question replaces another | it tells whether the proxy runs; nothing unconfirmed happens |
| Adapter (`store/apiAdapter.ts`) | socket, timer, delay, callbacks, promises | call, subscribe, reconnect | bindings or HTTP and WebSocket | timeouts beside late answers; reconnection; remounts | one attempt at a time; one callback; no call twice; promises settle |
| Interceptors page (`interceptors/InterceptorsPage.tsx`) | cards, pills, Java proxy | launch, poll, stop, dismiss | rows of runs | polls, launches and stops overlap | runs come to be shown; a routed device has its pill |
| Android and phones (`AndroidFridaModal.tsx`, `DesktopHome.tsx`, `PhoneConnectDialog.tsx`) | devices, apps, companions | scan, fetch, inject, disconnect | adb, frida, mobile hub | lists of two devices at once | an app is injected where it was clicked |
| Composer and environments (`composer/`, `environment/`) | URL, rows, environments | edit, paste, send | replay calls | URL and rows follow one another one way | what is shown is sent; the answer is its own |
| Toolbox page (`toolbox/Toolbox.tsx`) | inputs and results of seventeen tools, sockets | run, connect, send | Web Crypto, WebSocket | overlapping awaits; sockets that outlive it | the last run is shown; connected means open |
| History page (`left_menus/HistoryPage.tsx`) | sessions, selection | load, select, create, delete | session calls | each answer applies to the list of its click | the list is the table |
| Export and import (`utils/exportHelper.ts`, `common/ExportModal.tsx`) | files | write, read | traffic store | text replacements; fields without a place | what is read back is what was written |
| Inspector (`panel/`) | open tab, decoded messages, text of a frame | select, decode, send | gRPC and frame calls | late answers of another exchange | the messages are of the exchange shown |
| Preferences, accounts, notices | values | set | store | none | only their effect on the list's limit and on the proxy is modelled |
| Tabs that only draw, static texts, generated bindings, unmounted components | none that matters | | | | not modelled |

`PROJECT.json` lists the components with their sources and state of modelling,
and under `hazards` the places where the code is hard to test, with the
properties aimed at each.

## 2. Plan

Done, in this order: `Breakpoint` with `PauseContract`, `Exchange`, `ProxyServer`,
`RulesFile` and `SessionStore`, each with its proofs; the fourteen modules of the
window and their composition in `MCPages` and `MCControls`, both with proofs.

What is left, by what it would add:

1. `MobileHub`: registration, broadcast under the mutex, device lists reported
   by goroutines, under the list of phones that `DeviceDialogs` has.
2. `Discovery` (stop channel re-read by the loop) and its composition with
   `ProxyServer`, whose `services` becomes a refinement of it.
3. `CertCache`: expiry, invalidation with nil, concurrent generation;
   abstract specification: a host always gets a certificate that is valid for it.
4. `Socks5` against a client that waits for replies; `WsRelay` with numbered
   frames, the two directions and the order in which listeners see them.
5. `RuleAlgorithms`: EnsureUniqueIDs, the filter's precedence of whitelist over
   blacklist, first match of hosts rules, against reference definitions.
6. `Migration`: the schema versions with a crash between two statements;
   `RenameSession` in `SessionStore`; the upstream proxy in `ProxyServer`.

Every invariant and every action property of a run is proved (section 6), some under
conditions on the constants that every instance of the runs meets. Next theorem:
`CountsAreRows` with DeleteFavorite, for the sessions it was not used on. That the fair
part of a refinement is kept stays with TLC.

## 3. Modules

### Breakpoint, PauseContract

One action per section of `b.mu` and per blocking operation. A *pause* is a
call of OnRequest or OnResponse for one exchange; its `pc` follows the call:
`Match` (read lock), `Register` (entry in the map), `Announce` (cleanup
goroutine, GUI), then the select of `Receive` and `Expire`, and `GiveUp`, which
deletes the entry after the timer. `Resume` stands for the six answers: the
entry is removed and the verdict sent with the lock held, and what would happen
if the channel were full (`mu = "blocked"`) or closed (`"panicked"`) is modelled
and not assumed away. `CleanerRemove` and `CleanerClose` are the cleanup
goroutine, whose close is outside the lock. `HandlerReturns` and `StopServer`
end contexts. A pattern is the set of pauses it matches. The IDs of exchanges
are fresh UUIDs, so one ID is never paused twice on the same side.

`PauseContract` is what is promised, without map, channel, timer or goroutine:
an open call accepts at most one answer and returns it or a timeout, or is
aborted once its connection is over. `Breakpoint` implements it under the
mapping `phase <- pc`, `answer <- verdict`, `outcome <- result`, `over <- gone`.

### Exchange

One goroutine per connection; `at` is where it is. `Connect` and `Read` run
PreConnect (`Filtered`, then `Mapped`) and take the decision to capture;
`OnRequest`, `Execute`, `Upstream`, `OnResponse`, `Reply` are the stages of
`forwardHTTPRequest`, each with its error path; `Stream` is `sse.go`, `Upgrade`
and `Relay` are `ws.go`. What listeners are told is kept per exchange, in
order, and telling them may take for ever: while `stuck`, a phone on the event stream
does not read what is broadcast to it, and whoever tells waits. `deaf` are the
clients that do not read what is streamed to them. `Report` is the error that is
told before a connection closes. `Execute` answers a blocked or mapped request
("mock"), or loses that answer or a part of it ("lost"), and reads on either way, as
`handler.go:403` does. `SetFilter`, `SetHosts`, `Stop`, `Phone` and `Client` happen
between any two steps. Bodies, headers and codecs are abstracted to the outcomes they
can have (refused, broken off, changed).

### ProxyServer

A caller is a goroutine of the GUI or of the window's end; `pc` names the access
to a shared field it does next. `StartProxy`, `SetProxyPort`, `SetSSLEnabled` and
`StopProxy` take `a.mu`; `SetExternalProxy` and `ExitApp` do not. `SetSystemProxy`
takes nothing, asks no one whether the server runs, and reads the port (`SetSystemProxy`)
before it sets the proxy of the OS (`Point`); `byHand` records that it was the last to
do so. `Lock` to
`Unlock` is `Restart` under `restartMu`; `StopCheck` to `StopWait` is `Stop`,
which takes no lock; `StartCheck` to `StartLoop` is `Start`. The accept loop
reads `s.listener` (`Fetch`) and only then blocks on it (`Accept`,
`AcceptFails`), and a connection reads `s.ctx` later still (`Begin`). Sockets
are numbered, so an old listener and a new one on the same port are told apart.
A *scene* is what may happen in one behaviour: which operations are called, and
whether another program may hold the port.

### RulesFile

Two kinds of rules stand for the eleven fields of `SavedRulesConfig`: block
rules, a list that `Apply` sets when it is not empty, and the host filter, which
it always sets. The setters change memory and then save; `SetFilter` is those
that do not. `Open` and `Write` are the two halves of `os.WriteFile`, `Stat`,
`BackUp`, `Replace` and `Restore` the rest of `atomicWriteRulesFile`. A rename
moves a file under the goroutines that have it open, as POSIX has it, which is
how two savers can tear the file in place. `faulty` says whether the file system may
refuse calls in this behaviour. `Crash` ends the process between any
two calls; `Startup` is `Load`.

### SessionStore

A transaction or a single statement is one step, what a function does in several
statements is several. `Capture`, `SaveRequest` and `SaveResponse` are the event
listener; `PruneCount`, `PruneDelete`, `PruneRecount` and `PruneUpdate` are
`EnforceSessionCeiling`, in a goroutine per saved request; `Begin` to `Rollback`
are `CreateSession` and the HAR import. A row has its session, its favorite flag
and whether it has a response; the numbers of exchanges are their start times.
A session's name is the suffix of one common name, the hardest case.

The modules share boundaries rather than variables: the end of a context in
`Breakpoint` and `Exchange` is `StopCancel` of `ProxyServer`; the events of
`Exchange` drive the listener of `SessionStore` (a request is told before its
response, `CaptureIsWhole`, which is why `SaveResponse` follows `SaveRequest`);
the fact that OnResponse is called only after a successful OnRequest, which
`Breakpoint` assumes in `Callable`, is the order of the stages of `Exchange`.

### The window

An action is a handler or an effect run to its end, together with the renders
and effects it causes, because nothing else runs before them. A call of the
application is an action for the click, one for what it does, and one for what
the handler does with the answer; calls are members of a set, so they overlap
and come back in any order. A call that may fail has an action for that too.
History variables are marked as such where they are declared; the program does
not have them.

**TrafficStore.** An *entry* is what a copy of an exchange shows: response,
frames, heart. `AddRequest`, `UpdateResponse` and `AddFrame` are the handlers of
the three events (they take the object from `map`, not from the list);
`ToggleFavorite` changes list, map and favorites and makes the call that
`ToggleStored` executes; `FavoritesRead` and `SetFavorites` are the load at
startup; `Remove`, `Clear`, `Import`, `SetMaxRequests` and `Cleanup` the rest.
Exchanges are numbered by arrival. A file holds any of them, in copies as old as its
export: a JSON file keeps their IDs, and `setRequests` takes it as it is, so it may
list captured exchanges without their last events, and may list another copy of a
favorite than the map takes. `outdated` are the listed exchanges this has happened to.

**TrafficView.** `shown` is what useMemo keeps. Each action that changes one of
its dependencies makes it anew; clearing the filter by process, which is not
one, leaves it (`stale`). `seen` and `collapsed` belong to the list of domains
and are lost when another tab is opened.

**BreakpointDesk.** `ShowPause` is the event handler of `App.tsx`, which does
not remount the editor, so `fields` may be of an older pause; `EditHeaders` edits
them. `Execute` and `Abort` make two calls each (the handler resumes or
aborts, and closing aborts), `Close` one, and `Arrive` is the goroutine of
one: the binding of `app_proxy.go` with the decoding of edited headers, against
the interceptor. That one is `PauseContract`, which `Breakpoint` implements.

**RuleDialogs.** A dialog is a record of what sets it apart from the others
(`shares`, `template`, `initial`, `keepsOne`, `reads`, `calls`, `stores`, `lists`,
`kept`); each of the records cites its file. Saving is a call (`Arrived`,
`Failed`) and then the store (`Saved`).

**RuleForm.** A field holds where its value comes from: the exchange, a
suggestion, a template, the user. `OpenForm` is the effect that fills the form;
templates and chips write several fields.

**ProxyPanel.** A handler is a *flow*: the calls it has still to make, the
status it was rendered with, and the fields it will set. The controls of other pages
that start, stop or restart the server and store nothing are *quiet* flows: launches and
devices (`startProxyForIsolatedCapture`), the Java switch, the external proxy, and the
pill of the toolbar (`handleStopActiveInterceptor`). One question at a time
is asked; `confirmed` and `performed` record answers and deeds by question.

**Answers.** One variable that the next four modules share: whether in this behaviour
the application answers every call, or may leave some without an answer for ever, as
the code allows. It says what the liveness properties may count on, and no
action asks for it.

**ApiAdapter.** `platform` is chosen at startup; bindings and the runtime's
events in the desktop program, HTTP and one WebSocket in a browser. `Backoff` is
the delay before the next attempt; `listeners` the callbacks registered by each
mount, `Unmount` removes them as the cleanup of `App.tsx` does, by functions that
are not the ones registered. `promise`, `request` and `executed` are what the
caller, the network and the application know of a call.

**InterceptorsPanel.** Rows of `external_interceptor_runs`, routed devices, cards
and pills, each launch and stop in the steps of `app_launcher.go`, any of which may
fail; polls read and merge in two steps. A stop is made by the pill or by the cross of a
Frida card (`StopCard`), which removes card and pill whether its call came back or failed; the
crosses of other cards remove them and stop nothing (`RemoveCard`). `Stopped` has what
`StopADBInterception` and `StopFrida` make of the device: freed, left as it is
because a command of adb failed, or left because the run was a script of the host. The
page is mounted and left (`OpenPage`, `LeavePage`): its cards go, its calls go on. The
global Java proxy is beside them.

**DeviceDialogs.** The Android dialog with its scan, the lists of apps and the
injections; and the list of companions, from an event, a poll and the handler
that disconnects one.

**Composer.** A URL is whether it parses and its parameters; a parameter is
plain, a template or a template that was percent-encoded. Rows make the URL,
never the other way round except when it opens. `Send`, its answer and closing
overlap. Environments and the one that is active are beside it.

**Toolbox.** A tool is a record of the inputs that are typed, the results a
button makes and the input that can make its drawing throw, after which
`ErrorBoundary` shows. Results are the number of the edit they are of.

**HistoryDesk.** A call carries the list and the selection of the render it was
clicked in; `DeletionCame` and `ListCame` use them, not the current ones.

**Transfer.** `Written` and `Parse` are the two directions of each format, by
what a format has room for; mending by regular expression is on the bodies, as
in the code.

**Inspector.** The panel stays mounted; `Select` runs the effects of the tabs
that are open. `isMounted` of a decoding is the flag that its cleanup clears.

### Composites

`MCPages` and `MCControls` put the window's modules side by side. They meet
in the traffic store and in calls of the application, and each module has what it
gets from there as inputs of its own. So a behaviour looks at one scene,
and the variables of the others keep their initial values; the run covers all
scenes without the product of their states. In `StoreScenes` the two scenes of
`SessionStore` are kept apart by the constraint `OneScene`: the third exchange is
captured only where captures and their pruning are all that has happened. The
properties of `MCPages` and `MCControls` are conjunctions of those of the
modules, by theme:

- `ListsAreTrue`: `MapCoversList`, `FavoritesAreStored`, `ListMatchesFilters`,
  `CutsKeepNewest`, `OpenedStaysOpen`.
- `ComposerIsTrue`: `SendsWhatIsShown`, `ShowsOwnAnswers`.
- `PagesAreTrue`: `ToolboxIsTrue`, `FormIsKept`, `HistoryIsTrue`, `TransferIsTrue`,
  `DecodedIsShown`.
- `SettingsAreTrue`: `StoreMatchesApplication`, `PanelTellsRunning`,
  `ConfirmedFirst`, `CancelChangesNothing`.
- `UserIsInControl`: `OnlyTheUserAnswers`, `RoutedHasPill`, `InjectsWhereClicked`.
- `ShownComesTrue`: `EveryRunIsShown`, `JavaIsShown`, `PhonesComeTrue`, `Reconnects`.
- `NothingStaysBusy`: `ButtonsComeBack`, `PromisesSettle`, `AnsweredPauseEnds`.
- `AdapterIsExact`: `OneAttemptAtATime`, `HandledOnce`, `ExecutedAtMostOnce`.

`Subsequences` has what `filter()` keeps of an array, for `Composer`,
`InterceptorsPanel` and `Transfer`. It says by counting what `SelectSeq` says by
recursion, about which TLAPS can prove nothing; `SubsequenceProofs` has its lemmas (length,
order, what is in it, a filter after an append).

## 4. Runs and bounds

| Run | Instance | Distinct states | Shows |
|---|---|---|---|
| `breakpoint` | two exchanges of one connection, pauses on both sides, rules on or off | 51,000 | safety of the interceptor, its refinement of the contract, every pause and cleanup ends |
| `exchange` | two exchanges, two hosts, three filters, two mappings, one streamed event | 140,000 | capture, order, answers, forwarding ends unless somebody never reads |
| `server` | two callers, three calls, two ports; scenes: the four operations under `a.mu` with a port that may be taken, restarts under `restartMu` likewise, StopProxy beside an exit | 2.9 million | one loop, truthful flag |
| `server_live` | the same with two calls and the system proxy always wanted; and SetSystemProxy beside the four operations, with ports that can be bound | 304,000 | calls return, contexts, system proxy |
| `server_stop_hangs` | StopProxy beside SetExternalProxy | | violation, section 7 |
| `rules_file` | one saver, two crashes, two rules, one host, with and without refusals | 327,000 | files are whole, the last save is found, setters save |
| `rules_torn` | two savers | | violation, section 7 |
| `store` | scene "mixed": two captures, an import of one, one user, a crash, two sessions; scene "rush": three captures alone; ceiling 1 | 760,000 | orphans, favorites, the ceiling after a rush |
| `store_counts` | two users, three sessions, ceiling not reached | 2.1 million | counts |
| `store_over_prune` | three captures, ceiling 1 | | violation, section 7 |
| `pages` | ten scenes: traffic, page, composer, toolbox, history, files, inspector, rule dialogs, rule form, proxy panel | 650,000 | lists, settings, composer and pages tell the truth |
| `controls` | seven scenes: breakpoint editor, adapter, runs, polls, Java proxy, Android, phones | 127,000 | the user decides, what is shown comes true, nothing stays busy |

Why the bounds suffice. Pauses interact only through `mu` and their connection,
so two exchanges on one connection, each with two pauses, show every pair of
them. An exchange meets another only by following it on its connection. Two
callers are needed for a race, and a third call for the one that finds what the
race has left. A save is cyclic: after the second one every name of the
directory is in use, and the second crash falls into a state that the first has
left. Three captures with ceiling 1 give two pruners an excess of two; a
ceiling of 1 meets the same comparisons as 50000. `MaxFrames`, `MaxCalls`,
`MaxConns`, `MaxCrashes` and `MaxSessions` are bounds of the models and have no
counterpart in the code.

In the window an exchange from an earlier session and two that are captured fill
a list with the limits 1 and 2 and a threshold of 1, so eviction, cleanup and a
lowered limit all happen, before and after responses, frames and toggles. A race
of handlers needs two of them and one more click to see what is left: two saves
and a change by another path (`MaxSaves`, `MaxOthers`), two flows of the panel,
four calls of the history page over three sessions (two recorded, one created),
two digests and two sockets of the toolbox, two openings of the composer. The files
an import reads hold old exchanges, captured ones, or both. The
seven dialogs of `MCDialogs` have every combination of traits that occurs. The
adapter breaks twice and is mounted twice; two serials and two phones make one
answer another's. `MaxRuns`, `MaxPolls`, `MaxFlips`, `MaxPlugs`, `MaxPicks`, `MaxFetches`,
`MaxClicks`, `MaxFlows`, `MaxRows`, `MaxEnvs`, `MaxSends`, `MaxEdits`, `MaxTyped`,
`MaxListed`, `MaxFields`, `MaxTraffic`, `MaxFiles`, `MaxEffects`, `MaxLines`,
`MaxLinesSent`, `MaxBreaks` and `MaxMounts` bound what a user or the network does;
the code has none of them.

Some instances are narrow on purpose, because under wider conditions the code
breaks the property: `rules_file` has one saver; the scenes of `server` and
`server_live` keep SetExternalProxy and the exit apart from the operations under
`a.mu`; the contexts and the system proxy are claimed only while ports can be
bound, and the system proxy not when it was switched by hand (`byHand`); `store_counts` leaves out DeleteFavorite and pruning, the scene "rush"
crashes and taking favorites off. In the window's modules this is said in the
properties instead, by history variables: `stale`, `loose`, `outdated`, `unsure`, `apart`,
`entangled`, `overtaken`, `mixed`, `abandoned` and `spoiled` are set exactly by the
steps after which the code no longer keeps the property, and the properties
except them. Section 7 says what happens then.

Deadlock is checked in `RulesFile`'s runs, where some operation is always
possible. It is not in the others: connections may be closed, all pauses
answered, calls or rows used up, a user may stop clicking, and then a behaviour
of the model stops.

## 5. Fairness

`Breakpoint`: weak fairness of every step of a goroutine that is not blocked, and
of the timer, which `time.After` starts on entry to the select. None of the
user's answers, of SetRules, or of the end of a connection. `PausesEnd` says under
it that every matched pause ends, that its cleanup goroutine does, and that the
fair contract of `PauseContract` is implemented.
`Exchange`: weak fairness of OnRequest and of the reply (a breakpoint times out
after five minutes, a script is interrupted after five seconds, the write of a reply has
a deadline). The stages that tell the listeners get it only while no phone holds up
the broadcast, which is written without a deadline under `m.mu` (`mobile_api.go:235`);
the transport and the stream besides only once the context is cancelled, because
neither has a deadline, and the stream only if its client reads, because cancelling
does not close the client's connection (`sse.go:28`). Phones and clients owe nothing:
`ForwardingEnds` says which part of it needs `<>[] ~ stuck`, and which that the client
is not deaf for good.
`ProxyServer`: weak fairness of every started call and every accept loop; strong
fairness of `Lock`, since Go's mutex hands itself to a waiter that has starved.
Nobody is obliged to call or to connect. `FairSpec` numbers the loops up to
`MaxCalls + 1`, more than a behaviour can start.
`MCControls`: weak fairness, by scene, of what the event loop, a timer or a channel
will do: intervals fire and make the next poll, what a call brings back is shown, the socket
opens or closes and its timer fires, a call of a browser times out after its thirty
seconds, a breakpoint's select takes the message in its channel. What the application
has to do for a call is fair only where `answered`: bindings have no
deadline, and neither have the commands of adb (`android_adb.go:73`, `:261`), the lock of
the phones' list (`mobile_api.go:152`, held by a broadcast) or a StopProxy that waits for
its accept loop (`server_stop_hangs`). So `ShownComesTrue` and `NothingStaysBusy`
say `answered =>` in every part that needs it, and say without it what does not:
promises settle in a browser, and the adapter reconnects. Runs and the Java
proxy come to be shown only to a user who stays on the page (`<>[]page`). Nothing is
assumed of a click, of a phone, or of a server that is not reachable. Where some calls
are never answered, of the liveness properties only the adapter's promise anything, so
only its scene and the one of the runs, which is looked at for safety, have behaviours
of that kind.
`MCPages`: none, its properties are safety.

## 6. Proofs

`BreakpointProofs`, from `ConnAssumption` (every exchange has a connection) and
`RuleAssumption` (rules match pauses) alone, for any exchanges and connections.
The inductive invariant is `Inv`: types, `mu = "free"`, and for every pause
`PauseInv`, which says that a held pause is in one of three situations: listed,
unanswered, channel open and empty; answered and unlisted, with the answer in
the channel; or taken off the list by its cleanup goroutine. `ResumeNeverWedges`
is not inductive by itself: that a send finds an open, empty channel follows
from the entry being listed, which is what `PauseInv` records. The safety
invariants and the action property follow from `Inv`, and `Refinement` shows that
every step maps to a step of `PauseContract` or a stutter. That an answer in the
channel is never stranded (`VerdictInTransit`) is proved and in no run.

`ExchangeProofs`, from `ExchangeAssumption` (there is a host; `NoId` is no
exchange), for any connections, hosts and exchanges, with phones and clients that read
or do not. Neither `CaptureIsWhole` nor
`AnsweredOnce` is inductive: what was told of an exchange, and whether it was
answered or sent, decides nothing about the next step until it is tied to the
stage its connection has reached. `ExchangeInv` ties them: `StageInv` says what a stage
knows of the exchange it serves (told or not, sent or not, answered or not), and
`EventInv` what was told of every exchange, served or past. A step touches one
connection and one exchange (lemma `Elsewhere`), so a case for each action suffices.
The settings, which change between any two steps, are in no part of the
invariant: the decision to capture is taken once and kept.

`ProxyServerProofs`, from `ServerAssumption` (`Nobody` is no caller; ports are
positive). `TypeCorrect` holds for all callers and scenes. The others hold under
`KeptApart`, which all scenes of `server` and `server_live` meet: the operations called
are those behind `a.mu`, or SetExternalProxy alone, whose restarts hold `restartMu`,
either with SetSystemProxy at any moment beside them, or they are
none but StopProxy and the exit, which hold no mutex in common. Without it they are
false: mixing the groups gives `server_stop_hangs` and the two accept loops of section
7, so `KeptApart` says where the code's two mutexes are enough. For the first two groups
the invariant is `ServerInv`, in two parts:
`HolderInv`, who holds which mutex, from which one caller at a time is between
`stopCheck` and `system` (lemma `OneWorker`), and `StageInv`, what that worker knows
of flag, listener, sockets, loops and services; when nobody works the server is
`Up` or `Down`. For the third it is `StoppingInv`, since any number of callers may be in
Stop at once, each having found the flag set: the flag, once down, stays down; then
the server is `Down` or somebody is still closing it (`Closers`); and whoever is in
Stop finds the listener open with its loop, or closed already (`Standing`), so that
closing it again harms nobody. `OneAcceptLoop` and `FlagIsTruth` follow from either,
for any number of callers, with ports that fail to bind. That Start finds
every port free, and so fails only when another program holds the port, is a
consequence of `ServerInv`. `ConnectionsFollow` adds `ContextInv` (after a stop the
current context is cancelled, or nothing was begun under it); `SystemIsServed` adds
`SystemInv`, for a StartProxy that is always asked for the system proxy
(`WithSystem`), as `App.Start`, the window's button, asks; the launcher's start is in
section 7. `SystemInv` speaks of a proxy that is `Pointed`, that is set and not by
hand: SetSystemProxy may take that state away at any step and never brings it about,
so the operations that move the proxy with the port are not misled by it.

`RulesFileProofs`, from `RulesAssumption`. `TypeCorrect` holds for any number of
savers. `NoTornFile`, `LoadIsCurrent` and `RestIsSaved` assume one saver (`Alone`),
and `LoadFindsLastSave` and `AtRestSaved` speak of a file system that refuses
nothing: without these they are false. The inductive invariant `SaveInv` ties the
place a save has reached to what the three names hold: until it writes, only the
temporary file may be torn; after that the temporary file holds the snapshot until
it is renamed. `LoadIsCurrent` needs besides that between rotation and rename the
backup holds the last save, and `RestIsSaved` (`RestInv`) that a setter which saves
has in its snapshot the block rules in force, while one that does nothing has left
them as they were last saved.

`SessionStoreProofs`, from `StoreAssumption` (start times are numbers, no two alike,
and there are finitely many, which `ORDER BY start_time` and `COUNT` need), for any
ceiling, users and operations. `StoreInv` is types, `NoOrphans` and `UserInv`: an
import knows the session it has made, so that its rollback deletes no other.
`FavoritesAreKept` rests on `FavInv` besides. A row that is pruned or deleted
without its flag must leave a copy that is complete if the row was, and there are
two reasons for it: a captured exchange is inserted once, so in the table it has a
copy only as a favorite; an imported entry can be inserted again over an old copy,
but always with its response.

Three theorems are about counting, and each names the conditions without which the
code breaks it (section 7). `CountsAreTrue`: no DeleteFavorite, and fewer exchanges
than the ceiling, so that a pruner counts and does nothing (`CountInv`).
`CeilingHolds`: no heart is taken off, no import is above the ceiling, and the
process does not end; then every session is `Covered`, that is within the ceiling,
or there is a pruner that has yet to count, or one whose count is enough to bring it
within. This is the argument why overlapping pruners delete too much but never too
little: the last one to be started counts after the last row was inserted, and what
deletes beside it only makes its count larger than it needs to be. Deletion of the
oldest n leaves all but n (lemma `OldestDeleted`). `RushesEndWithinCeiling` has no
condition on crashes and hearts before the rush; that the rush is alone is its
premise `[]OneScene`, the constraint of the run `store` put as a temporal formula.

`ControlsProofs` has the modules of `MCControls`, each alone and then together.

- Breakpoint editor, from `DeskAssumption` (0, the model's null, is no pause).
  `AnswersAreTheUsers` needs `UserInv`: a call under way was made by a button
  clicked on the pause it names, which is what remains true when the editor already
  shows another. `DeskRefinesContract` maps each step to a step of `PauseContract`
  or a stutter: the second of two calls finds its pause answered or gone. Together
  with `Refinement` of `BreakpointProofs` this is the argument that the window's
  doubled calls are harmless to the interceptor: both modules keep one contract.
- Adapter, from `AdapterAssumption` (the two platforms; finitely many calls), for any
  calls, topics and numbers of breaks and mounts. `AdapterInv` is types, `LinkInv`
  (a set timer means no socket; the delay is that of the next close), `RegistryInv`
  (what is registered after each mount) and `CallInv` (a request is made with its
  promise and executed when it is answered). `AdapterIsExact` alone is not
  inductive: that no second socket is opened follows from the timer's being set only
  while there is none, and the doubling of the delay from counting failures.
- Interceptors page, from `RunsAssumption` and `TargetsAssumption` (what can be
  launched is one of the seven kinds the module describes; a launch of another shape
  is no state of the code). `RoutedDevicesHavePills` rests on `PanelInv`. A pill
  that a stop is about to remove is no way to free a device, so a device must be
  `Supported`: by a pill no finished stop is of, or by a launch that is done. And
  because a stop removes pills by the number of their run, `NumberedRuns` says that
  no two runs have one number and that a launch that is done has a run no pill, no
  stop and no card with a cross that stops is of. A stop that does not free its device
  gives it up (`abandoned`) in the step in which that is decided.
- Android and phones, from `DeviceAssumption`. `ClicksReachTheirDevice`, an action
  property, rests on `FetchInv`: as long as nothing was `mixed`, one list at most is
  fetched, and the list that is shown is of the selected device or is being
  replaced.
- `ControlsTypeCorrect`, `TheUserIsInControl` and `ScenesKeepContracts` are about
  `MCControls`. Lemma `EachAsAlone`: in every scene each module behaves as its own
  specification says, because the steps of the others leave its variables alone. So
  what was proved of the parts holds of the composite, for every set of scenes.

`PagesProofs` has the modules of `MCPages` in the same way, with lemma
`EachPageAsAlone` and the theorems `PagesTypeCorrect`, `ListShowsTheStore`,
`ListsTellTheTruth`, `SettingsTellTheTruth`, `ComposerTellsTheTruth` and
`PagesShowTheTruth`, which are the six properties of the run. Of the parts:

- Traffic store, from `TrafficAssumption` (positive numbers identify exchanges, those
  of earlier runs and of foreign files are older than what is captured, limits are
  numbers), for any exchanges, limits, threshold and files, which may hold captured
  exchanges too. `ListShowsAll` and `NoEventIsLost` rest on
  `CopiesInv`: what is listed is in the map; unless it is `outdated` the two copies show
  the same, and of a captured exchange what was told; and no copy anywhere, among the
  favorites or in the answer of startup, is ahead of what was told (`NotAhead`). The last
  part is needed because an import takes the favorites' copies into the map. Of a captured
  exchange outside the list nothing else is said: the copy that was read from the table,
  or that Clear has left in the map, may be out of date, and only a file brings it
  back to the list. `FavoritesReachTable` rests on `FavoritesInv`: for an exchange
  that is not `loose`, window and table agree but for the one call that will make
  them. `CutsDropOldest` needs `NewestCuts`, that the newest n of a set are those
  with fewer than n above them.
- Traffic page, from `ViewAssumption` (methods are not the empty text, which means
  all). `ListShowsWhatFiltersSay` rests on `ViewInv`, whose part `Grouped` says that
  the list of domains has seen every domain of the rows; `OpenedStays` needs it,
  because a domain is folded when it is seen for the first time.
- Composer, from `ComposerAssumption` (the two environments a new store has are within
  the bound). `ComposerInv`: unless the URL is `adrift`, its parameters and the
  shown rows are the same but for the encoding of templates; and a send under way
  belongs to an opening that has no other. Rows are made of parameters and
  parameters of rows, and that the two are inverse to each other is in `UrlOfRows`
  and `RowsOfUrl`.
- Rule dialogs, from `DialogAssumption` (the scenes are among the eleven dialogs;
  rules are finitely many). `StoreMatches` rests on `Agreement`: a save that has
  been alone is the only one and has put its list in force, and while none has
  reached the application, the store's list is in force. `CancelIsHarmless` is an
  action property.
- Rule form, from `RuleFormAssumption`: `FormKeepsWhatWasTyped` is inductive with the
  types.
- Proxy panel, from `PanelAssumption`. `PanelTells` says nothing while a handler is
  under way, so `Lonely` says what a handler that nothing overlapped will still
  store (`Foretells`): what the server is by then; and of a quiet one that it store nothing, so
  what is shown now must be right (`Silent`). `OnlyWhenConfirmed` holds because
  the one `resolver` is of the question that is shown, the others are lost with
  theirs.
- History page, from `HistoryAssumption`. An answer applies to the list of its click,
  so `HistoryIsTrue` says nothing while a call is under way, and a proof needs what
  will become of it: `Promises`, by the verb of the one call a patient user has made
  (`Patient`); and `Away`, that a page that was left keeps no call of its own.
- Export and import, from `TransferAssumption`. `ExportsComeBack` needs only that a
  file is what was written of some list (`WrittenFiles`); the rest is one exchange
  at a time (`BackIs`, `BackAgain`), for every exchange there can be.
- Inspector, from `InspectorAssumption`. `DecodedIsOfTheShown` needs that one run at
  most is not cancelled (`OneRun`) and what that run has done and will do
  (`Foreseen`).
- Toolbox, from `ToolboxAssumption` (a pattern is found at finitely many places of its
  text). `ToolsShowWhatTheyDid` rests on `Awaiting` (a result is of the last click,
  or on its way with that click) and `OneSocket` (all sockets but the one of the
  page are closed, and the button says what that one is). That the loop over the
  matches of an expression ends (`LoopEnds`) is proved for every text and pattern: a
  round leaves fewer places to find (`RoundAdvances`), by a least counterexample.

Only model-checked: all liveness (`PausesEnd`, `ForwardingEnds`, `CallsReturn`,
`ShownComesTrue`, `NothingStaysBusy`; TLAPS has no ENABLED and so no fairness). Every
invariant and action property of a run that passes is a theorem, and the instance the
run checks meets the conditions the theorem has.

## 7. Disagreements between code and comments

Three are runs that end in a violation, and `PROJECT.json` quotes the lines:

- `server_stop_hangs`: Stop takes no lock. A restart by SetExternalProxy between
  its Close and its Wait gives the old accept loop a new listener, and StopProxy
  waits for it for ever, holding `a.mu`.
- `rules_torn`: two savers share one temporary file without a lock, and
  `rules.json` can be renamed from it while the other has just truncated it.
- `store_over_prune`: count and delete are two statements in a goroutine per
  saved request, and two pruners delete the same excess twice.

The models allow these too, and so does the code they translate; they have no
run of their own. In the Go program:

- An answer accepted between the timer and the deletion of the entry is dropped
  (`breakpoint.go:193`): `VerdictRespected` allows "timeout" after any answer.
- The writes of a local answer are not looked at and the loop reads on
  (`handler.go:403`): where the writes failed or were cut by their deadline and the
  client still sends, the reply to the next request is taken for what is missing of
  this one ("lost" in `OnlyLocalRepliesAreLost`).
- A phone that does not read holds `m.mu` while it is written to
  (`mobile_api.go:239`), and with it every exchange that tells its listeners; a client
  that does not read its stream keeps the goroutine, and the stop of the server
  does not release it (`sse.go:28`). Both are conditions of `ForwardingEnds`.
- A WebSocket upgrade asks neither filter nor hosts rules (`ws.go:60`), the
  events of a stream are told whatever the filter says (`sse.go`), and on a plain
  connection the request goes to the host of its URL, not to the one the hosts
  rules give (`handler.go:421`).
- SetExternalProxy beside SetProxyPort can put the old port back
  (`app_proxy.go:274`) or leave two accept loops (`app_proxy.go:203`); an exit
  beside StartProxy likewise.
- A restart that cannot bind leaves the system proxy at a dead port
  (`app_proxy.go:87`), and a connection accepted before it can begin under a
  context that the next restart replaces without cancelling.
- The launcher checks IsRunning before `a.mu` and starts without the system proxy
  (`app_launcher.go:31`). After a Start in between, this restarts the server with
  EnableSystemProxy off while the system proxy is set, and a later SetProxyPort
  leaves it at the old port (`app_proxy.go:209`).
- SetSystemProxy asks neither for a running server nor for `a.mu`
  (`app_proxy.go:246`). The preferences call it for a stopped one
  (`PreferenceDialog.tsx:154`), which points the OS at a port nobody serves; beside
  StopProxy or SetProxyPort it may do so after these have turned or moved the system proxy
  (`byHand`).
- SetProxyPort starts a server that was stopped (`app_proxy.go:188`), where the
  comment at `:162` says "if currently running"; SetSSLEnabled on one returns
  without error and changes nothing (`app_proxy.go:235`).
- Of two savers the one with the older rules may write last (`rules.go:63`); when
  rotation and rename both fail, an older backup replaces `rules.json`
  (`rules.go:110`); two AddBlockRule calls at once lose a rule
  (`app_rules.go:180`); an import replaces the lists it brings (`rules.go:182`).
- A recount may be written after another pruner's deletion
  (`session_repo.go:242`); DeleteFavorite leaves the session's count
  (`session_repo.go:500`); taking a favorite off, or a crash before the pruner,
  leaves a session above the ceiling; two sessions created at once get one name
  (`session_repo.go:53`); a HAR file cannot be imported twice
  (`session_repo.go:290`).
- Not in a model: for ports 443 and 8443 the SOCKS5 entry awaits three bytes of
  the client before it sends the reply the client waits for (`socks5.go:107`).

In the window; the history variable in brackets is the one by which the
property excepts the behaviour:

- Breakpoint editor: "Execute" resumes and then closes, and closing aborts
  (`App.tsx:306`, `RequestEditor.tsx:158`); of the two goroutines the later one is
  ignored, so a pause that was to go on ("forward/abort with single clicks",
  `src/README.md:33`) may be aborted. Edited headers never decode in `app_proxy.go:309`, and the exchange goes
  on as it was; edited without headers it loses its body. Parameters that are
  edited never reach the URL. A pause that was replaced in the editor cannot be
  answered any more and waits for its timer.
- Traffic store: the cleanup makes the map anew without the favorites, and a
  response that comes later takes the heart away; a lowered limit cuts nothing
  before the next request; a threshold labelled in megabytes is compared with a
  number of exchanges (`App.tsx:180`). A JSON file keeps the IDs of what it holds
  (`exportHelper.ts:413`), so a file that was exported from this session and is imported
  into it lists captured exchanges without the responses and frames they have
  got since, and of a favorite another copy than the map takes
  (`useProxyStore.ts:368`), which the next event brings into the list (`outdated`). Two toggles of one heart are two goroutines
  and may be stored in the other order, and an exchange that was imported has no
  row to be favored in (`loose`, `Foreign`). "Remove from favorites" of an exchange
  whose heart was lost adds it (`FavoritesPage.tsx:132`).
- Traffic page: the chip of a process can be cleared and the list stays filtered
  until something else changes (`RequestList.tsx:193`; `stale`). Chips overwrite the
  method and the status of the dialog and stay lit; two chips of methods filter
  nothing. Marks survive eviction, clearing and hiding, and "delete selected"
  deletes marked rows that are hidden; marks made during a repeat are gone at its end.
- Rule dialogs: the lists of the store are never loaded from the application, so
  the first save after a restart replaces the rules that were persisted; AddBlockRule
  reaches the application only (`apart`). A toggle changes the store though it is
  cancelled, in the dialogs with `shares`. The filter dialog's shape is unknown to
  the Go type, which clears the lists. "Save & Activate" of the rule form saves
  nothing, because nobody passes `onSaveRule` (`QuickRuleDialog.tsx:437`).
- Rule form: a suggestion's action, target and delay are ignored; "Mock 200"
  keeps the captured status; the body is replaced by a sample when its type is
  GraphQL; no more than fifteen headers are taken.
- Proxy panel: a handler stores the status it was rendered with, and of two the
  later wins; a restart that failed leaves the window showing a running server;
  mounting the SSL widget may undo what the automatic start has shown. The pill of the
  toolbar stops the proxy and does not say so (`Toolbar.tsx:67`), and a launch, the Java
  switch, the external proxy and a new port start a stopped one likewise
  (`app_launcher.go:29`): the panel shows the opposite until it reads the status again
  (all of these are `unsure`).
  Stopping leaves the system proxy shown as on. A question that is replaced never
  settles its promise; Escape closes every open dialog. Two buttons of the CA call
  bindings that do not exist.
- Adapter: the cleanup removes other functions than the ones registered
  (`App.tsx:257`), harmless in the desktop program, where removal is by topic; a
  quiet call resolves though its request failed; a WebSocket whose constructor throws
  is not tried again.
- Interceptors page: polls add cards and never remove one; a polled card has the
  type "app", so its cross stops no Frida; the cross of a card for ADB leaves the device
  routed, as do the cross of a Frida card whose stop failed, which is swallowed
  (`InterceptorsPage.tsx:442`), a spawn that failed, the stop of a Frida run of the
  host (`app_launcher.go:477`), and any stop in which adb failed, whose error is ignored
  (all `abandoned`); a launch and a poll may make two cards of one run. Pills of the other types stop the whole
  proxy (`Toolbar.tsx:74`). At startup every row is marked stopped (`app.go:102`),
  routed or not.
- Android and phones: lists of apps of two devices overlap, and the older answer
  may be shown under the newer selection (`AndroidFridaModal.tsx:106`; `mixed`); an
  old launch closes a dialog that was opened since. Disconnecting a phone puts back
  the list that was rendered with the button.
- Composer: a URL that starts with a template does not parse, and edits of its rows
  never reach it; a URL made from rows percent-encodes templates, which are then
  not filled in; after a paste older rows overwrite the pasted query.
- Toolbox: drawing `btoa` of text outside Latin-1 throws and the error boundary
  replaces the whole window (`Toolbox.tsx:1566`); hashes asked for while others are
  under way mix; a second Connect orphans a socket, and the close of an old socket
  shows a new one as disconnected (`Toolbox.tsx:490`; both `overtaken`); "Copy
  Decoded" decodes the URL's input for every encoder (`:1595`); the certificate's
  hash reads a field Go does not send (`:413`); RSA keys are made of the time of day
  (`:1389`).
- History page: two deletions, or one beside a creation, bring a session back or
  hide one until the page is opened anew (`HistoryPage.tsx:100`; `entangled`);
  importing passes no file (`:80`), and the exported HAR is saved nowhere (`:90`).
- Export and import: the mending of commas reaches into bodies
  (`exportHelper.ts:212`); HAR makes a pending exchange one with status 200 and has
  no place for ports, hearts, identifiers and frames; JSON loses binary bodies; what was captured
  while a file was read is replaced.
- Inspector: an empty body, or one that does not decode, leaves the messages of
  the exchange before on the gRPC tab (`GrpcTab.tsx:85`, `:93`; `spoiled`); a text
  typed for one WebSocket can be sent to another, and what is typed during a
  send is cleared.

## 8. Not modelled

The components of section 1 without a module, planned or outside; the reasons are
in `PROJECT.json`. Of the Go program these have hazards that no property covers:

- the mobile hub: registration, its devices and their connections (that a device which
  does not read holds up the exchanges is `stuck` of `Exchange`); lists are reported by
  goroutines (`mobile_api.go:187`);
- the order of WebSocket frames at the listeners, each told in a goroutine of its
  own (`ws.go:297`); the IDs of responses that rules make (`mock.go:193`);
- the upstream proxy, which a handler takes when it is made (`handler.go:51`), and
  which SetExternalProxy writes with the rest of a configuration read before the
  lock (`app_proxy.go:274`);
- the discovery loop, which re-reads its stop channel (`discovery.go:92`); the
  certificate cache (`cache.go:45`); token buckets (`throttle.go:259`);
- the migration that is not one transaction with the version it sets
  (`db.go:160`); names of sessions (`session_repo.go:97`).

Inside the modelled components of Go: RenameSession (the same look-up and write
as CreateSession), the byte counter `file_size`, paging, schema versions and
migrations; a machine that loses power, where what is kept depends on the file
system (the code does not sync); a database that stays locked beyond its
ten-second timeout; the limit on active connections; the order of interceptors in
the chain and the matching of patterns; the first StartProxy without a server
object, which startup makes impossible.

Of the window: the text search and the parsing of curl commands, formatting,
layout and translations; the random jitter of the reconnection's delay;
`pausedBreakpoints` and `capturePaused` of the store, which only unmounted
components read or set; those components themselves, some 10,800 lines that
nothing reachable from `main.tsx` imports; tabs that draw the exchange they are
given; sign-in, theme and toasts.
