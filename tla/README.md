# TLA+ models of thirtyfour

thirtyfour is an async Rust client for WebDriver: it sends HTTP commands to a
driver (chromedriver, geckodriver, ...), can download, start and share such
drivers itself, and talks WebDriver BiDi and CDP over WebSockets. Most of its
lines are thin command wrappers and typed protocol data. What is hard to get
right lies between the commands: two WebSocket transports with their tasks,
reference counts and sets kept under async locks, a pool of child processes held
by `Weak` handles, a cache on disk that several processes fill, the end of a
session that many handles share, and everything that takes several commands while
the page, the browser or another task goes on. These models are about that part.
Paths below are relative to `src/thirtyfour/src/` unless they start with `docs/`
or `thirtyfour-macros/`.

## Inventory

| Component | State | Operations | Interacts through | Hard behaviour | Module |
|---|---|---|---|---|---|
| BiDi command channel, `bidi/transport/ws.rs` | `pending`, `next_id`, the unbounded queue `out`, reader and writer task | `send_raw`, `dispatch`, `fail_all_pending` | shared `Arc<Inner>`, a mutex, channels, the socket | replies in any order, callers that give up, the connection ending between any two steps | `CommandChannel` |
| BiDi subscriptions, the same file, `bidi/handle.rs`, `bidi/stream.rs` | count per event, an async mutex held across a command, the remote end's subscriptions | `subscribe`, `ensure_subscribed`, `EventStream::drop`, `release_subscription` | commands on the channel above, spawned tasks | subscribe, unsubscribe and cancellation overlapping | `BidiSubscriptions` |
| CDP channel, session and streams, `cdp/` | attached session, the set of enabled domains, a bounded broadcast channel | `subscribe`, `enable`, `disable`, `detach`, `dispatch`, `poll_next` | one ordered connection shared by clones | enable-once under a lock, lagging receivers, late answers | `CdpSession` |
| Network interception, `bidi/modules/network.rs` | intercepts at the browser, `InterceptGuard`, paused requests | `add_intercept`, `remove`, `Drop`, the five commands that answer a paused request | channel, events, spawned tasks | the event of a paused request lost; an intercept nobody removes | `Interception` |
| Driver pool, `manager/manager.rs`, `manager/process.rs` | map of `Weak` handles, child processes, ports | `launch`, `spawn_or_reuse`, `SessionGuard::release`, `shutdown`, `Drop` | `Arc` counts, the operating system | the lock is released while spawning; ports are found by bind and release; crashes | `DriverPool`, `DriverLease` |
| Session teardown, `session/handle.rs`, `session/mod.rs`, `web_driver.rs` | shared `OnceCell` `quit`, the guard, handle counts | `quit`, `leak`, `clone_with_config`, `Drop` with a cleanup thread | the pool through `DriverGuard`, the driver over HTTP | concurrent quits, failures and cancellation, a blocking `Drop` inside an executor | `SessionQuit` |
| Download and cache, `manager/download.rs` | cache directory, lock file | `ensure_driver`, `fetch_bytes_with_retry`, `extract_*` | file system, other processes | extraction in place, an unlocked first look, crash, retry | `DriverCache` |
| Version selection, `manager/browser.rs`, `manager/version.rs`, `manager/download.rs` | the cache of detected versions, the drivers on disk | `detect_local_version`, `resolve_version` and one resolution per browser | HTTP metadata, the machine | browsers and upstream change between the steps; keys of one cache for several browsers | `DriverVersions`, `DriverSelection` |
| Session configuration and builders, `common/config.rs`, `session/handle.rs`, `web_driver.rs`, `manager/manager.rs` | the `ArcSwap` of a handle, the settings of a manager | the builders' methods, `build`, `connect`, `set_config`, `set_poller` | every clone and element of a session | setters of several threads at once; one setter undoing another | `ConfigBuilders`, `SessionConfig` |
| Element query and waiter, `extensions/query/` | poller, branches | `first`, `single`, `any`, `not_exists`, `wait_until_gone`, the waiter's conditions | HTTP, the clock | a page that changes between any two commands of a poll | `ElementQuery` |
| Components and resolver, `components/wrapper/`, `thirtyfour-macros/src/component.rs` | `ArcSwap<OnceCell>` | `resolve`, `invalidate`, `validate`, `resolve_present`; the derive macro's arguments | HTTP | invalidation during a resolve; which arguments combine | `ElementResolver`, `ComponentFields` |
| Windows, frames and navigation, `session/handle.rs`, `switch_to.rs` | the session's current window and frame, at the remote end | `in_new_tab`, `switch_to_named_window`, `switch_to_*`, `new_tab`, `close_window` | HTTP | a failure half way, commands of other tasks in between | `Browser` |
| Action chain, `action_chain.rs`, `common/action.rs` | key and pointer lists | every method, `perform`, `reset_actions` | one HTTP command | ticks of both lists line up; nothing stays held | `ActionChain`, `Browser` |
| SelectElement, `components/select.rs` | - | `select_by_*`, `deselect_by_*`, `select_all`, `deselect_all`, `all_selected_options`, `first_selected_option` | one HTTP command per look and click | look and click are two commands; quoting | `SelectElement`, `Browser` |
| BiDi settings, `bidi/modules/emulation.rs` and others | the remote end's settings per context and user context | the commands that set something | BiDi commands | null, absent and empty; what later contexts inherit | `BidiSettings`, `Browser` |
| Session creation, `session/create.rs` | - | `start_session` | HTTP | one retry, failure after the session exists | `TestRun` |
| Test runner and artifacts, `testing/`, `run_and_quit` in `web_driver.rs` | bounded buffers, the result | `run_browser_test`, the collector | the session | limits; which of several failures wins; panics and cancellation | `TestRun`, `FailureReport` |
| Status events and driver logs, `manager/status.rs`, `manager/process.rs` | subscriber lists replaced by compare-and-swap | `on_status`, `on_driver_log`, `emit`, `Drop` of a subscription | callbacks | subscribing and unsubscribing during an emit | `TestRun` |
| One-command methods of drivers and elements, `web_element.rs`, `alert.rs`, ... | - | one HTTP command each | HTTP | - | - |
| Protocol data, `bidi/modules/`, `cdp/domains/`, `common/` | - | serde types | - | - | - |

`PROJECT.json` gives every component its status and lists the hazards of the code,
each at the line where it bites, with the properties that are about it.

## Modules

In every component some actions come with a variant whose comment starts with
"Mutant": the action with a plausible bug in it. They are not part of `Next`; they
show that the property named for them in `PROJECT.json` would notice that bug. Each
`MC*` module extends its component for TLC and says what the instance is; each
`*Proofs` module extends its component and holds its theorems. `DriverProofs` is about
the cache, the pool and the launches, which is why the definitions of `DriverCache` are
named `CacheInit`, `CacheNext`, `CacheSpec` and so on, and those of `DriverSelection`
`SelectionInit`, `SelectionNext`; `SessionProofs` is about `SessionQuit`
and `TestRun`, whose definitions are `RunInit`, `RunNext`, `RunSpec`; and `ElementProofs`
is about `ElementQuery` and `ElementResolver`, whose definitions are `ResolverInit`,
`ResolverNext`, `ResolverSpec`. `SequenceSums` has the lemmas on folds and sums over
sequences that `DriverProofs` and `SessionProofs` rest on.

### Connections

`CommandChannel` is the command half of the BiDi transport. A task is at one of
the awaits of `send_raw` (`pc`): it takes an id (`FetchId`), waits for the lock
and registers its oneshot sender (`Register`), queues the frame (`Enqueue`) and
waits for the answer (`Return`). `Cancel` drops the future at an await. The writer
task (`WriterRecv`, `WriterSend`, `WriterEnd`, `WriterClose`) and the reader task
(`Dispatch`, `ReaderBreak`, `Drain`) have one action per await. `slot[c]` is what
the oneshot channel of task `c` holds. The remote end is external: it answers what
it has received once, in any order, and may close the socket.

`RequestReply` is what a caller may rely on: requests get ids, are executed at
most once, and a call ends with the outcome of its own request, with a connection
error, or because the caller gave up. `CommandChannel` instantiates it with
`issued <- 1 .. nextId - 1`, `request <- callId`, `answer <- slot` and
`executed <- answered`.

`BidiSubscriptions` is the reference count. The lock record says who holds the
async mutex across which command, and what has become of that command; the channel
under it is reduced to the three things that can happen to a command: before the
drain it is answered, between the drain and the end of the writer it hangs, after
that it is refused. That reduction is exactly what `CommandChannel` shows. A
cancelled subscribe leaves a command under way (`orphans`), which the remote end
may still execute.

`CdpSession` is one attached session with clones in several tasks. `enabled` is
the code's set under its async mutex; a task in `subscribe` waits for the lock,
sends the domain's enable and inserts the domain after the answer. Commands,
answers and events share one ordered connection; the reader task broadcasts events
into a ring of `Capacity`, where each stream has its place, lags, and filters by
session and method. A stream may meet an event that does not decode, and one whose
text is cut within a character, on which the code panics.

`Interception` is the recipe of the guide: subscribe, `add_intercept`, answer each
paused request, `remove` or drop the guard. `owner`, `guard` and `jobs` follow the
guard through `take()`, the command and the spawned removal; the browser pauses a
request at each registered phase (`beforeRequestSent`, `responseStarted`,
`authRequired`) and takes exactly the commands that fit (`ContinueRequest`,
`ContinueResponse`, `ContinueWithAuth`, `FailRequest`, `ProvideResponse`).

### Drivers

`DriverPool` is the sharing of driver processes. `Holders(p)` is the strong count
of the `Arc` of process `p`, named by its holders; `drivers` holds what the `Weak`
points to; `child` is the process as the operating system sees it. A launch looks
at the map (twice, unless the user gave the binary), spawns, polls the port,
looks again under the lock and registers or yields. `Abandon` is every other way
out: an error of the resolution, download or New Session, a dropped future, a
`WebDriver` dropped without `quit()`.

`DriverLease` is what users of the pool may rely on: a session is a lease on a process,
the leases of a key are on one process, which has no others, and a process is kept as
long as there is a lease on it and ends with the last one. `DriverPool` instantiates it
with `lease <- leases`, what tasks hold from `Register` or `Lookup` on, and
`process <- states`, where a killed child has ended and one that crashed has not: the
pool keeps lending it, as its `Weak` says that somebody holds it.

`DriverCache` is one binary on disk and the launches, in one process or several,
that want it: the unlocked look, the file lock, the look under it, three attempts
with their backoff, extraction in place, the mode. `Die` ends a process anywhere
and frees the lock; `Cancel` drops a future at an await.

`DriverVersions` has the pure functions of version selection: which browser the
capabilities mean, where it is looked for, how each browser's metadata turns a
request into a driver version. `DriverSelection` runs launches over them while
browsers are upgraded, upstream releases and the network fails between the steps,
with the manager's cache of detected versions and the drivers already on disk. Its
manager is what `ConfigBuilders` makes of a sequence of calls on
`WebDriverManagerBuilder`: a builder is a record, a method gives the next one, `build()`
puts the defaults in. `SessionConfig` goes on from the launch: a `SessionHandle` gets the
manager's configuration, or one of a `WebDriverBuilder`, and threads replace it whole
(`SetConfig`) or its poller, by a copy and a compare-and-swap (`SetPoller`, `SwapPoller`).

`SessionQuit` is the end of one session. `WebDriver` values (`Drivers`) point to
`SessionHandle`s (`Handles`), which share the `quit` cell and the guard. `pc` of a
`WebDriver` runs from `quit()` or its drop to the end of the last drop glue,
including the thread that `Drop` starts and joins. `SingleThread` says whether all
tasks share one executor thread, in which case nothing else runs while a `Drop`
blocks. The process serves this session alone; sharing is in `DriverPool`, where in
turn a session is a single handle.

### The page

`ElementQuery` polls a page: what is `attached` and how the parts of the elements are
change between any two commands. A poll runs its branches in order, each with filters of
its own, and these element by element (`NextFilter`). A filter is a command for each part
of the element that it asks for: `clickable` asks whether it is displayed and then
whether it is enabled, `with_attributes` and its like one name after the other. `AskOn` is
an answer after which the next command follows, `Ask` the one that settles it. A stale
element fails the filter or ends the query, and the poller's clock decides between
another tick and giving up. A waiter is the same loop over conditions. Filters and
conditions are read as the code reads them, each with what it makes of an absent
attribute and of a stale element.

`ElementResolver` is the cached cell: `resolve` loads the `Arc` of the current
cell and fills that one, `invalidate` swaps in an empty one, `validate` and
`resolve_present` check what was cached element by element. `ComponentFields` is
the derive macro: the arguments of `#[by]`, the tables of which exclude which, what
is left over after each take, and the constructor that comes out. `ElementResolver`
uses a field as that constructor declares it.

`Browser` is one session and its tasks. The current window and frame are the
remote end's. `in_new_tab` and `switch_to_named_window` are one action per command,
each of which may fail; `Other` is a command of a further task. It extends
`ActionChain` (each method as what it appends to the two lists), `SelectElement`
(which options each method looks for: an option has its text in the document, `raw`, and
the one it shows, `shown`, as words and the space between them) and `BidiSettings` (what each command says on
the wire, and what a remote end makes of it), and gives them the session in which
chains are performed, options clicked and settings applied.

### A test

`TestRun` follows one browser test from New Session, with its one retry and
SetTimeouts, through the body, the report and the cleanup, to the driver's end,
with a cancellation, a panic or a failed request anywhere. At the same time a
driver writes lines, the manager emits events, and subscribers come and go by
compare-and-swap on the list an emitter has a snapshot of. `FailureReport` has the
collector's pure functions: truncation between characters, the buffer that drops
its oldest entries by number and by bytes, and the share of an entry's bytes that each
text of a browser's log entry gets.

## Runs

There is one run per module that has behaviour; it checks the safety and the
liveness of the module together. A property that is a conjunction names its parts in
the module.

| Run | Instance | Shows |
|---|---|---|
| `CommandChannel` | 2 callers, 3 calls | Replies reach their own callers and entries and frames correspond (`RepliesAreRouted`); the channel implements `RequestReply`; a call queued before the drain returns (`EarlyCallReturns`) |
| `BidiSubscriptions` | 3 tasks, 1 event, 2 jobs and orphans | Counts are live streams and the remote end agrees (`SubscriptionsAreCounted`); the last drop unsubscribes; `subscribe()` returns |
| `DriverPool` | 3 launchers, 1 key, 2 ports, 3 processes | One process per key, no orphan, no kill under a session, the quit that kills also reaps (`DriversAreOwned`); the pool implements `DriverLease`; in the end nothing runs |
| `SessionQuit` | 3 WebDrivers, 2 handles, several threads | One DELETE at a time; the driver outlives it; nothing is lost in silence; every `quit()` and `Drop` ends |
| `DriverCache` | 4 launches on threads or in processes of their own, one offline | Downloads only into an empty cache, and a complete binary is never written to (`CacheIsSafe`); every launch ends |
| `SessionConfig` | Chrome and Firefox, 3 versions, 3 requests, a second binary, managers of up to 2 of 17 builder calls, 2 handles, 2 threads, 3 `Arc`s | The driver fits what was asked for, and a detected version is that of a binary the session would start (`LaunchFits`); a manager is what its builder was told, and an offline one fetches nothing (`LaunchIsAsBuilt`); no setter of a session undoes another (`ConfigIsAsSet`) |
| `CdpSession` | 2 clones, 1 domain, a ring of 1, 2 events, 3 calls | Streams yield each wanted event once and in order, but for what was pushed out (`Delivered`); a typed stream's domain is enabled; streams end with the connection |
| `Interception` | 2 requests, one asked for credentials, 1 intercept, 2 sets of phases, a ring of 1 | A paused request is known to the program or was pushed out of the ring; an intercept has a guard or a removal on the way; paused requests go on |
| `ElementQuery` | 2 elements of 2 parts, 2 branches with their own filters of 1 or 2 commands, timeout 3, interval 2, clock to 5, 1 change | What is returned was true of each element, filter by filter and command by command; "gone" was so of each; no query gives up early; each ends |
| `ElementResolver` | 2 tasks, 2 nodes, 2 cells, 1 fault, every attribute of up to 3 of 13 arguments | Nothing discarded is returned; a present element was there; fields resolve as `#[by]` documents; waiters get their turn |
| `Browser` | 1 task, 3 windows, 2 elements, 1 user context, 2 documents a window, 1 fault, 1 foreign command, 2 BiDi calls | Methods that change windows end where they say; chains are performed as written; gestures let go; settings apply where asked; `SelectElement` selects what it names where the text is shown as written |
| `TestRun` | 2 listeners, 2 sessions, 3 lines, 2 entries kept of the driver's log and 3 of the browser's, 1 fault | Failures are reported and none hides another; subscribers hear everything from then on; a report keeps the newest lines and entries within its limits |

### Deadlock

`SessionConfig` checks it. All other runs set `CHECK_DEADLOCK FALSE`: the programs
they model may really stop (all tasks idle for good, all handles gone, the test
over), and the bounds end every behaviour. That nobody is stuck is what the liveness
properties say instead.

### Bounds

- `CommandChannel`: with three ids for two callers, one call can be abandoned with
  its command still on the way, while the same caller's next call and another
  caller's overlap it.
- `BidiSubscriptions`: `MaxBacklog = 2` bounds the release jobs, the streams dropped
  outside a runtime and the orphaned commands of an event. Two are enough for a job
  to be overtaken by another one, and for a count to be too high twice. Three tasks:
  one that leaves, one that arrives, one that queues. Events share nothing but the
  lock, and waiting for another event's command is the same wait.
- `DriverPool`: each launcher can spawn once, so the race for a key is lost twice,
  or a launcher retries after a failure. With two ports three children must collide
  or wait.
- `SessionQuit`: two clones on one handle and one made by `clone_with_config` is the
  smallest case in which both the count of a handle and that of the guard matter.
- `DriverCache`: one task downloads, one waits for the lock, one crashes, and the
  offline one sees what they leave.
- `SessionConfig`: the constraint `Bounded` keeps one driver in the cache, upgrades
  one browser, and keeps a driver for the oldest version upstream. A second cached
  driver is chosen among by the same comparison; a second upgrade is the first of
  another binary. Browsers and upstream change under managers that set a version only:
  the other settings do not reach the resolution, but for `driver_binary()` and
  `offline()`, which are met with a machine that stands still. Sessions are opened
  where no browser is installed, so that the three `Arc`s are not multiplied by what a
  launch went through; with a third, a swap meets a handle that was set twice. Two
  calls on a builder are enough for one to undo another.
- `CdpSession` and `Interception`: the code's ring holds 1024 events. With a ring of
  one, lagging takes two events instead of 1025; the arithmetic is the same.
- `ElementQuery`: one change of the page can fall between any two commands of a poll, those
  of one filter among them: it turns an element that is displayed and not enabled into one
  that is enabled and not displayed, of which `clickable` then says yes. Two elements are
  enough for an answer made of two moments, two branches for one in which only one of two
  lists of filters was passed. Timeout 3 is no multiple of interval 2.
- `ElementResolver`: the second cell makes the first a discarded one; with two nodes
  a list can be half stale. The constructors are checked for all attributes, the
  interleavings for a list that must not be empty.
- `Browser`: the constraint `Focused` lets the further command come only where no
  BiDi settings are being made, which it does not touch, and ends three documents in
  all. One fault and one foreign command are enough for each step to be hit.
- `TestRun`: the constraint `Focused` lets the driver write two lines while the body
  runs, three on one stream when nobody but the collector listens, one before and after,
  none once something has failed: the collector and the failures meet only in the report.
  The buffer keeps two lines and three bytes, so that two lines may be too many by their
  bytes and the third is one too many by its number. The browser's logs are one within
  every limit, one too long by its bytes, and one too long by its number whose newest entry
  is too long by itself.

### Fairness

- Tokio polls every task that is ready: weak fairness of each task's step, and of the
  reader and writer tasks.
- Tokio's `Mutex` and the semaphore inside `OnceCell` serve waiters first come,
  first served, and a file lock is taken sooner or later by one who blocks on it:
  strong fairness of `Acquire`, `Release`, `EnterCell`, `Begin` and `Lock`. Weak
  fairness would not do, since the lock is not free all the time.
- A remote end that is up answers what it has received; HTTP requests, downloads and
  the readiness poll have timeouts; a killed process ends; the clock goes on. These
  are assumptions on the environment.
- Nobody owes a new call, a cancellation, the drop of a handle, a quit, a crash, a
  change of the page or the end of a connection: those actions have no fairness.
- `SessionConfig`, `Browser` and `TestRun` state no liveness: their tasks never wait
  for one another.

## Proofs

Each theorem holds for every value of the constants that satisfies the named
assumptions of its module. None of the invariants is inductive by itself: each module
has an `IInv`, or one per property, the conjunction of the properties with what they
rest on. TLC checked it on the bounded instance as well. A proof has one lemma per action
or group of actions, with a step per conjunct; the temporal theorems follow by one
rule.

`CommandChannelProofs`, for every set of callers and number of calls
(`NoCaller \notin Callers`, `MaxCalls \in Nat \ {0}`): `RepliesAreWellRouted` is the
run's `RepliesAreRouted`, with `TypeCorrect`, `RepliesAreMatched`,
`FramesAreRegistered`, `WaitersAreReachable`, `NothingLeaks` and the action property
`EntriesAreNotOverwritten`; `Refinement` is `ImplementsRequestReply`. That a reply
reaches its own caller needs that a live call's entry is its own (`EntriesAreOwned`),
which needs that live ids are distinct and below `nextId` (`IdsAreOwned`). That a
command is executed at most once, which the refinement needs for `Execute`, is because
a command is in one place at a time on its way out and unanswered there (`OnePlace`).
That nothing arrives for an idle caller is `SlotsFollowCalls`. `NothingLeaks` has an
invariant of its own on top (`NoLeakIInv`): a writer that is gone implies a connection
that is closed, since only that ends it while the reader still holds a sender. In the
refinement `FetchId` is `Begin`, `RemoteReply` is `Execute`, a `Dispatch` that finds
its caller is `Answer`, `Drain` is `Fail` of everybody it reaches, `Return`, `Cancel`
and a refused `Enqueue` are `End`; every other step is a stutter.

`BidiSubscriptionsProofs`, for every finite set of tasks, any events and backlog:
`CountsAgree` is `SubscriptionsAreCounted`. A count is the number of live streams, of
releases still to run and of streams dropped outside a runtime, which is a statement
about cardinalities: a step that moves a task from one of these sets to another
changes both sides alike. That the remote end is subscribed to what is counted
(`CountedIsSubscribed`) rests on who holds the lock: an answer that waits for the
holder is true of the remote end (`AnswersAreTrue`), the count is not written before
the answer is read (`UncountedInCommand`), and a command whose sender went away is of
an event without a count (`OrphansAreStray`).

`DriverProofs` on `DriverPool`, for every finite set of launchers and any number of keys, ports
and processes: `Owned` is `DriversAreOwned`, `OutlivesSessions` is
`DriverOutlivesSessions`. `IInv` relates the step a launcher is at to what it holds
(`TasksFollow`), the state of a process to who holds it (`ProcsFollow`,
`SpawnedIsOwn`), says that what is held has not been killed (`HeldIsNotKilled`) and
that a session's process is the one its key points to (`SessionsAreRegistered`), from
which one process per key follows. `SpawnsAreBounded` is about the model's bound: who
wants to spawn still has a process to come. `Refinement` is `ImplementsDriverLease`. It
rests on `IInv` and on `KeysApart`, that a process is registered for one key, without
which two keys could lease the same process; the run has one key, so that several are
the proof's alone. `SpawnChild` is `Start`; `Lookup` and `Register` are `Lend`, where a
lost race discards the launcher's own process in the same step; `Release` and `Abandon`
of a session are `GiveBack`; `NotReady`, and `Abandon` before there is a session, are
`Discard`; every other step is a stutter.

`SessionProofs` on `SessionQuit`, for every number of `WebDriver`s and handles, with one executor
thread or several: `OneDeleteAtATime`, `DriverOutlives` and `NothingRemains` (the
three invariants of the run), `NothingIsSilentlyLost`, `NoDriverIsLeft`,
`TypeCorrect`. `OneDelete` follows from `CellIsHeld`: whoever sends a DELETE is the one
whose name is in the cell. `DriverOutlivesDelete` also needs the two ways in which the
process dies. `release()` comes only with the cell set, after which no DELETE is sent;
the last drop of the guard comes only from the last `WebDriver` of the last handle
(`LastOnHandle`), so nobody is left to send one. `NotSilentlyLost` needs that the cell
is set for a reason and that a drop gives up aloud (`Accounted`), `DriverIsNotLeft`
that a process that runs is in a guard which somebody holds (`GuardIsHeld`).

`SessionProofs` on `TestRun`, whose names carry `Run` where `SessionQuit` has the same
one, for any listeners, sessions, lines and number of faults (`Collector \in Listeners`,
`None \notin Sessions`): `SubscribedHearsAlways` is `SubscribedHears`,
`FailureIsReportedAlways` is `FailureIsReported`. A list has each of its subscriptions
once, from the swap that adds it to the swap that removes it (`Listed`); this is where
it counts that the swap compares, since a list stored over a changed one would lose a
neighbour. An emitter works on a snapshot that gets old, so the invariant follows the
item at hand: who is left in the snapshot is of the list at hand and has not heard the
item (`CalledOnce`), who was on the list when it was loaded has heard it or is left in
the snapshot (`TakenIsHeard`), and what was heard has been taken and came by a list the
emitter has reached (`HeardIsTaken`), so that nobody hears an item twice or out of
order. For the result, `RunIsInOrder` says what is settled at each phase: that an outcome
of body and cleanup is there when the run returns unless it was cancelled, that the
cleanup succeeds only with the session's cell set, and that the session is gone by then.

`EvidenceIsAlwaysKept` is `EvidenceIsKept`, for lines and pages of any length, characters
of any width and any limits, zero among them. A text is the sequence of the widths of its
characters, so what it takes is a sum; `SequenceSums` shows by induction over the numbers
that a sum is the last of its partial sums (`SumsAgree`), that it grows with the prefix
(`SumsGrow`) and splits at any point (`SumOfBoth`). From this follows what each cut
leaves: no more than its limit, and the whole of a text that is within it. `push` drops entries from the front until the line fits, and
that this is the most that can stay is the heart of it: if the newest lines before were
all that fit, so they are after one more. `EvidenceIInv` adds to the invariants of the
subscriptions and of the run that the buffer is `Newest(LinesHeard)`, where a line heard
is the one that the stream had at that place (`BufferIInv`), and what a report keeps of
its source and of the browser's log (`ReportIInv`). The browser's log is read from its
newest entry to its oldest, by a fold; `WithEntryKeeps` shows that with each entry it stays
what `IsNewestOf` says of the entries read so far, and that the share of the message is all
that the entry needs whenever it fits. The assumptions are the types of the code: a width is
a number (`TextsAssumption`), a limit a `usize` (`LimitsAssumption`).

`DriverProofs` on `DriverCache`, for any number of launches, on one executor thread or several:
`CacheIsFilledOnce` is `FilledOnce`, `CompleteIsFinal` is `ReadyStaysReady`, and
`CacheKeepsItsDriver` puts them together as the run's `CacheIsSafe`. The
invariant says that who is past the lock has it (`WorkerHasLock`), and what such a
worker knows of the file (`WorkerSees`): after the second look, the file stays as it
was seen, since others only read it.

`DriverProofs` on `SessionConfig`, for any threads, handles, versions and upstream, and
for builders and configurations made by any number of calls: `LaunchesFit` is
`LaunchFits`, `LaunchesAreAsBuilt` is `LaunchIsAsBuilt`, `ConfigsAreAsSet` is
`ConfigIsAsSet`. `ConfigInv` has a part for each of the three.

- What a builder makes of its calls is a fold, and what was asked for is said of the last
  call for each thing; that the two agree (`ConfigIsAsAsked`, `ManagerIsAsAsked`) is shown
  by induction over the calls. Numbers have no infinite descent
  (`NatLessThanWellFounded`), so a set of numbers has a least one, which gives induction
  for sets (`AllNumbers`), and with it the builder after each of the calls (`BuilderFold`).
  A field then follows the last call that sets it (`LastCounts`), and the list of
  subscribers grows in the order of the calls (`SubscribersInOrder`).
- For a launch, what is remembered of a binary is what it reports, or it was upgraded
  (`ProbesOK`), and the driver chosen fits what was asked for (`ResolvesFitting`): of
  finitely many versions one is the newest (`NewestOK`), and the table of geckodrivers,
  which goes down, has the newest that covers a Firefox first (`GeckodriverOK`).
- For a session, a swap under way has copied an `Arc` that either is still the cell's, with
  the value it had, or never will be again (`CopyOK`): so a compare-and-swap that succeeds
  loses nothing.

The assumptions say what the types say: versions are pairs of numbers, and None is not
one of them (`VersionsAssumption`), the builders' calls have arguments of
their kinds (`BuildersAssumption`, `ScriptsAssumption`, `ValuesAssumption`), and None is
none of the values it stands beside (`NothingAssumption`, `ArcsAssumption`).

`ElementProofs` on `ElementResolver`, for any finite set of tasks and any number of nodes, cells
and faults: `DiscardedIsNotReturned` is `CacheIsFresh`, `PresentIsTrue` is
`PresentWasThere`. What was discarded are cells before the current one
(`DiscardedIsOld`), and a call that resolves goes on with a cell that was current
after it began (`LoadedIsNotStale`). For `resolve_present()` it needs in addition
what each cell it turns to holds or is about to hold (`PresentIsFresh`): an answer
found on a page the call has seen, or the answer of a query that was under way when
it began; and that a query's cell is empty and its holder's alone (`QueryIsHeld`).
`FieldsAreAsDeclared` is `FieldIsAsDeclared`, for attributes of any length, which the
run has up to three arguments long. No induction is needed: that each type occurs once
is that the map from arguments to types is an injection (`CountsApart`), and what
`try_from` accepts in the end it accepted after each argument (`PrefixFits`).
`NothingClashes` turns the table of disallowed types, which is read for each argument,
into the sets of types that fit together (`Fits`); `MadeIs` and `CustomIs` say which
constructor these lead to, `DocumentedIs` what the documentation says in these terms.
That an attribute is a sequence of names, and that a field holds one or many, is
`StructsAssumption`.

`ElementProofs` on `ElementQuery`, for any page (`Selects`, any set of elements), any number of
branches with any lists of filters, filters of any number of commands, any timeout and
interval: `AnswersAreAlwaysTrue` is `AnswersAreTrue`, `GoneIsGone` is `GoneWasGone`,
`NeverEarly` is `NotEarly`. The history of a poll has, at every step, the page as it is
(`HistoryHasPage`), so that an answer of the remote end is always a moment of the poll. Of a
filter that is half answered, the parts asked for so far were so, each at such a moment
(`HalfIsSo`), which its last answer completes. On that rest `FoundPassed` and
`KeptPassed`: what is collected has passed the filters of a branch that selects it, what
is being filtered all but the one at hand. For the other direction an element that is
neither collected nor still to be asked must have been away or failed, or a command about
it was excused (`MissedWasGone`), of the branches before, of the one at hand, and in the
end of all.

`CdpSessionProofs`, for any number of clones, domains and events and any capacity of
the broadcast channel: `DeliveredAlways` is `Delivered`, `StreamsAreNotDeaf` is
`StreamsAreEnabled`. That a typed stream's domain is on at the browser needs the way of
each frame: a caller has one command under way (`CommandsAreCalled`), an answer on its
way back is true of the browser (`RepliesAreTrue`), and so is one that has arrived
(`AnswersAreTrue`); hence the domain is on when `subscribe` writes it down
(`EnabledIsOn`), unless a `disable` of the program's own is on its way. For `Delivered`
a receiver has yielded nothing but what it has passed by (`ReceiversOK`).

`BrowserProofs` on `Interception`, for any finite sets of requests and intercepts, any sets of phases
and any capacity of the ring (`Capacity \in Nat \ {0}`, `None` and `Off` are no events and
no ids): `PausedIsHeardOf` is `RequestsAreKnown`, `RegisteredHasGuard` is
`RegisteredIsGuarded`. That a paused request whose event is neither on its way nor at
hand was pushed out of the ring is a case split on where its event is, and breaks when
an old answer lets a request go on that is paused anew. So the invariant follows the
calls: an `add_intercept` or an answer, as a command or as its reply, is under way at
most once and only while its caller waits (`OneCall`); an answer is one for the request
at hand, and once it has come back the request is past that phase (`AnswersAreHandlers`);
a request has one event for each phase it has reached, the phases being ranked (`Rank`,
`EventsAreOnce`). Nothing is intercepted before the program has its stream
(`SubscribedFirst`). For the guards, an intercept's id is unused, on its way to the
guard, in it, or in a job, and never in two of these places (`IdsAreOwned`).

`BrowserProofs` on `Browser`, whose names carry `Browser`, `Window` or `Button` where another
module has the same one, for any number of tasks, windows, names and user contexts, any
lists of options, and scripts and BiDi calls of any number:

- `WindowsAreAlwaysRestored` is `WindowsAreRestored`. While a task is alone, the windows are
  those it began with and, from `enter` to `close`, the tab it made (`Restoring`), and of the
  windows `switch_to_named_window` has visited none has the name.
- `SettingsAreAsAsked` is `SettingIsAsAsked`. The remote end holds, for each context, user
  context and for all, the value of the last call that covered it (`SettingInv`), where a
  context that is made or a user context that is removed leaves the calls as they were. The
  one setting out of reach is a viewport that somebody tried to clear.
- `ChainsAreAlwaysInOrder` is `ChainsAreInOrder`, `GesturesAlwaysLetGo` is `GesturesLetGo`.
  `ChainInv` says that the two lists, performed tick by tick, are what the methods called so
  far stand for, one after the other. It rests on the lists being in step after every method
  (`InStep`), and on one lemma per method that what it appends is what it stands for
  (`Gives`). `send_keys` is a recursive function over its text and the performed actions are
  a fold, so both take an induction over the numbers (`AllNumbers`) for their values. A gesture
  lets go when each key or button that goes down comes up later in it (`LetsGo`), which
  survives joining gestures and needs every gesture's list, not only its last action.
- `SelectionsAreAsAsked` is `SelectionIsAsAsked`. For a task that is alone, the options that
  are set differ from those set before the call by those it is for and has looked at
  (`PickEffect`); whatever the others do, what it still has to look at are the last options
  of those it looks among (`PickShape`). Each command of the method keeps both
  (`FindKeeps`, `CandidatesKeep`, `ShowsKeep`, `LookKeeps`, `ClickKeeps`).

Two things were found in proving the last: another task's click on the same `<select>` has to
count as a disturbance, which a run with one task does not show, and the property has to leave
out a text whose longest word, which the fallback looks for, is one that the escaping cuts.
What a text finds is a matter of white space and of style: the queries go by the text in the
document, the documentation by what is shown, and `Plain` names where the two agree.
The assumptions are the types of the code and of a page: an index is a number, a flag a
`bool` (`PicksAssumption`), a `<select>` has options (`ListsAssumption`), the ids of contexts
and user contexts are different ones (`ScopesAssumption`), and a value to clear is not a value
(`UnsetAssumption`).

Only model-checked are every liveness property and that `SessionConfig` does not deadlock,
since liveness under fairness and ENABLED are outside the prover's reach. Every safety property and action property of the runs is
proved.

## What the models had to follow

The modules follow the code where the documentation says something else, and where a
caller might expect something else. No run checks what is said here; it is what the
models show on the way, and why some properties are stated as they are.

Connections

- A BiDi or CDP call made after the connection was lost, but before the writer task
  noticed, never returns: `pending` is drained once, and later entries are left to
  nobody (`bidi/transport/ws.rs:126`). `EarlyCallReturns` is about the calls before.
  If such a call is a `session.subscribe`, it keeps the subscriptions lock.
- Dropping every BiDi handle does not close the connection, since the reader task
  owns a sender of the writer's queue (`bidi/transport/ws.rs:79`).
- An `add_intercept` that is dropped with its answer on the way, and a `remove()` that
  fails or is dropped after it has taken the id (`bidi/modules/network.rs:826`), leave an
  intercept that nobody removes. `RegisteredIsGuarded` has these in `lost`.
- A typed CDP stream that warns of an event it cannot decode cuts its text at byte
  200 (`cdp/stream.rs:89`), and panics when that is inside a character;
  `docs/src/cdp/events.md:169-171` says that such events are skipped with a warning.

Drivers

- `wait_until_ready` takes any server on the port for the child it started
  (`manager/process.rs:308`). Two managers, or two keys of one, that are given the
  same ephemeral port share one driver without knowing.
- The pool reuses a driver that has crashed as long as a session holds it
  (`manager/manager.rs:679`); `docs/src/features/manager.md:92-93` says "one that's
  still alive".
- A launch that needs to resolve a version fails offline with the driver in the cache
  unless the version is known without the metadata (`manager/download.rs:266`,
  `manager/manager.rs:628`); `docs/src/features/manager.md:144-145` promises a launch
  "with no network access at all".
- With all launches on one executor thread, one that blocks in `lock`
  (`manager/download.rs:432`) keeps the one that holds it from going on. The run has
  `SharedExecutor = FALSE`; with `TRUE`, `EnsureEnds` fails. The safety theorems hold
  for both.
- The same for the teardown: on a single-threaded executor, dropping one handle of a
  session whose `quit()` is suspended in its DELETE blocks for ever
  (`session/handle.rs:1319`). `QuitEnds` is checked with `SingleThread = FALSE`.
- A process that dies while it extracts a driver leaves part of it under the final name,
  which every later launch takes for a hit (`manager/download.rs:400`,
  `manager/download.rs:677`). `CacheIsSafe` says that a complete one stays complete.
- Of two concurrent `quit()` calls the second may return while the driver process
  still runs (`web_driver.rs:361-362` says that quit waits for it).
- `leak()` leaves the session at the driver, but the driver process is killed with
  the last handle (`web_driver.rs:446-449`).

The page

- A poll is not atomic: an element can be found, and fail or pass each filter, at
  different moments. Nor is a filter: `is_clickable()` is two commands
  (`web_element.rs:539`), and a filter with several names one for each
  (`extensions/query/conditions.rs:181`). So a query may answer with an element that passed
  `clickable` at no moment, and `not_exists()` may answer that nothing is not clickable
  over one that was not clickable all along. `AnswersAreTrue` and `GoneWasGone` are therefore about each
  command of each filter, at a moment of its own in the last poll. Stated for filters as a
  whole at one moment, both are false of the code, and TLC finds it with one change.
- The interval is counted from the start of the query and is no minimum between two
  polls (`extensions/query/poller.rs:22-26`); the last poll may begin after the
  timeout. `NotEarly` states what holds.
- A filter for the absence of an attribute or property rejects an element that has
  none at all: `Ok(None)` is `Ok(false)` in both senses
  (`extensions/query/conditions.rs:211`), while `extensions/query/element_query.rs:751`
  speaks of elements "that do not have the specified attribute with the specified
  value". The filters for a class and for a value do accept it.
- `invalidate()` during a resolve does nothing, since the cell is still empty, and the
  resolve fills the cell with what it found before. `CacheIsFresh` is about values
  that were there to be discarded.
- `resolve_present()` may return a node that left the page before the call, when it
  joins a query under way. On a cached empty list it never returns:
  `buffer_unordered(0)` takes no element (`components/wrapper/resolver.rs:127`).
- Of several `#[by]` attributes on a field the first counts, and one on a field whose
  type is not a path is ignored without an error.
- `in_new_tab` restores the window but not the frame, and an error half way leaves
  the tab open and current (`session/handle.rs:1221`). Two tasks in it on one session
  end in each other's windows, which is why the run has one.
- `drag_and_drop_by_offset` and `drag_and_drop_element_by_offset` never release the
  button (`action_chain.rs:341-354`). `GesturesLetGo` leaves both out of the complete
  gestures.
- Some settings cannot be cleared as documented: `GeolocationOverride::Coordinates`
  with `None` and `SetViewport` with `viewport: None` leave the key out instead of
  sending null (`bidi/modules/emulation.rs:113`, `bidi/modules/browsing_context.rs:393`).
- `SelectElement`: a text that ends in a double quote and has single quotes, and a
  value with both, become selectors that do not say what was meant; `select_by_index`
  counts within an optgroup (`components/select.rs:136`); `select_by_value` without a
  match succeeds. `SelectionIsAsAsked` leaves out such texts, longest words and values,
  and indices into groups.
- `select_by_exact_text` and `select_by_partial_text` speak of "visible text"
  (`components/select.rs:275`, `components/select.rs:282`), but look for XPath's `text()`
  (`components/select.rs:223`, `components/select.rs:229`), the text node as it is in the
  document. An option whose source is padded, or whose style changes or hides its words,
  is missed though it shows the text, or found though it does not;
  `select_by_visible_text` evens out white space but not style. `SelectionIsAsAsked` holds
  these methods to their documentation where an option is shown as it is written (`Plain`).
  An option has one text node in the model, and none when it is empty.
- A scope given as an empty list is sent as one, a scope of `None` is left out
  (`bidi/modules/emulation.rs:58`). `BidiSettings` does not tell the two apart.
- Whether an option is selected is asked before it is clicked; another task's click in
  between turns the click around. The property is about calls that were alone.

A test

- After a 500 New Session is sent again, though the first session may exist; when
  SetTimeouts fails, the new session stays at the driver (`session/create.rs:46`,
  `session/create.rs:86`). `FailureIsReported` has them as the only ways to leave one.
- The level and the source of a browser's log entry are cut to an eighth of its limit each,
  though the entry may fit as a whole (`testing/artifacts.rs:375`). `EvidenceIsKept`
  promises the message alone.
- `quit()` may fail after its DELETE has succeeded, when the driver's process cannot be
  ended (`session/handle.rs:1232`). The run returns that error; the process is taken to
  end all the same.
- A subscriber can be called after its subscription was dropped, by an emitter with an
  older snapshot. `SubscribedHears` is about the lists.
- Lines the driver wrote that no pump had read by the end of `quit()` are lost.

## Plan

Done: every part of the first plan - the command channel with its abstract
specification, subscriptions, pool, teardown, cache, CDP session and event delivery,
resolver and query, the sequences of commands with a failure in between, status
events and bounded buffers - and, beyond it, version selection, the derive macro,
windows and frames, action chains, `SelectElement`, BiDi settings and interception.
Proved: the safety of channel, subscriptions, pool, teardown, cache, resolver, CDP
session, element query, interception, launches and configurations, windows, action chains,
`SelectElement` and BiDi settings, that listeners hear all, failures are reported and their
evidence is kept, the table of the derive macro's fields, and that channel and pool implement
their abstract specifications.

Left, in order of weight:

1. `SessionQuit` under `DriverLease`: a session of `DriverPool` is one holder, while it
   may have several handles, which `SessionQuit` follows for one session.
2. Data collectors and preload scripts, as `Interception` has intercepts.

## Not modelled

- HTTP execution (`session/http.rs`, `common/command.rs`): one request and the decoding
  of its answer, without state. Every model takes a command as answered, failed, or
  cancelled.
- One-command methods: alerts, cookies, screenshots, scripts, window geometry, most of
  `web_element.rs`. Nothing can come between the parts of one command.
- Typed protocol data (`bidi/modules/`, `cdp/domains/`, `common/`): serde types. The
  exceptions are the settings, whose null, absent and empty values matter, and the
  intercepts.
- `support.rs`: one background runtime and a call into tokio.
- Formatting, parsing of version output and metadata, archives, the display of a
  failure report, generated token streams. Timing is modelled for the poller only.
- The routing of CDP replies: the map is built line by line as the BiDi one, whose
  routing is proved. A log pump that takes one more line between the flag that stops
  it and its abortion.
