# OpenKneeboard in TLA+

OpenKneeboard shows documents ("tabs") on a virtual kneeboard in flight
simulators. The app renders the kneeboard and publishes frames in shared
memory; DLLs in games, an OpenXR layer, SteamVR and desktop viewers copy them.
This directory models the parts of it whose correctness depends on the order
in which processes, threads, coroutines and GPUs take their steps, checks the
models with TLC and proves their safety with TLAPS. Paths below are relative to
the repository's `src/` directory; `PROJECT.json` maps every definition to the
lines it models.

## The system

| Part | State | Operations | Talks to | Hard behaviour |
|---|---|---|---|---|
| Frame feed: `lib/SHM*`, `app-common/InterprocessRenderer` | header in shared memory, named mutex, shared textures with fences, a cache per reader | begin, submit, submit empty, detach; lookup, lock, duplicate handles, copy | app ⇄ any number of games | processes crash, restart; GPUs run behind the CPUs; unlocked reads |
| Coroutine tasks: `lib/include/OpenKneeboard/task.hpp` | `mWaiting`, `mResultState`, the coroutine frame | call, suspend, complete, await, drop | every asynchronous function | the two sides meet on one atomic word, on two threads |
| Event system: `app-common/Events` | listeners, per-thread delay depth and queue, global count | add/remove listener, emit, delay, flush, shut down | every object of the app | re-entrancy, emissions on threads while the app ends |
| End of the app: `ProcessShutdownBlock`, `MainWindow::Shutdown()`, `App::CleanupAndExitAsync()` | a second count, its event | block, unblock, wait with a timeout | event system, every object with asynchronous cleanup | count to zero exactly once, after the flag is set |
| Kneeboard state and frame loop: `KneeboardState`, `MainWindow`, `RunnerThread`, `APIEventServer` | settings, profiles, views, ordered event queue, locks, repaint flag | frame tick, user actions, profile switch, dispose | everything | coroutines interleave at each `co_await`, also while locks are held |
| Tabs and views: `TabsList`, `KneeboardView`, `TabView` | list of tabs, per view its tabs, current page, bookmarks, navigation mode | set/insert/remove tab, next/previous page or bookmark | kneeboard state, page sources | pages and tabs change under views that point at them |
| Page sources and tabs: `PageSource/`, `Tab/`, `FilesystemWatcher` | contents, caches, doodles | reload when files change, render | views | reloads overlap |
| Consumers: `VRKneeboard`, `OpenXR*`, `Oculus*`, `SteamVRKneeboard`, `NonVRD3D11Kneeboard`, `ActiveConsumers` | swapchain, session, recentering; times of last use in shared memory | once per game frame | frame feed, game | two reads of the feed in one frame |
| Hooks and injection: `injectables/*Hook`, `DllLoadWatcher`, `GamesList/` | installed hooks, injected DLLs | install, uninstall, detect, inject | processes of games | loader threads |
| Input, layers, toolbar, web and window capture, settings pages, utilities | — | — | kneeboard state | see `PROJECT.json`, "components" |

What makes the parts correct, in words:

- *Frame feed.* A game never shows a texture that holds another frame than the
  metadata says; it never gets a frame older than the one that was published
  when it asked; a hide takes effect; nobody waits for ever; a crash of either
  side leaves the lock usable and frames in order.
- *Tasks.* The caller resumes exactly once, on its thread, with the result;
  the coroutine frame is destroyed exactly once and only when both sides are
  done with it.
- *Events.* Listeners that were removed are not called; what is queued is
  delivered; once the app has got past its wait no handler runs.
- *End of the app.* The app ends, and before its timeout only when no block is
  left.
- *Kneeboard state.* A profile's files hold its own settings, or those of the
  default profile it inherits from (not so when switches overlap, see
  Findings); memory and disk agree when nothing is
  suspended; a frame sees settings and views that fit; what is queued is
  handled; the shutdown ends.
- *Tabs and views.* Every view shows a tab of the list and a page of that tab,
  bookmarks stay in order unless a web page reorders its pages, they are stepped
  through in order, and the view the user looks at gets the input, however late
  the events of a change are.
- *Page sources.* What is shown of a folder ends up being what could be opened
  of it, files that stay keep their source (HTML files do not: `KeptAreAlive`),
  unless scans overlap; and the scans end.
- *Consumers* (not modelled). A swapchain fits the layers that are drawn to it.

`PROJECT.json`, "hazards", lists what can go wrong line by line, and which
property would catch it.

## Modules

    Latch ◁─ refined twice by ─ AppExit ── EXTENDS ─ Events ── EXTENDS ─ Process
                                   └────── EXTENDS ─ ShutdownBlocks ─ EXTENDS ─┘
    Settings ◁─ EXTENDS ─ KneeboardState
    SHM     Task     Views     FolderSource

    MCSHM  MCTask  MCAppExit  MCKneeboardState  MCViews  MCFolderSource   instances for TLC
    SHM_proofs  SHMFrames_proofs  Task_proofs  AppExit_proofs
    KneeboardState_proofs  Views_proofs  FolderSource_proofs  OrderLemmas theorems

### SHM: the frame feed

One writer and any number of readers. `header` is `*mHeader`, `mutex` and
`abandoned` the named mutex, `wpc` the state of `SHM::Writer` (WriterState.hpp)
and of `InterprocessRenderer`, `rpc`, `call` and `reader` the control state,
locals and members of each `CachedReader`. Actions are cut where another
process can come between: unlocked reads are one action per word that is read
(`ReadSession`, `ReadKeySession`, `LookUp`), what happens under the mutex may
be one action. GPU work is a queue per process (`drawQueue`, `copyQueue`): the
CPU appends and goes on, the head starts when its fence is reached and ends
later, and two processes' heads run at the same time. A queued copy has the
texture it will read (`res`) and the one its metadata names (`named`); they
differ only when a handle number is used again (`CleanStart`), and `FencedRead` is
about copies where they do not.

Abstractions: session ids are random in the code and numbered here (so that
"older" can be said); a texture and its fence are created together and are one
resource; all readers are on the feeder's GPU, so that the GPU check of the
code fails exactly when nothing was submitted; the hash of the cache key is
injective; the client textures are the in-order GPU queue of the reader; layer
contents and `ActiveConsumers` are left out. `Faults` says what the environment
does: views change their size, the app quits, either side crashes, a handle
number is used again.

### Task: `task<T>` and `fire_and_forget`

One caller on the UI thread starts tasks in any order, awaits or drops them;
bodies suspend, change to a thread of the pool, return or throw. `waiting` is
`mWaiting`, `own` the caller's side (the `Task` object or the awaiter), `body`
the coroutine's. Each exchange of `mWaiting` is one action. Results are of one
kind; a failed submission to the thread pool is the code's `fatal()`.

### Events, ShutdownBlocks, AppExit: the end of the app

`Events` is Events.cpp and Events.hpp: every emission goes from `added` (it is
counted) to `rejected`, `queued` or `calling`; `stack` holds each thread's
nested calls into the event system, so handlers emit, delay, flush and remove
listeners while other emissions are in progress. `ShutdownBlocks` is
ProcessShutdownBlock.cpp. Both count with an atomic that is raised *before* the
flag is tested and both shut down by setting the flag *before* they take back
the initial 1; every such access is an action of its own. `AppExit` puts them
together as `MainWindow::Shutdown()` and `App::CleanupAndExitAsync()` do, with
the handle numbers of `Process`, which Windows may reuse: `CreateEvent` returns
any number that is not in use.

Abstractions: an event and its listeners are used on one thread (EventDelay
and queues are thread-local in the code); a hook that stops an emission has no
action; forwarding to another event is a handler that emits; the frame loop
and the disposal of the tabs between the two waits are left out; the log's map
of active blocks is left out.

`Latch` is what both promise: work is let in until the latch is closed, and
the wait is over only when it is closed and nothing is left. `EventsAreOver`
and `BlocksAreOver` are `Latch!LatchSpec` under two refinement mappings. In the
second the latch is over when the app ends in time and its event has another
number than the one the event system closed and keeps signalling; with the
same number a late emission ends the wait early (`MCAppExit_reuse.cfg`).

### Settings, KneeboardState: profiles, settings and the frame loop

`Settings` is Settings.cpp: a file for each profile and section, `Load` over the
files of the parent, `Save` section by section, `Erased` for the reset of one.
A value stands for all settings of a section; it is known by the profile it was
made under (`by`) and a revision. `MaybeSaveJSON<json>`, which tabs and games
use, removes the file of a list that equals the parent's and writes it the next
time, so that it comes and goes; `SavedSection` does the same.

`KneeboardState` EXTENDS it. `settings`, `tabs`, `games`, `views` are what
KneeboardState, TabsList and GamesList hold, `files` the disk. Each coroutine
(a profile switch of a page or of the queue, the removal of a tab, the reset of
the tabs) has its place in `at` and what it carries over its awaits in `local`;
an action is what runs between two awaits on the one UI thread. `delay` counts
the `EventDelay`s of suspended coroutines, `queue` and `loop` are the ordered
event queue and MainWindow's frame loop, `shutdown` follows
`MainWindow::Shutdown()` and `DisposeAsync()`. The lock of the kneeboard is a
`std::shared_mutex` (a comment in KneeboardState.hpp calls it recursive): who
waits on the UI thread for what a suspended coroutine of it holds waits for
ever, `ui = "blocked"`. That is reachable: `SetTabsSettings()` holds the lock
across an await, `TabsSettingsPage` a shared one across its dialogs. So are
`ui = "mismatch"` (see Findings); `ui = "nullInput"`: a switch that is resumed
after the shutdown has dropped the input adapters follows a null pointer; and
`ui = "noView"`: the reset of the views of the default profile gives it
`ViewsSettings{}`, an empty list (`NoViews`), since `MigrateToViewsSettings()`,
which replaces it by one view (`Migrated`), is part of `Load()` only.

Nothing keeps the queue and the settings page from switching profiles while
another switch is suspended, nor does the model. `rushed` remembers which
profiles were asked for during another switch: those are the ones that
`ProfileIsolation` leaves out (all of them, if it was the default profile, from
which the others inherit).

Abstractions: loads and disposals are awaits of unknown length; sections with
the same handling are one; App.json, which no profile owns, the other
migrations, drawing, and the sockets behind `OnAPIEvent()` are left out;
`missed` marks that memory has changed while saving was forbidden, which is
written only by the next save.

### Views: tabs, views, pages, bookmarks

`tabs` is TabsList, `change` the calls of `SetTabs()` (`Calls`) that are
suspended: the list is empty meanwhile, or what another call has made of it, and
each assigns the list it was called with in the end. `pages` (a list of page
ids, in any order) and `bookmarks` belong to the tabs, `shown`, `tabView` and
`current` are the `KneeboardView`s with their `TabView`s, `kviews`, `active` and
`looked` the views of the kneeboard and where the input goes. `emitted` holds
the events that an `EventDelay` keeps back, so that the program goes on between
a change and its handlers; a handler is one action, with everything it calls.
Every user action, tab change and page change is an action that may come at any
time, among them those that the code hardly expects: toggling a bookmark on a
tab without pages (`KneeboardView.cpp`: "Should be impossible") and using a view
without a current tab while the list is empty; both follow a null pointer or
take the front of an empty list, `crashed`. `SetCurrentTab()` sets the page on
the view that is active, not on the one it was asked for, as the code does.

A source changes its pages to any other list (`ChangeContent`): pages that stay
keep their ids and may change their order, as `SetPages()` of the JavaScript API
lets web pages do; a page that is added has an id that no view and no bookmark
of the tab has (`Fresh`), since no source gives out an id again.

Abstractions: ids of pages are per tab; `Changing` bounds the tabs whose pages
change; sub-views for navigation are one mode (`nav`); rendering,
cursors and the preview in the window are left out.

### FolderSource: folders that change

`disk` and `present` are the folder, `watched` and `signalled` the watcher's
thread, `events` its events on the way to the UI thread, `scans` the coroutines
of `OnFileModified()` (with its iterator, `newContents` and `modifiedOrNew`) and
of `SetDelegates()`, `contents` and `delegates` mContents and mDelegates.
`FilePageSource::Create()` yields a source or null (`Opened`, `Refused`: the file is
not one any more, its type is unknown, or it is an image that cannot be opened
while it is written); a file that was refused is skipped, and `refused` are those
of the last scan that ended. `DisposeAsync()` holds no `EventDelay` over its
`SetDelegates()`, the end of a scan does (`"disposing"`, `"setting"`). `crashed` is a
scan that resumes after its source was freed: `OnFileModified()` keeps nothing
alive.

Three variables are for the properties only. A coroutine is in `alone` while no
other one has run since it started; `spoiled` says that the last one to change
or to confirm the delegates was not; `refused` is above. Scans overlap freely,
and what they leave is put right by the next one that runs alone and finds a
change; the properties are about what such a one leaves. A reload without the
folder, which keeps mContents, so that a later scan finds "no actual change",
and the disposal of the tab count as not alone.

Abstractions: a directory iterator sees each entry when it comes to it; that it
may throw is left out; a file that is written is a change of the folder with the
same files. The making of the pages of an image never suspends in the code; in
the model that of any file may, which allows more interleavings.

## Runs

Every run disables TLC's deadlock check: bounds on frames, resources, tasks,
emissions and inputs end behaviours, and the programs really stop (the feeder
quits, all tasks are done, the app ends, `fatal()`, a null pointer). That nothing
stops which should not is what the liveness properties say.

| Run | Instance | Shows |
|---|---|---|
| `shm_feed` | 1 reader, 2 slots, 3 frames, 1 resize, 2 queued copies | `TypeOK`, `FencedRead`, `Fresh`, `HeaderNamesSlot`, `FrameReady`, `HandlesFollowSession` |
| `shm_faults` | 1 reader, 1 fault of quit, feeder crash, reader crash | `LockDiscipline`, `FramesAdvance` |
| `shm_live` | 1 reader, 2 frames, 1 resize, fair | `CallsReturn`, `HideTakesEffect` |
| `shm_race` | no faults | violates `NoTextureRace` |
| `task_handshake` | 2 `task<T>`, 1 `fire_and_forget`, fair | `TypeOK`, `Handshake`, `FreedWhenDone`, `AwaitedToCompletion`, `ReturnsToThread`, `CallerProceeds`, `Reclaimed` |
| `task_assert` | one of each | violates `NoAssertFailure` |
| `exit_latches` | 2 threads, 2 emissions, 1 listener, 1 block, delays nested twice, fair | `TypeOK`, `CountsHold`, `EventsAreOver`, `BlocksAreOver`, `NoCallAfterRemoval`, `QueuedIsDelivered`, `ExitCompletes` |
| `kneeboard` | 2 profiles with 1 and 2 views, 1 page and the queue, which may switch at the same time, 3 inputs, fair | `TypeOK`, `ProfileIsolation`, `Restartable`, `Settled`, `QueueDrains`, `SavingResumes`, `ShutdownEnds` |
| `kb_view_count` | the same | violates `ViewsMatch` |
| `views` | 2 tabs, the pages of 1 change, 2 views, 2 calls of `SetTabs()`, 3 pages, 4 inputs, fair | `TypeOK`, `PagesExist`, `BookmarksInOrder`, `NearestBookmark`, `ViewsShowTabs`, `GazeGetsFocus` |
| `folder` | 3 files, 1 of them HTML, 2 scans, 3 changes, fair | `ShowsFolder`, `KeepsPages`, `FolderSettles` |
| `folder_kept` | 2 files, 1 of them HTML, 2 scans, 3 changes | violates `KeptAreAlive` |

Twelve more configurations are kept beside the runs. Each checks one property that
the code violates there; they are for whoever changes that code:

| Configuration | Violates | Because |
|---|---|---|
| `MCSHM_clean_start.cfg` | `CleanStart` | a session reset between the reader's unlocked and its locked check drops the handles but not the objects opened from them |
| `MCSHM_restart.cfg` | `HandlesFollowSession` | the feeder dies, and the next one resets the header without the lock, between a reader's look at its handles and its snapshot |
| `MCSHM_abandoned.cfg` | `FrameReady` | a reader dies with the lock, and the header that is reset promises fence values that the textures passed long ago |
| `MCTask_exception.cfg` | `ExceptionsPropagate` | `await_resume()` is `noexcept` and rethrows |
| `MCAppExit_reuse.cfg` | `BlocksShutdown` | emissions after the shutdown signal a closed handle, whose number may by then be that of the event the blocks wait for |
| `MCAppExit_recursive.cfg` | `NotRecursive` | handlers that emit run handlers inside themselves |
| `MCKneeboardState_mixed.cfg` | `NeverMixed` | the end of one profile switch enables saving while another one is half done (see Findings) |
| `MCKneeboardState_no_view.cfg` | `AlwaysAView` | the default profile's views are reset to an empty list |
| `MCViews_lost.cfg` | `NoTabLost` | a suspended `SetTabs()` assigns its own list over what another call has set meanwhile |
| `MCViews_reordered.cfg` | `AlwaysInOrder` | a web page reorders its pages, and nothing sorts the bookmarks |
| `MCViews_unmarked.cfg` | `NextFromUnmarked` | from a tab without bookmarks, next finds none although a later tab has some |
| `MCFolderSource_overlap.cfg` | `AlwaysShowsFolder` | of two scans that overlap the older one ends last and replaces what the newer one found |

Why the bounds are enough to be interesting:

- *Feed.* Readers meet only through the mutex, and only one at a time is in it,
  so one reader and the feeder already interleave in every way; the theorems
  hold for any number. Three frames wrap the swapchain of two slots around, so
  that a slot is used again; four resources are two swapchains, which a resize
  needs; two queued copies let the reader's CPU run ahead of its GPU.
- Crashes are checked apart from the properties of frames because those do not
  hold after all of them. When a reader dies with the lock, the next owner of the
  mutex resets the fence values in the header while the fences themselves are
  higher, and `FrameReady` and `FencedRead` are lost. When the feeder dies, the next
  one resets the header under a reader's lock, and `HandlesFollowSession` is
  lost. The theorems of SHMFrames_proofs say what holds after the other faults.
  Nothing in the repository claims that the feed survives these, so they are
  hazards and not findings.
- *Tasks.* Two `task<T>` can be held at once, one of them dropped while the
  other is awaited; a third does not add another relation, since the caller is
  busy with one at a time (`Serialized` in Task_proofs).
- *Exit.* Two emissions are enough to nest, to be queued behind each other and
  to have one late on another thread; two levels of delay are enough for an
  inner one to end without a flush. That there are finitely many emissions is a
  restriction for liveness: with endless overlapping late emissions the count
  could stay above zero for ever.
- *Kneeboard.* The default profile and one that inherits from it, with
  different numbers of views, are all the relations two profiles can have.
  Three inputs are a switch with an edit inside it and a third of any kind; the
  queue, the page, the dialog and the reset are suspended at the same time.
  Two switches overlap in these bounds, and each property is checked with them;
  that `NeverMixed`, which is `ProfileIsolation` without its exception, fails in
  the same instance shows that they matter.
- *Views.* Two tabs and two views are the least that swap, cycle and disagree;
  on three pages a bookmark can be before, between and after others, and pages
  can be inserted before the current one. Four inputs are enough for a change
  of pages or tabs, a late event and two user actions in between, or for two
  calls of `SetTabs()` and a change of the views between their ends. The pages of
  the other tab do not change, which steps from tab to tab do not need.
- *Folder.* Three files give a scan something before, at and after the file it
  awaits; only web pages have asynchronous disposal; two scans overlap, and a
  third change lets one run alone after them, or removes and re-creates the
  folder.

### Fairness

- *Feed.* The frame timer ticks, a game finishes a call it has begun, GPUs
  finish what is queued (weak fairness); the kernel queues the waiters of a
  mutex (strong fairness on taking it). No game has to call, and no view has to
  be shown.
- *Tasks.* What a body waits for happens, bodies end (strong, since they may
  suspend again and again), the UI thread serves its messages.
- *Exit.* Threads make progress (weak); handlers return, and scopes of
  `EventDelay` end (strong, at each depth: `DelayEnds` is enabled again and
  again while handlers run). Without the assumption at each depth TLC finds
  overlapping delays that keep a queue from ever being flushed.
- *Kneeboard.* What is awaited completes and the UI thread gets to it, frames
  tick, and the steps of a shutdown that has begun go on (weak). Handling the
  head of the queue is strong: a slow frame has no time for its queue, but not
  all of them are slow. Nobody has to answer a dialog.
- *Views.* Delays end and queued events are handled, `SetTabs()` ends, frames
  go on (weak). The user need do nothing.
- *Folder.* The watcher's thread and the scans go on (weak); files need not
  change, and tabs need not be removed.

### Findings

The violated properties quote what the code, a comment or a header says:

- `NoTextureRace`: the lock protects the queueing of copies, not the copies.
- `NoAssertFailure`: `await_suspend()` overwrites "completed" when the body
  ends on another thread after `await_ready()`.
- `ViewsMatch`: a repaint during a profile switch finds the new number of view
  settings and the old number of views, and `GetViewRenderInfo()` is fatal.
- `KeptAreAlive`: `SetDelegates()` disposes of every delegate it had, of those
  it gets again as well.

One more contradicts a comment and is kept as a configuration: `NeverMixed`.
Before its first await `SetProfileSettings()` says "Avoid partially overwriting
the new profile with the old profile" (KneeboardState.cpp:761) and has
`mSaveSettingsEnabled` false. When the queue's `SwitchProfile` and the settings
page overlap, the end of the first switch sets it to true while the second one
has the new `mSettings` and the old lists, and the next save writes those to the
new profile (`MCKneeboardState_mixed.cfg`).

## Proofs

All of them are for arbitrary constants under the named assumptions
`SHMAssumption`, `TaskAssumption`, `AppExitAssumption`, `ProfilesAssumption`,
`KneeboardAssumption`, `ViewsAssumption` and `FolderAssumption` (names differ,
bounds are naturals, sets of emissions, blocks, pages, tabs and files are
finite, the first lists are not empty).

- **SHM_proofs.** `TypeCorrect` is inductive by itself, action by action, on
  top of lemmas about the record operators (`UpdatedImplType`, `CachedType`,
  ...). `LockSafe`: `LockDiscipline` is inductive given the types.
  `SlotsAgree`: `HeaderNamesSlot` needs `DrawnIsNamed`, that while the feeder
  has drawn a frame and not yet submitted it (`wpc = "drawn"`), the slot of the
  next frame number holds a texture. `FramesOnlyAdvance` is an action property
  from the types alone.
- **SHMFrames_proofs.** `SnapshotsFresh` holds for all faults. Its invariant is
  per call (`CallInv`): what is published is never older than when the call
  began, the key names something that was published since (`KeyBegun`,
  `KeyPublished`), a cached snapshot is as new as its key (`CacheAsNewAsKey`),
  and a session keeps its feeder (`FeederSeen`); `FeedAdvances` is what any step
  of anyone does to it. The other
  theorems say which faults of the environment the textures survive. Fence
  values start again with every header, so it matters who resets the header
  while the textures stay.

  | Theorem | States | Excludes |
  |---|---|---|
  | `FenceMeansFrame` | `FrameReady` | a reader that dies with the lock (`ReadersSurvive`) |
  | `HandlesAreTheSessions` | `HandlesFollowSession` | a feeder that dies (`FeederSurvives`) |
  | `CopiesAreFenced` | `FencedRead` | a reader that dies with the lock (`ReadersSurvive`) |

  The exclusions are needed: `MCSHM_abandoned.cfg` is
  `FrameReady` with a reader that dies, `MCSHM_restart.cfg` is
  `HandlesFollowSession` with a feeder that dies and another that starts, whose
  constructor resets the header without the lock. Handle numbers may be used
  again in all of them; a copy whose handle has become another texture's is not
  what `FencedRead` is about (`MCSHM_clean_start.cfg` has it).

  The invariant (`DrawInv`) says that the fence value of a slot bounds what its
  texture's fence has and will reach (`FencesBounded`) and that frames are drawn
  in their order (`DrawnInOrder`), so that what a texture delivers at a fence
  value (`Delivers`) is promised for good once it is promised to the header or
  to a queued copy (`CopiesInv`). For feeders that end it needs three facts: a
  feeder that is between two sessions of its own has no textures
  (`BareBetween`), a mutex that is abandoned was the feeder's and its textures
  went with it (`Orphaned`), and a feeder that ends in order leaves an empty
  header (`EndsEmpty`, by which it may start again at any time). A reader's
  handles are the feeder's textures of the same slots, or the header has moved
  on (`HandlesInv`). For copies it is enough what a reader with the lock has just
  chosen: its handle for this slot is the header's texture, or a feeder has
  started meanwhile and the header has no frame (`ChosenInv`), in which case the
  snapshot describes none.
- **Task_proofs.** `IInv` adds `Serialized` (the caller is busy with one task at
  a time; who runs on the UI thread has it alone) to `Handshake`, which says for
  each value of `mWaiting` how far both sides are. `FreesAreSafe`,
  `AwaitedTasksComplete` and `CallerKeepsThread` follow from it. `NoAssertFailure`
  is not provable, as the run shows; after the failure the model stops, like
  the program.
- **AppExit_proofs.** The core is `EventCountOK`: the atomic is the number of
  counted emissions plus the initial 1 while `Shutdown()` has not taken it, and
  the same for blocks. Whoever takes the count to zero is then the only one
  left (`LastIsQuiet`, `BaseIsQuiet`, `LastBlockIsQuiet`), and nothing comes
  alive after that (`QuietStays`), which needs that queues hold only queued
  emissions, once each (`QueuesOK`). From `IInv`: `TypeCorrect` (no unsigned
  count wraps), `CountsNeverEarly`, and the refinement `EventsLatchHolds`.
  `BlocksLatchHolds` needs the invariant `HandlesInv`, which keeps the two events
  apart unless their numbers are the same. `RemovedAreNotCalled` is an
  action property: a listener is removed together with its handler, so that an
  emission's copy of the receivers finds nothing to call.
- **KneeboardState_proofs.** The inductive invariant relates `delay` to the set
  of coroutines that hold an `EventDelay` (a count of a finite set, one lemma
  for a coroutine that joins and one for one that leaves), `saveEnabled` and the
  views to whether a switch is suspended. `SettledAfterAwaits` is its case
  without coroutines. `ProfilesIsolated` rests on
  `Apart`: if the active profile was not asked for during another switch
  (`rushed`), at most one switch is suspended, what is in memory was made under
  the active profile or the default one, except while a switch is suspended, and
  then saving is forbidden (`Isolation`). A switch that is begun alone
  re-establishes that from the files, and `Save` and `Load` keep owners apart
  (lemmas about the operators of `Settings`). `RestartsTheSame` has no exception,
  although switches that overlap may save the lists of the wrong profile:
  while saving is forbidden nothing is written, so the switch that was
  begun last still carries what is on disk (`Carried`), and one that ends while
  saving is allowed saves what it leaves. Otherwise memory is what is on disk
  unless something waits to be saved (`Restored`); it rests on `Load` giving
  back what `Save` was given.
- **Views_proofs.** `IInv` is `TypeOK` and four named parts: `CurrentShown` (a
  view's current tab is one it shows), `Unlisted` (views outside the kneeboard
  show nothing), `Told` (a view shows the list there is, or an event of the
  change is on its way), `OnPages` (a view is on a page of its tab, or an event
  of the tab is on its way). `TabsShown` and `PagesShownExist` follow. The
  queue of events is why: removing its head keeps whatever its tail still
  promises. `PagesShownExist` adds
  `MarksInv`: no page of a tab has two bookmarks, and those whose page has gone
  are removed by the event that is on its way. `BookmarksOrdered` is an action
  property: whatever the order of the pages, the insertion and the removals keep
  bookmarks that are in order (`Ordered`), and a source that keeps the order of
  the pages that stay leaves them so. `BookmarksNearest` compares pages of
  different tabs by one number (`Position`): the list that `Step` walks holds the
  tabs of a view one after the other; what it finds lies on its side of the page
  (`StepIs`), and if bookmarks are in order the list rises in `Position`
  (`MarksRise`), so that the first entry on the other side is the nearest one.
  From a tab without bookmarks, which the property leaves out, the code finds no
  next one, and the last of all as the previous one.
- **OrderLemmas.** Least and greatest elements of sets of numbers, what a
  function that is defined by recursion up to some number satisfies
  (`Recursion`), and rising sequences and their concatenation. Each is
  proved by its least counterexample, since the induction theorems of the library
  take an operator. For the same reason `Views` selects from a sequence with
  its own recursive function (`Kept`): what the library's operator computes
  cannot be proved.
- **FolderSource_proofs.** `Inv` is `TypeOK` and four named parts, for any number
  of scans that overlap: no list has a file twice (`Distinct`); a coroutine in
  `alone` is the only one that runs, has found entries of `contents` and new ones
  in order, and will assign what `contents` says (`Alone`); delegates are
  `contents` when the last to set them was alone and none is being set (`Shown`);
  and once every change has been told, what such a coroutine has found is the
  part of the folder behind its iterator, and `contents` the folder, but for
  the refused files (`UpToDate`). `FolderShown` is the last two without a
  coroutine. `PagesKept` needs that a scan takes known files from `contents`.

Only model-checked: all liveness (`CallsReturn`, `HideTakesEffect`,
`CallerProceeds`, `Reclaimed`, `QueuedIsDelivered`, `ExitCompletes`,
`QueueDrains`, `SavingResumes`, `ShutdownEnds`, `GazeGetsFocus`,
`FolderSettles`), which needs fairness and ENABLED and is out of the prover's
reach.

## Not modelled

- *Consumers* (VRKneeboard, OpenXR, Oculus, SteamVR): geometry and calls into
  runtimes that are not here. Their one ordering hazard, a second snapshot after
  the swapchain was made for the first (OpenXRKneeboard.cpp:267), is listed.
- *D3D12 and Vulkan copies* follow the D3D11 copier that `SHM` models.
- *Profile creation and removal* (ProfilesPage.xaml.cpp): `mProfiles` is fixed
  in the model. A reader of the code should look at RemoveProfile(), which under
  "Actually erase the settings" saves the default profile's settings as those of
  the *active* profile of a copy made before the dialog.
- *Settings*: JSON, App.json and what no profile owns, and migrations other than
  the one that is done whenever there is no view.
- *Page sources*: decoding of PDFs, images, text; web and window capture
  (protocols with code outside the repository); the watcher of a single file.
  In *views*, `RemoveBookmark()` of a given bookmark, drawing and cursors.
- *Event system*: forwarding to another event is a handler that emits;
  multi-events, `EnqueueForContext()` and the threads that receive API events
  are left out.
- *Hooks, injection, games, input devices, toolbar, settings pages, utilities*:
  patching of other processes, device protocols, user interface; what they post
  is an input of the models above.
- What a profile switch that is still suspended does to a kneeboard that has
  been released, and the bytes of pixels, poses and sizes.

`PROJECT.json`, "components", gives the reason for each part.

## Plan

1. Profile creation and removal in `KneeboardState`, with the list of profiles
   as state.
2. `Consumers`: the frame loops of the OpenXR, Oculus and SteamVR consumers over
   an abstract feed that `SHM` implements, and `ActiveConsumers`.
3. Games and injection; the watcher of a single file.
