---------------------------- MODULE KneeboardState ----------------------------
(***************************************************************************)
(* KneeboardState and its callers on the UI thread: the frame loop with the *)
(* queue of ordered events, the coroutines that switch profiles and change  *)
(* tabs, the settings pages, and the shutdown.  Everything runs on one      *)
(* thread; an action is what runs between two awaits.  The kneeboard's lock *)
(* is a std::shared_mutex: to wait for one that a suspended coroutine of    *)
(* the same thread holds is to wait for ever.                               *)
(***************************************************************************)
EXTENDS Settings, Sequences, FiniteSets

CONSTANTS
  Pages,      \* the handlers of the window that switch profiles
  Queue,      \* the coroutine of the ordered event that is being handled
  Remove,     \* TabsSettingsPage::RemoveTab()
  Reset,      \* TabsSettingsPage::RestoreDefaults()
  ViewCount,  \* how many views the profiles have
  MaxInputs   \* bound: what the user does

Switchers == Pages \union {Queue}
Coroutines == Switchers \union {Remove, Reset}
Requests == {"profile", "tint", "bookmark"}

ASSUME KneeboardAssumption ==
  /\ Queue \notin Pages /\ Remove \notin Switchers /\ Reset \notin Switchers
  /\ Remove # Reset /\ IsFiniteSet(Pages)
  /\ ViewCount \in [Profiles -> Nat \ {0}]
  /\ MaxInputs \in Nat

VARIABLES
  active,        \* mProfiles.mActiveProfile
  settings,      \* mSettings, but for the lists, which are saved as they are in
  tabs, games,   \*   TabsList and GamesList
  views,         \* the settings mViews was made from
  files,         \* the settings on disk
  saveEnabled,   \* mSaveSettingsEnabled
  delay,         \* how many EventDelays of suspended coroutines exist
  liveChanged,   \* an evSettingsChangedEvent of a list waits for their end
  needsRepaint,  \* mNeedsRepaint
  queue,         \* mOrderedEventQueue
  loop,          \* where the frame loop is
  at,            \* where the coroutines are
  local,         \* the settings they carry across their awaits
  rushed,        \* the profiles asked for while another switch was suspended
  shutdown,      \* how far MainWindow::Shutdown() is
  ui,            \* whether the UI thread runs, or what has ended it
  inputs,        \* how often the user did something
  missed         \* memory has changed while it was not to be saved

memory == <<active, settings, tabs, games, views>>
disk == <<files, saveEnabled, missed>>
events == <<delay, liveChanged>>
frame == <<needsRepaint, queue, loop>>
coros == <<at, local, rushed>>
vars == <<memory, disk, events, frame, coros, shutdown, ui, inputs>>

Memory ==
  [s \in Sections |->
     IF s = "Tabs" THEN tabs ELSE IF s = "Games" THEN games ELSE settings[s]]

Own == Sections \ Whole

Init ==
  /\ active \in Profiles
  /\ files \in {f \in [Profiles -> {[s \in Sections |-> Absent]}
                         \union {[s \in Sections |-> [by |-> p, rev |-> 0]] : p \in Profiles}] :
                  \A p \in Profiles, s \in Sections : f[p][s] \in {Absent, [by |-> p, rev |-> 0]}}
  /\ settings = [s \in Own |-> Load(files, active)[s]]
  /\ tabs = Live(Load(files, active).Tabs) /\ games = Live(Load(files, active).Games)
  /\ views = settings.Views
  /\ saveEnabled = TRUE /\ missed = FALSE
  /\ delay = 0 /\ liveChanged = FALSE
  /\ needsRepaint = TRUE /\ queue = <<>> /\ loop = "wait"
  /\ at = [c \in Coroutines |-> "idle"]
  /\ local = [c \in Coroutines |-> Initial] /\ rushed = {}
  /\ shutdown = "no" /\ ui = "runs" /\ inputs = 0

-------------------------------------------------------------------------------
(* Whoever removes a tab keeps the shared lock, the dialog included; the    *)
(* lock of SetTabsSettings() is exclusive.                                  *)
CanShare == at[Reset] = "idle"
CanOwn == at[Reset] = "idle" /\ at[Remove] = "idle"

Blocks ==
  /\ ui' = "blocked"
  /\ UNCHANGED <<memory, disk, events, frame, coros, shutdown>>

Crashes(why) ==
  /\ ui' = why
  /\ UNCHANGED <<memory, disk, events, frame, coros, shutdown>>

Switching == \E c \in Switchers : at[c] # "idle"

(* Who made a list: during a switch it may still be the old profile's. *)
Owner(value) == IF Switching THEN value.by ELSE active

Changed(owner, value) ==
  [by |-> owner, rev |-> IF value = [by |-> owner, rev |-> 0] THEN 1 ELSE 0]

(* Mutant: the files are written whether or not saving is enabled. *)
Stored_Always(enabled, stored, value) == Save(stored, active, value)

(* SaveSettings(), which takes the lists from their owners. *)
Stored(enabled, stored, value) ==
  IF enabled THEN Save(stored, active, value) ELSE stored

(* SaveSettings() of what an action leaves in memory. *)
SaveSettings ==
  /\ files' = Stored(saveEnabled, files, Memory')
  /\ missed' = ~saveEnabled

(* The emissions of a list: its handler is SaveSettings().  The handlers    *)
(* have gone when the event system has been shut down.                      *)
EventsOpen == shutdown \in {"no", "loop"}

EmitLive ==
  IF delay = 0 /\ EventsOpen
    THEN /\ SaveSettings
         /\ needsRepaint' = (needsRepaint \/ saveEnabled)
         /\ UNCHANGED <<liveChanged, saveEnabled>>
    ELSE /\ liveChanged' = (liveChanged \/ EventsOpen) /\ missed' = TRUE
         /\ UNCHANGED <<files, saveEnabled, needsRepaint>>

-------------------------------------------------------------------------------
Rushed(p) == IF Switching THEN rushed \union {p} ELSE rushed

(* Mutant: the EventDelay of SetProfileSettings() ends at the first await. *)
StartSwitch_NoDelay(c, p) ==
  /\ at[c] = "idle" /\ CanOwn /\ p # active
  /\ rushed' = Rushed(p)
  /\ active' = p
  /\ settings' = [s \in Own |-> Load(files, p)[s]]
  /\ local' = [local EXCEPT ![c] = Load(files, p)]
  /\ at' = [at EXCEPT ![c] = "loading"]
  /\ saveEnabled' = FALSE
  /\ UNCHANGED <<tabs, games, views, files, missed, events, needsRepaint, loop, shutdown, ui>>

(* Mutant: nothing enables saving again when the profile is the same. *)
StartSwitch_Early(c, p) ==
  /\ at[c] = "idle" /\ CanOwn /\ p = active
  /\ saveEnabled' = FALSE /\ rushed' = Rushed(p)
  /\ UNCHANGED <<memory, files, missed, events, needsRepaint, loop, at, local, shutdown, ui>>

(* SetProfileSettings(), up to its first await.  Nothing keeps a page, or   *)
(* an event of the queue, from switching while another one is suspended.    *)
StartSwitch(c, p) ==
  /\ at[c] = "idle"
  /\ \/ ~CanOwn /\ Blocks
     \/ /\ CanOwn /\ p = active
        /\ saveEnabled' = TRUE /\ rushed' = Rushed(p)
        /\ UNCHANGED <<memory, files, missed, events, needsRepaint, loop, at, local>>
        /\ UNCHANGED <<shutdown, ui>>
     \/ /\ CanOwn /\ p # active
        /\ active' = p
        /\ settings' = [s \in Own |-> Load(files, p)[s]]
        /\ local' = [local EXCEPT ![c] = Load(files, p)]
        /\ at' = [at EXCEPT ![c] = "loading"]
        /\ saveEnabled' = FALSE /\ delay' = delay + 1 /\ rushed' = Rushed(p)
        /\ UNCHANGED <<tabs, games, views, files, missed, liveChanged>>
        /\ UNCHANGED <<needsRepaint, loop, shutdown, ui>>

(* TabsList::LoadSettings() has its tabs; SetTabs() disposes of the old ones. *)
TabsLoaded(c) ==
  /\ at[c] = "loading" /\ tabs # NoTabs
  /\ at' = [at EXCEPT ![c] = "disposing"]
  /\ tabs' = NoTabs
  /\ UNCHANGED <<active, settings, games, views, disk, events, frame, local, rushed>>
  /\ UNCHANGED <<shutdown, ui, inputs>>

Disposed(c) == at[c] = "disposing" \/ (at[c] = "loading" /\ tabs = NoTabs)

(* Mutant: mGamesList->LoadSettings() is forgotten. *)
FinishSwitch_KeepsGames(c) ==
  LET loaded == [Memory EXCEPT !.Tabs = Live(local[c].Tabs), !.Views = local[c].Views]
  IN  /\ Disposed(c) /\ CanOwn /\ shutdown = "no"
      /\ tabs' = loaded.Tabs /\ views' = loaded.Views
      /\ settings' = [settings EXCEPT !.Views = loaded.Views]
      /\ files' = Stored(saveEnabled, files, loaded)
      /\ at' = [at EXCEPT ![c] = "idle"] /\ local' = [local EXCEPT ![c] = Initial]
      /\ saveEnabled' = TRUE /\ needsRepaint' = TRUE
      /\ delay' = delay - 1 /\ liveChanged' = (delay > 1)
      /\ UNCHANGED <<active, games, missed, queue, loop, rushed, shutdown, ui, inputs>>

(* The rest of SetProfileSettings(): a save after the views and one after   *)
(* the games, the events that were delayed, and saving is enabled again.    *)
(* The input adapters have gone once the shutdown has begun.                *)
FinishSwitch(c) ==
  LET shown == [Memory EXCEPT !.Tabs = Live(local[c].Tabs), !.Views = local[c].Views]
      all == [shown EXCEPT !.Games = Live(local[c].Games)]
  IN  /\ Disposed(c)
      /\ \/ ~CanOwn /\ Blocks
         \/ CanOwn /\ shutdown # "no" /\ Crashes("nullInput")
         \/ /\ CanOwn /\ shutdown = "no"
            /\ tabs' = all.Tabs /\ games' = all.Games /\ views' = all.Views
            /\ settings' = [settings EXCEPT !.Views = all.Views]
            /\ files' = Stored(saveEnabled, Stored(saveEnabled, files, shown), all)
            /\ at' = [at EXCEPT ![c] = "idle"] /\ local' = [local EXCEPT ![c] = Initial]
            /\ saveEnabled' = TRUE /\ needsRepaint' = TRUE
            /\ delay' = delay - 1 /\ liveChanged' = (delay > 1)
            /\ UNCHANGED <<active, missed, queue, loop, rushed, shutdown, ui>>
      /\ UNCHANGED inputs

-------------------------------------------------------------------------------
(* What the user does.  Everything but the shutdown is bounded together. *)
Input == shutdown = "no" /\ inputs < MaxInputs /\ inputs' = inputs + 1

SwitchFromPage(c, p) == Input /\ StartSwitch(c, p) /\ UNCHANGED queue

(* Mutant: InitializeViews() is forgotten. *)
SetSection_NoViews(s, value, stored) ==
  /\ CanOwn
  /\ settings' = [settings EXCEPT ![s] = value]
  /\ UNCHANGED <<active, tabs, games, views>>
  /\ files' = Stored(saveEnabled, stored, Memory')
  /\ missed' = ~saveEnabled /\ needsRepaint' = TRUE
  /\ UNCHANGED <<saveEnabled, events, queue, loop, coros, shutdown, ui>>

(* SetUISettings(), SetViewsSettings() and ResetUISettings(), ...  Without  *)
(* a view, mInputViewIndex wraps around; the window's handler, which looks  *)
(* up the active view once events are not delayed any more, throws.         *)
SetSection(s, value, stored) ==
  \/ ~CanOwn /\ Blocks
  \/ /\ CanOwn
     /\ settings' = [settings EXCEPT ![s] = value]
     /\ views' = IF s = "Views" THEN value ELSE views
     /\ UNCHANGED <<active, tabs, games>>
     /\ files' = Stored(saveEnabled, stored, Memory')
     /\ missed' = ~saveEnabled /\ needsRepaint' = TRUE
     /\ ui' = IF views' = NoViews /\ delay = 0 THEN "noView" ELSE ui
     /\ UNCHANGED <<saveEnabled, events, queue, loop, coros, shutdown>>

EditSection(s) == Input /\ SetSection(s, Changed(active, settings[s]), files)

ResetSection(s) ==
  Input /\ SetSection(s, Parent(files, active)[s], Erased(files, active, s))

EditGames ==
  /\ Input
  /\ \/ ~CanOwn /\ Blocks
     \/ /\ CanOwn
        /\ games' = Changed(Owner(games), games)
        /\ UNCHANGED <<active, settings, tabs, views, delay, queue, loop, coros, shutdown, ui>>
        /\ EmitLive

(* TabsSettingsPage::RemoveTab(): the dialog, the user's answer, and the    *)
(* rest of SetTabs().  The page keeps a tab.                                *)
AskToRemove ==
  /\ Input /\ at[Remove] = "idle" /\ tabs # NoTabs
  /\ \/ ~CanShare /\ Blocks
     \/ /\ CanShare /\ at' = [at EXCEPT ![Remove] = "dialog"]
        /\ UNCHANGED <<memory, disk, events, frame, local, rushed, shutdown, ui>>

RemoveTab ==
  /\ at[Remove] = "dialog"
  /\ \/ /\ tabs # NoTabs
        /\ at' = [at EXCEPT ![Remove] = "disposing"]
        /\ local' = [local EXCEPT ![Remove].Tabs = Changed(Owner(tabs), tabs)]
        /\ tabs' = NoTabs
     \/ /\ at' = [at EXCEPT ![Remove] = "idle"]  \* "No", or the tab is not in the list
        /\ UNCHANGED <<local, tabs>>
  /\ UNCHANGED <<active, settings, games, views, disk, events, frame, rushed>>
  /\ UNCHANGED <<shutdown, ui, inputs>>

FinishRemove ==
  /\ at[Remove] = "disposing"
  /\ at' = [at EXCEPT ![Remove] = "idle"]
  /\ local' = [local EXCEPT ![Remove] = Initial]
  /\ tabs' = local[Remove].Tabs
  /\ UNCHANGED <<active, settings, games, views, delay, queue, loop, rushed, shutdown, ui, inputs>>
  /\ EmitLive

(* ResetTabsSettings(), and SetTabsSettings() around TabsList::LoadSettings(). *)
ResetTabs ==
  /\ Input /\ at[Reset] = "idle"
  /\ \/ ~CanOwn /\ Blocks
     \/ /\ CanOwn
        /\ files' = Erased(files, active, "Tabs")
        /\ local' = [local EXCEPT ![Reset].Tabs = Parent(files, active).Tabs]
        /\ at' = [at EXCEPT ![Reset] = "loading"]
        /\ delay' = delay + 1 /\ missed' = TRUE
        /\ UNCHANGED <<memory, saveEnabled, liveChanged, frame, rushed, shutdown, ui>>

FinishReset ==
  /\ Disposed(Reset)
  /\ at' = [at EXCEPT ![Reset] = "idle"]
  /\ local' = [local EXCEPT ![Reset] = Initial]
  /\ tabs' = Live(local[Reset].Tabs)
  /\ delay' = delay - 1
  /\ UNCHANGED <<active, settings, games, views, saveEnabled>>
  /\ IF delay = 1 /\ EventsOpen
       THEN SaveSettings /\ liveChanged' = FALSE /\ needsRepaint' = TRUE
       ELSE /\ liveChanged' = (delay > 1 /\ (liveChanged \/ EventsOpen))
            /\ UNCHANGED <<files, missed, needsRepaint>>
  /\ UNCHANGED <<queue, loop, rushed, shutdown, ui, inputs>>

(* Something to be painted: the cursor, a page, a doodle. *)
SetRepaintNeeded ==
  /\ ~needsRepaint /\ delay = 0 /\ EventsOpen /\ needsRepaint' = TRUE
  /\ UNCHANGED <<memory, disk, events, queue, loop, coros, shutdown, ui, inputs>>

(* OnAPIEvent() and EnqueueOrderedEvent(). *)
Enqueue(request) ==
  /\ Input /\ queue' = Append(queue, request)
  /\ UNCHANGED <<memory, disk, events, needsRepaint, loop, coros, shutdown, ui>>

-------------------------------------------------------------------------------
(* MainWindow::FrameTick() up to the flush of the queue.  RenderNow() does  *)
(* not suspend; GetViewRenderInfo() wants as many views as settings, and    *)
(* the canvas is for at least one.                                          *)
Count(list) == IF list = NoViews THEN 0 ELSE ViewCount[list.by]
Mismatch == Count(settings.Views) # Count(views)

(* Mutant: the queue is only looked at in frames that paint. *)
FrameTick_Lazy ==
  /\ loop = "wait" /\ shutdown = "no" /\ CanShare
  /\ ~(needsRepaint /\ (Mismatch \/ views = NoViews))
  /\ needsRepaint' = FALSE
  /\ loop' = IF needsRepaint THEN "flush" ELSE "wait"
  /\ UNCHANGED <<memory, disk, events, queue, coros, shutdown, ui, inputs>>

FrameTick ==
  /\ loop = "wait" /\ shutdown = "no"
  /\ \/ ~CanShare /\ Blocks
     \/ CanShare /\ needsRepaint /\ Mismatch /\ Crashes("mismatch")
     \/ CanShare /\ needsRepaint /\ ~Mismatch /\ views = NoViews /\ Crashes("noView")
     \/ /\ CanShare /\ ~(needsRepaint /\ (Mismatch \/ views = NoViews))
        /\ needsRepaint' = FALSE /\ loop' = "flush"
        /\ UNCHANGED <<memory, disk, events, queue, coros, shutdown, ui>>
  /\ UNCHANGED inputs

(* FlushOrderedEventQueue(): the loop waits for the event it handles. *)
Flushing == loop = "flush" /\ at[Queue] = "idle"

HandleProfile ==
  /\ Flushing /\ queue # <<>> /\ Head(queue) = "profile"
  /\ \E p \in Profiles : StartSwitch(Queue, p)
  /\ queue' = IF ui' = "runs" THEN Tail(queue) ELSE queue
  /\ UNCHANGED inputs

(* The tint is changed and saved without the lock, *)
HandleTint ==
  /\ Flushing /\ queue # <<>> /\ Head(queue) = "tint"
  /\ queue' = Tail(queue)
  /\ settings' = [settings EXCEPT !.UI = Changed(active, @)]
  /\ UNCHANGED <<active, tabs, games, views>>
  /\ SaveSettings
  /\ needsRepaint' = (needsRepaint \/ (saveEnabled /\ delay = 0))
  /\ UNCHANGED <<saveEnabled, events, loop, coros, shutdown, ui, inputs>>

(* and a bookmark is added with it. *)
HandleBookmark ==
  /\ Flushing /\ queue # <<>> /\ Head(queue) = "bookmark"
  /\ \/ ~CanOwn /\ Blocks
     \/ CanOwn /\ views = NoViews /\ Crashes("noView")
     \/ /\ CanOwn /\ views # NoViews /\ queue' = Tail(queue)
        /\ UNCHANGED <<memory, disk, events, needsRepaint, loop, coros, shutdown, ui>>
  /\ UNCHANGED inputs

Handle == HandleProfile \/ HandleTint \/ HandleBookmark

(* The queue is empty, or the time of the frame is up. *)
EndFlush ==
  /\ Flushing /\ loop' = "wait"
  /\ UNCHANGED <<memory, disk, events, needsRepaint, queue, coros, shutdown, ui, inputs>>

-------------------------------------------------------------------------------
(* MainWindow::Shutdown(): the window's position is saved, the adapters are *)
(* dropped, the loop is stopped and waited for, *)
Shutdown ==
  /\ shutdown = "no"
  /\ \/ ~CanOwn /\ Blocks
     \/ /\ CanOwn /\ shutdown' = "loop"
        /\ UNCHANGED <<memory, saveEnabled, events, frame, coros, ui>>
        /\ SaveSettings
  /\ UNCHANGED inputs

(* Mutant: the loop is only stopped with an empty queue. *)
LoopStops_Drained ==
  /\ shutdown = "loop" /\ loop = "wait" /\ queue = <<>>
  /\ loop' = "stopped" /\ shutdown' = "events"
  /\ UNCHANGED <<memory, disk, events, needsRepaint, queue, coros, ui, inputs>>

LoopStops ==
  /\ shutdown = "loop" /\ loop = "wait" /\ loop' = "stopped" /\ shutdown' = "events"
  /\ UNCHANGED <<memory, disk, events, needsRepaint, queue, coros, ui, inputs>>

(* the event system is stopped and waited for, *)
EventsStopped ==
  /\ shutdown = "events" /\ ~liveChanged /\ shutdown' = "dispose"
  /\ UNCHANGED <<memory, disk, events, frame, coros, ui, inputs>>

(* and DisposeAsync() waits for the tabs and for a flush.  The kneeboard is *)
(* released then; what a coroutine that is still suspended would do with it *)
(* is not modelled.                                                         *)
DisposeAsync ==
  /\ shutdown = "dispose" /\ loop # "flush" /\ shutdown' = "done"
  /\ UNCHANGED <<memory, disk, events, frame, coros, ui, inputs>>

-------------------------------------------------------------------------------
User ==
  \/ \E c \in Pages, p \in Profiles : SwitchFromPage(c, p)
  \/ \E s \in Own : EditSection(s) \/ ResetSection(s)
  \/ EditGames \/ AskToRemove \/ ResetTabs \/ SetRepaintNeeded
  \/ \E request \in Requests : Enqueue(request)

Resume ==
  \/ \E c \in Switchers : FinishSwitch(c)
  \/ \E c \in Switchers \union {Reset} : TabsLoaded(c)
  \/ FinishRemove \/ FinishReset

Frame == FrameTick \/ Handle \/ EndFlush

Closing == Shutdown \/ LoopStops \/ EventsStopped \/ DisposeAsync

Next ==
  /\ ui = "runs" /\ shutdown # "done"
  /\ User \/ RemoveTab \/ Resume \/ Frame \/ Closing

Spec == Init /\ [][Next]_vars

(* Loads and disposals end and the UI thread gets to what waits for it; a   *)
(* frame comes to its queue in time again and again.  The user need not     *)
(* answer a dialog.                                                         *)
FairSpec ==
  /\ Spec
  /\ WF_vars(ui = "runs" /\ shutdown # "done" /\ Resume)
  /\ WF_vars(ui = "runs" /\ shutdown # "done" /\ (FrameTick \/ EndFlush))
  /\ SF_vars(ui = "runs" /\ shutdown # "done" /\ Handle)
  /\ WF_vars(ui = "runs" /\ (LoopStops \/ EventsStopped \/ DisposeAsync))
-------------------------------------------------------------------------------
(* The variables keep their types, and only what can be made under a        *)
(* profile is in memory.                                                    *)
TypeOK ==
  /\ active \in Profiles /\ settings \in [Own -> Values]
  /\ tabs \in Values /\ games \in Values /\ views \in Values
  /\ files \in FilesType /\ saveEnabled \in BOOLEAN /\ missed \in BOOLEAN
  /\ delay \in 0..Cardinality(Coroutines) /\ liveChanged \in BOOLEAN
  /\ needsRepaint \in BOOLEAN /\ queue \in Seq(Requests)
  /\ loop \in {"wait", "flush", "stopped"}
  /\ at \in [Coroutines -> {"idle", "loading", "disposing", "dialog"}]
  /\ local \in [Coroutines -> SettingsType] /\ rushed \subseteq Profiles
  /\ shutdown \in {"no", "loop", "events", "dispose", "done"}
  /\ ui \in {"runs", "blocked", "nullInput", "mismatch", "noView"}
  /\ inputs \in 0..MaxInputs

(* What is on disk for a profile was made under it or under the default     *)
(* profile it inherits from, whatever is edited or saved while a switch has *)
(* replaced only some of the settings in memory.  Switches that overlap     *)
(* break this (NeverMixed), but only for the profile that was asked for     *)
(* while another switch was suspended, and for all if it is the default.    *)
ProfileIsolation ==
  \A p \in Profiles :
    p \notin rushed /\ Default \notin rushed =>
      \A s \in Sections : files[p][s].by \in {p, Default}

(* "Avoid partially overwriting the new profile with the old profile": what *)
(* is on disk for a profile is never another one's.                         *)
NeverMixed ==
  \A p \in Profiles, s \in Sections : files[p][s].by \in {p, Default}

(* When nothing is suspended the kneeboard could be started again with what *)
(* is on disk and be the same: a switch leaves no list or view of the old   *)
(* profile, and no save loses what another coroutine has put in place.      *)
Quiet == ui = "runs" /\ shutdown = "no" /\ \A c \in Coroutines : at[c] = "idle"

Restartable ==
  Quiet /\ ~missed =>
    \A s \in Sections : Memory[s] = IF s \in Whole THEN Live(Load(files, active)[s])
                                     ELSE Load(files, active)[s]

(* When nothing is suspended, the views are those of the settings, events   *)
(* are not delayed and settings are saved.                                  *)
Settled ==
  Quiet => views = settings.Views /\ delay = 0 /\ ~liveChanged /\ saveEnabled

(* No frame finds another number of views than of view settings, which      *)
(* GetViewRenderInfo() treats as impossible.                                *)
ViewsMatch == ui # "mismatch"

(* Nothing the user does leaves the kneeboard without a view, which those   *)
(* who look up the active one do not expect.                                *)
AlwaysAView == ui # "noView"

(* While the UI thread runs and the app is not closed, what the user or an  *)
(* API client has queued is handled, however slow some of the frames are.   *)
QueueDrains == queue # <<>> ~> (queue = <<>> \/ shutdown # "no" \/ ui # "runs")

(* A list that changed while events were delayed is not forgotten, and a    *)
(* switch that forbids saving ends, unless the kneeboard is released before *)
(* its coroutine is resumed.                                                *)
SavingResumes ==
  ~saveEnabled \/ liveChanged
    ~> (saveEnabled /\ ~liveChanged) \/ shutdown = "done" \/ ui # "runs"

(* A shutdown that does not block ends, with events suspended in the queue  *)
(* or switches in flight.                                                   *)
ShutdownEnds == shutdown = "loop" ~> (shutdown = "done" \/ ui # "runs")
===============================================================================
