-------------------------------- MODULE Views --------------------------------
(***************************************************************************)
(* Tabs and the views that show them: TabsList, the bookmarks of TabBase,   *)
(* TabView, KneeboardView and the views of KneeboardState.  Everything runs *)
(* on the UI thread.  Events may be delayed by an EventDelay of a coroutine *)
(* that is suspended, so that the program goes on between a change and its  *)
(* handlers.  A page is known by its PageID.  A source that changes keeps   *)
(* the ids of the pages that stay, in any order: a web page may reorder its *)
(* pages (SetPages() of the JavaScript API); what it adds has a new id.     *)
(***************************************************************************)
EXTENDS Integers, Sequences, FiniteSets, SequencesExt

CONSTANTS
  Tabs, Kneeboards,  \* the tabs and the KneeboardViews there can be
  NoTab, NoKneeboard,
  FirstTabs, FirstViews, \* the lists the settings hold at the start
  Calls,             \* the calls of SetTabs() there can be at a time
  Changing,          \* bound: the tabs whose pages change
  MaxPage,           \* bound: the pages of a tab
  MaxInputs          \* bound: what the user, the games and the sources of pages do

Lists(S) == {s \in BoundedSeq(S, Cardinality(S)) : IsInjective(s)}

ASSUME ViewsAssumption ==
  /\ NoTab \notin Tabs /\ NoKneeboard \notin Kneeboards
  /\ IsFiniteSet(Tabs) /\ IsFiniteSet(Kneeboards) /\ Changing \subseteq Tabs
  /\ FirstTabs \in Lists(Tabs) \ {<<>>} /\ FirstViews \in Lists(Kneeboards) \ {<<>>}
  /\ MaxPage \in Nat \ {0}
  /\ MaxInputs \in Nat

Pages == 1..MaxPage
NoPage == 0

VARIABLES
  tabs,       \* mTabs of TabsList
  change,     \* for each call of SetTabs(): the list it will set, and the
              \* one it disposes of
  pages,      \* GetPageIDs() of each tab
  bookmarks,  \* mBookmarks of each tab
  emitted,    \* evTabsChanged, evContentChanged and evPageAppended to be handled
  kviews,     \* mViews of KneeboardState
  active,     \* mInputViewIndex
  looked,     \* mActiveInGameViewID of ActiveConsumers
  shown,      \* the tabs of mTabViews of each view
  tabView,    \* mTabViews
  current,    \* the tab of mCurrentTabView
  crashed,    \* a null pointer was followed
  inputs

listVars == <<tabs, change>>
tabVars == <<pages, bookmarks>>
viewVars == <<shown, tabView, current>>
focusVars == <<kviews, active, looked>>
vars == <<listVars, tabVars, emitted, focusVars, viewVars, crashed, inputs>>

(* The place of a page in its tab; none is 0. *)
At(t, p) ==
  IF p \in Range(pages[t]) THEN CHOOSE i \in DOMAIN pages[t] : pages[t][i] = p ELSE 0

(* A view of a tab: mKneeboardViewID, mRootTabPage, and mActiveSubTab. *)
TabViews == [owner : Kneeboards \union {NoKneeboard}, page : Pages \union {NoPage},
             index : 0..MaxPage, nav : BOOLEAN]

NoTabView == [owner |-> NoKneeboard, page |-> NoPage, index |-> 0, nav |-> FALSE]

NewTabView(k, t) ==
  [NoTabView EXCEPT !.owner = k, !.page = IF pages[t] = <<>> THEN NoPage ELSE Head(pages[t])]

Idle == [setting |-> FALSE, old |-> <<>>, new |-> <<>>]

Init ==
  /\ tabs = FirstTabs /\ change = [c \in Calls |-> Idle]
  /\ pages = [t \in Tabs |-> IF MaxPage = 1 THEN <<1>> ELSE <<1, 2>>]
  /\ bookmarks = [t \in Tabs |-> <<>>] /\ emitted = <<>>
  /\ kviews = FirstViews
  /\ active = 1 /\ looked = NoKneeboard
  /\ shown = [k \in Kneeboards |-> IF k \in Range(kviews) THEN tabs ELSE <<>>]
  /\ tabView = [k \in Kneeboards |-> [t \in Tabs |->
                  IF t \in Range(shown[k]) THEN NewTabView(k, t) ELSE NoTabView]]
  /\ current = [k \in Kneeboards |-> IF k \in Range(kviews) THEN Head(tabs) ELSE NoTab]
  /\ crashed = FALSE /\ inputs = 0

-------------------------------------------------------------------------------
(* KneeboardView::SetTabs() finds the view of a tab by GetTab(), which is   *)
(* another tab while navigation is on.                                      *)
Keeps(k, t) == t \in Range(shown[k]) /\ ~tabView[k][t].nav

(* Mutant: the current tab is only looked for in the old list. *)
SetTabs_StaleCurrent(K, list) ==
  /\ shown' = [k \in Kneeboards |-> IF k \in K THEN list ELSE <<>>]
  /\ tabView' = [k \in Kneeboards |-> [t \in Tabs |->
       IF k \notin K \/ t \notin Range(list) THEN NoTabView
       ELSE IF shown[k] = list \/ Keeps(k, t) THEN tabView[k][t] ELSE NewTabView(k, t)]]
  /\ current' = [k \in Kneeboards |->
       IF k \notin K \/ list = <<>> THEN NoTab
       ELSE IF current[k] # NoTab THEN current[k] ELSE Head(list)]

SetTabs(K, list) ==
  /\ shown' = [k \in Kneeboards |-> IF k \in K THEN list ELSE <<>>]
  /\ tabView' = [k \in Kneeboards |-> [t \in Tabs |->
       IF k \notin K \/ t \notin Range(list) THEN NoTabView
       ELSE IF shown[k] = list \/ Keeps(k, t) THEN tabView[k][t] ELSE NewTabView(k, t)]]
  /\ current' = [k \in Kneeboards |->
       IF k \notin K \/ list = <<>> THEN NoTab
       ELSE IF shown[k] = list \/ (current[k] \in Range(list) /\ Keeps(k, current[k]))
         THEN current[k] ELSE Head(list)]

(* TabView::SetPageID(), without navigation. *)
Turned(v, t, p) ==
  IF p \in Range(pages[t]) THEN [v EXCEPT !.page = p, !.index = At(t, p) - 1] ELSE v

(* Mutant: a page that has gone stays. *)
ContentChanged_Stale(v, t) ==
  IF pages[t] = <<>> THEN [v EXCEPT !.page = NoPage, !.index = 0]
  ELSE IF v.page = NoPage \/ (v.index = 0 /\ v.page # Head(pages[t]))
    THEN [v EXCEPT !.page = Head(pages[t]), !.index = 0]
  ELSE v

(* TabView::OnTabContentChanged(); a page that stays keeps its old index.   *)
ContentChanged(v, t) ==
  IF pages[t] = <<>> THEN [v EXCEPT !.page = NoPage, !.index = 0]
  ELSE IF v.page \notin Range(pages[t]) \/ (v.index = 0 /\ v.page # Head(pages[t]))
    THEN [v EXCEPT !.page = Head(pages[t]), !.index = 0]
  ELSE v

(* TabView::OnTabPageAppended(): who is on the page before follows. *)
PageAppended(v, t, follow) ==
  IF Len(pages[t]) < 2 \/ v.page = NoPage
    THEN [v EXCEPT !.page = Head(pages[t]), !.index = 0]
  ELSE IF follow /\ v.index = Len(pages[t]) - 2
    THEN [v EXCEPT !.page = Last(pages[t]), !.index = Len(pages[t]) - 1]
  ELSE v

(* GetPageID(), without navigation. *)
PageShown(v, t) ==
  IF v.page = NoPage /\ pages[t] # <<>> THEN Head(pages[t]) ELSE v.page

UpdatedViews(t, Op(_)) ==
  [k \in Kneeboards |->
     IF t \in Range(shown[k]) THEN [tabView[k] EXCEPT ![t] = Op(@)] ELSE tabView[k]]

-------------------------------------------------------------------------------
(* An event of the tab, or of the list, is still to be handled. *)
Pending(t) == \E i \in DOMAIN emitted : emitted[i].tab = t

Input == inputs < MaxInputs /\ inputs' = inputs + 1

(* What the list holds, and what a suspended SetTabs() does. *)
Live ==
  Range(tabs) \union UNION {Range(change[c].old) \union Range(change[c].new) : c \in Calls}

(* The sources.  A page that is added has an id that nothing has.           *)
Fresh(t, p) ==
  /\ p \notin Range(pages[t]) /\ p \notin Range(bookmarks[t])
  /\ \A k \in Kneeboards : tabView[k][t].page # p

ChangeContent(t, new) ==
  /\ Input /\ t \in Live /\ \A p \in Range(new) \ Range(pages[t]) : Fresh(t, p)
  /\ pages' = [pages EXCEPT ![t] = new]
  /\ emitted' = Append(emitted, [event |-> "content", tab |-> t, follow |-> FALSE])
  /\ UNCHANGED <<listVars, bookmarks, focusVars, viewVars, crashed>>

AppendPage(t, follow) ==
  /\ Input /\ t \in Live
  /\ \E p \in Pages : Fresh(t, p) /\ pages' = [pages EXCEPT ![t] = Append(@, p)]
  /\ emitted' = Append(emitted, [event |-> "append", tab |-> t, follow |-> follow])
  /\ UNCHANGED <<listVars, bookmarks, focusVars, viewVars, crashed>>

(* The loop that copies those of a list that are in a set: SelectSeq(), with *)
(* its recursion in view of the proofs.                                     *)
Kept(s, S) ==
  LET kept[i \in 0..Len(s)] ==
        IF i = 0 THEN <<>> ELSE IF s[i] \in S THEN Append(kept[i - 1], s[i]) ELSE kept[i - 1]
  IN  kept[Len(s)]

(* The handlers.  TabBase::OnContentChanged() drops bookmarks. *)
Existing(marks, t) == Kept(marks, Range(pages[t]))

HandleTabs ==
  /\ Head(emitted).event = "tabs"
  /\ SetTabs(Range(kviews), tabs)
  /\ UNCHANGED <<bookmarks, crashed>>

HandleContent ==
  LET t == Head(emitted).tab
      Updated(v) == ContentChanged(v, t)
  IN  /\ Head(emitted).event = "content"
      /\ bookmarks' = [bookmarks EXCEPT ![t] = Existing(@, t)]
      /\ tabView' = UpdatedViews(t, Updated)
      /\ UNCHANGED <<shown, current, crashed>>

(* front() of no pages, if they have gone again, is undefined. *)
HandleAppend ==
  LET t == Head(emitted).tab
      Updated(v) == PageAppended(v, t, Head(emitted).follow)
  IN  /\ Head(emitted).event = "append"
      /\ IF pages[t] = <<>> /\ \E k \in Kneeboards : t \in Range(shown[k])
           THEN crashed' = TRUE /\ UNCHANGED tabView
           ELSE crashed' = crashed /\ tabView' = UpdatedViews(t, Updated)
      /\ UNCHANGED <<bookmarks, shown, current>>

HandleEvent ==
  /\ emitted # <<>> /\ emitted' = Tail(emitted)
  /\ HandleTabs \/ HandleContent \/ HandleAppend
  /\ UNCHANGED <<listVars, pages, focusVars, inputs>>

-------------------------------------------------------------------------------
(* TabsList::SetTabs(): if some of the old tabs have to be disposed of, the *)
(* list is empty until they are, and there may be other calls in between.   *)
(* A tab that joins the list is new: no view has it, no event is from it.   *)
TabsChanged == Append(emitted, [event |-> "tabs", tab |-> NoTab, follow |-> FALSE])

StartSetTabs(c, list) ==
  /\ Input /\ ~change[c].setting /\ list # tabs
  /\ \A t \in Range(list) \ Live :
       ~Pending(t) /\ \A k \in Kneeboards : t \notin Range(shown[k])
  /\ IF Range(tabs) \subseteq Range(list)
       THEN tabs' = list /\ emitted' = TabsChanged /\ UNCHANGED change
       ELSE /\ change' = [change EXCEPT ![c] = [setting |-> TRUE, old |-> tabs, new |-> list]]
            /\ tabs' = <<>> /\ UNCHANGED emitted
  /\ UNCHANGED <<tabVars, focusVars, viewVars, crashed>>

(* The list it was called with replaces whatever is in the list by now.     *)
FinishSetTabs(c) ==
  /\ change[c].setting
  /\ change' = [change EXCEPT ![c] = Idle] /\ tabs' = change[c].new
  /\ bookmarks' = [t \in Tabs |-> IF t \in Live' THEN bookmarks[t] ELSE <<>>]
  /\ emitted' = TabsChanged
  /\ UNCHANGED <<pages, focusVars, viewVars, crashed, inputs>>

(* KneeboardState::InitializeViews(). *)
(* Mutant: mInputViewIndex stays where it is. *)
InitializeViews_KeepsIndex(list) ==
  /\ kviews' = list /\ active' = active
  /\ SetTabs(Range(list), tabs)

InitializeViews(list) ==
  /\ kviews' = list /\ active' = IF active > Len(list) THEN Len(list) ELSE active
  /\ SetTabs(Range(list), tabs)

SetViewsSettings(list) ==
  /\ Input /\ InitializeViews(list)
  /\ UNCHANGED <<listVars, tabVars, emitted, looked, crashed>>

(* SetVRSettings() with another choice of gaze input focus. *)
ToggleGaze ==
  /\ Input /\ active' = 1
  /\ UNCHANGED <<listVars, tabVars, emitted, kviews, looked, viewVars, crashed>>

-------------------------------------------------------------------------------
(* User actions of the active view.  They follow mCurrentTabView, and the   *)
(* weak pointers to the tabs, without a look; a tab that is in no list has  *)
(* been destroyed.                                                          *)
View == kviews[active]
Tab == current[View]
This == tabView[View][Tab]
ThisPage == PageShown(This, Tab)

Act(followed, A) ==
  /\ Input
  /\ IF followed \subseteq Live
       THEN A /\ UNCHANGED crashed
       ELSE crashed' = TRUE /\ UNCHANGED <<bookmarks, viewVars>>
  /\ UNCHANGED <<listVars, pages, emitted, focusVars>>

SetThis(v) ==
  /\ tabView' = [tabView EXCEPT ![View][Tab] = v]
  /\ UNCHANGED <<bookmarks, shown, current>>

(* A step in a list, round its end if it loops. *)
Neighbour(list, i, step, loop) ==
  IF i + step \in DOMAIN list THEN i + step
  ELSE IF ~loop THEN i ELSE IF step = 1 THEN 1 ELSE Len(list)

(* NextTab() and PreviousTab(), by GetTabIndex(). *)
TurnTab(step, loop) ==
  LET list == shown[View]
      index == CHOOSE i \in DOMAIN list : list[i] = Tab
      to == IF list = <<>> THEN NoTab ELSE list[Neighbour(list, index, step, loop)]
  IN  Act({to}, current' = [current EXCEPT ![View] = to] /\ UNCHANGED <<bookmarks, shown, tabView>>)

(* TabNextPageAction and TabPreviousPageAction; the navigation tab has one page. *)
TurnPage(step, loop) ==
  LET list == pages[Tab]
      to == list[Neighbour(list, At(Tab, ThisPage), step, loop)]
  IN  Act({Tab}, SetThis(IF This.nav \/ Len(list) < 2 \/ ThisPage \notin Range(list)
                           THEN This ELSE Turned(This, Tab, to)))

(* TabView::SetTabMode(). *)
ToggleNavigation ==
  /\ Tab \in Live /\ pages[Tab] # <<>>
  /\ Act({Tab}, SetThis([This EXCEPT !.nav = ~@]))

(* A link to a page of the tab, or an entry of its navigation, in this view. *)
(* All views of the tab with the same kneeboard view id go there.           *)
FollowLink(p) ==
  LET Followed(v) == IF v.owner = This.owner /\ ~v.nav THEN Turned(v, Tab, p) ELSE v
  IN  /\ Tab \in Live /\ p \in Range(pages[Tab])
      /\ Act({Tab}, IF This.nav
                      THEN SetThis([Turned(This, Tab, p) EXCEPT !.nav = FALSE])
                      ELSE /\ tabView' = UpdatedViews(Tab, Followed)
                           /\ UNCHANGED <<bookmarks, shown, current>>)

-------------------------------------------------------------------------------
(* Mutant: a new bookmark goes to the end. *)
Bookmarked_Last(t, p) == Append(Existing(bookmarks[t], t), p)

(* AddBookmarkForCurrentPage(): before the first bookmark of a later page,  *)
(* dropping those it meets whose page has gone.                             *)
Bookmarked(t, p) ==
  LET marks == bookmarks[t]
      later == {i \in DOMAIN marks : marks[i] \in Range(pages[t]) /\ At(t, marks[i]) > At(t, p)}
      cut == Min(later \union {Len(marks) + 1})
  IN  Existing(SubSeq(marks, 1, cut - 1), t) \o <<p>> \o SubSeq(marks, cut, Len(marks))

ToggleBookmark ==
  Act({Tab},
      /\ bookmarks' =
           IF This.nav THEN bookmarks
           ELSE IF ThisPage \in Range(bookmarks[Tab])
             THEN [bookmarks EXCEPT ![Tab] = Kept(@, Pages \ {ThisPage})]
           ELSE IF ThisPage \in Range(pages[Tab])
             THEN [bookmarks EXCEPT ![Tab] = Bookmarked(Tab, ThisPage)]
           ELSE bookmarks
      /\ UNCHANGED viewVars)

(* GetBookmarks(), of the tabs in their order. *)
Marks(k) ==
  LET Of(t) == [i \in DOMAIN bookmarks[t] |-> [tab |-> t, page |-> bookmarks[t][i]]]
  IN  FlattenSeq([i \in DOMAIN shown[k] |-> Of(shown[k][i])])

(* Mutant: the bookmark of the page itself is the next one. *)
Step_Stays(marks, t, p, S, forward) ==
  LET first == Min({i \in DOMAIN marks : marks[i].tab = t} \union {Len(marks) + 1})
      Past(i) == marks[i].tab # t \/ (marks[i].page \in S /\ At(t, marks[i].page) >= At(t, p))
      stop == Min({i \in first..Len(marks) : Past(i)} \union {Len(marks) + 1})
      before == {i \in 1..(stop - 1) :
                   i < first \/ (marks[i].page \in S /\ At(t, marks[i].page) < At(t, p))}
  IN  IF forward THEN (IF stop > Len(marks) THEN 0 ELSE stop)
                 ELSE Max(before \union {0})

(* GetBookmark(): the first one of the current tab that is past the page, or *)
(* of a later tab; before it, the last one that is not.  None is 0.         *)
Step(marks, t, p, S, forward) ==
  LET first == Min({i \in DOMAIN marks : marks[i].tab = t} \union {Len(marks) + 1})
      Past(i) == marks[i].tab # t \/ (marks[i].page \in S /\ At(t, marks[i].page) > At(t, p))
      stop == Min({i \in first..Len(marks) : Past(i)} \union {Len(marks) + 1})
      before == {i \in 1..(stop - 1) :
                   i < first \/ (marks[i].page \in S /\ At(t, marks[i].page) < At(t, p))}
  IN  IF forward THEN (IF stop > Len(marks) THEN 0 ELSE stop)
                 ELSE Max(before \union {0})

(* SetBookmark() and GoToBookmark(). *)
GoToBookmark(forward, loop) ==
  LET marks == Marks(View)
      S == IF This.nav THEN {} ELSE Range(pages[Tab])
      found == IF ~This.nav /\ ThisPage \notin S THEN 0 ELSE Step(marks, Tab, ThisPage, S, forward)
      target == IF found # 0 THEN found ELSE IF ~loop THEN 0 ELSE IF forward THEN 1 ELSE Len(marks)
      to == marks[target].tab
  IN  Act({Tab} \union Range(shown[View]), IF target \notin DOMAIN marks \/ to \notin Range(shown[View])
            THEN UNCHANGED <<bookmarks, viewVars>>
            ELSE /\ current' = [current EXCEPT ![View] = to]
                 /\ tabView' = [tabView EXCEPT ![View][to] =
                                  [Turned(@, to, marks[target].page) EXCEPT !.nav = FALSE]]
                 /\ UNCHANGED <<bookmarks, shown>>)

-------------------------------------------------------------------------------
(* SwapState() exchanges the TabViews themselves. *)
Swapped(f) == [f EXCEPT ![kviews[1]] = f[kviews[2]], ![kviews[2]] = f[kviews[1]]]

SwapFirstTwoViews ==
  /\ Input /\ Len(kviews) >= 2
  /\ shown' = Swapped(shown) /\ tabView' = Swapped(tabView) /\ current' = Swapped(current)
  /\ UNCHANGED <<listVars, tabVars, emitted, focusVars, crashed>>

(* SetCurrentTab() of the API, for a tab of the list, any view, and a page  *)
(* or none.  The page is set on the active view, whichever view gets the    *)
(* tab; the pages of other tabs have other ids.                             *)
SetCurrentTab(k, t, p) ==
  LET to == IF t \in Range(shown[k]) THEN [current EXCEPT ![k] = t] ELSE current
      turns == p \in Range(pages[t]) /\ Len(pages[t]) > 1
  IN  /\ Input /\ k \in Range(kviews) /\ t \in Range(tabs)
      /\ current' = to
      /\ crashed' = (crashed \/ (turns /\ to[View] \notin Live))
      /\ tabView' = IF turns /\ to[View] = t /\ ~tabView[View][t].nav
                      THEN [tabView EXCEPT ![View][t] = Turned(@, t, p)] ELSE tabView
      /\ UNCHANGED <<listVars, tabVars, emitted, focusVars, shown>>

CycleActiveView ==
  /\ Input /\ Len(kviews) >= 2 /\ active' = (active % Len(kviews)) + 1
  /\ UNCHANGED <<listVars, tabVars, emitted, kviews, looked, viewVars, crashed>>

(* VRKneeboard::GetLayers() in a game: the user looks at a view of the feed. *)
LookAt(k) ==
  /\ Input /\ looked' = k
  /\ UNCHANGED <<listVars, tabVars, emitted, kviews, active, viewVars, crashed>>

(* OnGameChangedEvent(). *)
ChangeGame ==
  /\ Input /\ looked' = NoKneeboard
  /\ UNCHANGED <<listVars, tabVars, emitted, kviews, active, viewVars, crashed>>

(* AfterFrame() and SetActiveInGameView(). *)
(* Mutant: the view that is active is left out of the search by its place. *)
AfterFrame_SkipsFirst ==
  /\ looked \in Range(kviews) /\ kviews[active] # looked
  /\ \E i \in 2..Len(kviews) : kviews[i] = looked /\ active' = i
  /\ UNCHANGED <<listVars, tabVars, emitted, kviews, looked, viewVars, crashed, inputs>>

AfterFrame ==
  /\ looked \in Range(kviews) /\ kviews[active] # looked
  /\ \E i \in DOMAIN kviews : kviews[i] = looked /\ active' = i
  /\ UNCHANGED <<listVars, tabVars, emitted, kviews, looked, viewVars, crashed, inputs>>

-------------------------------------------------------------------------------
Directions == {-1, 1}

UserActions ==
  \/ \E step \in Directions, loop \in BOOLEAN : TurnTab(step, loop) \/ TurnPage(step, loop)
  \/ \E forward \in BOOLEAN, loop \in BOOLEAN : GoToBookmark(forward, loop)
  \/ ToggleNavigation \/ ToggleBookmark \/ SwapFirstTwoViews \/ CycleActiveView
  \/ \E p \in Pages : FollowLink(p)

Settings ==
  \/ \E c \in Calls, list \in Lists(Tabs) : StartSetTabs(c, list)
  \/ \E list \in Lists(Kneeboards) \ {<<>>} : SetViewsSettings(list)
  \/ ToggleGaze

Others ==
  \/ \E k \in Kneeboards :
       LookAt(k) \/ \E t \in Tabs, p \in Pages \union {NoPage} : SetCurrentTab(k, t, p)
  \/ ChangeGame
  \/ \E t \in Changing : \/ \E new \in Lists(Pages) : ChangeContent(t, new)
                         \/ \E follow \in BOOLEAN : AppendPage(t, follow)

Next ==
  ~crashed /\ (\/ UserActions \/ Settings \/ Others \/ HandleEvent \/ AfterFrame
               \/ \E c \in Calls : FinishSetTabs(c))

(* Delays and disposals end, and frames go on. *)
Spec ==
  /\ Init /\ [][Next]_vars
  /\ WF_vars(~crashed /\ HandleEvent) /\ WF_vars(~crashed /\ AfterFrame)
  /\ \A c \in Calls : WF_vars(~crashed /\ FinishSetTabs(c))

-------------------------------------------------------------------------------
Events ==
  [event : {"content", "append"}, tab : Tabs, follow : BOOLEAN]
    \union [event : {"tabs"}, tab : {NoTab}, follow : BOOLEAN]

TypeOK ==
  /\ tabs \in Seq(Tabs)
  /\ change \in [Calls -> [setting : BOOLEAN, old : Seq(Tabs), new : Seq(Tabs)]]
  /\ pages \in [Tabs -> Lists(Pages)] /\ DOMAIN bookmarks = Tabs
  /\ emitted \in Seq(Events)
  /\ kviews \in Seq(Kneeboards) /\ active \in DOMAIN kviews
  /\ looked \in Kneeboards \union {NoKneeboard}
  /\ shown \in [Kneeboards -> Seq(Tabs)]
  /\ tabView \in [Kneeboards -> [Tabs -> TabViews]]
  /\ current \in [Kneeboards -> Tabs \union {NoTab}]
  /\ crashed \in BOOLEAN /\ inputs \in 0..MaxInputs

(* "current page ID must be in page IDs set": once a tab has told of its    *)
(* new pages, no view of it is left on a page that has gone, or on none,    *)
(* and its bookmarks are of pages it has.  No page ever has two bookmarks,  *)
(* which SetBookmarks() would refuse.                                       *)
PagesExist ==
  ~crashed => \A t \in Tabs :
    /\ bookmarks[t] \in Lists(Pages)
    /\ ~Pending(t) => Range(bookmarks[t]) \subseteq Range(pages[t])
    /\ \A k \in Kneeboards : t \in Range(shown[k]) /\ ~Pending(t) =>
         IF pages[t] = <<>> THEN tabView[k][t].page = NoPage
                            ELSE tabView[k][t].page \in Range(pages[t])

(* Bookmarks that are in the order of the pages stay so, whichever views    *)
(* they are added in while pages come and go, and also when some are of     *)
(* pages that have gone.  Only pages that change their order put them out   *)
(* of it; then nothing sorts them (AlwaysInOrder fails).                    *)
InOrder(t) ==
  \A i, j \in DOMAIN bookmarks[t] :
    i < j /\ {bookmarks[t][i], bookmarks[t][j]} \subseteq Range(pages[t]) =>
      At(t, bookmarks[t][i]) < At(t, bookmarks[t][j])

SameOrder(t) ==
  \A p, q \in Range(pages[t]) \intersect Range(pages'[t]) :
    At(t, p) < At(t, q) => At(t, p)' < At(t, q)'

BookmarksInOrder == [][\A t \in Tabs : InOrder(t) /\ SameOrder(t) => InOrder(t)']_vars

(* What the insertion by AddBookmarkForCurrentPage() is for, and violated   *)
(* when SetPages() changes the order of pages that have bookmarks.          *)
AlwaysInOrder == \A t \in Tabs : ~Pending(t) => InOrder(t)

(* From a tab with bookmarks, when its events have been handled: "next"     *)
(* finds a bookmark after the page, in the order of tabs and pages, if      *)
(* there is any, and "previous" none that is not before it.  If bookmarks   *)
(* are in the order of the pages, each finds the nearest one, or that there *)
(* is none.  From a tab without bookmarks it does not (NextFromUnmarked).   *)
Spot(k, t) == Min({i \in DOMAIN shown[k] : shown[k][i] = t})

Position(k, t, p) == (MaxPage + 1) * Spot(k, t) + At(t, p)

NearestBookmark ==
  \A k \in Range(kviews) :
    LET t == current[k]
        p == tabView[k][t].page
        marks == Marks(k)
        Place(i) == Position(k, marks[i].tab, marks[i].page)
        here == Position(k, t, p)
        after == {i \in DOMAIN marks : Place(i) > here}
        before == {i \in DOMAIN marks : Place(i) < here}
        next == Step(marks, t, p, Range(pages[t]), TRUE)
        previous == Step(marks, t, p, Range(pages[t]), FALSE)
    IN  t \in Range(tabs) /\ bookmarks[t] # <<>> /\ (\A u \in Range(shown[k]) : ~Pending(u)) =>
          /\ IF after = {} THEN next = 0 ELSE next \in after
          /\ previous \in before \union {0}
          /\ (\A u \in Range(shown[k]) : InOrder(u)) =>
               /\ \A i \in after : Place(next) <= Place(i)
               /\ \A i \in before : previous # 0 /\ Place(previous) >= Place(i)

(* GetBookmark() looks for the first bookmark of the current tab, and then  *)
(* for what follows: from a tab without any "next" finds none, although a   *)
(* later tab has some.                                                      *)
NextFromUnmarked ==
  \A k \in Range(kviews) :
    LET t == current[k]
        marks == Marks(k)
    IN  t \in Range(shown[k]) /\ bookmarks[t] = <<>> =>
          \A i \in DOMAIN marks : Spot(k, marks[i].tab) > Spot(k, t) =>
            Step(marks, t, tabView[k][t].page, Range(pages[t]), TRUE) # 0

(* Once the list has been told, every view has its tabs in their order and  *)
(* shows one of them: through swaps, new views and changes of the views     *)
(* while the list was empty, and calls of SetTabs() that overlap.  (A list  *)
(* that is empty only while tabs are disposed of is not told.)              *)
ViewsShowTabs ==
  ~Pending(NoTab) /\ (tabs # <<>> \/ \A c \in Calls : ~change[c].setting) =>
    \A k \in Range(kviews) :
      /\ shown[k] = tabs
      /\ IF tabs = <<>> THEN current[k] = NoTab ELSE current[k] \in Range(tabs)

(* No call of SetTabs() takes out what another one has put in the list      *)
(* while it was suspended.  Violated: it sets the list it was called with.  *)
NoTabLost ==
  [][\A c \in Calls : FinishSetTabs(c) => Range(tabs) \subseteq Range(tabs')]_vars

(* The view the user looks at in the game gets the input, whatever cycles,  *)
(* swaps or replaces the views in the meantime.                             *)
GazeGetsFocus ==
  \A k \in Kneeboards :
    looked = k /\ k \in Range(kviews)
      ~> kviews[active] = k \/ looked # k \/ k \notin Range(kviews) \/ crashed
===============================================================================
