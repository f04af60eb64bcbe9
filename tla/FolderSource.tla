----------------------------- MODULE FolderSource -----------------------------
(***************************************************************************)
(* The pages of a folder: FolderPageSource and the PageSourceWithDelegates  *)
(* under it, with the FilesystemWatcher that tells of changes.  A scan of   *)
(* the folder is a coroutine: while it awaits the pages of a new file, the  *)
(* folder changes and other scans start.  Files are numbered in the order   *)
(* in which the folder lists them.                                          *)
(***************************************************************************)
EXTENDS Integers, FiniteSets, FiniteSetsExt

CONSTANTS
  Files,       \* the files there can be
  Html,        \* those whose pages are disposed of by DisposeAsync()
  Scans,       \* bound: the coroutines that run at the same time
  MaxChanges   \* bound: changes of the folder, and what the user does

ASSUME FolderAssumption ==
  Files \subseteq Nat /\ IsFiniteSet(Files) /\ Html \subseteq Files /\ MaxChanges \in Nat

VARIABLES
  present,    \* the folder exists
  disk,       \* its files
  watched,    \* mWatcher watches the folder, and not one of the same name before it
  signalled,  \* the change notification of the watcher
  events,     \* evFilesystemModifiedEvent, on its way to the UI thread
  delay,      \* the EventDelays there are
  scans,      \* the coroutines
  contents,   \* mContents
  delegates,  \* mDelegates
  disposed,   \* the delegates whose disposal has started
  made,       \* how many delegates have been created
  life,       \* of the source
  crashed,    \* a coroutine used the source after it was freed
  alone,      \* the coroutines during which no other one has run
  spoiled,    \* the last one to change the delegates had not been alone
  refused,    \* the files that the last scan to end could not open
  changes

folderVars == <<present, disk>>
watchVars == <<watched, signalled, events>>
pageVars == <<contents, delegates, disposed, made>>
scanVars == <<scans, alone, spoiled, refused>>
vars == <<folderVars, watchVars, delay, scanVars, pageVars, life, crashed, changes>>

(* OnFileModified() between its awaits, or SetDelegates() while it awaits   *)
(* the disposals: where the iterator is, newContents, modifiedOrNew, and    *)
(* the files it went on without.                                            *)
Idle == [at |-> "idle", pos |-> -1, new |-> {}, fresh |-> FALSE, skipped |-> {}]

Init ==
  /\ present = TRUE /\ disk \in SUBSET Files
  /\ watched = TRUE /\ signalled = FALSE /\ events = 0 /\ delay = 0
  /\ scans = [c \in Scans |-> Idle]
  /\ contents = {[file |-> f, id |-> 0] : f \in disk} /\ delegates = contents
  /\ disposed = {} /\ made = 0
  /\ life = "alive" /\ crashed = FALSE /\ changes = 0
  /\ alone = {} /\ spoiled = FALSE /\ refused = {}

-------------------------------------------------------------------------------
(* The folder, and the watcher on a thread of its own. *)
Change == changes < MaxChanges /\ changes' = changes + 1

(* Files come, go, or are written to. *)
ChangeFiles(files) ==
  /\ Change /\ present
  /\ disk' = files /\ signalled' = (signalled \/ watched)
  /\ UNCHANGED <<present, watched, events, delay, scanVars, pageVars, life, crashed>>

RemoveFolder ==
  /\ Change /\ present /\ present' = FALSE /\ disk' = {}
  /\ signalled' = (signalled \/ watched)
  /\ UNCHANGED <<watched, events, delay, scanVars, pageVars, life, crashed>>

CreateFolder ==
  /\ Change /\ ~present /\ present' = TRUE /\ disk' \in SUBSET Files
  /\ watched' = FALSE
  /\ UNCHANGED <<signalled, events, delay, scanVars, pageVars, life, crashed>>

(* FilesystemWatcher::Run() and OnContentsChanged(): an event for each      *)
(* notification, whatever has changed.                                      *)
Notify ==
  /\ signalled /\ signalled' = FALSE /\ events' = events + 1
  /\ UNCHANGED <<folderVars, watched, delay, scanVars, pageVars, life, crashed, changes>>

-------------------------------------------------------------------------------
(* PageSourceWithDelegates::SetDelegates() by the coroutine c, under an     *)
(* EventDelay if its caller holds one.  Every delegate there is gets        *)
(* disposed of; if none of them has anything to wait for, there is no       *)
(* suspension.                                                              *)
ToDispose == {d \in delegates : d.file \in Html}

SetDelegates(c, at, list) ==
  /\ disposed' = disposed \union ToDispose
  /\ IF ToDispose \subseteq disposed
       THEN /\ delegates' = list /\ spoiled' = (c \notin alone')
            /\ scans' = [scans EXCEPT ![c] = Idle]
            /\ UNCHANGED delay
       ELSE /\ scans' = [scans EXCEPT ![c] = [Idle EXCEPT !.at = at, !.new = list]]
            /\ delay' = IF at = "setting" THEN delay + 1 ELSE delay
            /\ UNCHANGED <<delegates, spoiled>>

Disposing(c) == scans[c].at \in {"setting", "disposing"}

(* Mutant: the EventDelay outlives the coroutine. *)
Disposed_KeepsDelay(c) ==
  /\ Disposing(c)
  /\ delegates' = scans[c].new /\ spoiled' = (c \notin alone) /\ delay' = delay
  /\ scans' = [scans EXCEPT ![c] = Idle]
  /\ UNCHANGED <<folderVars, watchVars, contents, disposed, made, alone, refused, life, crashed, changes>>

Disposed(c) ==
  /\ Disposing(c)
  /\ delegates' = scans[c].new /\ spoiled' = (c \notin alone)
  /\ delay' = IF scans[c].at = "setting" THEN delay - 1 ELSE delay
  /\ scans' = [scans EXCEPT ![c] = Idle]
  /\ UNCHANGED <<folderVars, watchVars, contents, disposed, made, alone, refused, life, crashed, changes>>

(* The end of OnFileModified().  Without a change it leaves the delegates.  *)
NoChange(c) ==
  /\ scans' = [scans EXCEPT ![c] = Idle] /\ spoiled' = (spoiled \/ c \notin alone')
  /\ UNCHANGED <<contents, delegates, disposed, delay>>

(* Mutant: the number of files is not compared. *)
Compare_IgnoresRemoved(c, s, new) ==
  /\ refused' = s.skipped
  /\ IF ~s.fresh THEN NoChange(c) ELSE contents' = new /\ SetDelegates(c, "setting", new)

Compare(c, s, new) ==
  /\ refused' = s.skipped
  /\ IF Cardinality(new) = Cardinality(contents) /\ ~s.fresh
       THEN NoChange(c)
       ELSE contents' = new /\ SetDelegates(c, "setting", new)

(* Mutant: the pages of a file are looked for in what the scan has found. *)
Known_New(s) ==
  {d \in s.new : d.file \in disk /\ d.file > s.pos}

(* The entries of mContents that the iterator still comes to. *)
Known(s) ==
  {d \in contents : d.file \in disk /\ d.file > s.pos}

(* Its loop, up to the next file that is new and has to be awaited. *)
Walk(c, s) ==
  LET unknown == {f \in disk : f > s.pos /\ \A d \in Known(s) : d.file # f}
      next == Min(unknown)
  IN  IF unknown = {}
        THEN Compare(c, s, s.new \union Known(s))
        ELSE /\ scans' = [scans EXCEPT ![c] =
                  [at |-> "creating", pos |-> next, fresh |-> s.fresh, skipped |-> s.skipped,
                   new |-> s.new \union {d \in Known(s) : d.file < next}]]
             /\ UNCHANGED <<contents, delegates, disposed, delay, spoiled, refused>>

Running(c) == scans[c].at # "idle"

(* A coroutine that is started while another one runs takes its place       *)
(* beside it.                                                               *)
Starts(c) == alone' = IF \E other \in Scans : Running(other) THEN {} ELSE {c}

StartScan(c) ==
  /\ scans[c] = Idle
  /\ IF present THEN Starts(c) /\ Walk(c, Idle)
     ELSE UNCHANGED <<scanVars, contents, delegates, disposed, delay>>

(* The handler of evFilesystemModifiedEvent; it waits for all delays. *)
OnFileModified(c) ==
  /\ events > 0 /\ events' = events - 1
  /\ IF life = "freed" THEN UNCHANGED <<scanVars, contents, delegates, disposed, delay>>
     ELSE delay = 0 /\ StartScan(c)
  /\ UNCHANGED <<folderVars, watched, signalled, made, life, crashed, changes>>

(* FilePageSource::Create() has made the pages, or could not, say because   *)
(* the file is still being written; nothing has kept the source.            *)
Opened(s) == [s EXCEPT !.new = @ \union {[file |-> s.pos, id |-> made + 1]}, !.fresh = TRUE]

Refused(s) == [s EXCEPT !.skipped = @ \union {s.pos}]

Created(c) ==
  /\ scans[c].at = "creating"
  /\ UNCHANGED <<folderVars, watchVars, alone, life, changes>>
  /\ IF life = "freed"
       THEN crashed' = TRUE /\ UNCHANGED <<scans, spoiled, refused, pageVars, delay>>
       ELSE /\ \/ Walk(c, Opened(scans[c])) /\ made' = made + 1
               \/ Walk(c, Refused(scans[c])) /\ made' = made
            /\ UNCHANGED crashed

-------------------------------------------------------------------------------
(* FolderPageSource::Reload(), by the user; without the folder, mContents   *)
(* stays as it is, and differs from the delegates.                          *)
Reload(c) ==
  /\ Change /\ life = "alive"
  /\ IF present
       THEN /\ StartScan(c)
            /\ watched' = TRUE /\ signalled' = FALSE /\ events' \in {0, events}
       ELSE /\ scans[c] = Idle /\ alone' = {} /\ SetDelegates(c, "setting", {})
            /\ UNCHANGED <<watchVars, contents, refused>>
  /\ UNCHANGED <<folderVars, made, life, crashed>>

(* DisposeAsync() when the tab is removed, without an EventDelay, *)
Dispose(c) ==
  /\ Change /\ life = "alive" /\ life' = "disposed"
  /\ scans[c] = Idle /\ alone' = {} /\ SetDelegates(c, "disposing", {})
  /\ UNCHANGED <<folderVars, watchVars, contents, refused, made, crashed>>

(* and the last reference to the source, unless a SetDelegates() keeps one. *)
Free ==
  /\ life = "disposed" /\ \A c \in Scans : ~Disposing(c)
  /\ life' = "freed" /\ watched' = FALSE /\ signalled' = FALSE
  /\ UNCHANGED <<folderVars, events, delay, scanVars, pageVars, crashed, changes>>

-------------------------------------------------------------------------------
Disk ==
  (\E files \in SUBSET Files : ChangeFiles(files)) \/ RemoveFolder \/ CreateFolder

Coroutine(c) == OnFileModified(c) \/ Created(c) \/ Disposed(c)

Next ==
  ~crashed /\ (Disk \/ Notify \/ Free \/ \E c \in Scans : Coroutine(c) \/ Reload(c) \/ Dispose(c))

(* What has been awaited completes, and the threads run on. *)
Spec ==
  /\ Init /\ [][Next]_vars
  /\ WF_vars(~crashed /\ Notify) /\ \A c \in Scans : WF_vars(~crashed /\ Coroutine(c))

-------------------------------------------------------------------------------
Delegates == [file : Files, id : Nat]
Coroutines == [at : {"idle", "creating", "setting", "disposing"}, pos : Files \union {-1},
               new : SUBSET Delegates, fresh : BOOLEAN, skipped : SUBSET Files]

TypeOK ==
  /\ present \in BOOLEAN /\ disk \subseteq Files
  /\ watched \in BOOLEAN /\ signalled \in BOOLEAN /\ events \in Nat /\ delay \in Int
  /\ scans \in [Scans -> Coroutines]
  /\ \A c \in Scans : scans[c].at = "creating" => scans[c].pos \in Files
  /\ contents \subseteq Delegates /\ delegates \subseteq Delegates
  /\ disposed \subseteq Delegates /\ made \in Nat
  /\ life \in {"alive", "disposed", "freed"} /\ crashed \in BOOLEAN
  /\ alone \subseteq Scans /\ spoiled \in BOOLEAN /\ refused \subseteq Files
  /\ changes \in 0..MaxChanges

Quiet == ~signalled /\ events = 0 /\ \A c \in Scans : ~Running(c)

(* However the folder changes while it is scanned, and while a scan waits   *)
(* for the pages of its files: once no notification, event or scan is left, *)
(* the files that are shown are those of the folder but for the ones that   *)
(* the last scan could not open (while the folder is watched).  If scans    *)
(* have overlapped, the next one that runs alone and finds a change puts it *)
(* right; until then, or if it finds none, it may not be so                 *)
(* (AlwaysShowsFolder fails).                                               *)
Watching == Quiet /\ watched /\ present /\ life = "alive"

ShowsFolder == Watching /\ ~spoiled => {d.file : d \in delegates} = disk \ refused

(* What OnFileModified() is for.  Violated when a change comes while a scan *)
(* waits for a file: the scan of that change may end first, and the older   *)
(* one puts its own contents in the place of what it has found.             *)
AlwaysShowsFolder == Watching => disk \ {d.file : d \in delegates} \subseteq refused

(* A file that is shown before and after a change of the folder keeps the   *)
(* PageSource that has its pages, and with their ids doodles and bookmarks. *)
(* (An HTML file does not keep them: KeptAreAlive.  Nor does one that       *)
(* scans that overlap have opened twice.)                                   *)
KeepsPages ==
  [][~spoiled /\ ~spoiled' => \A d \in delegates, e \in delegates' :
       d.file = e.file /\ d.file \notin Html => d = e]_vars

(* The scans end, with the EventDelays they hold and with what they found:  *)
(* no change of the folder is left without one.                             *)
FolderSettles == <>[](crashed \/ (Quiet /\ delay = 0))

(* FolderPageSource.cpp, "All file-sourced tabs watch their own content":   *)
(* the pages of a file that is kept go on.  Violated: SetDelegates()        *)
(* disposes of all the delegates it had, those that it gets again as well.  *)
KeptAreAlive ==
  life = "alive" /\ (\A c \in Scans : ~Running(c)) => delegates \intersect disposed = {}
===============================================================================
