------------------------- MODULE KneeboardState_proofs -------------------------
(***************************************************************************)
(* What holds of the kneeboard's settings for any profiles, any handlers    *)
(* that switch them, and any number of things the user does.                *)
(***************************************************************************)
EXTENDS KneeboardState, FiniteSetTheorems, TLAPS

(* The settings files: types. *)

LEMMA ValueTypes ==
  /\ BuiltIn \in Values /\ Null \in Values /\ NoTabs \in Values /\ NoViews \in Values
  /\ Initial \in SettingsType
  /\ \A v \in Values : Live(v) \in Values
  /\ \A p \in Profiles, v \in Values : Changed(p, v) \in Values
<1>1. /\ BuiltIn \in Values /\ Null \in Values
      /\ NoTabs \in Values /\ NoViews \in Values
  BY DEF Values
<1>2. Initial \in SettingsType BY <1>1 DEF Initial, SettingsType
<1>3. \A v \in Values : Live(v) \in Values BY <1>1 DEF Live
<1>4. \A p \in Profiles, v \in Values : Changed(p, v) \in Values
  BY DEF Changed, Values, Edits
<1> QED BY <1>1, <1>2, <1>3, <1>4

LEMMA LoadType ==
  ASSUME NEW f \in FilesType, NEW p \in Profiles
  PROVE  Parent(f, p) \in SettingsType /\ Load(f, p) \in SettingsType
<1>1. \A q \in Profiles, parent \in SettingsType : Over(f[q], parent) \in SettingsType
  BY ValueTypes DEF Over, Migrated, SettingsType, FilesType
<1>2. Parent(f, p) \in SettingsType
  BY <1>1, ValueTypes, ProfilesAssumption DEF Parent
<1> QED BY <1>1, <1>2 DEF Load

LEMMA SaveType ==
  ASSUME NEW f \in FilesType, NEW p \in Profiles, NEW value \in SettingsType
  PROVE  Save(f, p, value) \in FilesType
<1> DEFINE saved == [s \in Sections |->
                       SavedSection(s, f[p][s], Parent(f, p)[s], value[s])]
<1>1. saved \in [Sections -> Values \union {Absent}]
  BY DEF SavedSection, SettingsType
<1>2. [f EXCEPT ![p] = saved] \in FilesType BY <1>1 DEF FilesType
<1> QED BY <1>2 DEF Save

LEMMA StoredType ==
  ASSUME NEW f \in FilesType, active \in Profiles, NEW value \in SettingsType, NEW enabled
  PROVE  Stored(enabled, f, value) \in FilesType
BY SaveType DEF Stored

LEMMA ErasedType ==
  ASSUME NEW f \in FilesType, NEW p \in Profiles, NEW s \in Sections
  PROVE  Erased(f, p, s) \in FilesType
BY DEF Erased, FilesType

-------------------------------------------------------------------------------
(* The inductive invariant: each suspended coroutine that delays events is  *)
(* counted, a list's event only waits for one of them, and without a switch *)
(* settings are saved and the views are up to date.                         *)

Suspended == {c \in Switchers \union {Reset} : at[c] # "idle"}

Kinds == at[Remove] # "loading" /\ \A c \in Coroutines \ {Remove} : at[c] # "dialog"
Counted == delay = Cardinality(Suspended)
Delayed == liveChanged => delay > 0
Saving == ~Switching => saveEnabled /\ views = settings.Views

IInv == TypeOK /\ Kinds /\ Counted /\ Delayed /\ Saving

LEMMA CoroutinesFinite == IsFiniteSet(Coroutines)
<1>1. IsFiniteSet(Pages) BY KneeboardAssumption
<1>2. IsFiniteSet(Pages \union {Queue}) BY <1>1, FS_AddElement
<1>3. IsFiniteSet((Pages \union {Queue}) \union {Remove}) BY <1>2, FS_AddElement
<1>4. IsFiniteSet(((Pages \union {Queue}) \union {Remove}) \union {Reset}) BY <1>3, FS_AddElement
<1>5. Coroutines = ((Pages \union {Queue}) \union {Remove}) \union {Reset} BY DEF Coroutines, Switchers
<1> QED BY <1>4, <1>5

(* A coroutine that is suspended counts once more, one that ends once less. *)
LEMMA Counting ==
  ASSUME IInv
  PROVE  /\ IsFiniteSet(Suspended)
         /\ delay \in Nat
         /\ \A c \in Switchers \union {Reset} :
              /\ at[c] = "idle" =>
                   delay + 1 = Cardinality(Suspended \union {c}) /\ c \notin Suspended
              /\ at[c] # "idle" =>
                   delay > 0 /\ delay - 1 = Cardinality(Suspended \ {c})
         /\ \A S \in SUBSET Coroutines : Cardinality(S) \in 0..Cardinality(Coroutines)
<1>0. Suspended \subseteq Coroutines BY DEF Suspended, Coroutines
<1>1. IsFiniteSet(Suspended) BY <1>0, CoroutinesFinite, FS_Subset
<1>2. Cardinality(Suspended) \in Nat BY <1>1, FS_CardinalityType
<1>3. ASSUME NEW c \in Switchers \union {Reset}, at[c] = "idle"
      PROVE  delay + 1 = Cardinality(Suspended \union {c}) /\ c \notin Suspended
  BY <1>1, <1>3, FS_AddElement DEF Suspended, IInv, Counted
<1>4. ASSUME NEW c \in Switchers \union {Reset}, at[c] # "idle"
      PROVE  delay > 0 /\ delay - 1 = Cardinality(Suspended \ {c})
  <2>1. c \in Suspended BY <1>4 DEF Suspended
  <2>2. Cardinality(Suspended \ {c}) = Cardinality(Suspended) - 1
    BY <2>1, <1>1, FS_RemoveElement
  <2>3. IsFiniteSet(Suspended \ {c}) BY <1>1, FS_RemoveElement
  <2>4. Cardinality(Suspended \ {c}) \in Nat BY <2>3, FS_CardinalityType
  <2> QED BY <1>2, <2>2, <2>4 DEF IInv, Counted
<1>5. ASSUME NEW S \in SUBSET Coroutines
      PROVE  Cardinality(S) \in 0..Cardinality(Coroutines)
  <2>1. /\ IsFiniteSet(S) /\ Cardinality(S) <= Cardinality(Coroutines)
    BY CoroutinesFinite, FS_Subset
  <2>2. Cardinality(S) \in Nat /\ Cardinality(Coroutines) \in Nat
    BY <2>1, CoroutinesFinite, FS_CardinalityType
  <2> QED BY <2>1, <2>2
<1> QED BY <1>1, <1>2, <1>3, <1>4, <1>5 DEF IInv, Counted

-------------------------------------------------------------------------------
(* What the steps have in common. *)

LEMMA MemoryType ==
  ASSUME settings \in [Own -> Values], tabs \in Values, games \in Values
  PROVE  Memory \in SettingsType
BY DEF Memory, SettingsType, Own, Sections, Whole

LEMMA SaveSettingsType ==
  ASSUME IInv, settings' \in [Own -> Values], tabs' \in Values, games' \in Values, SaveSettings
  PROVE  files' \in FilesType /\ missed' \in BOOLEAN
<1>1. Memory' \in SettingsType
  BY DEF Memory, SettingsType, Own, Sections, Whole
<1> QED BY <1>1, StoredType DEF SaveSettings, IInv, TypeOK

LEMMA EmitLiveType ==
  ASSUME IInv, settings' \in [Own -> Values], tabs' \in Values, games' \in Values, EmitLive
  PROVE  /\ files' \in FilesType /\ missed' \in BOOLEAN /\ saveEnabled' = saveEnabled
         /\ needsRepaint' \in BOOLEAN /\ liveChanged' \in BOOLEAN
         /\ liveChanged' => delay > 0 \/ liveChanged
<1>1. delay \in Nat BY Counting
<1>2. CASE delay = 0 /\ EventsOpen
  <2>1. SaveSettings /\ needsRepaint' = (needsRepaint \/ saveEnabled)
          /\ UNCHANGED <<liveChanged, saveEnabled>>
    BY <1>2 DEF EmitLive
  <2> QED BY <2>1, SaveSettingsType DEF IInv, TypeOK
<1>3. CASE ~(delay = 0 /\ EventsOpen)
  <2>1. /\ liveChanged' = (liveChanged \/ EventsOpen) /\ missed' = TRUE
        /\ UNCHANGED <<files, saveEnabled, needsRepaint>>
    BY <1>3 DEF EmitLive
  <2> QED BY <1>1, <1>3, <2>1 DEF IInv, TypeOK
<1> QED BY <1>2, <1>3

(* A step that moves no coroutine but RemoveTab() keeps the count.          *)
LEMMA SameCount ==
  ASSUME IInv, delay' = delay, \A c \in Switchers \union {Reset} : at'[c] = at[c]
  PROVE  Counted' /\ (Switching' <=> Switching)
BY DEF IInv, Counted, Suspended, Switching

LEMMA StuckIInv ==
  ASSUME IInv, UNCHANGED <<memory, disk, events, frame, coros, shutdown>>,
         inputs' \in 0..MaxInputs, ui' \in {"runs", "blocked", "nullInput", "mismatch", "noView"}
  PROVE  IInv'
BY DEF IInv, TypeOK, Kinds, Counted, Suspended, Delayed, Saving, Switching,
       memory, disk, events, frame, coros

-------------------------------------------------------------------------------
LEMMA InitIInv == Init => IInv
<1> SUFFICES ASSUME Init PROVE IInv OBVIOUS
<1>1. files \in FilesType
  <2>1. PICK f \in [Profiles -> {[s \in Sections |-> Absent]}
                         \union {[s \in Sections |-> [by |-> p, rev |-> 0]] : p \in Profiles}] : files = f
    BY DEF Init
  <2>2. \A p \in Profiles : [s \in Sections |-> [by |-> p, rev |-> 0]] \in [Sections -> Values \union {Absent}]
    BY DEF Values, Edits
  <2>3. [s \in Sections |-> Absent] \in [Sections -> Values \union {Absent}] OBVIOUS
  <2> QED BY <2>1, <2>2, <2>3 DEF FilesType
<1>2. active \in Profiles BY DEF Init
<1>3. Load(files, active) \in SettingsType BY <1>1, <1>2, LoadType
<1>4. settings \in [Own -> Values] /\ tabs \in Values /\ games \in Values
  BY <1>3, ValueTypes DEF Init, SettingsType, Own, Sections, Whole
<1>5. views \in Values BY <1>4 DEF Init, Own, Sections, Whole
<1>6. Suspended = {} BY DEF Init, Suspended, Coroutines
<1>7. Counted BY <1>6, FS_EmptySet DEF Init, Counted
<1>8. 0 \in 0..Cardinality(Coroutines)
  BY CoroutinesFinite, FS_CardinalityType
<1>9. TypeOK
  <2>1. local \in [Coroutines -> SettingsType] BY ValueTypes DEF Init
  <2>2. inputs \in 0..MaxInputs BY KneeboardAssumption DEF Init
  <2>3. queue \in Seq(Requests) BY DEF Init
  <2> QED BY <1>1, <1>2, <1>4, <1>5, <1>8, <2>1, <2>2, <2>3 DEF Init, TypeOK
<1> QED BY <1>7, <1>9 DEF Init, IInv, Kinds, Delayed, Saving, Coroutines

(* The switches. *)

LEMMA StartSwitchIInv ==
  ASSUME IInv, NEW c \in Switchers, NEW p \in Profiles, StartSwitch(c, p),
         inputs' \in 0..MaxInputs, queue' \in Seq(Requests)
  PROVE  IInv'
<1>1. CASE ~CanOwn /\ Blocks
  BY <1>1, StuckIInv DEF Blocks
<1>0. Rushed(p) \in SUBSET Profiles BY DEF Rushed, IInv, TypeOK
<1>2. CASE /\ CanOwn /\ p = active
           /\ saveEnabled' = TRUE /\ rushed' = Rushed(p)
           /\ UNCHANGED <<memory, files, missed, events, needsRepaint, loop, at, local>>
           /\ UNCHANGED <<shutdown, ui>>
  <2>1. Counted' /\ (Switching' <=> Switching) BY <1>2, SameCount DEF events
  <2>2. TypeOK' BY <1>0, <1>2 DEF IInv, TypeOK, memory, events
  <2> QED BY <1>2, <2>1, <2>2 DEF IInv, Kinds, Delayed, Saving, memory, events
<1>3. CASE /\ at[c] = "idle" /\ CanOwn /\ p # active
           /\ active' = p
           /\ settings' = [s \in Own |-> Load(files, p)[s]]
           /\ local' = [local EXCEPT ![c] = Load(files, p)]
           /\ at' = [at EXCEPT ![c] = "loading"]
           /\ saveEnabled' = FALSE /\ delay' = delay + 1 /\ rushed' = Rushed(p)
           /\ UNCHANGED <<tabs, games, views, files, missed, liveChanged>>
           /\ UNCHANGED <<needsRepaint, loop, shutdown, ui>>
  <2>0. c \in Coroutines /\ c # Remove /\ at'[c] = "loading"
    BY <1>3, KneeboardAssumption DEF IInv, TypeOK, Coroutines
  <2>1. Load(files, p) \in SettingsType BY LoadType DEF IInv, TypeOK
  <2>2. Suspended' = Suspended \union {c}
    BY <1>3, <2>0 DEF Suspended, IInv, TypeOK, Coroutines
  <2>3. Counted' BY <1>3, <2>2, Counting DEF Counted
  <2>4. delay' \in 0..Cardinality(Coroutines)
    <3>1. Suspended' \in SUBSET Coroutines BY DEF Suspended, Coroutines
    <3>2. Suspended \union {c} \in SUBSET Coroutines BY <3>1, <2>2
    <3> QED BY <1>3, <3>2, Counting
  <2>5. settings' \in [Own -> Values] BY <1>3, <2>1 DEF SettingsType, Own
  <2>6. local' \in [Coroutines -> SettingsType] BY <1>3, <2>1 DEF IInv, TypeOK
  <2>7. TypeOK' BY <1>0, <1>3, <2>4, <2>5, <2>6 DEF IInv, TypeOK
  <2>8. Kinds' BY <1>3, <2>0 DEF IInv, TypeOK, Kinds
  <2>9. Switching' BY <2>0 DEF Switching
  <2>10. Delayed' BY <1>3, Counting DEF Delayed
  <2> QED BY <2>3, <2>7, <2>8, <2>9, <2>10 DEF IInv, Saving
<1> QED BY <1>1, <1>2, <1>3 DEF StartSwitch

LEMMA TabsLoadedIInv ==
  ASSUME IInv, NEW c \in Switchers \union {Reset}, TabsLoaded(c)
  PROVE  IInv'
<1> USE DEF TabsLoaded, disk, events, frame
<1>1. at'[c] = "disposing" /\ at[c] = "loading" /\ c # Remove
  BY KneeboardAssumption DEF IInv, TypeOK, Coroutines
<1>2. Suspended' = Suspended /\ (Switching' <=> Switching)
  BY <1>1 DEF Suspended, Switching, IInv, TypeOK
<1>3. TypeOK' BY ValueTypes DEF IInv, TypeOK
<1>4. Kinds' BY <1>1 DEF IInv, TypeOK, Kinds
<1> QED BY <1>2, <1>3, <1>4 DEF IInv, Counted, Delayed, Saving

LEMMA FinishSwitchIInv ==
  ASSUME IInv, NEW c \in Switchers, FinishSwitch(c)
  PROVE  IInv'
<1> DEFINE shown == [Memory EXCEPT !.Tabs = Live(local[c].Tabs), !.Views = local[c].Views]
           all == [shown EXCEPT !.Games = Live(local[c].Games)]
<1>1. CASE (~CanOwn /\ Blocks) \/ (CanOwn /\ shutdown # "no" /\ Crashes("nullInput"))
  <2>1. inputs' \in 0..MaxInputs BY DEF FinishSwitch, IInv, TypeOK
  <2> QED BY <1>1, <2>1, StuckIInv DEF Blocks, Crashes
<1>2. CASE /\ CanOwn /\ shutdown = "no"
           /\ tabs' = all.Tabs /\ games' = all.Games /\ views' = all.Views
           /\ settings' = [settings EXCEPT !.Views = all.Views]
           /\ files' = Stored(saveEnabled, Stored(saveEnabled, files, shown), all)
           /\ at' = [at EXCEPT ![c] = "idle"] /\ local' = [local EXCEPT ![c] = Initial]
           /\ saveEnabled' = TRUE /\ needsRepaint' = TRUE
           /\ delay' = delay - 1 /\ liveChanged' = (delay > 1)
           /\ UNCHANGED <<active, missed, queue, loop, rushed, shutdown, ui>>
  <2> HIDE DEF shown, all
  <2>0. c \in Coroutines /\ at[c] # "idle" /\ at'[c] = "idle" /\ inputs' = inputs
    BY <1>2 DEF FinishSwitch, Disposed, IInv, TypeOK, Coroutines
  <2>1. Memory \in SettingsType BY MemoryType DEF IInv, TypeOK
  <2>2. local[c] \in SettingsType BY <2>0 DEF IInv, TypeOK
  <2>3. shown \in SettingsType /\ all \in SettingsType
    BY <2>1, <2>2, ValueTypes DEF shown, all, SettingsType, Sections
  <2>4. files' \in FilesType
    BY <1>2, <2>3, StoredType DEF IInv, TypeOK
  <2>5. all.Tabs \in Values /\ all.Games \in Values /\ all.Views \in Values
    BY <2>3 DEF SettingsType, Sections
  <2>6. Suspended' = Suspended \ {c}
    BY <1>2, <2>0 DEF Suspended, IInv, TypeOK, Coroutines
  <2>7. Counted' BY <1>2, <2>0, <2>6, Counting DEF Counted
  <2>8. delay' \in 0..Cardinality(Coroutines)
    <3>1. Cardinality(Coroutines) \in Nat /\ delay \in Nat /\ delay > 0
      BY <2>0, CoroutinesFinite, FS_CardinalityType, Counting
    <3>2. delay <= Cardinality(Coroutines) BY <3>1 DEF IInv, TypeOK
    <3> QED BY <1>2, <3>1, <3>2
  <2>9. local' \in [Coroutines -> SettingsType] BY <1>2, ValueTypes DEF IInv, TypeOK
  <2>10. settings' \in [Own -> Values] /\ settings'.Views = all.Views
    BY <1>2, <2>5 DEF IInv, TypeOK, Own, Sections, Whole
  <2>11. TypeOK' BY <1>2, <2>0, <2>4, <2>5, <2>8, <2>9, <2>10 DEF IInv, TypeOK
  <2>12. Kinds' BY <1>2, <2>0 DEF IInv, TypeOK, Kinds
  <2>13. Delayed'
    <3>1. delay \in Nat /\ delay' = delay - 1 BY <1>2, Counting
    <3>2. liveChanged' => delay > 1 BY <1>2, Zenon
    <3>3. delay > 1 => delay' > 0 BY <3>1
    <3> QED BY <3>2, <3>3, Zenon DEF Delayed
  <2> QED BY <1>2, <2>7, <2>10, <2>11, <2>12, <2>13 DEF IInv, Saving
<1> QED BY <1>1, <1>2 DEF FinishSwitch

-------------------------------------------------------------------------------
(* The user. *)

LEMMA SetSectionIInv ==
  ASSUME IInv, NEW s \in Own, NEW value \in Values, NEW stored \in FilesType,
         SetSection(s, value, stored), inputs' \in 0..MaxInputs
  PROVE  IInv'
<1>1. CASE ~CanOwn /\ Blocks BY <1>1, StuckIInv DEF Blocks
<1>2. CASE /\ CanOwn
           /\ settings' = [settings EXCEPT ![s] = value]
           /\ views' = IF s = "Views" THEN value ELSE views
           /\ UNCHANGED <<active, tabs, games>>
           /\ files' = Stored(saveEnabled, stored, Memory')
           /\ missed' = ~saveEnabled /\ needsRepaint' = TRUE
           /\ ui' = IF views' = NoViews /\ delay = 0 THEN "noView" ELSE ui
           /\ UNCHANGED <<saveEnabled, events, queue, loop, coros, shutdown>>
  <2>1. settings' \in [Own -> Values] /\ tabs' \in Values /\ games' \in Values /\ views' \in Values
    BY <1>2 DEF IInv, TypeOK
  <2>2. Memory' \in SettingsType BY <2>1 DEF Memory, SettingsType, Own, Sections, Whole
  <2>3. files' \in FilesType BY <1>2, <2>2, StoredType DEF IInv, TypeOK
  <2>4. Counted' /\ (Switching' <=> Switching) BY <1>2, SameCount DEF events, coros
  <2>5. TypeOK' BY <1>2, <2>1, <2>3 DEF IInv, TypeOK, events, coros
  <2>6. settings.Views = views => settings'.Views = views'
    BY <1>2 DEF IInv, TypeOK, Own, Sections, Whole
  <2> QED BY <1>2, <2>4, <2>5, <2>6 DEF IInv, Kinds, Delayed, Saving, events, coros
<1> QED BY <1>1, <1>2 DEF SetSection

LEMMA EditGamesIInv ==
  ASSUME IInv, EditGames
  PROVE  IInv'
<1>0. inputs' \in 0..MaxInputs
  BY KneeboardAssumption DEF EditGames, Input, IInv, TypeOK
<1>1. CASE ~CanOwn /\ Blocks BY <1>0, <1>1, StuckIInv DEF Blocks
<1>2. CASE /\ CanOwn
           /\ games' = Changed(Owner(games), games)
           /\ UNCHANGED <<active, settings, tabs, views, delay, queue, loop, coros, shutdown, ui>>
           /\ EmitLive
  <2>1. games' \in Values
    <3>1. games.by \in Profiles
      BY ProfilesAssumption DEF IInv, TypeOK, Values, Edits, BuiltIn, Null, NoTabs, NoViews
    <3>2. Owner(games) \in Profiles BY <3>1 DEF Owner, IInv, TypeOK
    <3> QED BY <1>2, <3>2, ValueTypes DEF IInv, TypeOK
  <2>2. settings' \in [Own -> Values] /\ tabs' \in Values BY <1>2 DEF IInv, TypeOK
  <2>3. /\ files' \in FilesType /\ missed' \in BOOLEAN /\ saveEnabled' = saveEnabled
        /\ needsRepaint' \in BOOLEAN /\ liveChanged' \in BOOLEAN
        /\ liveChanged' => delay > 0 \/ liveChanged
    BY <1>2, <2>1, <2>2, EmitLiveType
  <2>4. Counted' /\ (Switching' <=> Switching) BY <1>2, SameCount DEF coros
  <2>5. TypeOK' BY <1>0, <1>2, <2>1, <2>3 DEF IInv, TypeOK, coros
  <2> QED BY <1>2, <2>3, <2>4, <2>5 DEF IInv, Kinds, Delayed, Saving, coros
<1> QED BY <1>1, <1>2 DEF EditGames

LEMMA AskToRemoveIInv ==
  ASSUME IInv, AskToRemove
  PROVE  IInv'
<1>0. inputs' \in 0..MaxInputs
  BY KneeboardAssumption DEF AskToRemove, Input, IInv, TypeOK
<1>1. CASE ~CanShare /\ Blocks BY <1>0, <1>1, StuckIInv DEF Blocks
<1>2. CASE /\ CanShare /\ at' = [at EXCEPT ![Remove] = "dialog"]
           /\ UNCHANGED <<memory, disk, events, frame, local, rushed, shutdown, ui>>
  <2>1. \A c \in Switchers \union {Reset} : at'[c] = at[c] /\ c # Remove
    BY <1>2, KneeboardAssumption DEF IInv, TypeOK, Coroutines
  <2>2. Counted' /\ (Switching' <=> Switching) BY <1>2, <2>1, SameCount DEF events
  <2>3. TypeOK' BY <1>0, <1>2 DEF IInv, TypeOK, memory, disk, events, frame
  <2>4. Kinds' BY <1>2, <2>3 DEF IInv, Kinds, TypeOK, Coroutines
  <2> QED BY <1>2, <2>2, <2>3, <2>4 DEF IInv, Delayed, Saving, memory, disk, events
<1> QED BY <1>1, <1>2 DEF AskToRemove

LEMMA RemoveTabIInv ==
  ASSUME IInv, RemoveTab
  PROVE  IInv'
<1> USE DEF RemoveTab, disk, events, frame
<1>1. \A c \in Switchers \union {Reset} : at'[c] = at[c] /\ c # Remove
  BY KneeboardAssumption DEF IInv, TypeOK, Coroutines
<1>2. Counted' /\ (Switching' <=> Switching) BY <1>1, SameCount
<1>3. at' \in [Coroutines -> {"idle", "loading", "disposing", "dialog"}] /\ tabs' \in Values
  BY ValueTypes DEF IInv, TypeOK
<1>4. local' \in [Coroutines -> SettingsType]
  <2>1. tabs.by \in Profiles
    BY ProfilesAssumption DEF IInv, TypeOK, Values, Edits, BuiltIn, Null, NoTabs, NoViews
  <2>2. Changed(Owner(tabs), tabs) \in Values
    BY <2>1, ValueTypes DEF IInv, TypeOK, Owner
  <2>3. [local[Remove] EXCEPT !.Tabs = Changed(Owner(tabs), tabs)] \in SettingsType
    BY <2>2 DEF IInv, TypeOK, SettingsType, Coroutines, Sections
  <2> QED BY <2>3 DEF IInv, TypeOK
<1>5. TypeOK' BY <1>3, <1>4 DEF IInv, TypeOK
<1>6. Kinds' BY <1>1 DEF IInv, Kinds, TypeOK, Coroutines
<1> QED BY <1>2, <1>5, <1>6 DEF IInv, Delayed, Saving

LEMMA FinishRemoveIInv ==
  ASSUME IInv, FinishRemove
  PROVE  IInv'
<1> USE DEF FinishRemove
<1>1. \A c \in Switchers \union {Reset} : at'[c] = at[c] /\ c # Remove
  BY KneeboardAssumption DEF IInv, TypeOK, Coroutines
<1>2. Counted' /\ (Switching' <=> Switching) BY <1>1, SameCount
<1>3. tabs' \in Values /\ settings' \in [Own -> Values] /\ games' \in Values
  BY DEF IInv, TypeOK, SettingsType, Coroutines, Sections
<1>4. /\ files' \in FilesType /\ missed' \in BOOLEAN /\ saveEnabled' = saveEnabled
      /\ needsRepaint' \in BOOLEAN /\ liveChanged' \in BOOLEAN
      /\ liveChanged' => delay > 0 \/ liveChanged
  BY <1>3, EmitLiveType
<1>5. local' \in [Coroutines -> SettingsType] BY ValueTypes DEF IInv, TypeOK
<1>6. at' \in [Coroutines -> {"idle", "loading", "disposing", "dialog"}] BY DEF IInv, TypeOK
<1>7. TypeOK' BY <1>3, <1>4, <1>5, <1>6 DEF IInv, TypeOK
<1>8. Kinds' BY <1>1 DEF IInv, Kinds, TypeOK, Coroutines
<1> QED BY <1>2, <1>4, <1>7, <1>8 DEF IInv, Delayed, Saving

LEMMA ResetTabsIInv ==
  ASSUME IInv, ResetTabs
  PROVE  IInv'
<1>0. inputs' \in 0..MaxInputs /\ at[Reset] = "idle"
  BY KneeboardAssumption DEF ResetTabs, Input, IInv, TypeOK
<1>1. CASE ~CanOwn /\ Blocks BY <1>0, <1>1, StuckIInv DEF Blocks
<1>2. CASE /\ CanOwn
           /\ files' = Erased(files, active, "Tabs")
           /\ local' = [local EXCEPT ![Reset].Tabs = Parent(files, active).Tabs]
           /\ at' = [at EXCEPT ![Reset] = "loading"]
           /\ delay' = delay + 1 /\ missed' = TRUE
           /\ UNCHANGED <<memory, saveEnabled, liveChanged, frame, rushed, shutdown, ui>>
  <2>0. at'[Reset] = "loading" /\ \A c \in Coroutines \ {Reset} : at'[c] = at[c]
    BY <1>2 DEF IInv, TypeOK, Coroutines
  <2>1. Suspended' = Suspended \union {Reset}
    BY <1>0, <2>0 DEF Suspended, Coroutines
  <2>2. Counted' BY <1>0, <1>2, <2>1, Counting DEF Counted
  <2>3. delay' \in 0..Cardinality(Coroutines)
    <3>1. Suspended \union {Reset} \in SUBSET Coroutines BY DEF Suspended, Coroutines
    <3> QED BY <1>0, <1>2, <3>1, Counting
  <2>4. files' \in FilesType BY <1>2, ErasedType DEF IInv, TypeOK, Sections
  <2>5. local' \in [Coroutines -> SettingsType]
    <3>1. Parent(files, active).Tabs \in Values
      BY LoadType DEF IInv, TypeOK, SettingsType, Sections
    <3>2. [local[Reset] EXCEPT !.Tabs = Parent(files, active).Tabs] \in SettingsType
      BY <3>1 DEF IInv, TypeOK, SettingsType, Coroutines, Sections
    <3> QED BY <1>2, <3>2 DEF IInv, TypeOK
  <2>6. TypeOK' BY <1>0, <1>2, <2>3, <2>4, <2>5 DEF IInv, TypeOK, memory, frame
  <2>7. Switching' <=> Switching
    BY <2>0, KneeboardAssumption DEF Switching, Coroutines
  <2>8. Kinds' BY <2>0, KneeboardAssumption DEF IInv, Kinds, Coroutines
  <2>9. Delayed' BY <1>2, Counting DEF Delayed
  <2> QED BY <1>2, <2>2, <2>6, <2>7, <2>8, <2>9 DEF IInv, Saving, memory
<1> QED BY <1>1, <1>2 DEF ResetTabs

LEMMA FinishResetIInv ==
  ASSUME IInv, FinishReset
  PROVE  IInv'
<1>0. /\ at[Reset] # "idle" /\ at'[Reset] = "idle"
      /\ \A c \in Coroutines \ {Reset} : at'[c] = at[c]
  BY DEF FinishReset, Disposed, IInv, TypeOK, Coroutines
<1>1. Suspended' = Suspended \ {Reset} BY <1>0 DEF Suspended, Coroutines
<1>2. delay' = delay - 1 /\ delay \in Nat /\ delay > 0
  BY <1>0, Counting DEF FinishReset
<1>3. Counted' BY <1>0, <1>1, <1>2, Counting DEF Counted
<1>4. delay' \in 0..Cardinality(Coroutines)
  <2>1. Cardinality(Coroutines) \in Nat BY CoroutinesFinite, FS_CardinalityType
  <2> QED BY <1>2, <2>1 DEF IInv, TypeOK
<1>5. tabs' \in Values /\ settings' \in [Own -> Values] /\ games' \in Values
  BY ValueTypes DEF FinishReset, IInv, TypeOK, SettingsType, Coroutines, Sections
<1>6. local' \in [Coroutines -> SettingsType] /\ at' \in [Coroutines -> {"idle", "loading", "disposing", "dialog"}]
  BY ValueTypes DEF FinishReset, IInv, TypeOK
<1>7. /\ files' \in FilesType /\ missed' \in BOOLEAN /\ needsRepaint' \in BOOLEAN
      /\ liveChanged' \in BOOLEAN /\ (liveChanged' => delay > 1)
  <2>1. CASE delay = 1 /\ EventsOpen
    <3>1. SaveSettings /\ liveChanged' = FALSE /\ needsRepaint' = TRUE BY <2>1 DEF FinishReset
    <3> QED BY <1>5, <3>1, SaveSettingsType
  <2>2. CASE ~(delay = 1 /\ EventsOpen)
    <3>1. /\ liveChanged' = (delay > 1 /\ (liveChanged \/ EventsOpen))
          /\ UNCHANGED <<files, missed, needsRepaint>>
      BY <2>2 DEF FinishReset
    <3> QED BY <3>1 DEF IInv, TypeOK
  <2> QED BY <2>1, <2>2
<1>8. TypeOK' BY <1>4, <1>5, <1>6, <1>7 DEF FinishReset, IInv, TypeOK
<1>9. Kinds' BY <1>0, KneeboardAssumption DEF IInv, Kinds, Coroutines
<1>10. Switching' <=> Switching BY <1>0, KneeboardAssumption DEF Switching, Coroutines
<1>11. Delayed' BY <1>2, <1>7 DEF Delayed
<1> QED BY <1>3, <1>8, <1>9, <1>10, <1>11 DEF FinishReset, IInv, Saving

(* A step that only changes what the frame loop has, or the shutdown. *)
LEMMA OtherIInv ==
  ASSUME IInv, UNCHANGED <<memory, saveEnabled, events, coros>>,
         files' \in FilesType, missed' \in BOOLEAN, needsRepaint' \in BOOLEAN,
         queue' \in Seq(Requests), loop' \in {"wait", "flush", "stopped"},
         shutdown' \in {"no", "loop", "events", "dispose", "done"},
         ui' \in {"runs", "blocked", "nullInput", "mismatch", "noView"}, inputs' \in 0..MaxInputs
  PROVE  IInv'
<1>1. Counted' /\ (Switching' <=> Switching) BY SameCount DEF events, coros
<1> QED BY <1>1 DEF IInv, TypeOK, Kinds, Delayed, Saving, memory, events, coros

LEMMA UserIInv ==
  ASSUME IInv, User
  PROVE  IInv'
<1>1. ASSUME NEW c \in Pages, NEW p \in Profiles, SwitchFromPage(c, p) PROVE IInv'
  <2>1. inputs' \in 0..MaxInputs /\ queue' \in Seq(Requests)
    BY <1>1, KneeboardAssumption DEF SwitchFromPage, Input, IInv, TypeOK
  <2>2. c \in Switchers /\ StartSwitch(c, p) BY <1>1 DEF SwitchFromPage, Switchers
  <2> QED BY <2>1, <2>2, StartSwitchIInv
<1>2. ASSUME NEW s \in Own, EditSection(s) \/ ResetSection(s) PROVE IInv'
  <2>0. inputs' \in 0..MaxInputs
    BY <1>2, KneeboardAssumption DEF EditSection, ResetSection, Input, IInv, TypeOK
  <2>1. settings[s] \in Values /\ s \in Sections BY DEF IInv, TypeOK, Own
  <2>2. Changed(active, settings[s]) \in Values /\ files \in FilesType
    BY <2>1, ValueTypes DEF IInv, TypeOK
  <2>3. Parent(files, active)[s] \in Values /\ Erased(files, active, s) \in FilesType
    BY <2>1, LoadType, ErasedType DEF IInv, TypeOK, SettingsType
  <2> QED BY <1>2, <2>0, <2>2, <2>3, SetSectionIInv DEF EditSection, ResetSection
<1>3. CASE SetRepaintNeeded
  BY <1>3, OtherIInv DEF SetRepaintNeeded, disk, IInv, TypeOK
<1>4. ASSUME NEW request \in Requests, Enqueue(request) PROVE IInv'
  <2>1. inputs' \in 0..MaxInputs /\ queue' \in Seq(Requests)
    BY <1>4, KneeboardAssumption DEF Enqueue, Input, IInv, TypeOK
  <2> QED BY <1>4, <2>1, OtherIInv DEF Enqueue, disk, IInv, TypeOK
<1> QED BY <1>1, <1>2, <1>3, <1>4, EditGamesIInv, AskToRemoveIInv, ResetTabsIInv DEF User

(* The frame loop and the shutdown. *)

LEMMA HandleIInv ==
  ASSUME IInv, Handle
  PROVE  IInv'
<1>0. queue # <<>> => Tail(queue) \in Seq(Requests) BY DEF IInv, TypeOK
<1>1. CASE HandleProfile
  <2>1. inputs' \in 0..MaxInputs /\ queue' \in Seq(Requests)
    BY <1>0, <1>1 DEF HandleProfile, IInv, TypeOK
  <2> QED BY <1>1, <2>1, StartSwitchIInv DEF HandleProfile, Switchers
<1>2. CASE HandleTint
  <2>1. settings.UI \in Values BY DEF IInv, TypeOK, Own, Sections, Whole
  <2>2. Changed(active, settings.UI) \in Values BY <2>1, ValueTypes DEF IInv, TypeOK
  <2>3. /\ settings' \in [Own -> Values] /\ settings'.Views = settings.Views
        /\ tabs' \in Values /\ games' \in Values
    BY <1>2, <2>2 DEF HandleTint, IInv, TypeOK, Own, Sections, Whole
  <2>4. files' \in FilesType /\ missed' \in BOOLEAN
    BY <1>2, <2>3, SaveSettingsType DEF HandleTint
  <2>5. Counted' /\ (Switching' <=> Switching) BY <1>2, SameCount DEF HandleTint, events, coros
  <2>6. TypeOK' BY <1>0, <1>2, <2>3, <2>4 DEF HandleTint, IInv, TypeOK, events, coros
  <2> QED BY <1>2, <2>3, <2>5, <2>6 DEF HandleTint, IInv, Kinds, Delayed, Saving, events, coros
<1>3. CASE HandleBookmark
  <2>1. inputs' \in 0..MaxInputs BY <1>3 DEF HandleBookmark, IInv, TypeOK
  <2>2. CASE ~CanOwn /\ Blocks BY <2>1, <2>2, StuckIInv DEF Blocks
  <2>4. CASE CanOwn /\ views = NoViews /\ Crashes("noView")
    BY <2>1, <2>4, StuckIInv DEF Crashes
  <2>3. CASE /\ CanOwn /\ views # NoViews /\ queue' = Tail(queue) /\ queue # <<>>
             /\ UNCHANGED <<memory, disk, events, needsRepaint, loop, coros, shutdown, ui>>
    BY <1>0, <2>1, <2>3, OtherIInv DEF disk, IInv, TypeOK
  <2> QED BY <1>3, <2>2, <2>3, <2>4 DEF HandleBookmark
<1> QED BY <1>1, <1>2, <1>3 DEF Handle

LEMMA FrameIInv ==
  ASSUME IInv, FrameTick \/ EndFlush
  PROVE  IInv'
<1>1. CASE FrameTick
  <2>1. inputs' \in 0..MaxInputs BY <1>1 DEF FrameTick, IInv, TypeOK
  <2>2. CASE \/ ~CanShare /\ Blocks
             \/ CanShare /\ needsRepaint /\ Mismatch /\ Crashes("mismatch")
             \/ CanShare /\ needsRepaint /\ ~Mismatch /\ views = NoViews /\ Crashes("noView")
    BY <2>1, <2>2, StuckIInv DEF Blocks, Crashes
  <2>3. CASE /\ needsRepaint' = FALSE /\ loop' = "flush"
             /\ UNCHANGED <<memory, disk, events, queue, coros, shutdown, ui>>
    BY <2>1, <2>3, OtherIInv DEF disk, IInv, TypeOK
  <2> QED BY <1>1, <2>2, <2>3 DEF FrameTick
<1>2. CASE EndFlush
  BY <1>2, OtherIInv DEF EndFlush, disk, IInv, TypeOK
<1> QED BY <1>1, <1>2

LEMMA ClosingIInv ==
  ASSUME IInv, Closing
  PROVE  IInv'
<1>1. CASE Shutdown
  <2>1. inputs' \in 0..MaxInputs BY <1>1 DEF Shutdown, IInv, TypeOK
  <2>2. CASE ~CanOwn /\ Blocks BY <2>1, <2>2, StuckIInv DEF Blocks
  <2>3. CASE /\ CanOwn /\ shutdown' = "loop"
             /\ UNCHANGED <<memory, saveEnabled, events, frame, coros, ui>>
             /\ SaveSettings
    <3>1. files' \in FilesType /\ missed' \in BOOLEAN
      BY <2>3, SaveSettingsType DEF memory, IInv, TypeOK
    <3> QED BY <2>1, <2>3, <3>1, OtherIInv DEF frame, IInv, TypeOK
  <2> QED BY <1>1, <2>2, <2>3 DEF Shutdown
<1>2. CASE LoopStops BY <1>2, OtherIInv DEF LoopStops, disk, IInv, TypeOK
<1>3. CASE EventsStopped BY <1>3, OtherIInv DEF EventsStopped, disk, frame, IInv, TypeOK
<1>4. CASE DisposeAsync BY <1>4, OtherIInv DEF DisposeAsync, disk, frame, IInv, TypeOK
<1> QED BY <1>1, <1>2, <1>3, <1>4 DEF Closing

LEMMA NextIInv == IInv /\ [Next]_vars => IInv'
<1> SUFFICES ASSUME IInv, [Next]_vars PROVE IInv' OBVIOUS
<1>1. CASE UNCHANGED vars
  BY <1>1, OtherIInv DEF vars, disk, frame, IInv, TypeOK
<1>2. CASE Resume
  BY <1>2, FinishSwitchIInv, TabsLoadedIInv, FinishRemoveIInv, FinishResetIInv DEF Resume
<1> QED BY <1>1, <1>2, UserIInv, RemoveTabIInv, HandleIInv, FrameIInv, ClosingIInv DEF Next, Frame

LEMMA IInvSettled == IInv => Settled
<1> SUFFICES ASSUME IInv, Quiet PROVE views = settings.Views /\ delay = 0 /\ ~liveChanged /\ saveEnabled
  BY DEF Settled
<1>1. ~Switching /\ Suspended = {} BY DEF Quiet, Switching, Suspended, Coroutines
<1>2. delay = 0 BY <1>1, FS_EmptySet DEF IInv, Counted
<1> QED BY <1>1, <1>2 DEF IInv, Delayed, Saving

(* The variables keep their types for any number of profiles, of views in   *)
(* them, of handlers that switch profiles, and of inputs.                   *)
THEOREM Typing == Spec => []TypeOK
<1>1. IInv => TypeOK BY DEF IInv
<1> QED BY <1>1, InitIInv, NextIInv, PTL DEF Spec

(* Whichever coroutines have interleaved, even overlapping switches: once   *)
(* none is suspended, the views are those of the settings, no event is      *)
(* delayed and settings are saved (KneeboardState::SetProfileSettings()).   *)
THEOREM SettledAfterAwaits == Spec => []Settled
BY InitIInv, NextIInv, IInvSettled, PTL DEF Spec

-------------------------------------------------------------------------------
(* Isolation: who a value may have been made by, on disk, in memory, and in *)
(* the hands of a suspended coroutine.                                      *)

Isolated(f, rush) ==
  \A p \in Profiles :
    p \notin rush /\ Default \notin rush => \A s \in Sections : f[p][s].by \in {p, Default}

Clean(p) == p \notin rushed /\ Default \notin rushed

Mine(value) == value.by \in {active, Default}

OneSwitch ==
  /\ \A c, d \in Switchers : at[c] # "idle" /\ at[d] # "idle" => c = d
  /\ saveEnabled => ~Switching

MemoryIsolated ==
  /\ \A s \in Own : Mine(settings[s])
  /\ ~Switching => Mine(tabs) /\ Mine(games)

CarriedIsolated ==
  /\ \A c \in Switchers, s \in Sections : at[c] # "idle" => Mine(local[c][s])
  /\ at[Remove] = "disposing" /\ ~Switching => Mine(local[Remove].Tabs)
  /\ at[Reset] # "idle" => local[Reset].Tabs.by = Default

(* What holds while the active profile was not asked for during a switch,   *)
Isolation ==
  Isolated(files, rushed) /\ OneSwitch /\ MemoryIsolated /\ CarriedIsolated

(* and what holds always.                                                   *)
Apart == Isolated(files, rushed) /\ (Clean(active) => Isolation)

LEMMA LoadIsolated ==
  ASSUME NEW f \in FilesType, Isolated(f, rushed), NEW p \in Profiles, Clean(p),
         NEW s \in Sections
  PROVE  Parent(f, p)[s].by = Default /\ Load(f, p)[s].by \in {p, Default}
<1>1. Initial[s].by = Default BY DEF Initial, Null, BuiltIn, NoViews
<1>2. f[Default][s].by = Default /\ f[p][s].by \in {p, Default}
  BY ProfilesAssumption DEF Isolated, Clean
<1>3. Over(f[Default], Initial)[s].by = Default BY <1>1, <1>2 DEF Over, Migrated, BuiltIn
<1>4. Parent(f, p)[s].by = Default BY <1>1, <1>3 DEF Parent
<1> QED BY <1>2, <1>4 DEF Load, Over, Migrated, BuiltIn

LEMMA ErasedIsolated ==
  ASSUME NEW f \in FilesType, Isolated(f, rushed), NEW p \in Profiles, NEW s \in Sections
  PROVE  Isolated(Erased(f, p, s), rushed)
BY DEF Erased, Isolated, FilesType, Absent

LEMMA SaveIsolated ==
  ASSUME NEW f \in FilesType, Isolated(f, rushed), NEW p \in Profiles, NEW value \in SettingsType,
         \A s \in Sections : value[s].by \in {p, Default}
  PROVE  Isolated(Save(f, p, value), rushed)
<1> DEFINE saved == [s \in Sections |-> SavedSection(s, f[p][s], Parent(f, p)[s], value[s])]
<1>1. \A s \in Sections : saved[s].by \in {p, Default}
  BY DEF SavedSection, Absent
<1> HIDE DEF saved
<1>2. \A q \in Profiles, s \in Sections :
        Clean(q) => [f EXCEPT ![p] = saved][q][s].by \in {q, Default}
  <2> SUFFICES ASSUME NEW q \in Profiles, Clean(q), NEW s \in Sections
               PROVE  [f EXCEPT ![p] = saved][q][s].by \in {q, Default}
    OBVIOUS
  <2>1. CASE q = p BY <1>1, <2>1 DEF FilesType
  <2>2. CASE q # p BY <2>2 DEF FilesType, Isolated, Clean
  <2> QED BY <2>1, <2>2
<1> QED BY <1>2 DEF Save, Isolated, Clean, saved

LEMMA ChangedMine == ASSUME NEW v PROVE Mine(Changed(active, v))
BY DEF Mine, Changed

(* Only without a switch is anything saved, and then all is the profile's.  *)
LEMMA SaveSettingsIsolated ==
  ASSUME IInv, IInv', Isolation, MemoryIsolated', UNCHANGED <<active, saveEnabled>>,
         Switching' <=> Switching, SaveSettings \/ UNCHANGED files
  PROVE  Isolated(files', rushed)
<1>1. CASE saveEnabled /\ SaveSettings
  <2>1. Memory' \in SettingsType BY DEF IInv, TypeOK, Memory, SettingsType, Own, Sections, Whole
  <2>2. ~Switching' BY <1>1 DEF Isolation, OneSwitch
  <2>3. \A s \in Sections : Memory'[s].by \in {active, Default}
    BY <2>2 DEF MemoryIsolated, Mine, Memory, Own, Sections, Whole
  <2>4. files' = Save(files, active, Memory') BY <1>1 DEF SaveSettings, Stored
  <2> QED BY <2>1, <2>3, <2>4, SaveIsolated DEF Isolation, IInv, TypeOK
<1>2. CASE ~saveEnabled /\ SaveSettings
  BY <1>2 DEF SaveSettings, Stored, Isolation
<1> QED BY <1>1, <1>2 DEF Isolation

(* A step that leaves the profile, its settings and the coroutines.         *)
LEMMA SameIsolation ==
  ASSUME Isolation, UNCHANGED <<memory, files, saveEnabled, coros>>
  PROVE  Isolation'
BY DEF Isolation, Isolated, OneSwitch, MemoryIsolated, CarriedIsolated, Mine, Switching,
       memory, coros

LEMMA StuckIsolation ==
  ASSUME Isolation, UNCHANGED <<memory, disk, events, frame, coros, shutdown>>
  PROVE  Isolation'
BY SameIsolation DEF disk

(* A switch that is begun during another one makes its profile one that may *)
(* be mixed; otherwise what is loaded is the profile's.                      *)
LEMMA StartSwitchApart ==
  ASSUME IInv, Apart, NEW c \in Switchers, NEW p \in Profiles, StartSwitch(c, p)
  PROVE  Apart'
<1>1. CASE ~CanOwn /\ Blocks
  BY <1>1, StuckIsolation DEF Blocks, Apart, Clean, memory, disk, coros
<1>2. CASE CanOwn /\ rushed' = Rushed(p) /\ UNCHANGED files
  <2>1. rushed \subseteq rushed' BY <1>2 DEF Rushed
  <2>2. Isolated(files', rushed') BY <1>2, <2>1 DEF Apart, Isolated
  <2>3. CASE Switching
    <3>1. active' = p BY <1>2 DEF StartSwitch, memory
    <3>2. p \in rushed' BY <1>2, <2>3 DEF Rushed
    <3> QED BY <2>2, <3>1, <3>2 DEF Apart, Clean
  <2>4. CASE ~Switching
    <3> SUFFICES ASSUME Clean(active)' PROVE (OneSwitch /\ MemoryIsolated /\ CarriedIsolated)'
      BY <2>2 DEF Apart, Isolation
    <3>0. rushed' = rushed BY <1>2, <2>4 DEF Rushed
    <3>1. CASE /\ CanOwn /\ p = active /\ saveEnabled' = TRUE
               /\ UNCHANGED <<memory, at, local>>
      <4>1. Isolation BY <3>0, <3>1 DEF Apart, Clean, memory
      <4> QED BY <2>4, <3>1, <4>1
              DEF Isolation, OneSwitch, MemoryIsolated, CarriedIsolated, Mine, Switching, memory
    <3>2. CASE /\ CanOwn /\ p # active
               /\ active' = p
               /\ settings' = [s \in Own |-> Load(files, p)[s]]
               /\ local' = [local EXCEPT ![c] = Load(files, p)]
               /\ at' = [at EXCEPT ![c] = "loading"]
               /\ saveEnabled' = FALSE
      <4>0. /\ at'[c] = "loading" /\ \A d \in Coroutines \ {c} : at'[d] = at[d]
            /\ local'[c] = Load(files, p) /\ \A d \in Coroutines \ {c} : local'[d] = local[d]
            /\ c \in Coroutines
        BY <3>2 DEF IInv, TypeOK, Coroutines
      <4>1. \A s \in Sections : Load(files, p)[s].by \in {p, Default}
        BY <3>0, <3>2, LoadIsolated DEF IInv, TypeOK, Apart, Clean
      <4>2. Switching' BY <4>0 DEF Switching
      <4>3. OneSwitch' BY <2>4, <3>2, <4>0 DEF OneSwitch, Switching, Coroutines
      <4>4. MemoryIsolated' BY <3>2, <4>1, <4>2 DEF MemoryIsolated, Mine, Own
      <4>5. \A d \in Switchers, s \in Sections : at'[d] # "idle" => local'[d][s].by \in {p, Default}
        BY <2>4, <4>0, <4>1 DEF Switching, Coroutines
      <4>6. at'[Reset] = "idle" /\ at'[Remove] = "idle"
        BY <3>2, <4>0, KneeboardAssumption DEF CanOwn, Coroutines
      <4>7. CarriedIsolated' BY <3>2, <4>5, <4>6 DEF CarriedIsolated, Mine
      <4> QED BY <4>3, <4>4, <4>7
    <3> QED BY <1>2, <3>1, <3>2 DEF StartSwitch
  <2> QED BY <2>3, <2>4
<1> QED BY <1>1, <1>2 DEF StartSwitch, memory

LEMMA TabsLoadedIsolation ==
  ASSUME IInv, Isolation, NEW c \in Switchers \union {Reset}, UNCHANGED rushed, TabsLoaded(c)
  PROVE  Isolation'
<1> USE DEF TabsLoaded, disk
<1>1. /\ at'[c] = "disposing" /\ at[c] = "loading" /\ c # Remove
      /\ \A d \in Coroutines \ {c} : at'[d] = at[d]
  BY KneeboardAssumption DEF IInv, TypeOK, Coroutines
<1>2. /\ \A d \in Switchers \union {Reset} : at'[d] # "idle" <=> at[d] # "idle"
      /\ at'[Remove] = at[Remove]
  BY <1>1 DEF Coroutines
<1>3. Switching' <=> Switching BY <1>2 DEF Switching
<1> QED BY <1>2, <1>3 DEF Isolation, Isolated, OneSwitch, MemoryIsolated, CarriedIsolated,
                          Mine, NoTabs

LEMMA FinishSwitchIsolation ==
  ASSUME IInv, Isolation, NEW c \in Switchers, UNCHANGED rushed, FinishSwitch(c)
  PROVE  Isolation'
<1> DEFINE shown == [Memory EXCEPT !.Tabs = Live(local[c].Tabs), !.Views = local[c].Views]
           all == [shown EXCEPT !.Games = Live(local[c].Games)]
<1>1. CASE (~CanOwn /\ Blocks) \/ (CanOwn /\ shutdown # "no" /\ Crashes("nullInput"))
  BY <1>1, StuckIsolation DEF Blocks, Crashes
<1>2. CASE /\ CanOwn /\ shutdown = "no"
           /\ tabs' = all.Tabs /\ games' = all.Games /\ views' = all.Views
           /\ settings' = [settings EXCEPT !.Views = all.Views]
           /\ files' = Stored(saveEnabled, Stored(saveEnabled, files, shown), all)
           /\ at' = [at EXCEPT ![c] = "idle"] /\ local' = [local EXCEPT ![c] = Initial]
           /\ saveEnabled' = TRUE /\ active' = active
  <2>0. /\ c \in Coroutines /\ at[c] # "idle" /\ at'[c] = "idle"
        /\ \A d \in Coroutines \ {c} : at'[d] = at[d]
    BY <1>2 DEF FinishSwitch, Disposed, IInv, TypeOK, Coroutines
  <2>1. ~saveEnabled BY <2>0 DEF Isolation, OneSwitch, Switching
  <2>2. files' = files BY <1>2, <2>1 DEF Stored
  <2>3. \A d \in Switchers : at'[d] = "idle"
    BY <2>0 DEF Isolation, OneSwitch, Coroutines
  <2>4. ~Switching' BY <2>3 DEF Switching
  <2>5. /\ all.Tabs = Live(local[c].Tabs) /\ all.Games = Live(local[c].Games)
        /\ all.Views = local[c].Views
    BY DEF Memory, Sections
  <2> HIDE DEF shown, all
  <2>6. \A s \in Sections : local[c][s].by \in {active, Default}
    BY <2>0 DEF Isolation, CarriedIsolated, Mine
  <2>7. /\ all.Tabs.by \in {active, Default} /\ all.Games.by \in {active, Default}
        /\ all.Views.by \in {active, Default}
    <3>1. local[c].Tabs.by \in {active, Default} /\ local[c].Games.by \in {active, Default}
            /\ local[c].Views.by \in {active, Default}
      BY <2>6 DEF Sections
    <3> QED BY <2>5, <3>1 DEF Live, BuiltIn
  <2>8. MemoryIsolated'
    BY <1>2, <2>7 DEF Isolation, MemoryIsolated, Mine, IInv, TypeOK, Own
  <2>9. at'[Remove] = "idle" /\ at'[Reset] = "idle"
    BY <1>2, <2>0 DEF CanOwn, Coroutines
  <2>10. CarriedIsolated' BY <2>3, <2>9 DEF CarriedIsolated
  <2>11. OneSwitch' BY <2>3, <2>4 DEF OneSwitch
  <2> QED BY <2>2, <2>8, <2>10, <2>11 DEF Isolation
<1> QED BY <1>1, <1>2 DEF FinishSwitch

LEMMA SetSectionIsolation ==
  ASSUME IInv, IInv', Isolation, NEW s \in Own, NEW value, value.by \in {active, Default},
         NEW stored \in FilesType, Isolated(stored, rushed), SetSection(s, value, stored)
  PROVE  Isolation'
<1>1. CASE ~CanOwn /\ Blocks BY <1>1, StuckIsolation DEF Blocks
<1>2. CASE /\ settings' = [settings EXCEPT ![s] = value]
           /\ UNCHANGED <<active, tabs, games>>
           /\ files' = Stored(saveEnabled, stored, Memory')
           /\ UNCHANGED <<saveEnabled, coros>>
  <2>1. Switching' <=> Switching BY <1>2 DEF Switching, coros
  <2>2. MemoryIsolated'
    BY <1>2, <2>1 DEF Isolation, MemoryIsolated, Mine, IInv, TypeOK
  <2>3. OneSwitch' /\ CarriedIsolated'
    BY <1>2, <2>1 DEF Isolation, OneSwitch, CarriedIsolated, Mine, coros
  <2>4. Isolated(files', rushed)
    <3>1. CASE saveEnabled
      <4>1. Memory' \in SettingsType BY DEF IInv, TypeOK, Memory, SettingsType, Own, Sections, Whole
      <4>2. ~Switching' BY <2>1, <3>1 DEF Isolation, OneSwitch
      <4>3. \A r \in Sections : Memory'[r].by \in {active, Default}
        BY <1>2, <2>2, <4>2 DEF MemoryIsolated, Mine, Memory, Own, Sections, Whole
      <4>4. files' = Save(stored, active, Memory') BY <1>2, <3>1 DEF Stored
      <4> QED BY <4>1, <4>3, <4>4, SaveIsolated DEF IInv, TypeOK
    <3>2. CASE ~saveEnabled BY <1>2, <3>2 DEF Stored
    <3> QED BY <3>1, <3>2
  <2> QED BY <1>2, <2>2, <2>3, <2>4 DEF Isolation, coros
<1> QED BY <1>1, <1>2 DEF SetSection

LEMMA EmitLiveSaves ==
  ASSUME EmitLive PROVE (SaveSettings \/ UNCHANGED files) /\ UNCHANGED saveEnabled
BY DEF EmitLive

LEMMA EditGamesIsolation ==
  ASSUME IInv, IInv', Isolation, UNCHANGED rushed, EditGames
  PROVE  Isolation'
<1>1. CASE ~CanOwn /\ Blocks BY <1>1, StuckIsolation DEF Blocks
<1>2. CASE /\ games' = Changed(Owner(games), games)
           /\ UNCHANGED <<active, settings, tabs, views, delay, queue, loop, coros, shutdown, ui>>
           /\ EmitLive
  <2>1. Switching' <=> Switching BY <1>2 DEF Switching, coros
  <2>2. ~Switching => games'.by = active BY <1>2 DEF Owner, Changed
  <2>3. MemoryIsolated' BY <1>2, <2>1, <2>2 DEF Isolation, MemoryIsolated, Mine
  <2>4. OneSwitch' /\ CarriedIsolated'
    BY <1>2, <2>1, EmitLiveSaves DEF Isolation, OneSwitch, CarriedIsolated, Mine, coros
  <2>5. Isolated(files', rushed) BY <1>2, <2>1, <2>3, EmitLiveSaves, SaveSettingsIsolated
  <2> QED BY <2>3, <2>4, <2>5 DEF Isolation
<1> QED BY <1>1, <1>2 DEF EditGames

LEMMA AskToRemoveIsolation ==
  ASSUME IInv, Isolation, UNCHANGED rushed, AskToRemove
  PROVE  Isolation'
<1>1. CASE ~CanShare /\ Blocks BY <1>1, StuckIsolation DEF Blocks
<1>2. CASE /\ at' = [at EXCEPT ![Remove] = "dialog"]
           /\ UNCHANGED <<memory, disk, events, frame, local, rushed, shutdown, ui>>
  <2>1. at'[Remove] = "dialog" /\ \A d \in Coroutines \ {Remove} : at'[d] = at[d]
    BY <1>2 DEF IInv, TypeOK, Coroutines
  <2>2. Switching' <=> Switching BY <2>1, KneeboardAssumption DEF Switching, Coroutines
  <2> QED BY <1>2, <2>1, <2>2, KneeboardAssumption
          DEF Isolation, Isolated, OneSwitch, MemoryIsolated, CarriedIsolated, Mine,
              memory, disk, Coroutines
<1> QED BY <1>1, <1>2 DEF AskToRemove

LEMMA RemoveTabIsolation ==
  ASSUME IInv, Isolation, UNCHANGED rushed, RemoveTab
  PROVE  Isolation'
<1> USE DEF RemoveTab, disk
<1>1. \A d \in Coroutines \ {Remove} : at'[d] = at[d] /\ local'[d] = local[d]
  BY DEF IInv, TypeOK
<1>2. Switching' <=> Switching BY <1>1, KneeboardAssumption DEF Switching, Coroutines
<1>3. at'[Remove] = "disposing" /\ ~Switching => local'[Remove].Tabs.by = active
  BY DEF IInv, TypeOK, Owner, Changed, Coroutines, SettingsType, Sections
<1>4. MemoryIsolated' BY <1>2 DEF Isolation, MemoryIsolated, Mine, NoTabs
<1>5. OneSwitch' BY <1>1, <1>2, KneeboardAssumption DEF Isolation, OneSwitch, Coroutines
<1>6. CarriedIsolated'
  BY <1>1, <1>2, <1>3, KneeboardAssumption DEF Isolation, CarriedIsolated, Mine, Coroutines
<1> QED BY <1>4, <1>5, <1>6 DEF Isolation, Isolated

LEMMA FinishRemoveIsolation ==
  ASSUME IInv, IInv', Isolation, UNCHANGED rushed, FinishRemove
  PROVE  Isolation'
<1> USE DEF FinishRemove
<1>1. /\ at'[Remove] = "idle"
      /\ \A d \in Coroutines \ {Remove} : at'[d] = at[d] /\ local'[d] = local[d]
  BY DEF IInv, TypeOK, Coroutines
<1>2. Switching' <=> Switching BY <1>1, KneeboardAssumption DEF Switching, Coroutines
<1>3. MemoryIsolated'
  BY <1>2 DEF Isolation, MemoryIsolated, CarriedIsolated, Mine
<1>4. OneSwitch'
  BY <1>1, <1>2, EmitLiveSaves, KneeboardAssumption DEF Isolation, OneSwitch, Coroutines
<1>5. CarriedIsolated'
  BY <1>1, KneeboardAssumption DEF Isolation, CarriedIsolated, Mine, Coroutines
<1>6. Isolated(files', rushed) BY <1>2, <1>3, EmitLiveSaves, SaveSettingsIsolated
<1> QED BY <1>3, <1>4, <1>5, <1>6 DEF Isolation

LEMMA ResetTabsIsolation ==
  ASSUME IInv, Isolation, Clean(active), UNCHANGED rushed, ResetTabs
  PROVE  Isolation'
<1>1. CASE ~CanOwn /\ Blocks BY <1>1, StuckIsolation DEF Blocks
<1>2. CASE /\ files' = Erased(files, active, "Tabs")
           /\ local' = [local EXCEPT ![Reset].Tabs = Parent(files, active).Tabs]
           /\ at' = [at EXCEPT ![Reset] = "loading"]
           /\ UNCHANGED <<memory, saveEnabled>>
  <2>1. /\ \A d \in Coroutines \ {Reset} : at'[d] = at[d] /\ local'[d] = local[d]
        /\ local'[Reset].Tabs = Parent(files, active).Tabs
    BY <1>2 DEF IInv, TypeOK, Coroutines, SettingsType, Sections
  <2>2. Switching' <=> Switching BY <2>1, KneeboardAssumption DEF Switching, Coroutines
  <2>3. Isolated(files', rushed)
    BY <1>2, ErasedIsolated DEF Isolation, IInv, TypeOK, Sections
  <2>4. local'[Reset].Tabs.by = Default
    BY <2>1, LoadIsolated DEF Isolation, IInv, TypeOK, Sections
  <2>5. MemoryIsolated' BY <1>2, <2>2 DEF Isolation, MemoryIsolated, Mine, memory
  <2>6. OneSwitch' BY <1>2, <2>1, <2>2, KneeboardAssumption DEF Isolation, OneSwitch, Coroutines
  <2>7. CarriedIsolated'
    BY <1>2, <2>1, <2>2, <2>4, KneeboardAssumption
    DEF Isolation, CarriedIsolated, Mine, memory, Coroutines
  <2> QED BY <2>3, <2>5, <2>6, <2>7 DEF Isolation
<1> QED BY <1>1, <1>2 DEF ResetTabs

LEMMA FinishResetIsolation ==
  ASSUME IInv, IInv', Isolation, UNCHANGED rushed, FinishReset
  PROVE  Isolation'
<1>0. /\ at[Reset] # "idle" /\ at'[Reset] = "idle"
      /\ \A d \in Coroutines \ {Reset} : at'[d] = at[d] /\ local'[d] = local[d]
      /\ UNCHANGED <<active, settings, games, views, saveEnabled>>
  BY DEF FinishReset, Disposed, IInv, TypeOK, Coroutines
<1>1. Switching' <=> Switching BY <1>0, KneeboardAssumption DEF Switching, Coroutines
<1>2. tabs'.by = Default
  BY <1>0 DEF FinishReset, Isolation, CarriedIsolated, Live, BuiltIn
<1>3. MemoryIsolated' BY <1>0, <1>1, <1>2 DEF Isolation, MemoryIsolated, Mine
<1>4. OneSwitch' BY <1>0, <1>1, KneeboardAssumption DEF Isolation, OneSwitch, Coroutines
<1>5. CarriedIsolated'
  BY <1>0, <1>1, KneeboardAssumption DEF Isolation, CarriedIsolated, Mine, Coroutines
<1>6. SaveSettings \/ UNCHANGED files BY DEF FinishReset
<1>7. Isolated(files', rushed) BY <1>0, <1>1, <1>3, <1>6, SaveSettingsIsolated
<1> QED BY <1>3, <1>4, <1>5, <1>7 DEF Isolation

LEMMA HandleIsolation ==
  ASSUME IInv, IInv', Isolation, UNCHANGED rushed, HandleTint \/ HandleBookmark
  PROVE  Isolation'
<1>2. CASE HandleTint
  <2>1. Switching' <=> Switching BY <1>2 DEF HandleTint, Switching, coros
  <2>2. MemoryIsolated'
    BY <1>2, <2>1, ChangedMine DEF HandleTint, Isolation, MemoryIsolated, Mine, IInv, TypeOK
  <2>3. OneSwitch' /\ CarriedIsolated'
    BY <1>2, <2>1 DEF HandleTint, Isolation, OneSwitch, CarriedIsolated, Mine, coros
  <2>4. Isolated(files', rushed) BY <1>2, <2>1, <2>2, SaveSettingsIsolated DEF HandleTint
  <2> QED BY <2>2, <2>3, <2>4 DEF Isolation
<1>3. CASE HandleBookmark
  BY <1>3, SameIsolation, StuckIsolation DEF HandleBookmark, Blocks, Crashes, disk
<1> QED BY <1>2, <1>3

LEMMA ClosingIsolation ==
  ASSUME IInv, IInv', Isolation, UNCHANGED rushed, Closing
  PROVE  Isolation'
<1>1. CASE Shutdown
  <2>1. CASE ~CanOwn /\ Blocks BY <2>1, StuckIsolation DEF Blocks
  <2>2. CASE UNCHANGED <<memory, saveEnabled, coros>> /\ SaveSettings
    <3>1. Switching' <=> Switching BY <2>2 DEF Switching, coros
    <3>2. MemoryIsolated' BY <2>2, <3>1 DEF Isolation, MemoryIsolated, Mine, memory
    <3>3. OneSwitch' /\ CarriedIsolated'
      BY <2>2, <3>1 DEF Isolation, OneSwitch, CarriedIsolated, Mine, coros, memory
    <3>4. Isolated(files', rushed) BY <2>2, <3>1, <3>2, SaveSettingsIsolated DEF memory
    <3> QED BY <3>2, <3>3, <3>4 DEF Isolation
  <2> QED BY <1>1, <2>1, <2>2 DEF Shutdown
<1>2. CASE LoopStops \/ EventsStopped \/ DisposeAsync
  BY <1>2, SameIsolation DEF LoopStops, EventsStopped, DisposeAsync, disk
<1> QED BY <1>1, <1>2 DEF Closing

LEMMA SectionIsolation ==
  ASSUME IInv, IInv', Isolation, Clean(active), UNCHANGED rushed, NEW s \in Own,
         EditSection(s) \/ ResetSection(s)
  PROVE  Isolation'
<1>1. CASE EditSection(s)
  BY <1>1, SetSectionIsolation, ChangedMine DEF EditSection, Mine, Isolation, IInv, TypeOK
<1>2. CASE ResetSection(s)
  <2>1. Parent(files, active)[s].by = Default
    BY LoadIsolated DEF Isolation, IInv, TypeOK, Own
  <2>2. Erased(files, active, s) \in FilesType /\ Isolated(Erased(files, active, s), rushed)
    BY ErasedType, ErasedIsolated DEF Isolation, IInv, TypeOK, Own
  <2> QED BY <1>2, <2>1, <2>2, SetSectionIsolation DEF ResetSection
<1> QED BY <1>1, <1>2

(* A step that begins no switch *)
Stays ==
  \/ \E s \in Own : EditSection(s) \/ ResetSection(s)
  \/ EditGames \/ AskToRemove \/ ResetTabs \/ SetRepaintNeeded
  \/ \E request \in Requests : Enqueue(request)
  \/ RemoveTab \/ Resume \/ FrameTick \/ HandleTint \/ HandleBookmark \/ EndFlush
  \/ Closing \/ UNCHANGED vars

LEMMA NextStays ==
  ASSUME [Next]_vars
  PROVE  Stays \/ \E c \in Switchers, p \in Profiles : StartSwitch(c, p)
<1>1. CASE User
  BY <1>1 DEF User, Stays, SwitchFromPage, Switchers
<1>2. CASE Frame BY <1>2 DEF Frame, Handle, HandleProfile, Stays, Switchers
<1> QED BY <1>1, <1>2 DEF Next, Stays

(* writes the files of the active profile only.                             *)
LEMMA OthersKept ==
  ASSUME IInv, IInv', Stays
  PROVE  /\ UNCHANGED <<active, rushed>>
         /\ \A q \in Profiles \ {active} : files'[q] = files[q]
<1> DEFINE Only(f) == \A q \in Profiles \ {active} : f[q] = files[q]
<1>0. files \in FilesType /\ active \in Profiles BY DEF IInv, TypeOK
<1>1. \A f \in FilesType : \A enabled, value : Only(f) => Only(Stored(enabled, f, value))
  BY DEF Stored, Save, FilesType
<1>2. \A s : Only(Erased(files, active, s)) BY <1>0 DEF Erased, FilesType
<1>3. SaveSettings => Only(files') BY <1>0, <1>1 DEF SaveSettings
<1>4. EmitLive => Only(files') BY <1>3 DEF EmitLive
<1>5. ASSUME NEW s \in Own, EditSection(s) \/ ResetSection(s)
      PROVE  UNCHANGED <<active, rushed>> /\ Only(files')
  <2>1. Erased(files, active, s) \in FilesType BY <1>0, ErasedType DEF Own
  <2>2. PICK stored \in FilesType : (\E value : SetSection(s, value, stored)) /\ Only(stored)
    BY <1>0, <1>2, <1>5, <2>1 DEF EditSection, ResetSection
  <2> QED BY <1>1, <2>2 DEF SetSection, Blocks, memory, disk, coros
<1>6. CASE EditGames \/ AskToRemove \/ ResetTabs \/ SetRepaintNeeded \/ RemoveTab
             \/ \E request \in Requests : Enqueue(request)
  BY <1>2, <1>4, <1>6 DEF EditGames, AskToRemove, ResetTabs, SetRepaintNeeded, RemoveTab, Enqueue,
                    Blocks, memory, disk, coros
<1>7. CASE Resume
  <2>1. ASSUME NEW c \in Switchers, FinishSwitch(c)
        PROVE  UNCHANGED <<active, rushed>> /\ Only(files')
    <3> DEFINE shown == [Memory EXCEPT !.Tabs = Live(local[c].Tabs), !.Views = local[c].Views]
               all == [shown EXCEPT !.Games = Live(local[c].Games)]
    <3>1. CASE UNCHANGED <<memory, disk, coros>> BY <3>1 DEF memory, disk, coros
    <3>2. CASE files' = Stored(saveEnabled, Stored(saveEnabled, files, shown), all)
                 /\ UNCHANGED <<active, rushed>>
      <4>1. shown \in SettingsType
        <5>1. Memory \in SettingsType BY MemoryType DEF IInv, TypeOK
        <5>2. local[c] \in SettingsType BY DEF IInv, TypeOK, Coroutines
        <5>3. Live(local[c].Tabs) \in Values /\ local[c].Views \in Values
          BY <5>2, ValueTypes DEF SettingsType, Sections
        <5> QED BY <5>1, <5>3 DEF SettingsType, Sections
      <4> HIDE DEF shown, all
      <4>2. Stored(saveEnabled, files, shown) \in FilesType
        BY <1>0, <4>1, StoredType
      <4> QED BY <1>0, <1>1, <3>2, <4>2
    <3> QED BY <2>1, <3>1, <3>2 DEF FinishSwitch, Blocks, Crashes
  <2>2. ASSUME NEW c, TabsLoaded(c) PROVE UNCHANGED <<active, rushed>> /\ Only(files')
    BY <2>2 DEF TabsLoaded, disk
  <2>3. CASE FinishRemove \/ FinishReset
    BY <1>3, <1>4, <2>3 DEF FinishRemove, FinishReset
  <2> QED BY <1>7, <2>1, <2>2, <2>3 DEF Resume
<1>8. CASE FrameTick \/ HandleTint \/ HandleBookmark \/ EndFlush
  BY <1>3, <1>8 DEF FrameTick, HandleTint, HandleBookmark, EndFlush, Blocks, Crashes,
                    memory, disk, coros
<1>9. CASE Closing
  BY <1>3, <1>9 DEF Closing, Shutdown, LoopStops, EventsStopped, DisposeAsync, Blocks,
                    memory, disk, coros
<1>10. CASE UNCHANGED vars BY <1>10 DEF vars, memory, disk, coros
<1> QED BY <1>5, <1>6, <1>7, <1>8, <1>9, <1>10 DEF Stays

LEMMA StaysIsolation ==
  ASSUME IInv, IInv', Isolation, Clean(active), UNCHANGED rushed, Stays
  PROVE  Isolation'
<1>1. CASE UNCHANGED vars BY <1>1, SameIsolation DEF vars, disk
<1>2. CASE Resume
  BY <1>2, FinishSwitchIsolation, TabsLoadedIsolation, FinishRemoveIsolation,
     FinishResetIsolation DEF Resume
<1>3. CASE FrameTick \/ EndFlush
  BY <1>3, SameIsolation, StuckIsolation DEF FrameTick, EndFlush, Blocks, Crashes, disk
<1>4. CASE SetRepaintNeeded \/ \E request \in Requests : Enqueue(request)
  BY <1>4, SameIsolation DEF SetRepaintNeeded, Enqueue, disk
<1> QED BY <1>1, <1>2, <1>3, <1>4, SectionIsolation, EditGamesIsolation, AskToRemoveIsolation,
           ResetTabsIsolation, RemoveTabIsolation, HandleIsolation, ClosingIsolation DEF Stays

LEMMA NextApart == IInv /\ IInv' /\ Apart /\ [Next]_vars => Apart'
<1> SUFFICES ASSUME IInv, IInv', Apart, [Next]_vars PROVE Apart' OBVIOUS
<1>1. CASE \E c \in Switchers, p \in Profiles : StartSwitch(c, p)
  BY <1>1, StartSwitchApart
<1>2. CASE Stays /\ Clean(active)
  BY <1>2, StaysIsolation, OthersKept DEF Apart, Isolation
<1>3. CASE Stays /\ ~Clean(active)
  <2>1. /\ UNCHANGED <<active, rushed>>
        /\ \A q \in Profiles \ {active} : files'[q] = files[q]
    BY <1>3, OthersKept
  <2>2. ~Clean(active)' BY <1>3, <2>1 DEF Clean
  <2>3. Isolated(files, rushed)' BY <1>3, <2>1 DEF Apart, Isolated, Clean
  <2> QED BY <2>2, <2>3 DEF Apart
<1> QED BY <1>1, <1>2, <1>3, NextStays

LEMMA InitApart == Init => Apart
<1> SUFFICES ASSUME Init PROVE Apart OBVIOUS
<1>0. IInv BY InitIInv
<1>1. Isolated(files, rushed)
  <2>1. \A p \in Profiles, s \in Sections : files[p][s] \in {Absent, [by |-> p, rev |-> 0]}
    BY DEF Init
  <2> QED BY <2>1 DEF Isolated, Absent
<1>2. \A s \in Sections : Load(files, active)[s].by \in {active, Default}
  BY <1>0, <1>1, LoadIsolated DEF IInv, TypeOK, Clean, Init
<1>3. MemoryIsolated
  <2>1. \A s \in Own : Mine(settings[s]) BY <1>2 DEF Init, Mine, Own
  <2>2. Load(files, active).Tabs.by \in {active, Default} /\ Load(files, active).Games.by \in {active, Default}
    BY <1>2 DEF Sections
  <2>3. Mine(tabs) /\ Mine(games) BY <2>2 DEF Init, Mine, Live, BuiltIn
  <2> QED BY <2>1, <2>3 DEF MemoryIsolated
<1>4. \A c \in Coroutines : at[c] = "idle" BY DEF Init
<1>5. OneSwitch /\ CarriedIsolated
  BY <1>4 DEF OneSwitch, CarriedIsolated, Switching, Coroutines
<1> QED BY <1>1, <1>3, <1>5 DEF Apart, Isolation

(* What is on disk for a profile was made under it or under the default     *)
(* profile, whatever the user edits, resets or removes during a switch, and *)
(* whichever list's event is late; only a profile that is asked for during  *)
(* the switch to another one gets settings that are not its own             *)
(* (mSaveSettingsEnabled of SetProfileSettings()).                          *)
THEOREM ProfilesIsolated == Spec => []ProfileIsolation
<1>1. Apart => ProfileIsolation BY DEF Apart, Isolated, ProfileIsolation
<1>2. IInv /\ Apart /\ [Next]_vars => (IInv /\ Apart)'
  BY NextIInv, NextApart
<1>3. Init => IInv /\ Apart BY InitIInv, InitApart
<1> QED BY <1>1, <1>2, <1>3, PTL DEF Spec

-------------------------------------------------------------------------------
(* A restart: what is saved is what is loaded.                              *)

LEMMA SaveLoad ==
  ASSUME NEW f \in FilesType, NEW p \in Profiles, NEW value \in SettingsType,
         value.Views # NoViews
  PROVE  Load(Save(f, p, value), p) = value
<1> DEFINE parent == Parent(f, p)
           saved == [s \in Sections |-> SavedSection(s, f[p][s], parent[s], value[s])]
           g == [f EXCEPT ![p] = saved]
<1>1. CASE Load(f, p) = value BY <1>1 DEF Save
<1>2. CASE Load(f, p) # value
  <2>1. Save(f, p, value) = g BY <1>2 DEF Save
  <2>2. Parent(g, p) = parent
    BY ProfilesAssumption DEF Parent, FilesType
  <2>3. g[p] = saved BY DEF FilesType
  <2>4. ASSUME NEW s \in Sections
        PROVE  (IF saved[s] = Absent THEN parent[s] ELSE saved[s]) = value[s]
    <3>1. value[s] # Absent
      BY DEF SettingsType, Values, Edits, Absent, BuiltIn, Null, NoTabs, NoViews
    <3> QED BY <3>1 DEF SavedSection
  <2> HIDE DEF saved, parent
  <2>5. Over(saved, parent) = [s \in Sections |-> value[s]] BY <2>4 DEF Over, Migrated
  <2>6. value = [s \in Sections |-> value[s]] BY DEF SettingsType
  <2> QED BY <2>1, <2>2, <2>3, <2>5, <2>6 DEF Load
<1> QED BY <1>1, <1>2

(* The settings in memory are those on disk. *)
Present ==
  \A s \in Sections :
    Memory[s] = IF s \in Whole THEN Live(Load(files, active)[s]) ELSE Load(files, active)[s]

Listed ==
  /\ tabs # Null /\ games # Null
  /\ at[Remove] = "disposing" => local[Remove].Tabs # Null

(* While saving is forbidden, the switch that was begun last is suspended.   *)
(* Nothing is saved then, so unless something waits to be saved, it carries  *)
(* what is on disk.                                                          *)
Carries(c) ==
  /\ at[c] # "idle" /\ local[c] = Load(files, active)
  /\ \A s \in Own : settings[s] = local[c][s]

Carried == ~saveEnabled => \E c \in Switchers : Carries(c)

(* Without a switch, and without a list that is being replaced, memory is    *)
(* what is on disk, unless something waits to be saved.                      *)
Restored ==
  /\ at[Reset] # "idle" /\ ~saveEnabled => missed
  /\ ui = "runs" /\ shutdown = "no" /\ ~missed =>
       Carried /\ (~Switching /\ at[Reset] = "idle" /\ at[Remove] # "disposing" => Present)

Kept == Listed /\ Restored

(* An empty list of views is only in memory until a suspended switch ends,  *)
(* and none is loaded.                                                      *)
Viewed ==
  /\ ui = "runs" /\ ~Switching => settings.Views # NoViews
  /\ \A c \in Switchers : at[c] # "idle" => local[c].Views # NoViews

LEMMA LoadViewed ==
  ASSUME NEW f, NEW p
  PROVE  Load(f, p).Views # NoViews
BY DEF Load, Over, Migrated, NoViews, BuiltIn, Sections

LEMMA SameViewed ==
  ASSUME Viewed, settings'.Views = settings.Views, ui' = "runs" => ui = "runs",
         \A c \in Switchers : (at'[c] = "idle" <=> at[c] = "idle") /\ local'[c] = local[c]
  PROVE  Viewed'
BY DEF Viewed, Switching


LEMMA NextViewed == IInv /\ Viewed /\ [Next]_vars => Viewed'
<1> SUFFICES ASSUME IInv, Viewed, [Next]_vars PROVE Viewed' OBVIOUS
<1>1. ASSUME NEW c \in Switchers, NEW p \in Profiles, StartSwitch(c, p) PROVE Viewed'
  <2>1. CASE UNCHANGED <<settings, at, local>> /\ (ui' = "runs" => ui = "runs")
    BY <2>1, SameViewed
  <2>2. CASE /\ local' = [local EXCEPT ![c] = Load(files, p)]
             /\ at' = [at EXCEPT ![c] = "loading"]
    <3>1. at'[c] = "loading" /\ local'[c].Views # NoViews
      BY <2>2, LoadViewed DEF IInv, TypeOK, Coroutines
    <3>2. \A d \in Switchers \ {c} : at'[d] = at[d] /\ local'[d] = local[d]
      BY <2>2 DEF IInv, TypeOK, Coroutines
    <3> QED BY <3>1, <3>2 DEF Viewed, Switching
  <2> QED BY <1>1, <2>1, <2>2 DEF StartSwitch, Blocks, memory, coros
<1>2. ASSUME NEW c \in Switchers, FinishSwitch(c) PROVE Viewed'
  <2>1. CASE UNCHANGED <<memory, coros>> /\ ui' # "runs"
    BY <2>1, SameViewed DEF memory, coros
  <2>2. CASE /\ at' = [at EXCEPT ![c] = "idle"] /\ local' = [local EXCEPT ![c] = Initial]
             /\ settings' = [settings EXCEPT !.Views = local[c].Views]
    <3>1. at'[c] = "idle" /\ at[c] # "idle"
      BY <1>2, <2>2 DEF FinishSwitch, Disposed, IInv, TypeOK, Coroutines
    <3>2. \A d \in Switchers \ {c} : at'[d] = at[d] /\ local'[d] = local[d]
      BY <2>2 DEF IInv, TypeOK, Coroutines
    <3>3. settings'.Views = local[c].Views
      BY <2>2 DEF IInv, TypeOK, Own, Sections, Whole
    <3> QED BY <3>1, <3>2, <3>3 DEF Viewed
  <2>3. [[Memory EXCEPT !.Tabs = Live(local[c].Tabs), !.Views = local[c].Views]
          EXCEPT !.Games = Live(local[c].Games)].Views = local[c].Views
    BY DEF Memory, Sections
  <2> QED BY <1>2, <2>1, <2>2, <2>3 DEF FinishSwitch, Blocks, Crashes
<1>3. ASSUME NEW s \in Own, EditSection(s) \/ ResetSection(s) PROVE Viewed'
  <2>1. PICK value, stored : SetSection(s, value, stored)
    BY <1>3 DEF EditSection, ResetSection
  <2>2. CASE ~CanOwn /\ Blocks BY <2>2, SameViewed DEF Blocks, memory, coros
  <2>3. CASE /\ CanOwn /\ settings' = [settings EXCEPT ![s] = value]
             /\ views' = (IF s = "Views" THEN value ELSE views)
             /\ ui' = (IF views' = NoViews /\ delay = 0 THEN "noView" ELSE ui)
             /\ UNCHANGED coros
    <3>1. CASE s # "Views"
      <4>1. settings'.Views = settings.Views
        BY <2>3, <3>1 DEF IInv, TypeOK, Own, Sections, Whole
      <4> QED BY <2>3, <4>1, SameViewed DEF coros
    <3>2. CASE s = "Views"
      <4>1. settings'.Views = value /\ views' = value
        BY <2>3, <3>2 DEF IInv, TypeOK, Own, Sections, Whole
      <4>2. ASSUME ui' = "runs", settings'.Views = NoViews PROVE Switching
        <5>1. delay # 0 BY <2>3, <4>1, <4>2
        <5>2. Suspended # {} BY <5>1, FS_EmptySet DEF IInv, Counted
        <5> QED BY <2>3, <5>2 DEF Suspended, Switching, CanOwn
      <4> QED BY <2>3, <4>2 DEF Viewed, Switching, coros
    <3> QED BY <3>1, <3>2
  <2> QED BY <2>1, <2>2, <2>3 DEF SetSection
<1>4. ASSUME NEW c \in Switchers \union {Reset}, TabsLoaded(c) PROVE Viewed'
  <2>1. \A d \in Switchers : at'[d] = "idle" <=> at[d] = "idle"
    BY <1>4 DEF TabsLoaded, IInv, TypeOK, Coroutines
  <2> QED BY <1>4, <2>1, SameViewed DEF TabsLoaded
<1>5. CASE AskToRemove \/ RemoveTab \/ FinishRemove \/ ResetTabs \/ FinishReset
  <2>1. /\ \A d \in Switchers : at'[d] = at[d] /\ local'[d] = local[d]
        /\ UNCHANGED settings /\ (ui' = "runs" => ui = "runs")
    BY <1>5, KneeboardAssumption
    DEF AskToRemove, RemoveTab, FinishRemove, ResetTabs, FinishReset, Blocks, memory, coros,
        IInv, TypeOK, Coroutines
  <2> QED BY <2>1, SameViewed
<1>6. CASE HandleTint
  <2>1. settings'.Views = settings.Views
    BY <1>6 DEF HandleTint, IInv, TypeOK, Own, Sections, Whole
  <2> QED BY <1>6, <2>1, SameViewed DEF HandleTint, coros
<1> DEFINE Same == UNCHANGED <<settings, at, local>> /\ (ui' = "runs" => ui = "runs")
<1>7. Same => Viewed' BY SameViewed
<1>8. EditGames => Same BY DEF EditGames, Blocks, memory, coros
<1>9. SetRepaintNeeded \/ (\E request \in Requests : Enqueue(request)) \/ FrameTick
        \/ HandleBookmark \/ EndFlush \/ Closing \/ UNCHANGED vars => Same
  BY DEF SetRepaintNeeded, Enqueue, FrameTick, HandleBookmark, EndFlush, Closing, Shutdown,
         LoopStops, EventsStopped, DisposeAsync, Blocks, Crashes, vars, memory, coros
<1> QED BY <1>1, <1>2, <1>3, <1>4, <1>5, <1>6, <1>7, <1>8, <1>9, NextStays DEF Stays, Resume

LEMMA LiveListed == \A v : Live(v) # Null
BY DEF Live, Null, BuiltIn

LEMMA ChangedListed == \A p, v : Changed(p, v) # Null
BY DEF Changed, Null

(* After a save, everything is on disk. *)
LEMMA SavedIsPresent ==
  ASSUME IInv, IInv', Viewed', Listed', active' = active, NEW stored \in FilesType,
         files' = Save(stored, active, Memory'), settings'.Views # NoViews
  PROVE  Present'
<1>0. Memory'.Views # NoViews BY DEF Memory, Own, Sections, Whole
<1>1. Memory' \in SettingsType BY DEF IInv, TypeOK, Memory, SettingsType, Own, Sections, Whole
<1>2. Load(files', active') = Memory' BY <1>0, <1>1, SaveLoad DEF IInv, TypeOK
<1>3. Memory'.Tabs = tabs' /\ Memory'.Games = games' BY DEF Memory, Sections
<1>4. \A s \in Whole : Live(Memory'[s]) = Memory'[s]
  BY <1>3 DEF Listed, Live, Whole
<1> QED BY <1>2, <1>4 DEF Present

(* A step that saves, or that leaves something to be saved.                 *)
LEMMA SavingKept ==
  ASSUME IInv, IInv', Viewed', Listed', active' = active,
         missed' \/ (saveEnabled' /\ \E stored \in FilesType : files' = Save(stored, active, Memory'))
  PROVE  Kept'
<1>1. CASE missed' BY <1>1 DEF Kept, Restored
<1>2. CASE /\ ~missed' /\ saveEnabled'
           /\ \E stored \in FilesType : files' = Save(stored, active, Memory')
  <2>1. ui' = "runs" /\ ~Switching' => Present' BY <1>2, SavedIsPresent DEF Viewed
  <2>2. Carried' BY <1>2 DEF Carried
  <2> QED BY <1>2, <2>1, <2>2 DEF Kept, Restored
<1> QED BY <1>1, <1>2

LEMMA SaveSettingsSaves ==
  ASSUME IInv, SaveSettings, saveEnabled' = saveEnabled
  PROVE  missed' \/ (saveEnabled' /\ \E stored \in FilesType : files' = Save(stored, active, Memory'))
BY DEF SaveSettings, Stored, IInv, TypeOK

LEMMA EmitLiveSavesOrMisses ==
  ASSUME IInv, EmitLive
  PROVE  missed' \/ (saveEnabled' /\ \E stored \in FilesType : files' = Save(stored, active, Memory'))
BY SaveSettingsSaves DEF EmitLive

(* A step that changes neither memory nor disk nor coroutines, *)
LEMMA SameKept ==
  ASSUME Kept, UNCHANGED <<memory, files, missed, at, local>>, saveEnabled' \in {saveEnabled, TRUE},
         ui' = "runs" /\ shutdown' = "no" => ui = "runs" /\ shutdown = "no"
  PROVE  Kept'
BY DEF Kept, Listed, Restored, Present, Carried, Carries, Memory, Switching, memory

(* and one that ends the program. *)
LEMMA StuckKept ==
  ASSUME Kept, UNCHANGED <<memory, disk, events, frame, coros, shutdown>>, ui' # "runs"
  PROVE  Kept'
BY SameKept DEF disk, coros

LEMMA StartSwitchKept ==
  ASSUME IInv, Kept, NEW c \in Switchers, NEW p \in Profiles, StartSwitch(c, p),
         shutdown' = shutdown
  PROVE  Kept'
<1>1. CASE ~CanOwn /\ Blocks BY <1>1, StuckKept DEF Blocks
<1>2. CASE /\ CanOwn /\ p = active /\ saveEnabled' = TRUE
           /\ UNCHANGED <<memory, files, missed, at, local, shutdown, ui>>
  BY <1>2, SameKept
<1>3. CASE /\ CanOwn /\ p # active
           /\ active' = p
           /\ settings' = [s \in Own |-> Load(files, p)[s]]
           /\ local' = [local EXCEPT ![c] = Load(files, p)]
           /\ at' = [at EXCEPT ![c] = "loading"]
           /\ UNCHANGED <<tabs, games, views, files, missed, liveChanged>>
  <2>1. /\ at'[c] = "loading" /\ \A d \in Coroutines \ {c} : at'[d] = at[d]
        /\ local'[c] = Load(files, p) /\ c \in Coroutines
    BY <1>3 DEF IInv, TypeOK, Coroutines
  <2>2. Switching' BY <2>1 DEF Switching
  <2>3. at'[Reset] = "idle" /\ at'[Remove] = "idle"
    BY <1>3, <2>1, KneeboardAssumption DEF CanOwn, Coroutines
  <2>4. Carries(c)' BY <1>3, <2>1 DEF Carries
  <2> QED BY <1>3, <2>2, <2>3, <2>4 DEF Kept, Listed, Restored, Carried
<1> QED BY <1>1, <1>2, <1>3 DEF StartSwitch

LEMMA TabsLoadedKept ==
  ASSUME IInv, Kept, NEW c \in Switchers \union {Reset}, TabsLoaded(c)
  PROVE  Kept'
<1> USE DEF TabsLoaded, disk, frame
<1>1. /\ at'[c] = "disposing" /\ at[c] = "loading" /\ c # Remove
      /\ \A d \in Coroutines \ {c} : at'[d] = at[d]
  BY KneeboardAssumption DEF IInv, TypeOK, Coroutines
<1>2. /\ \A d \in Switchers \union {Reset} : at'[d] # "idle" <=> at[d] # "idle"
      /\ at'[Remove] = at[Remove]
  BY <1>1 DEF Coroutines
<1>3. Switching' <=> Switching BY <1>2 DEF Switching
<1>4. Listed' BY <1>2 DEF Kept, Listed, NoTabs, Null
<1>5. Carried => Carried' BY <1>2 DEF Carried, Carries
<1>6. Switching \/ at[Reset] # "idle" BY <1>1 DEF Switching
<1> QED BY <1>2, <1>3, <1>4, <1>5, <1>6 DEF Kept, Restored

(* The last switch that ends saves what it leaves in memory, or, if saving is *)
(* forbidden, it is the one that was begun last and has put what is on disk in *)
(* memory.  A switch that ends before another leaves saving allowed.          *)
LEMMA FinishSwitchKept ==
  ASSUME IInv, IInv', Viewed', Kept, NEW c \in Switchers, FinishSwitch(c)
  PROVE  Kept'
<1> DEFINE shown == [Memory EXCEPT !.Tabs = Live(local[c].Tabs), !.Views = local[c].Views]
           all == [shown EXCEPT !.Games = Live(local[c].Games)]
<1>1. CASE (~CanOwn /\ Blocks) \/ (CanOwn /\ shutdown # "no" /\ Crashes("nullInput"))
  BY <1>1, StuckKept DEF Blocks, Crashes
<1>2. CASE /\ CanOwn /\ shutdown = "no"
           /\ tabs' = all.Tabs /\ games' = all.Games /\ views' = all.Views
           /\ settings' = [settings EXCEPT !.Views = all.Views]
           /\ files' = Stored(saveEnabled, Stored(saveEnabled, files, shown), all)
           /\ at' = [at EXCEPT ![c] = "idle"] /\ saveEnabled' = TRUE
           /\ UNCHANGED <<active, missed, shutdown, ui>>
  <2>0. /\ c \in Coroutines /\ at[c] # "idle" /\ at'[c] = "idle"
        /\ \A d \in Coroutines \ {c} : at'[d] = at[d]
    BY <1>2 DEF FinishSwitch, Disposed, IInv, TypeOK, Coroutines
  <2>1. at'[Remove] = "idle" /\ at'[Reset] = "idle"
    BY <1>2, <2>0 DEF CanOwn, Coroutines
  <2>2. /\ all.Tabs = Live(local[c].Tabs) /\ all.Games = Live(local[c].Games)
        /\ all.Views = local[c].Views
    BY DEF Memory, Sections
  <2>3. shown \in SettingsType
    <3>1. Memory \in SettingsType /\ local[c] \in SettingsType
      BY <2>0 DEF IInv, TypeOK, Memory, SettingsType, Own, Sections, Whole
    <3>2. Live(local[c].Tabs) \in Values
      BY <3>1 DEF SettingsType, Sections, Live, Values
    <3> QED BY <3>1, <3>2 DEF SettingsType, Sections
  <2>4. Memory' = all
    <3>1. \A s \in Own : settings'[s] = IF s = "Views" THEN all.Views ELSE settings[s]
      BY <1>2 DEF IInv, TypeOK, Own, Sections, Whole
    <3> QED BY <1>2, <3>1 DEF Memory, Own, Sections, Whole
  <2> HIDE DEF shown, all
  <2>5. Listed' BY <1>2, <2>1, <2>2, LiveListed DEF Listed
  <2>6. CASE saveEnabled
    <3>1. Save(files, active, shown) \in FilesType BY <2>3, SaveType DEF IInv, TypeOK
    <3>2. files' = Save(Save(files, active, shown), active, Memory')
      BY <1>2, <2>4, <2>6 DEF Stored
    <3> QED BY <1>2, <2>5, <3>1, <3>2, SavingKept
  <2>7. CASE ~saveEnabled
    <3>1. files' = files BY <1>2, <2>7 DEF Stored
    <3>2. ASSUME ui = "runs", ~missed, ~Switching' PROVE Present'
      <4>1. PICK d \in Switchers : Carries(d)
        BY <1>2, <2>7, <3>2 DEF Kept, Restored, Carried
      <4>2. d = c BY <2>0, <3>2, <4>1 DEF Carries, Switching, Coroutines
      <4>3. \A s \in Own : settings'[s] = local[c][s]
        BY <1>2, <2>2, <4>1, <4>2 DEF Carries, IInv, TypeOK
      <4>4. Memory' = [s \in Sections |-> IF s = "Tabs" THEN tabs' ELSE
                                           IF s = "Games" THEN games' ELSE settings'[s]]
        BY DEF Memory
      <4> QED BY <1>2, <2>2, <3>1, <4>1, <4>2, <4>3, <4>4
              DEF Carries, Present, Own, Sections, Whole
    <3> QED BY <1>2, <2>1, <2>5, <3>2 DEF Kept, Restored, Carried
  <2> QED BY <2>6, <2>7
<1> QED BY <1>1, <1>2 DEF FinishSwitch

LEMMA SetSectionKept ==
  ASSUME IInv, IInv', Viewed', Kept, NEW s \in Own, NEW value,
         NEW stored \in FilesType, SetSection(s, value, stored)
  PROVE  Kept'
<1>1. CASE ~CanOwn /\ Blocks BY <1>1, StuckKept DEF Blocks
<1>2. CASE /\ UNCHANGED <<active, tabs, games>>
           /\ files' = Stored(saveEnabled, stored, Memory') /\ missed' = ~saveEnabled
           /\ UNCHANGED <<saveEnabled, coros>>
  <2>1. Listed' BY <1>2 DEF Kept, Listed, coros
  <2>2. missed' \/ (saveEnabled' /\ files' = Save(stored, active, Memory'))
    BY <1>2 DEF Stored, IInv, TypeOK
  <2> QED BY <1>2, <2>1, <2>2, SavingKept
<1> QED BY <1>1, <1>2 DEF SetSection

LEMMA EditGamesKept ==
  ASSUME IInv, IInv', Viewed', Kept, EditGames
  PROVE  Kept'
<1>1. CASE ~CanOwn /\ Blocks BY <1>1, StuckKept DEF Blocks
<1>2. CASE /\ games' = Changed(Owner(games), games)
           /\ UNCHANGED <<active, settings, tabs, views, delay, queue, loop, coros, shutdown, ui>>
           /\ EmitLive
  <2>1. Listed' BY <1>2, ChangedListed DEF Kept, Listed, coros
  <2> QED BY <1>2, <2>1, EmitLiveSavesOrMisses, SavingKept
<1> QED BY <1>1, <1>2 DEF EditGames

LEMMA AskToRemoveKept ==
  ASSUME IInv, Kept, AskToRemove
  PROVE  Kept'
<1>1. CASE ~CanShare /\ Blocks BY <1>1, StuckKept DEF Blocks
<1>2. CASE /\ at' = [at EXCEPT ![Remove] = "dialog"]
           /\ UNCHANGED <<memory, disk, events, frame, local, rushed, shutdown, ui>>
  <2>1. at'[Remove] = "dialog" /\ \A d \in Coroutines \ {Remove} : at'[d] = at[d]
    BY <1>2 DEF IInv, TypeOK, Coroutines
  <2>2. /\ \A d \in Switchers \union {Reset} : at'[d] = at[d]
        /\ Switching' <=> Switching
    BY <2>1, KneeboardAssumption DEF Switching, Coroutines
  <2>3. at[Remove] = "idle" BY DEF AskToRemove
  <2>4. Listed' BY <1>2, <2>1 DEF Kept, Listed, memory
  <2>5. (Carried => Carried') /\ (Present => Present')
    BY <1>2, <2>2 DEF Carried, Carries, Present, Memory, memory, disk
  <2> QED BY <1>2, <2>2, <2>3, <2>4, <2>5 DEF Kept, Restored, disk
<1> QED BY <1>1, <1>2 DEF AskToRemove

LEMMA RemoveTabKept ==
  ASSUME IInv, Kept, RemoveTab
  PROVE  Kept'
<1> USE DEF RemoveTab, disk
<1>1. /\ \A d \in Switchers \union {Reset} : at'[d] = at[d] /\ local'[d] = local[d]
      /\ Switching' <=> Switching
  BY KneeboardAssumption DEF IInv, TypeOK, Switching, Coroutines
<1>2. CASE /\ at' = [at EXCEPT ![Remove] = "disposing"]
           /\ local' = [local EXCEPT ![Remove].Tabs = Changed(Owner(tabs), tabs)]
           /\ tabs' = NoTabs
  <2>1. at'[Remove] = "disposing" /\ local'[Remove].Tabs = Changed(Owner(tabs), tabs)
    BY <1>2 DEF IInv, TypeOK, Coroutines, SettingsType, Sections
  <2>2. Listed' BY <1>2, <2>1, ChangedListed DEF Kept, Listed, NoTabs, Null
  <2>3. Carried => Carried' BY <1>1 DEF Carried, Carries
  <2> QED BY <1>1, <2>1, <2>2, <2>3 DEF Kept, Restored
<1>3. CASE at' = [at EXCEPT ![Remove] = "idle"] /\ UNCHANGED <<local, tabs>>
  <2>1. at'[Remove] = "idle" BY <1>3 DEF IInv, TypeOK, Coroutines
  <2>2. Listed' BY <1>3, <2>1 DEF Kept, Listed
  <2>3. (Carried => Carried') /\ (Present => Present')
    BY <1>1, <1>3 DEF Carried, Carries, Present, Memory
  <2> QED BY <1>1, <2>1, <2>2, <2>3 DEF Kept, Restored
<1> QED BY <1>2, <1>3

LEMMA FinishRemoveKept ==
  ASSUME IInv, IInv', Viewed', Kept, FinishRemove
  PROVE  Kept'
<1> USE DEF FinishRemove
<1>1. at'[Remove] = "idle" BY DEF IInv, TypeOK, Coroutines
<1>2. Listed' BY <1>1 DEF Kept, Listed
<1> QED BY <1>2, EmitLiveSavesOrMisses, SavingKept

LEMMA ResetTabsKept ==
  ASSUME IInv, IInv', Viewed', Kept, ResetTabs
  PROVE  Kept'
<1>1. CASE ~CanOwn /\ Blocks BY <1>1, StuckKept DEF Blocks
<1>2. CASE /\ at' = [at EXCEPT ![Reset] = "loading"] /\ CanOwn
           /\ missed' = TRUE /\ UNCHANGED memory
  <2>1. at'[Remove] = "idle"
    BY <1>2, KneeboardAssumption DEF CanOwn, IInv, TypeOK, Coroutines
  <2>2. Listed' BY <1>2, <2>1 DEF Kept, Listed, memory
  <2> QED BY <1>2, <2>2 DEF Kept, Restored
<1> QED BY <1>1, <1>2 DEF ResetTabs

(* The event of the reset list is not delayed any more, unless a switch is  *)
(* suspended.                                                               *)
LEMMA FinishResetKept ==
  ASSUME IInv, IInv', Viewed', Kept, FinishReset
  PROVE  Kept'
<1>0. /\ at[Reset] # "idle" /\ at'[Reset] = "idle"
      /\ \A d \in Coroutines \ {Reset} : at'[d] = at[d] /\ local'[d] = local[d]
      /\ UNCHANGED <<active, settings, games, views, saveEnabled, shutdown, ui>>
  BY DEF FinishReset, Disposed, IInv, TypeOK, Coroutines
<1>1. Switching' <=> Switching BY <1>0, KneeboardAssumption DEF Switching, Coroutines
<1>2. Listed'
  BY <1>0, LiveListed, KneeboardAssumption DEF FinishReset, Kept, Listed, Coroutines
<1>3. CASE SaveSettings BY <1>0, <1>2, <1>3, SaveSettingsSaves, SavingKept
<1>4. CASE ~(delay = 1 /\ EventsOpen)
  <2>1. UNCHANGED missed BY <1>4 DEF FinishReset
  <2>2. CASE Switching
    <3>1. Carried => Carried'
      BY <1>0, <1>4, <2>1, KneeboardAssumption DEF FinishReset, Carried, Carries, Coroutines
    <3> QED BY <1>0, <1>1, <1>2, <2>1, <2>2, <3>1 DEF Kept, Restored
  <2>3. CASE ~Switching /\ shutdown = "no"
    <3>1. Suspended = {Reset} BY <1>0, <2>3 DEF Switching, Suspended
    <3>2. delay = 1 BY <3>1, FS_Singleton DEF IInv, Counted
    <3> QED BY <1>4, <2>3, <3>2 DEF EventsOpen
  <2>4. CASE shutdown # "no"
    BY <1>0, <1>2, <2>4 DEF Kept, Restored
  <2> QED BY <2>2, <2>3, <2>4
<1> QED BY <1>3, <1>4 DEF FinishReset

LEMMA HandleKept ==
  ASSUME IInv, IInv', Viewed', Kept, Handle
  PROVE  Kept'
<1>1. CASE HandleProfile
  <2>1. PICK p \in Profiles : StartSwitch(Queue, p) BY <1>1 DEF HandleProfile
  <2>2. shutdown' = shutdown BY <2>1 DEF StartSwitch, Blocks
  <2> QED BY <2>1, <2>2, StartSwitchKept DEF Switchers
<1>2. CASE HandleTint
  <2>1. Listed' BY <1>2 DEF HandleTint, Kept, Listed, coros
  <2> QED BY <1>2, <2>1, SaveSettingsSaves, SavingKept DEF HandleTint
<1>3. CASE HandleBookmark
  BY <1>3, SameKept, StuckKept DEF HandleBookmark, Blocks, Crashes, disk, coros
<1> QED BY <1>1, <1>2, <1>3 DEF Handle

LEMMA ClosingKept ==
  ASSUME IInv, Kept, Closing
  PROVE  Kept'
<1>1. CASE Shutdown
  <2>1. CASE ~CanOwn /\ Blocks BY <2>1, StuckKept DEF Blocks
  <2>2. CASE UNCHANGED <<memory, saveEnabled, coros>> /\ CanOwn /\ shutdown' = "loop"
    <3>1. Listed' BY <2>2 DEF Kept, Listed, memory, coros
    <3> QED BY <2>2, <3>1 DEF Kept, Restored, CanOwn, coros
  <2> QED BY <1>1, <2>1, <2>2 DEF Shutdown
<1>2. CASE LoopStops \/ EventsStopped \/ DisposeAsync
  BY <1>2, SameKept DEF LoopStops, EventsStopped, DisposeAsync, disk, coros
<1> QED BY <1>1, <1>2 DEF Closing

LEMMA UserKept ==
  ASSUME IInv, IInv', Viewed', Kept, User
  PROVE  Kept'
<1>1. ASSUME NEW c \in Pages, NEW p \in Profiles, SwitchFromPage(c, p) PROVE Kept'
  BY <1>1, StartSwitchKept DEF SwitchFromPage, Switchers, StartSwitch, Blocks
<1>2. ASSUME NEW s \in Own, EditSection(s) \/ ResetSection(s) PROVE Kept'
  BY <1>2, SetSectionKept, ErasedType DEF EditSection, ResetSection, Own, IInv, TypeOK
<1>3. ASSUME SetRepaintNeeded \/ \E request \in Requests : Enqueue(request) PROVE Kept'
  BY <1>3, SameKept DEF SetRepaintNeeded, Enqueue, disk, coros
<1> QED BY <1>1, <1>2, <1>3, EditGamesKept, AskToRemoveKept, ResetTabsKept DEF User

LEMMA NextKept ==
  IInv /\ IInv' /\ Viewed' /\ Kept /\ [Next]_vars => Kept'
<1> SUFFICES ASSUME IInv, IInv', Viewed', Kept, [Next]_vars PROVE Kept'
  OBVIOUS
<1>1. CASE UNCHANGED vars BY <1>1, SameKept DEF vars, disk, coros
<1>2. CASE Resume
  BY <1>2, FinishSwitchKept, TabsLoadedKept, FinishRemoveKept, FinishResetKept DEF Resume
<1>3. CASE FrameTick \/ EndFlush
  BY <1>3, SameKept, StuckKept DEF FrameTick, EndFlush, Blocks, Crashes, disk, coros
<1> QED BY <1>1, <1>2, <1>3, UserKept, RemoveTabKept, HandleKept, ClosingKept DEF Next, Frame

LEMMA InitKept == Init => Viewed /\ Kept
<1> SUFFICES ASSUME Init PROVE Viewed /\ Kept OBVIOUS
<1>1. \A c \in Coroutines : at[c] = "idle" BY DEF Init
<1>2. Listed BY <1>1, LiveListed DEF Init, Listed, Coroutines
<1>3. Present BY DEF Init, Present, Memory, Own, Sections, Whole
<1>4. saveEnabled /\ Carried BY DEF Init, Carried
<1>5. Viewed
  BY <1>1, LoadViewed DEF Init, Viewed, Own, Sections, Whole, Coroutines
<1> QED BY <1>1, <1>2, <1>3, <1>4, <1>5 DEF Kept, Restored, Coroutines

(* When nothing is suspended and nothing waits for the next save, the       *)
(* kneeboard could be started again with what is on disk and be the same,   *)
(* however many switches have overlapped (SetProfileSettings(),             *)
(* SaveSettings() of KneeboardState).                                       *)
THEOREM RestartsTheSame == Spec => []Restartable
<1>1. Kept => Restartable
  <2> SUFFICES ASSUME Kept, Quiet, ~missed PROVE Present
    BY DEF Restartable, Present
  <2>1. ~Switching /\ at[Reset] = "idle" /\ at[Remove] = "idle"
    BY DEF Quiet, Switching, Coroutines
  <2> QED BY <2>1 DEF Kept, Restored, Quiet
<1>2. IInv /\ Viewed /\ Kept /\ [Next]_vars => (IInv /\ Viewed /\ Kept)'
  BY NextIInv, NextViewed, NextKept
<1>3. Init => IInv /\ Viewed /\ Kept BY InitIInv, InitKept
<1> QED BY <1>1, <1>2, <1>3, PTL DEF Spec
===============================================================================
