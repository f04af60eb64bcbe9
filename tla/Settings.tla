------------------------------- MODULE Settings -------------------------------
(***************************************************************************)
(* The settings files: a file per profile and section, where the sections   *)
(* a profile has no file for come from the default profile.  One setting    *)
(* stands for all those of a section.  App.json, which no profile owns, is  *)
(* left out, and so are the migrations from older versions but for the one  *)
(* that is done whenever there is no view.                                  *)
(***************************************************************************)
EXTENDS Integers

CONSTANTS
  Profiles,  \* the GUIDs of the profiles
  Default    \* mDefaultProfile

ASSUME ProfilesAssumption == Default \in Profiles

(* Tabs and Games are saved by the objects that own them, Views builds the  *)
(* views, UI stands for the sections that are only read.                    *)
Sections == {"Tabs", "Games", "Views", "UI"}

(* "GamesList and TabsList, where we don't want to merge configs" *)
Whole == {"Tabs", "Games"}

(* A value is known by the profile it was made under and by a revision. *)
Edits == [by : Profiles, rev : {0, 1}]
BuiltIn == [by |-> Default, rev |-> -1]  \* what the code starts from
Null == [by |-> Default, rev |-> -2]     \* the JSON of a list that was never set
NoTabs == [by |-> Default, rev |-> -3]   \* an empty list
Absent == [by |-> Default, rev |-> -4]   \* no file
NoViews == [by |-> Default, rev |-> -5]  \* ViewsSettings{}, an empty list

Values == Edits \union {BuiltIn, Null, NoTabs, NoViews}
SettingsType == [Sections -> Values]
FilesType == [Profiles -> [Sections -> Values \union {Absent}]]

Initial ==
  [s \in Sections |->
     IF s \in Whole THEN Null ELSE IF s = "Views" THEN NoViews ELSE BuiltIn]

(* MigrateToViewsSettings(): a list of views that is empty is replaced by   *)
(* one view.  Its GUID is new each time, which is left out.                 *)
Migrated(s, value) == IF s = "Views" /\ value = NoViews THEN BuiltIn ELSE value

(* Settings::Load(): the files of the profile over those of its parent. *)
Over(file, parent) ==
  [s \in Sections |-> Migrated(s, IF file[s] = Absent THEN parent[s] ELSE file[s])]

Parent(files, p) == IF p = Default THEN Initial ELSE Over(files[Default], Initial)
Load(files, p) == Over(files[p], Parent(files, p))

(* A list is written whenever it differs from the parent's or has no file,  *)
(* and a second save of the parent's value removes the file again.  Another *)
(* section keeps its file once it has one.                                  *)
SavedSection(s, file, parent, value) ==
  IF value = parent /\ ((file = Absent) # (s \in Whole)) THEN Absent ELSE value

Save(files, p, value) ==
  IF Load(files, p) = value
    THEN files
    ELSE [files EXCEPT ![p] =
           [s \in Sections |->
              SavedSection(s, files[p][s], Parent(files, p)[s], value[s])]]

(* Settings::Reset##name##Section(): the value of the parent, which is not  *)
(* loaded for the default profile, and no file.                             *)
Erased(files, p, s) == [files EXCEPT ![p][s] = Absent]

(* What the object that owns a list makes of its JSON. *)
Live(value) == IF value = Null THEN BuiltIn ELSE value
===============================================================================
