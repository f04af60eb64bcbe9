-------------------------- MODULE FolderSource_proofs --------------------------
(***************************************************************************)
(* The pages of a folder, for any files, scans and changes of the folder.   *)
(***************************************************************************)
EXTENDS FolderSource, OrderLemmas, FiniteSetTheorems, TLAPS

(* The pages in S and T of the same file are the same. *)
Agree(S, T) == \A d \in S, e \in T : d.file = e.file => d = e

OnePerFile(S) == Agree(S, S)

FilesOf(S) == {d.file : d \in S}

LEMMA DelegatesFinite ==
  ASSUME NEW S \in SUBSET Delegates, OnePerFile(S)
  PROVE  IsFiniteSet(S)
<1> DEFINE f == [d \in S |-> d.file]
<1>1. f \in [S -> Files] BY DEF Delegates
<1>2. f \in Injection(S, Files)
  BY <1>1 DEF Injection, IsInjective, OnePerFile, Agree
<1> QED BY <1>2, FS_Injection, FolderAssumption

(* Of a set with no more elements than one that contains it. *)
LEMMA SameSize ==
  ASSUME NEW S, IsFiniteSet(S), NEW T \in SUBSET S, Cardinality(T) = Cardinality(S)
  PROVE  T = S
BY FS_Subset

-------------------------------------------------------------------------------
(* What holds whichever coroutines overlap. *)
Distinct ==
  /\ OnePerFile(contents) /\ OnePerFile(delegates)
  /\ \A c \in Scans : OnePerFile(scans[c].new)
  /\ \A c \in Scans : scans[c].at = "creating" => \A d \in scans[c].new : d.file < scans[c].pos

(* A coroutine that is alone: what it has found, of the files before the    *)
(* one that it waits for, and what it puts into mDelegates.                 *)
Found(s) ==
  /\ Agree(s.new, contents) /\ (s.fresh \/ s.new \subseteq contents)
  /\ \A f \in s.skipped : f < s.pos
  /\ \A d \in contents : d.file # s.pos

Alone ==
  \A c \in alone :
    /\ Running(c) => \A other \in Scans : other # c => ~Running(other)
    /\ scans[c].at # "disposing"
    /\ scans[c].at = "creating" => Found(scans[c])
    /\ scans[c].at = "setting" =>
         scans[c].new = contents /\ (~spoiled => Agree(delegates, contents))

Shown ==
  ~spoiled /\ (\A c \in Scans : ~Disposing(c)) => delegates = contents

(* Nothing has changed that is not on its way. *)
Told == watched /\ present /\ life = "alive" /\ ~signalled /\ events = 0

UpToDate ==
  Told =>
    /\ \A c \in alone : scans[c].at = "creating" =>
         /\ scans[c].pos \in disk
         /\ FilesOf(scans[c].new) = {f \in disk : f < scans[c].pos} \ scans[c].skipped
    /\ \/ ~spoiled /\ \A c \in Scans : ~Running(c)
       \/ \E c \in alone : scans[c].at = "setting"
       => FilesOf(contents) = disk \ refused

Inv == TypeOK /\ Distinct /\ Alone /\ Shown /\ UpToDate

-------------------------------------------------------------------------------
(* What a scan goes on with. *)
Goes(s) ==
  /\ s.pos \in Files \union {-1} /\ s.new \in SUBSET Delegates /\ s.fresh \in BOOLEAN
  /\ s.skipped \in SUBSET Files
  /\ OnePerFile(s.new) /\ \A d \in s.new : d.file <= s.pos

(* Where it comes to: the next file whose pages are to be made, *)
Waits(c, s) ==
  \E t \in Coroutines :
    /\ t.at = "creating" /\ t.pos \in disk /\ s.pos < t.pos
    /\ t.fresh = s.fresh /\ t.skipped = s.skipped
    /\ OnePerFile(t.new) /\ \A d \in t.new : d.file < t.pos
    /\ t.new \subseteq s.new \union contents /\ (s.new \subseteq contents => t.new \subseteq contents)
    /\ \A d \in contents : d.file # t.pos
    /\ FilesOf(t.new) = FilesOf(s.new) \union {f \in disk : s.pos < f /\ f < t.pos}
    /\ scans' = [scans EXCEPT ![c] = t]
    /\ UNCHANGED <<contents, delegates, disposed, delay, spoiled, refused>>

(* or the end, with nothing new or with other delegates. *)
Ends(c, s) ==
  \E found \in SUBSET Delegates :
    /\ OnePerFile(found) /\ found \subseteq s.new \union contents
    /\ FilesOf(found) = FilesOf(s.new) \union {f \in disk : s.pos < f}
    /\ refused' = s.skipped
    /\ \/ NoChange(c) /\ (s.fresh \/ s.new \subseteq contents => found = contents)
       \/ contents' = found /\ SetDelegates(c, "setting", found)

LEMMA Walking ==
  ASSUME TypeOK, OnePerFile(contents), NEW c \in Scans, NEW s, Goes(s), Walk(c, s)
  PROVE  Waits(c, s) \/ Ends(c, s)
<1> DEFINE unknown == {f \in disk : f > s.pos /\ \A d \in Known(s) : d.file # f}
           next == Min(unknown)
           found == s.new \union Known(s)
<1>1. disk \subseteq Nat /\ disk \subseteq Files /\ s.pos \in Int /\ contents \in SUBSET Delegates
      /\ s.new \in SUBSET Delegates /\ \A d \in s.new : d.file <= s.pos
  <2>1. \A f \in Files : f \in Nat BY FolderAssumption
  <2>2. disk \subseteq Files /\ contents \in SUBSET Delegates BY DEF TypeOK
  <2>3. /\ s.pos \in Files \union {-1} /\ s.new \in SUBSET Delegates
        /\ \A d \in s.new : d.file <= s.pos
    BY DEF Goes
  <2>4. s.pos \in Int BY <2>1, <2>3
  <2> QED BY <2>1, <2>2, <2>3, <2>4
<1>2. \A d \in Delegates : d.file \in Nat BY FolderAssumption DEF Delegates
<1>3. Known(s) \in SUBSET contents /\ \A d \in Known(s) : d.file \in disk /\ d.file > s.pos
  BY DEF Known
<1>4. \A d \in contents : d.file \in disk /\ d.file > s.pos => d \in Known(s)
  BY DEF Known
<1>5. OnePerFile(Known(s)) /\ Agree(s.new, Known(s)) /\ Agree(Known(s), s.new)
  BY <1>1, <1>2, <1>3 DEF OnePerFile, Agree
<1>6. OnePerFile(s.new) /\ s.fresh \in BOOLEAN /\ s.skipped \in SUBSET Files BY DEF Goes
<1> HIDE DEF unknown, next, found
<1>7. CASE unknown = {}
  <2>1. Compare(c, s, found) BY <1>7 DEF Walk, unknown, found
  <2>2. OnePerFile(found) /\ found \subseteq s.new \union contents /\ found \in SUBSET Delegates
    BY <1>1, <1>3, <1>5, <1>6 DEF found, OnePerFile, Agree
  <2>3. FilesOf(found) = FilesOf(s.new) \union {f \in disk : s.pos < f}
    <3>1. FilesOf(found) = FilesOf(s.new) \union FilesOf(Known(s)) BY DEF FilesOf, found
    <3>2. FilesOf(Known(s)) \subseteq {f \in disk : s.pos < f} BY <1>1, <1>3 DEF FilesOf
    <3>3. ASSUME NEW f \in disk, s.pos < f PROVE f \in FilesOf(Known(s))
      <4>1. f > s.pos BY <1>1, <3>3
      <4>2. f \notin unknown BY <1>7
      <4>3. PICK d \in Known(s) : d.file = f BY <4>1, <4>2 DEF unknown
      <4> QED BY <4>3 DEF FilesOf
    <3> QED BY <3>1, <3>2, <3>3
  <2>4. CASE Cardinality(found) = Cardinality(contents) /\ ~s.fresh
    <3>1. NoChange(c) /\ refused' = s.skipped BY <2>1, <2>4 DEF Compare
    <3>2. ASSUME s.new \subseteq contents PROVE found = contents
      <4>1. found \in SUBSET contents BY <1>3, <3>2 DEF found
      <4>2. IsFiniteSet(contents) BY <1>1, DelegatesFinite
      <4> QED BY <2>4, <4>1, <4>2, SameSize
    <3> QED BY <2>2, <2>3, <2>4, <3>1, <3>2 DEF Ends
  <2>5. CASE ~(Cardinality(found) = Cardinality(contents) /\ ~s.fresh)
    <3>1. contents' = found /\ SetDelegates(c, "setting", found) /\ refused' = s.skipped
      BY <2>1, <2>5 DEF Compare
    <3> QED BY <2>2, <2>3, <3>1 DEF Ends
  <2> QED BY <2>4, <2>5
<1>8. CASE unknown # {}
  <2> DEFINE new == s.new \union {d \in Known(s) : d.file < next}
             t == [at |-> "creating", pos |-> next, fresh |-> s.fresh, skipped |-> s.skipped,
                   new |-> new]
  <2>1. /\ scans' = [scans EXCEPT ![c] = t]
        /\ UNCHANGED <<contents, delegates, disposed, delay, spoiled, refused>>
    BY <1>8 DEF Walk, unknown, next
  <2>2. next \in unknown /\ \A f \in unknown : next <= f
    <3>1. unknown \in SUBSET Nat BY <1>1 DEF unknown
    <3> QED BY <1>8, <3>1, MinExists DEF next
  <2>3. next \in disk /\ next > s.pos /\ next \in Nat /\ \A d \in Known(s) : d.file # next
    BY <1>1, <2>2 DEF unknown
  <2>4. new \in SUBSET Delegates BY <1>1, <1>3
  <2>5. t \in Coroutines /\ t.at = "creating" BY <1>1, <1>6, <2>3, <2>4 DEF Coroutines
  <2>6. t.new = new /\ t.pos = next /\ t.fresh = s.fresh /\ t.skipped = s.skipped OBVIOUS
  <2>7. \A d \in new : d.file < next BY <1>1, <1>2, <2>3
  <2>8. OnePerFile(new) /\ new \subseteq s.new \union contents
        /\ (s.new \subseteq contents => new \subseteq contents)
    BY <1>3, <1>5, <1>6 DEF OnePerFile, Agree
  <2>9. \A d \in contents : d.file # next BY <1>4, <2>3
  <2>10. FilesOf(new) = FilesOf(s.new) \union {f \in disk : s.pos < f /\ f < next}
    <3>1. FilesOf(new) = FilesOf(s.new) \union FilesOf({d \in Known(s) : d.file < next})
      BY DEF FilesOf
    <3>2. FilesOf({d \in Known(s) : d.file < next}) \subseteq {f \in disk : s.pos < f /\ f < next}
      BY <1>1, <1>3 DEF FilesOf
    <3>3. ASSUME NEW f \in disk, s.pos < f, f < next
          PROVE  f \in FilesOf({d \in Known(s) : d.file < next})
      <4>1. f > s.pos /\ f \in Nat /\ ~(next <= f) BY <1>1, <2>3, <3>3
      <4>2. f \notin unknown BY <2>2, <4>1
      <4>3. PICK d \in Known(s) : d.file = f BY <4>1, <4>2 DEF unknown
      <4> QED BY <3>3, <4>3 DEF FilesOf
    <3> QED BY <3>1, <3>2, <3>3
  <2>11. s.pos < next BY <1>1, <2>3
  <2> HIDE DEF t, new
  <2> QED BY <2>1, <2>3, <2>5, <2>6, <2>7, <2>8, <2>9, <2>10, <2>11 DEF Waits
<1> QED BY <1>7, <1>8

(* What SetDelegates() does to the coroutines and the delegates. *)
Set(c, at, list) ==
  /\ scans' \in [Scans -> Coroutines]
  /\ \A other \in Scans : other # c => scans'[other] = scans[other]
  /\ delegates' \subseteq Delegates /\ disposed' \subseteq Delegates /\ delay' \in Int
  /\ OnePerFile(scans'[c].new)
  /\ \/ scans'[c].at = "idle" /\ delegates' = list /\ spoiled' = (c \notin alone')
     \/ /\ scans'[c].at = at /\ scans'[c].new = list
        /\ delegates' = delegates /\ spoiled' = spoiled

LEMMA Setting ==
  ASSUME TypeOK, NEW c \in Scans, NEW at \in {"setting", "disposing"},
         NEW list \in SUBSET Delegates, OnePerFile(list), SetDelegates(c, at, list)
  PROVE  Set(c, at, list)
<1> DEFINE t == [Idle EXCEPT !.at = at, !.new = list]
<1>1. ToDispose \subseteq Delegates BY DEF ToDispose, TypeOK
<1>2. disposed' \subseteq Delegates BY <1>1 DEF SetDelegates, TypeOK
<1>3. Idle \in Coroutines /\ Idle.at = "idle" /\ OnePerFile(Idle.new)
  BY DEF Idle, Coroutines, OnePerFile, Agree
<1>4. t \in Coroutines /\ t.at = at /\ t.new = list BY DEF Idle, Coroutines
<1>5. scans \in [Scans -> Coroutines] /\ delegates \subseteq Delegates /\ delay \in Int BY DEF TypeOK
<1>6. CASE ToDispose \subseteq disposed
  <2>1. scans' = [scans EXCEPT ![c] = Idle] /\ delegates' = list /\ delay' = delay
        /\ spoiled' = (c \notin alone')
    BY <1>6 DEF SetDelegates
  <2> QED BY <1>2, <1>3, <1>5, <2>1 DEF Set
<1>7. CASE ~(ToDispose \subseteq disposed)
  <2>1. scans' = [scans EXCEPT ![c] = t]
        /\ delay' = (IF at = "setting" THEN delay + 1 ELSE delay)
        /\ delegates' = delegates /\ spoiled' = spoiled
    BY <1>7 DEF SetDelegates
  <2>2. delay' \in Int BY <1>5, <2>1
  <2> HIDE DEF t
  <2> QED BY <1>2, <1>4, <1>5, <2>1, <2>2 DEF Set
<1> QED BY <1>6, <1>7

-------------------------------------------------------------------------------
(* What a step keeps, of the pages. *)
Kept == ~spoiled /\ ~spoiled' => Agree(delegates, delegates')

Types ==
  /\ scans' \in [Scans -> Coroutines]
  /\ \A c \in Scans : scans'[c].at = "creating" => scans'[c].pos \in Files
  /\ contents' \subseteq Delegates /\ delegates' \subseteq Delegates
  /\ disposed' \subseteq Delegates /\ delay' \in Int
  /\ alone' \subseteq Scans /\ spoiled' \in BOOLEAN /\ refused' \subseteq Files

Steps == Types /\ Distinct' /\ Alone' /\ Shown' /\ UpToDate' /\ Kept

(* What a coroutine has found that goes on with s and is alone. *)
Lone(s) ==
  /\ Agree(s.new, contents) /\ (s.fresh \/ s.new \subseteq contents)
  /\ \A f \in s.skipped : f <= s.pos
  /\ Told' => FilesOf(s.new) = {f \in disk : f <= s.pos} \ s.skipped

(* The coroutine c that goes on with s, or starts. *)
GoesOn(c, s) ==
  /\ Goes(s) /\ ~Disposing(c) /\ alone' \subseteq Scans /\ disk' = disk
  /\ \A other \in alone' : other # c => ~Running(other)
  /\ c \in alone' => /\ Lone(s)
                     /\ \A other \in Scans : other # c => ~Running(other)

LEMMA Scanned ==
  ASSUME Inv, NEW c \in Scans, NEW s, GoesOn(c, s), Waits(c, s) \/ Ends(c, s)
  PROVE  Steps
<1>0. TypeOK /\ Distinct /\ Alone /\ Shown /\ UpToDate BY DEF Inv
<1>1. /\ OnePerFile(contents) /\ OnePerFile(delegates)
      /\ \A d \in Scans : OnePerFile(scans[d].new)
      /\ \A d \in Scans : scans[d].at = "creating" => \A e \in scans[d].new : e.file < scans[d].pos
  BY <1>0 DEF Distinct
<1>2. /\ scans \in [Scans -> Coroutines] /\ contents \subseteq Delegates
      /\ delegates \subseteq Delegates /\ disposed \subseteq Delegates /\ delay \in Int
      /\ spoiled \in BOOLEAN /\ refused \subseteq Files
      /\ \A d \in Scans : scans[d].at = "creating" => scans[d].pos \in Files
  BY <1>0 DEF TypeOK
<1>3. /\ disk \subseteq Nat /\ disk \subseteq Files /\ s.pos \in Int /\ s.skipped \subseteq Files
      /\ s.skipped \subseteq Nat
  <2>1. Goes(s) BY DEF GoesOn
  <2>2. disk \subseteq Files BY <1>0 DEF TypeOK
  <2>3. \A f \in Files : f \in Nat BY FolderAssumption
  <2>4. s.pos \in Files \union {-1} /\ s.skipped \in SUBSET Files BY <2>1 DEF Goes
  <2>5. s.pos \in Int BY <2>3, <2>4
  <2> QED BY <2>2, <2>3, <2>4, <2>5
<1>4. Agree(delegates, delegates) BY <1>1 DEF OnePerFile
<1>5. scans[c].at \notin {"setting", "disposing"} BY DEF GoesOn, Disposing
<1>6. c \in alone' /\ ~spoiled => delegates = contents
  BY <1>0, <1>5 DEF GoesOn, Shown, Disposing, Running
<1>7. /\ alone' \subseteq Scans /\ disk' = disk
      /\ \A other \in alone' : other # c => scans[other].at = "idle"
      /\ c \in alone' => Lone(s) /\ \A other \in Scans : other # c => scans[other].at = "idle"
  BY DEF GoesOn, Running
<1>8. CASE Waits(c, s)
  <2>1. PICK t \in Coroutines :
          /\ t.at = "creating" /\ t.pos \in disk /\ s.pos < t.pos
          /\ t.fresh = s.fresh /\ t.skipped = s.skipped
          /\ OnePerFile(t.new) /\ \A d \in t.new : d.file < t.pos
          /\ t.new \subseteq s.new \union contents
          /\ (s.new \subseteq contents => t.new \subseteq contents)
          /\ \A d \in contents : d.file # t.pos
          /\ FilesOf(t.new) = FilesOf(s.new) \union {f \in disk : s.pos < f /\ f < t.pos}
          /\ scans' = [scans EXCEPT ![c] = t]
          /\ UNCHANGED <<contents, delegates, disposed, delay, spoiled, refused>>
    BY <1>8 DEF Waits
  <2>2. scans'[c] = t /\ \A other \in Scans : other # c => scans'[other] = scans[other]
    BY <1>2, <2>1
  <2>3. Types BY <1>2, <1>3, <1>7, <2>1, <2>2 DEF Types
  <2>4. Distinct' BY <1>1, <2>1, <2>2 DEF Distinct
  <2>5. c \in alone' =>
          /\ Agree(t.new, contents) /\ (t.fresh \/ t.new \subseteq contents)
          /\ \A f \in t.skipped : f < t.pos
          /\ \A d \in contents : d.file # t.pos
    <3> SUFFICES ASSUME c \in alone'
                 PROVE  /\ Agree(t.new, contents) /\ (t.fresh \/ t.new \subseteq contents)
                        /\ \A f \in t.skipped : f < t.pos
                        /\ \A d \in contents : d.file # t.pos
      OBVIOUS
    <3>1. Lone(s) BY <1>7
    <3>2. Agree(t.new, contents)
      BY <1>1, <2>1, <3>1 DEF Lone, Agree, OnePerFile
    <3>3. \A f \in t.skipped : f < t.pos
      <4> SUFFICES ASSUME NEW f \in s.skipped PROVE f < t.pos BY <2>1
      <4>1. f <= s.pos /\ f \in Nat /\ t.pos \in Nat BY <1>3, <2>1, <3>1 DEF Lone
      <4> QED BY <1>3, <2>1, <4>1
    <3> QED BY <2>1, <3>1, <3>2, <3>3 DEF Lone
  <2>6. Alone'
    <3> SUFFICES ASSUME NEW d \in alone'
                 PROVE  /\ Running(d)' => \A other \in Scans : other # d => ~Running(other)'
                        /\ scans'[d].at # "disposing"
                        /\ scans'[d].at = "creating" => Found(scans[d])'
                        /\ scans'[d].at = "setting" =>
                             scans'[d].new = contents' /\ (~spoiled' => Agree(delegates', contents'))
      BY DEF Alone
    <3>1. CASE d = c
      <4>1. \A other \in Scans : other # d => scans'[other].at = "idle" BY <1>7, <2>2, <3>1
      <4>2. scans'[d] = t /\ t.at = "creating" BY <2>1, <2>2, <3>1
      <4>3. Found(scans[d])' BY <2>1, <2>5, <3>1, <4>2 DEF Found
      <4> QED BY <4>1, <4>2, <4>3 DEF Running
    <3>2. CASE d # c
      <4>1. scans'[d].at = "idle" BY <1>7, <2>2, <3>2
      <4> QED BY <4>1 DEF Running
    <3> QED BY <3>1, <3>2
  <2>7. Shown' BY <1>0, <1>5, <2>1, <2>2 DEF Shown, Disposing
  <2>8. UpToDate'
    <3> SUFFICES ASSUME Told' PROVE UpToDate' BY DEF UpToDate
    <3>1. ASSUME c \in alone' PROVE FilesOf(t.new) = {f \in disk : f < t.pos} \ t.skipped
      <4>1. FilesOf(s.new) = {f \in disk : f <= s.pos} \ s.skipped
            /\ \A f \in s.skipped : f <= s.pos
        BY <1>7, <3>1 DEF Lone
      <4>2. t.pos \in Nat BY <1>3, <2>1
      <4>3. {f \in disk : f <= s.pos} \union {f \in disk : s.pos < f /\ f < t.pos}
              = {f \in disk : f < t.pos}
        <5>1. \A f \in disk : f <= s.pos \/ (s.pos < f /\ f < t.pos) <=> f < t.pos
          BY <1>3, <2>1, <4>2
        <5> QED BY <5>1, Zenon
      <4>4. \A f \in disk : s.pos < f => f \notin s.skipped BY <1>3, <4>1
      <4> QED BY <2>1, <4>1, <4>3, <4>4
    <3>2. \A d \in alone' : d # c => scans'[d].at = "idle" BY <1>7, <2>2
    <3>3. scans'[c].at = "creating" BY <2>1, <2>2
    <3> QED BY <1>7, <2>1, <2>2, <3>1, <3>2, <3>3 DEF UpToDate, Running
  <2>9. Kept BY <1>4, <2>1 DEF Kept
  <2> QED BY <2>3, <2>4, <2>6, <2>7, <2>8, <2>9 DEF Steps
<1>9. CASE Ends(c, s)
  <2>1. PICK found \in SUBSET Delegates :
          /\ OnePerFile(found) /\ found \subseteq s.new \union contents
          /\ FilesOf(found) = FilesOf(s.new) \union {f \in disk : s.pos < f}
          /\ refused' = s.skipped
          /\ \/ NoChange(c) /\ (s.fresh \/ s.new \subseteq contents => found = contents)
             \/ contents' = found /\ SetDelegates(c, "setting", found)
    BY <1>9 DEF Ends
  <2>2. ASSUME c \in alone' PROVE Agree(contents, found) /\ (Told' => FilesOf(found) = disk \ refused')
    <3>1. Lone(s) BY <1>7, <2>2
    <3>2. Agree(contents, found) BY <1>1, <2>1, <3>1 DEF Lone, Agree, OnePerFile
    <3>3. Told' => FilesOf(found) = disk \ refused'
      BY <1>3, <2>1, <3>1 DEF Lone
    <3> QED BY <3>2, <3>3
  <2>3. CASE NoChange(c) /\ (s.fresh \/ s.new \subseteq contents => found = contents)
    <3>1. /\ scans' = [scans EXCEPT ![c] = Idle] /\ spoiled' = (spoiled \/ c \notin alone')
          /\ UNCHANGED <<contents, delegates, disposed, delay>>
      BY <2>3 DEF NoChange
    <3>2. Idle.at = "idle" /\ Idle \in Coroutines /\ OnePerFile(Idle.new)
      BY DEF Idle, Coroutines, OnePerFile, Agree
    <3>3. scans'[c].at = "idle" /\ OnePerFile(scans'[c].new)
          /\ \A other \in Scans : other # c => scans'[other] = scans[other]
      BY <1>2, <3>1, <3>2
    <3>4. Types BY <1>2, <1>3, <1>7, <2>1, <3>1, <3>2, <3>3 DEF Types
    <3>5. Distinct' BY <1>1, <3>1, <3>3 DEF Distinct
    <3>6. \A d \in alone' : scans'[d].at = "idle" BY <1>7, <3>3
    <3>7. Alone' BY <3>6 DEF Alone, Running
    <3>8. Shown' BY <1>0, <1>5, <3>1, <3>3 DEF Shown, Disposing
    <3>9. UpToDate'
      <4>1. ASSUME Told', ~spoiled' PROVE FilesOf(contents') = (disk \ refused)'
        <5>1. c \in alone' BY <3>1, <4>1
        <5>2. found = contents BY <1>7, <2>3, <5>1 DEF Lone
        <5> QED BY <1>7, <2>2, <3>1, <4>1, <5>1, <5>2
      <4> QED BY <3>6, <4>1 DEF UpToDate
    <3>10. Kept BY <1>4, <3>1 DEF Kept
    <3> QED BY <3>4, <3>5, <3>7, <3>8, <3>9, <3>10 DEF Steps
  <2>4. CASE contents' = found /\ SetDelegates(c, "setting", found)
    <3>1. Set(c, "setting", found) BY <1>0, <2>1, <2>4, Setting
    <3>2. /\ scans' \in [Scans -> Coroutines]
          /\ \A other \in Scans : other # c => scans'[other] = scans[other]
          /\ delegates' \subseteq Delegates /\ disposed' \subseteq Delegates /\ delay' \in Int
          /\ OnePerFile(scans'[c].new)
          /\ \/ scans'[c].at = "idle" /\ delegates' = found /\ spoiled' = (c \notin alone')
             \/ /\ scans'[c].at = "setting" /\ scans'[c].new = found
                /\ delegates' = delegates /\ spoiled' = spoiled
      BY <3>1 DEF Set
    <3>3. Types BY <1>2, <1>3, <1>7, <2>1, <2>4, <3>2 DEF Types
    <3>4. Distinct' BY <1>1, <2>1, <2>4, <3>2 DEF Distinct
    <3>5. c \in alone' /\ ~spoiled => Agree(delegates, contents') BY <1>6, <2>2, <2>4
    <3>6. \A d \in alone' : d # c => scans'[d].at = "idle" BY <1>7, <3>2
    <3>7. Alone'
      <4> SUFFICES ASSUME NEW d \in alone'
                   PROVE  /\ Running(d)' => \A other \in Scans : other # d => ~Running(other)'
                          /\ scans'[d].at # "disposing"
                          /\ scans'[d].at # "creating"
                          /\ scans'[d].at = "setting" =>
                               scans'[d].new = contents' /\ (~spoiled' => Agree(delegates', contents'))
        BY DEF Alone
      <4>1. CASE d = c BY <1>7, <2>4, <3>2, <3>5, <4>1 DEF Running
      <4>2. CASE d # c BY <3>6, <4>2 DEF Running
      <4> QED BY <4>1, <4>2
    <3>8. Shown' BY <2>4, <3>2 DEF Shown, Disposing
    <3>9. UpToDate'
      <4>1. ASSUME Told', c \in alone' PROVE FilesOf(contents') = (disk \ refused)'
        BY <1>7, <2>2, <2>4, <4>1
      <4>2. ~spoiled' /\ (\A d \in Scans : ~Running(d)') => c \in alone' BY <3>2 DEF Running
      <4>3. (\E d \in alone' : scans'[d].at = "setting") => c \in alone' BY <3>6
      <4>4. \A d \in alone' : scans'[d].at # "creating" BY <3>2, <3>6
      <4> QED BY <4>1, <4>2, <4>3, <4>4 DEF UpToDate
    <3>10. Kept BY <1>4, <2>4, <3>2, <3>5 DEF Kept
    <3> QED BY <3>3, <3>4, <3>7, <3>8, <3>9, <3>10 DEF Steps
  <2> QED BY <2>1, <2>3, <2>4
<1> QED BY <1>8, <1>9

(* What happens without the pages. *)
LEMMA Staying ==
  ASSUME Inv, UNCHANGED <<scanVars, contents, delegates, disposed, delay>>,
         Told' => Told /\ disk' = disk
  PROVE  Steps
<1>0. TypeOK /\ Distinct /\ Alone /\ Shown /\ UpToDate BY DEF Inv
<1>1. UNCHANGED <<scans, alone, spoiled, refused>> BY DEF scanVars
<1>2. Types BY <1>0, <1>1 DEF Types, TypeOK
<1>3. Distinct' BY <1>0, <1>1 DEF Distinct
<1>4. Alone' BY <1>0, <1>1 DEF Alone, Running, Found
<1>5. Shown' BY <1>0, <1>1 DEF Shown, Disposing
<1>6. UpToDate' BY <1>0, <1>1 DEF UpToDate, Running
<1>7. Kept BY <1>0 DEF Kept, Distinct, OnePerFile
<1> QED BY <1>2, <1>3, <1>4, <1>5, <1>6, <1>7 DEF Steps

(* The start of a scan, *)
LEMMA Starting ==
  ASSUME Inv, NEW c \in Scans, StartScan(c), disk' = disk, present' = present
  PROVE  Steps
<1>0. TypeOK /\ OnePerFile(contents) BY DEF Inv, Distinct
<1>1. /\ Idle.at = "idle" /\ Idle.new = {} /\ Idle.pos = -1 /\ Idle.skipped = {}
      /\ Idle.fresh = FALSE
  BY DEF Idle
<1>2. scans[c].at = "idle" BY <1>1 DEF StartScan
<1>3. CASE present
  <2>1. Walk(c, Idle) /\ alone' = (IF \E other \in Scans : Running(other) THEN {} ELSE {c})
    BY <1>3 DEF StartScan, Starts
  <2>2. Goes(Idle) BY <1>1 DEF Goes, OnePerFile, Agree
  <2>3. Lone(Idle)
    <3>1. \A f \in disk : f \in Nat BY <1>0, FolderAssumption DEF TypeOK
    <3>2. FilesOf(Idle.new) = {f \in disk : f <= Idle.pos} \ Idle.skipped
      BY <1>1, <3>1 DEF FilesOf
    <3> QED BY <1>1, <3>2 DEF Lone, Agree
  <2>4. GoesOn(c, Idle) BY <1>2, <2>1, <2>2, <2>3 DEF GoesOn, Disposing
  <2> HIDE DEF Idle
  <2> QED BY <1>0, <1>1, <2>1, <2>2, <2>4, Walking, Scanned
<1>4. CASE ~present
  <2>1. UNCHANGED <<scanVars, contents, delegates, disposed, delay>> /\ ~Told'
    BY <1>4 DEF StartScan, Told
  <2> QED BY <2>1, Staying
<1> QED BY <1>3, <1>4

(* and what it goes on with when the pages of a file have been made, or not. *)
LEMMA Continuing ==
  ASSUME Inv, NEW c \in Scans, scans[c].at = "creating",
         UNCHANGED <<folderVars, watchVars, alone, life>>,
         NEW s, s \in {Opened(scans[c]), Refused(scans[c])}, Walk(c, s)
  PROVE  Steps
<1> DEFINE pages == [file |-> scans[c].pos, id |-> made + 1]
           pos == scans[c].pos
           old == scans[c].new
<1>0. TypeOK /\ Distinct /\ Alone /\ UpToDate BY DEF Inv
<1>1. /\ pos \in Files /\ pos \in Nat /\ made + 1 \in Nat /\ old \in SUBSET Delegates
      /\ scans[c].skipped \in SUBSET Files /\ scans[c].fresh \in BOOLEAN
      /\ scans[c] \in Coroutines /\ disk \subseteq Nat /\ contents \subseteq Delegates
  <2>1. scans[c] \in Coroutines BY <1>0 DEF TypeOK
  <2>2. pos \in Files /\ made + 1 \in Nat /\ disk \subseteq Files /\ contents \subseteq Delegates
    BY <1>0 DEF TypeOK
  <2> QED BY <2>1, <2>2, FolderAssumption DEF Coroutines
<1>2. pages.file = pos /\ pages \in Delegates BY <1>1 DEF Delegates
<1>3. /\ s.pos = pos
      /\ \/ s.new = old \union {pages} /\ s.fresh = TRUE /\ s.skipped = scans[c].skipped
         \/ s.new = old /\ s.fresh = scans[c].fresh /\ s.skipped = scans[c].skipped \union {pos}
  <2>1. scans[c] = [at |-> scans[c].at, pos |-> pos, new |-> old, fresh |-> scans[c].fresh,
                    skipped |-> scans[c].skipped]
    BY <1>1 DEF Coroutines
  <2> QED BY <2>1 DEF Opened, Refused
<1>4. OnePerFile(old) /\ \A d \in old : d.file < pos BY <1>0 DEF Distinct
<1> HIDE DEF pages, pos, old
<1>5. \A d \in Delegates : d.file \in Nat BY FolderAssumption DEF Delegates
<1>6. Goes(s)
  <2>1. s.new \in SUBSET Delegates /\ s.skipped \in SUBSET Files /\ s.fresh \in BOOLEAN
    BY <1>1, <1>2, <1>3
  <2>2. \A d \in s.new : d.file <= s.pos BY <1>1, <1>2, <1>3, <1>4, <1>5
  <2>3. OnePerFile(s.new)
    <3>1. \A d \in old : d.file # pages.file BY <1>1, <1>2, <1>4, <1>5
    <3> QED BY <1>3, <1>4, <3>1 DEF OnePerFile, Agree
  <2> QED BY <1>1, <1>3, <2>1, <2>2, <2>3 DEF Goes
<1>7. ASSUME c \in alone PROVE Lone(s)
  <2>1. Found(scans[c]) BY <1>0, <1>7 DEF Alone
  <2>2. /\ Agree(old, contents) /\ (scans[c].fresh \/ old \subseteq contents)
        /\ \A f \in scans[c].skipped : f < pos /\ f \in Nat
        /\ \A d \in contents : d.file # pos
    BY <1>1, <2>1, FolderAssumption DEF Found, old, pos
  <2>3. Agree(s.new, contents) BY <1>2, <1>3, <2>2 DEF Agree
  <2>4. s.fresh \/ s.new \subseteq contents BY <1>3, <2>2
  <2>5. \A f \in s.skipped : f <= s.pos BY <1>1, <1>3, <2>2
  <2>6. ASSUME Told' PROVE FilesOf(s.new) = {f \in disk : f <= s.pos} \ s.skipped
    <3>1. Told BY <2>6 DEF Told, folderVars, watchVars
    <3>2. FilesOf(old) = {f \in disk : f < pos} \ scans[c].skipped /\ pos \in disk
      BY <1>0, <1>7, <3>1 DEF UpToDate, old, pos
    <3>3. CASE s.new = old \union {pages} /\ s.skipped = scans[c].skipped
      <4>1. FilesOf(s.new) = FilesOf(old) \union {pos} BY <1>2, <3>3 DEF FilesOf
      <4>2. pos \notin scans[c].skipped BY <1>1, <2>2
      <4>3. {f \in disk : f < pos} \union {pos} = {f \in disk : f <= pos}
        <5>1. \A f \in disk : f < pos \/ f = pos <=> f <= pos BY <1>1
        <5> QED BY <3>2, <5>1
      <4> QED BY <1>3, <3>2, <3>3, <4>1, <4>2, <4>3
    <3>4. CASE s.new = old /\ s.skipped = scans[c].skipped \union {pos}
      <4>1. \A f \in disk : f < pos /\ f # pos <=> f <= pos /\ f # pos BY <1>1
      <4>2. FilesOf(s.new) = {f \in disk : f < pos} \ scans[c].skipped BY <3>2, <3>4
      <4>3. pos \notin {f \in disk : f < pos} BY <1>1
      <4> QED BY <1>3, <3>4, <4>1, <4>2, <4>3
    <3> QED BY <1>3, <3>3, <3>4
  <2> QED BY <2>3, <2>4, <2>5, <2>6 DEF Lone
<1>8. GoesOn(c, s)
  <2>1. ~Disposing(c) /\ Running(c) BY DEF Disposing, Running
  <2>2. alone' = alone /\ alone \subseteq Scans /\ disk' = disk BY <1>0 DEF TypeOK, folderVars
  <2>3. \A other \in alone : other # c => ~Running(other) BY <1>0, <2>1 DEF Alone
  <2>4. c \in alone => \A other \in Scans : other # c => ~Running(other) BY <1>0, <2>1 DEF Alone
  <2> QED BY <1>6, <1>7, <2>1, <2>2, <2>3, <2>4 DEF GoesOn
<1>9. OnePerFile(contents) BY <1>0 DEF Distinct
<1> QED BY <1>0, <1>3, <1>6, <1>8, <1>9, Walking, Scanned

(* The delegates are set to none by Reload() without a folder, or Dispose(). *)
LEMMA Clearing ==
  ASSUME Inv, NEW c \in Scans, NEW at \in {"setting", "disposing"}, alone' = {},
         SetDelegates(c, at, {}), UNCHANGED <<contents, refused>>, ~Told'
  PROVE  Steps
<1>0. TypeOK /\ Distinct BY DEF Inv
<1>1. OnePerFile({}) /\ {} \in SUBSET Delegates BY DEF OnePerFile, Agree
<1>2. Set(c, at, {}) BY <1>0, <1>1, Setting
<1>3. /\ scans' \in [Scans -> Coroutines]
      /\ \A other \in Scans : other # c => scans'[other] = scans[other]
      /\ delegates' \subseteq Delegates /\ disposed' \subseteq Delegates /\ delay' \in Int
      /\ OnePerFile(scans'[c].new)
      /\ \/ scans'[c].at = "idle" /\ delegates' = {} /\ spoiled' = TRUE
         \/ /\ scans'[c].at = at /\ scans'[c].new = {}
            /\ delegates' = delegates /\ spoiled' = spoiled
  BY <1>2 DEF Set
<1>4. Types BY <1>0, <1>3 DEF Types, TypeOK
<1>5. Distinct' BY <1>0, <1>1, <1>3 DEF Distinct
<1>6. Alone' BY DEF Alone
<1>7. Shown' BY <1>3 DEF Shown, Disposing
<1>8. UpToDate' BY DEF UpToDate
<1>9. Kept BY <1>0, <1>3 DEF Kept, Distinct, OnePerFile
<1> QED BY <1>4, <1>5, <1>6, <1>7, <1>8, <1>9 DEF Steps

(* And the end of a disposal. *)
LEMMA Ending ==
  ASSUME Inv, NEW c \in Scans, Disposed(c)
  PROVE  Steps
<1>0. TypeOK /\ Distinct /\ Alone /\ UpToDate BY DEF Inv
<1>1. /\ scans[c].at \in {"setting", "disposing"} /\ scans' = [scans EXCEPT ![c] = Idle]
      /\ delegates' = scans[c].new /\ spoiled' = (c \notin alone)
      /\ delay' = (IF scans[c].at = "setting" THEN delay - 1 ELSE delay)
      /\ UNCHANGED <<present, disk, watched, signalled, events, contents, disposed, alone, refused,
                     life>>
  BY DEF Disposed, Disposing, folderVars, watchVars
<1>2. Idle.at = "idle" /\ Idle \in Coroutines /\ OnePerFile(Idle.new)
  BY DEF Idle, Coroutines, OnePerFile, Agree
<1>3. scans \in [Scans -> Coroutines] /\ scans[c].new \subseteq Delegates
  BY <1>0 DEF TypeOK, Coroutines
<1>4. scans'[c].at = "idle" /\ OnePerFile(scans'[c].new)
      /\ \A other \in Scans : other # c => scans'[other] = scans[other]
  BY <1>1, <1>2, <1>3
<1>5. delay' \in Int
  <2>1. delay \in Int BY <1>0 DEF TypeOK
  <2> QED BY <1>1, <2>1
<1>6. Types
  <2>1. scans' \in [Scans -> Coroutines] BY <1>1, <1>2, <1>3
  <2> QED BY <1>0, <1>1, <1>3, <1>4, <1>5, <2>1 DEF Types, TypeOK
<1>7. Distinct' BY <1>0, <1>1, <1>4 DEF Distinct
<1>8. c \in alone =>
        /\ scans[c].at = "setting" /\ scans[c].new = contents
        /\ ~spoiled => Agree(delegates, contents)
  BY <1>0, <1>1 DEF Alone
<1>9. \A d \in alone : scans'[d].at = "idle"
  <2> SUFFICES ASSUME NEW d \in alone, d # c PROVE scans'[d].at = "idle" BY <1>4
  <2>1. ~Running(d) /\ d \in Scans BY <1>0, <1>1 DEF Alone, Running, TypeOK
  <2> QED BY <1>4, <2>1 DEF Running
<1>10. Alone' BY <1>1, <1>9 DEF Alone, Running
<1>11. Shown' BY <1>1, <1>8 DEF Shown
<1>12. UpToDate'
  <2> SUFFICES ASSUME Told' PROVE UpToDate' BY DEF UpToDate
  <2>1. Told BY <1>1 DEF Told
  <2>2. c \in alone => FilesOf(contents) = disk \ refused BY <1>0, <1>8, <2>1 DEF UpToDate
  <2> QED BY <1>1, <1>9, <2>2 DEF UpToDate
<1>13. Kept BY <1>1, <1>8 DEF Kept
<1> QED BY <1>6, <1>7, <1>10, <1>11, <1>12, <1>13 DEF Steps

LEMMA StepsInv ==
  ASSUME Steps, present' \in BOOLEAN, disk' \subseteq Files, watched' \in BOOLEAN,
         signalled' \in BOOLEAN, events' \in Nat, made' \in Nat, crashed' \in BOOLEAN,
         life' \in {"alive", "disposed", "freed"}, changes' \in 0..MaxChanges
  PROVE  Inv' /\ Kept
BY DEF Steps, Types, Inv, TypeOK

LEMMA InitInv == Init => Inv
<1> SUFFICES ASSUME Init PROVE Inv OBVIOUS
<1>1. contents = {[file |-> f, id |-> 0] : f \in disk} /\ delegates = contents
      /\ disk \in SUBSET Files /\ scans = [c \in Scans |-> Idle] /\ alone = {}
  BY DEF Init
<1>2. contents \subseteq Delegates BY <1>1 DEF Delegates
<1>3. Idle.at = "idle" /\ Idle \in Coroutines /\ Idle.new = {} BY DEF Idle, Coroutines
<1>4. scans \in [Scans -> Coroutines] /\ \A c \in Scans : scans[c].at = "idle" /\ scans[c].new = {}
  BY <1>1, <1>3
<1>5. TypeOK
  <2>1. MaxChanges \in Nat BY FolderAssumption
  <2>2. 0 \in 0..MaxChanges BY <2>1
  <2>3. /\ present \in BOOLEAN /\ watched \in BOOLEAN /\ signalled \in BOOLEAN
        /\ crashed \in BOOLEAN /\ spoiled \in BOOLEAN
        /\ life \in {"alive", "disposed", "freed"}
    BY DEF Init
  <2>4. /\ disk \subseteq Files /\ events = 0 /\ delay = 0 /\ made = 0
        /\ disposed = {} /\ alone = {} /\ refused = {} /\ changes \in 0..MaxChanges
    BY <2>2 DEF Init
  <2>5. \A c \in Scans : scans[c].at # "creating" BY <1>4
  <2> QED BY <1>1, <1>2, <1>4, <2>3, <2>4, <2>5 DEF TypeOK
<1>6. OnePerFile(contents) BY <1>1 DEF OnePerFile, Agree
<1>7. Distinct BY <1>1, <1>4, <1>6 DEF Distinct, OnePerFile, Agree
<1>8. FilesOf(contents) = disk
  <2> DEFINE g(f) == [file |-> f, id |-> 0]
  <2>1. contents = {g(f) : f \in disk} /\ \A f \in disk : g(f).file = f BY <1>1
  <2> HIDE DEF g
  <2> QED BY <2>1 DEF FilesOf
<1>9. Alone /\ Shown BY <1>1 DEF Alone, Shown
<1>10. UpToDate BY <1>1, <1>8 DEF UpToDate, Init
<1> QED BY <1>5, <1>7, <1>9, <1>10 DEF Inv

LEMMA NextInv == Inv /\ [Next]_vars => Inv' /\ Kept
<1> SUFFICES ASSUME Inv, [Next]_vars PROVE Inv' /\ Kept OBVIOUS
<1> USE DEF folderVars, watchVars, pageVars
<1>0. /\ present \in BOOLEAN /\ disk \subseteq Files /\ watched \in BOOLEAN
      /\ signalled \in BOOLEAN /\ events \in Nat /\ made \in Nat /\ crashed \in BOOLEAN
      /\ life \in {"alive", "disposed", "freed"} /\ changes \in 0..MaxChanges
  BY DEF Inv, TypeOK
<1>1. Change => changes' \in 0..MaxChanges BY <1>0, FolderAssumption DEF Change
<1>2. CASE UNCHANGED vars
  <2>1. UNCHANGED <<scanVars, contents, delegates, disposed, delay>> /\ (Told' => Told)
    BY <1>2 DEF vars, Told
  <2>2. Steps BY <1>2, <2>1, Staying DEF vars
  <2> QED BY <1>0, <1>2, <2>2, StepsInv DEF vars
<1>3. ASSUME NEW files \in SUBSET Files, ChangeFiles(files) PROVE Inv' /\ Kept
  <2>1. ~Told' BY <1>3 DEF ChangeFiles, Told
  <2>2. Steps BY <1>3, <2>1, Staying DEF ChangeFiles
  <2>3. signalled' \in BOOLEAN BY <1>3 DEF ChangeFiles
  <2> QED BY <1>0, <1>1, <1>3, <2>2, <2>3, StepsInv DEF ChangeFiles
<1>4. CASE RemoveFolder
  <2>1. ~Told' BY <1>4 DEF RemoveFolder, Told
  <2>2. Steps BY <1>4, <2>1, Staying DEF RemoveFolder
  <2>3. signalled' \in BOOLEAN BY <1>4 DEF RemoveFolder
  <2> QED BY <1>0, <1>1, <1>4, <2>2, <2>3, StepsInv DEF RemoveFolder
<1>5. CASE CreateFolder
  <2>1. ~Told' BY <1>5 DEF CreateFolder, Told
  <2>2. Steps BY <1>5, <2>1, Staying DEF CreateFolder
  <2> QED BY <1>0, <1>1, <1>5, <2>2, StepsInv DEF CreateFolder
<1>6. CASE Notify
  <2>1. events' = events + 1 BY <1>6 DEF Notify
  <2>2. events' \in Nat /\ events' # 0 BY <1>0, <2>1
  <2>3. ~Told' BY <2>2 DEF Told
  <2>4. Steps BY <1>6, <2>3, Staying DEF Notify
  <2> QED BY <1>0, <1>6, <2>2, <2>4, StepsInv DEF Notify
<1>7. CASE Free
  <2>1. ~Told' BY <1>7 DEF Free, Told
  <2>2. Steps BY <1>7, <2>1, Staying DEF Free
  <2> QED BY <1>0, <1>7, <2>2, StepsInv DEF Free
<1>8. ASSUME NEW c \in Scans, OnFileModified(c) PROVE Inv' /\ Kept
  <2>1. events' \in Nat BY <1>0, <1>8 DEF OnFileModified
  <2>2. CASE life = "freed"
    <3>1. ~Told' BY <1>8, <2>2 DEF OnFileModified, Told
    <3>2. Steps BY <1>8, <2>2, <3>1, Staying DEF OnFileModified
    <3> QED BY <1>0, <1>8, <2>1, <3>2, StepsInv DEF OnFileModified
  <2>3. CASE life # "freed"
    <3>1. StartScan(c) BY <1>8, <2>3 DEF OnFileModified
    <3>2. Steps BY <1>8, <3>1, Starting DEF OnFileModified
    <3> QED BY <1>0, <1>8, <2>1, <3>2, StepsInv DEF OnFileModified
  <2> QED BY <2>2, <2>3
<1>9. ASSUME NEW c \in Scans, Created(c) PROVE Inv' /\ Kept
  <2>1. scans[c].at = "creating" /\ UNCHANGED <<folderVars, watchVars, alone, life, changes>>
    BY <1>9 DEF Created
  <2>2. CASE life = "freed"
    <3>1. ~Told' BY <2>1, <2>2 DEF Told
    <3>2. UNCHANGED <<scanVars, pageVars, delay>> /\ crashed' = TRUE
      BY <1>9, <2>1, <2>2 DEF Created, scanVars
    <3>3. Steps BY <3>1, <3>2, Staying
    <3> QED BY <1>0, <2>1, <3>2, <3>3, StepsInv
  <2>3. CASE life # "freed"
    <3>1. PICK s \in {Opened(scans[c]), Refused(scans[c])} : Walk(c, s)
      BY <1>9, <2>3 DEF Created
    <3>2. made' \in {made, made + 1} /\ crashed' = crashed BY <1>9, <2>3 DEF Created
    <3>3. made' \in Nat BY <1>0, <3>2
    <3>4. Steps BY <2>1, <3>1, Continuing
    <3> QED BY <1>0, <2>1, <3>2, <3>3, <3>4, StepsInv
  <2> QED BY <2>2, <2>3
<1>10. ASSUME NEW c \in Scans, Disposed(c) PROVE Inv' /\ Kept
  <2>1. Steps BY <1>10, Ending
  <2> QED BY <1>0, <1>10, <2>1, StepsInv DEF Disposed
<1>11. ASSUME NEW c \in Scans, Reload(c) PROVE Inv' /\ Kept
  <2>1. Change /\ UNCHANGED <<folderVars, made, life, crashed>> BY <1>11 DEF Reload
  <2>2. CASE present
    <3>1. StartScan(c) /\ watched' = TRUE /\ signalled' = FALSE /\ events' \in {0, events}
      BY <1>11, <2>2 DEF Reload
    <3>2. Steps BY <2>1, <3>1, Starting
    <3>3. events' \in Nat BY <1>0, <3>1
    <3> QED BY <1>0, <1>1, <2>1, <3>1, <3>2, <3>3, StepsInv
  <2>3. CASE ~present
    <3>1. alone' = {} /\ SetDelegates(c, "setting", {}) /\ UNCHANGED <<watchVars, contents, refused>>
      BY <1>11, <2>3 DEF Reload
    <3>2. ~Told' BY <2>1, <2>3 DEF Told
    <3>3. Steps BY <3>1, <3>2, Clearing
    <3> QED BY <1>0, <1>1, <2>1, <3>1, <3>3, StepsInv
  <2> QED BY <2>2, <2>3
<1>12. ASSUME NEW c \in Scans, Dispose(c) PROVE Inv' /\ Kept
  <2>1. /\ Change /\ life' = "disposed" /\ alone' = {} /\ SetDelegates(c, "disposing", {})
        /\ UNCHANGED <<folderVars, watchVars, contents, refused, made, crashed>>
    BY <1>12 DEF Dispose
  <2>2. ~Told' BY <2>1 DEF Told
  <2>3. Steps BY <2>1, <2>2, Clearing
  <2> QED BY <1>0, <1>1, <2>1, <2>3, StepsInv
<1> QED BY <1>2, <1>3, <1>4, <1>5, <1>6, <1>7, <1>8, <1>9, <1>10, <1>11, <1>12
        DEF Next, Disk, Coroutine

(* The variables keep their types. *)
THEOREM Typing == Spec => []TypeOK
<1>1. Inv => TypeOK BY DEF Inv
<1>2. Inv /\ [Next]_vars => Inv' BY NextInv
<1> QED BY <1>1, <1>2, InitInv, PTL DEF Spec

(* For any folder: whatever changes while scans wait for pages, once all    *)
(* have ended, and the last of them to touch the delegates had run alone,   *)
(* the files that are shown are the ones that are there and that this scan  *)
(* could open (FolderPageSource::OnFileModified()).                         *)
THEOREM FolderShown == Spec => []ShowsFolder
<1>1. Inv => ShowsFolder
  <2> SUFFICES ASSUME Inv, Watching, ~spoiled
               PROVE  {d.file : d \in delegates} = disk \ refused
    BY DEF ShowsFolder
  <2>1. (\A c \in Scans : ~Running(c)) /\ Told BY DEF Watching, Quiet, Told
  <2>2. FilesOf(contents) = disk \ refused BY <2>1 DEF Inv, UpToDate
  <2>3. \A c \in Scans : ~Disposing(c) BY <2>1 DEF Running, Disposing
  <2>4. delegates = contents BY <2>3 DEF Inv, Shown
  <2> QED BY <2>2, <2>4 DEF FilesOf
<1>2. Inv /\ [Next]_vars => Inv' BY NextInv
<1> QED BY <1>1, <1>2, InitInv, PTL DEF Spec

(* And no step gives another PageSource to a file that is shown before and  *)
(* after it, unless scans have overlapped: through any number of changes,   *)
(* reloads, new files and files that cannot be opened.                      *)
THEOREM PagesKept == Spec => KeepsPages
<1>1. Inv /\ [Next]_vars =>
        [~spoiled /\ ~spoiled' => \A d \in delegates, e \in delegates' :
             d.file = e.file /\ d.file \notin Html => d = e]_vars
  BY NextInv DEF Kept, Agree
<1>2. Inv /\ [Next]_vars => Inv' BY NextInv
<1> QED BY <1>1, <1>2, InitInv, PTL DEF Spec, KeepsPages
===============================================================================
