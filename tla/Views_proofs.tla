------------------------------ MODULE Views_proofs ------------------------------
(***************************************************************************)
(* The views of any number of tabs and kneeboards, for pages that come and  *)
(* go in any order.                                                         *)
(***************************************************************************)
EXTENDS Views, OrderLemmas, FiniteSetTheorems, TLAPS

(* Lists of pages. *)

LEMMA ListsType ==
  ASSUME NEW S, IsFiniteSet(S), NEW list \in Lists(S)
  PROVE  list \in Seq(S) /\ IsInjective(list) /\ Len(list) \in 0..Cardinality(S)
<1>1. Cardinality(S) \in Nat BY FS_CardinalityType
<1>2. IsInjective(list) BY DEF Lists
<1>3. PICK m \in 0..Cardinality(S) : list \in [1..m -> S] BY DEF Lists, BoundedSeq, SeqOf
<1>4. list \in Seq(S) /\ Len(list) = m BY <1>1, <1>3
<1> QED BY <1>2, <1>4

LEMMA PagesFinite == IsFiniteSet(Pages) /\ Cardinality(Pages) = MaxPage /\ Pages \subseteq 1..MaxPage
<1>1. IsFiniteSet(1..MaxPage) /\ Cardinality(1..MaxPage) = MaxPage
  BY FS_Interval, ViewsAssumption
<1> QED BY <1>1 DEF Pages

(* A list without repetitions is one of those the quantifiers range over.   *)
LEMMA ListsHave ==
  ASSUME NEW s \in Seq(Pages), IsInjective(s)
  PROVE  s \in Lists(Pages)
<1>1. Len(s) \in Nat /\ DOMAIN s = 1..Len(s) /\ s \in [1..Len(s) -> Pages] OBVIOUS
<1>2. s \in Injection(1..Len(s), Pages) BY <1>1 DEF Injection, IsInjective
<1>3. Cardinality(1..Len(s)) = Len(s) BY <1>1, FS_Interval
<1>4. Cardinality(1..Len(s)) <= Cardinality(Pages) BY <1>2, PagesFinite, FS_Injection
<1>5. Len(s) \in 0..Cardinality(Pages) BY <1>1, <1>3, <1>4, PagesFinite, ViewsAssumption
<1>6. s \in BoundedSeq(Pages, Cardinality(Pages)) BY <1>1, <1>5 DEF BoundedSeq, SeqOf
<1> QED BY <1>6 DEF Lists

LEMMA PagesIs ==
  ASSUME NEW s \in Lists(Pages)
  PROVE  /\ s \in Seq(Pages) /\ IsInjective(s) /\ Len(s) \in 0..MaxPage
         /\ Range(s) \subseteq Pages /\ NoPage \notin Range(s)
         /\ s = <<>> <=> Range(s) = {}
         /\ s # <<>> => Head(s) \in Range(s) /\ Last(s) \in Range(s)
<1>1. s \in Seq(Pages) /\ IsInjective(s) /\ Len(s) \in 0..MaxPage
  BY ListsType, PagesFinite
<1>2. DOMAIN s = 1..Len(s) /\ Len(s) \in Nat BY <1>1
<1>3. Range(s) \subseteq Pages BY <1>1 DEF Range
<1>4. NoPage \notin Range(s) BY <1>3 DEF Pages, NoPage
<1>5. s # <<>> => 1 \in DOMAIN s /\ Len(s) \in DOMAIN s BY <1>1
<1>6. Head(s) = s[1] /\ Last(s) = s[Len(s)] BY DEF Last
<1>7. s # <<>> => Head(s) \in Range(s) /\ Last(s) \in Range(s) BY <1>5, <1>6 DEF Range
<1>8. Range(<<>>) = {} BY DEF Range
<1> QED BY <1>1, <1>3, <1>4, <1>7, <1>8

(* Pages have their places, and no two the same one. *)
LEMMA AtIs ==
  ASSUME pages \in [Tabs -> Lists(Pages)], NEW t \in Tabs
  PROVE  /\ \A p : At(t, p) \in 0..MaxPage
         /\ \A p \in Range(pages[t]) : At(t, p) \in DOMAIN pages[t] /\ pages[t][At(t, p)] = p
         /\ \A p, q \in Range(pages[t]) : At(t, p) = At(t, q) => p = q
<1>1. DOMAIN pages[t] = 1..Len(pages[t]) /\ Len(pages[t]) \in 0..MaxPage BY PagesIs
<1>2. ASSUME NEW p \in Range(pages[t])
      PROVE  At(t, p) \in DOMAIN pages[t] /\ pages[t][At(t, p)] = p
  <2>1. \E i \in DOMAIN pages[t] : pages[t][i] = p BY DEF Range
  <2>2. At(t, p) = CHOOSE i \in DOMAIN pages[t] : pages[t][i] = p BY DEF At
  <2> QED BY <2>1, <2>2
<1>3. \A p : p \notin Range(pages[t]) => At(t, p) = 0 BY DEF At
<1>4. \A i \in 1..Len(pages[t]) : i \in 0..MaxPage BY <1>1, ViewsAssumption
<1>5. 0 \in 0..MaxPage BY ViewsAssumption
<1> QED BY <1>1, <1>2, <1>3, <1>4, <1>5

(* Queues. *)

LEMMA RangeAppend ==
  ASSUME NEW S, NEW s \in Seq(S), NEW e \in S
  PROVE  Range(Append(s, e)) = Range(s) \union {e}
<1>1. DOMAIN Append(s, e) = DOMAIN s \union {Len(s) + 1} OBVIOUS
<1>2. \A i \in DOMAIN s : Append(s, e)[i] = s[i] OBVIOUS
<1>3. Append(s, e)[Len(s) + 1] = e OBVIOUS
<1> QED BY <1>1, <1>2, <1>3 DEF Range

LEMMA RangeTail ==
  ASSUME NEW S, NEW s \in Seq(S), s # <<>>
  PROVE  Head(s) \in S /\ Range(s) = Range(Tail(s)) \union {Head(s)}
<1>1. \A i \in DOMAIN s \ {1} : i - 1 \in DOMAIN Tail(s) /\ Tail(s)[i - 1] = s[i] OBVIOUS
<1>2. \A i \in DOMAIN Tail(s) : i + 1 \in DOMAIN s /\ Tail(s)[i] = s[i + 1] OBVIOUS
<1>3. 1 \in DOMAIN s /\ Head(s) = s[1] /\ s[1] \in S OBVIOUS
<1>4. Range(s) \subseteq Range(Tail(s)) \union {Head(s)} BY <1>1, <1>3 DEF Range
<1>5. Range(Tail(s)) \union {Head(s)} \subseteq Range(s) BY <1>2, <1>3 DEF Range
<1> QED BY <1>3, <1>4, <1>5

LEMMA RangeType ==
  ASSUME NEW S, NEW s \in Seq(S)
  PROVE  /\ Range(s) \subseteq S /\ (s = <<>> <=> Range(s) = {})
         /\ (s # <<>> => Head(s) \in Range(s))
BY DEF Range

(* The copies of a list that Kept() makes are those of its elements that    *)
(* are in the set, in the order of the list.                                *)
LEMMA KeptIs ==
  ASSUME NEW V, NEW W \in [V -> Int], NEW s \in Seq(V), Rising(W, s), NEW S
  PROVE  /\ Kept(s, S) \in Seq(V) /\ Range(Kept(s, S)) = Range(s) \intersect S
         /\ Rising(W, Kept(s, S))
<1> DEFINE n == Len(s)
           Is(f) == f = [i \in 0..n |-> IF i = 0 THEN <<>>
                                         ELSE IF s[i] \in S THEN Append(f[i - 1], s[i])
                                         ELSE f[i - 1]]
           kept == CHOOSE f : Is(f)
           D == [x \in Seq(V) \X (1..n) |->
                   IF s[x[2]] \in S THEN Append(x[1], s[x[2]]) ELSE x[1]]
<1>1. n \in Nat /\ DOMAIN s = 1..n /\ \A i \in 1..n : s[i] \in V OBVIOUS
<1>2. Kept(s, S) = kept[n] BY Zenon DEF Kept
<1> HIDE DEF n
<1>3. Is(kept)
  <2>1. D \in [Seq(V) \X (1..n) -> Seq(V)]
    <3>1. \A x \in Seq(V) \X (1..n) :
            (IF s[x[2]] \in S THEN Append(x[1], s[x[2]]) ELSE x[1]) \in Seq(V)
      <4> SUFFICES ASSUME NEW q \in Seq(V), NEW i \in 1..n
                   PROVE  (IF s[i] \in S THEN Append(q, s[i]) ELSE q) \in Seq(V)
        OBVIOUS
      <4>1. s[i] \in V BY <1>1
      <4>2. Append(q, s[i]) \in Seq(V) BY <4>1
      <4> QED BY <4>2
    <3> QED BY <3>1
  <2>2. \A q \in Seq(V), i \in 1..n : D[<<q, i>>] = IF s[i] \in S THEN Append(q, s[i]) ELSE q
    OBVIOUS
  <2> HIDE DEF D
  <2>3. <<>> \in Seq(V) OBVIOUS
  <2>4. PICK f \in [0..n -> Seq(V)] : f[0] = <<>> /\ \A i \in 1..n : f[i] = D[<<f[i - 1], i>>]
    <3>1. PICK f : Recurses(f, Seq(V), <<>>, n, D)
      BY <1>1, <2>1, <2>3, Recursion, Zenon
    <3> QED BY <3>1 DEF Recurses
  <2>5. \A i \in 0..n : f[i] = IF i = 0 THEN <<>> ELSE IF s[i] \in S THEN Append(f[i - 1], s[i])
                                ELSE f[i - 1]
    <3> SUFFICES ASSUME NEW i \in 0..n, i # 0
                 PROVE  f[i] = IF s[i] \in S THEN Append(f[i - 1], s[i]) ELSE f[i - 1]
      BY <2>4
    <3>1. i \in 1..n /\ i - 1 \in 0..n BY <1>1
    <3>2. f[i - 1] \in Seq(V) BY <2>4, <3>1
    <3> QED BY <2>2, <2>4, <3>1, <3>2
  <2>6. f = [i \in 0..n |-> IF i = 0 THEN <<>> ELSE IF s[i] \in S THEN Append(f[i - 1], s[i])
                             ELSE f[i - 1]]
    BY <2>4, <2>5
  <2>7. Is(f) BY <2>6
  <2> HIDE DEF Is
  <2> QED BY <2>7, Zenon
<1> HIDE DEF kept
<1>4. /\ kept[0] = <<>>
      /\ \A i \in 1..n : kept[i] = IF s[i] \in S THEN Append(kept[i - 1], s[i]) ELSE kept[i - 1]
  <2>1. kept = [i \in 0..n |-> IF i = 0 THEN <<>> ELSE IF s[i] \in S THEN Append(kept[i - 1], s[i])
                                ELSE kept[i - 1]]
    BY <1>3
  <2>2. \A i \in 0..n : kept[i] = IF i = 0 THEN <<>>
                                  ELSE IF s[i] \in S THEN Append(kept[i - 1], s[i]) ELSE kept[i - 1]
    BY <2>1, Zenon
  <2>3. 0 \in 0..n /\ \A i \in 1..n : i \in 0..n /\ i # 0 BY <1>1
  <2> QED BY <2>2, <2>3
<1> HIDE DEF Is
<1> DEFINE Good(i) == /\ kept[i] \in Seq(V) /\ Rising(W, kept[i])
                      /\ Range(kept[i]) = {s[j] : j \in 1..i} \intersect S
           P == {i \in 0..n : Good(i)}
<1>5. 0 \in P
  <2>1. <<>> \in Seq(V) /\ Rising(W, <<>>) /\ Range(<<>>) = {} BY DEF Rising, Range
  <2>2. {s[j] : j \in 1..0} = {} OBVIOUS
  <2>3. Good(0) BY <1>4, <2>1, <2>2
  <2> HIDE DEF Good
  <2> QED BY <1>1, <2>3
<1>6. \A i \in 1..n : i - 1 \in P => i \in P
  <2> SUFFICES ASSUME NEW i \in 1..n, i - 1 \in P PROVE Good(i)
    <3>1. \A i \in 1..n : i \in 0..n BY <1>1
    <3> HIDE DEF Good
    <3> QED BY <3>1
  <2>1. s[i] \in V BY <1>1
  <2>2. {s[j] : j \in 1..i} = {s[j] : j \in 1..(i - 1)} \union {s[i]}
    <3>1. 1..i = (1..(i - 1)) \union {i} BY <1>1
    <3> QED BY <3>1
  <2>3. CASE s[i] \notin S
    <3>1. kept[i] = kept[i - 1] BY <1>4, <2>3
    <3> QED BY <2>2, <2>3, <3>1
  <2>4. CASE s[i] \in S
    <3> DEFINE q == kept[i - 1]
               e == <<s[i]>>
    <3>1. kept[i] = Append(q, s[i]) BY <1>4, <2>4
    <3>2. q \in Seq(V) /\ Rising(W, q) /\ Range(q) = {s[j] : j \in 1..(i - 1)} \intersect S
      <4>1. Good(i - 1) OBVIOUS
      <4> QED BY <4>1
    <3>3. e \in Seq(V) /\ Range(e) = {s[i]} /\ Rising(W, e)
      BY <2>1 DEF Range, Rising
    <3> HIDE DEF q
    <3>4. Append(q, s[i]) = q \o e BY <2>1, <3>2
    <3> HIDE DEF e
    <3>5. \A x \in Range(q), y \in Range(e) : W[x] < W[y]
      <4> SUFFICES ASSUME NEW j \in 1..(i - 1) PROVE W[s[j]] < W[s[i]] BY <3>2, <3>3
      <4>1. j \in DOMAIN s /\ i \in DOMAIN s /\ j < i BY <1>1
      <4> QED BY <4>1 DEF Rising
    <3>6. q \o e \in Seq(V) /\ Range(q \o e) = Range(q) \union Range(e) /\ Rising(W, q \o e)
      BY <3>2, <3>3, <3>5, RisingConcat
    <3>7. Range(q \o e) = {s[j] : j \in 1..i} \intersect S BY <2>2, <2>4, <3>2, <3>3, <3>6
    <3> QED BY <3>1, <3>4, <3>6, <3>7
  <2> QED BY <2>3, <2>4
<1> HIDE DEF P, Good
<1>7. n \in P
  <2>1. 0..n \subseteq P BY <1>1, <1>5, <1>6, UpTo
  <2> QED BY <1>1, <2>1
<1>8. Good(n) BY <1>7 DEF P
<1>9. Range(s) = {s[j] : j \in 1..n} BY <1>1 DEF Range
<1> QED BY <1>2, <1>8, <1>9 DEF Good

(* What is done to a view of a tab. *)

LEMMA NewTabViewType ==
  ASSUME pages \in [Tabs -> Lists(Pages)], NEW k \in Kneeboards, NEW t \in Tabs
  PROVE  /\ NoTabView \in TabViews /\ NewTabView(k, t) \in TabViews
         /\ IF pages[t] = <<>> THEN NewTabView(k, t).page = NoPage
                             ELSE NewTabView(k, t).page \in Range(pages[t])
<1>1. NoTabView \in TabViews BY ViewsAssumption DEF NoTabView, TabViews
<1>2. /\ Range(pages[t]) \subseteq Pages
      /\ pages[t] # <<>> => Head(pages[t]) \in Range(pages[t])
  BY PagesIs
<1>3. pages[t] # <<>> => Head(pages[t]) \in Pages BY <1>2
<1> QED BY <1>1, <1>2, <1>3 DEF NewTabView, NoTabView, TabViews

(* A page that is shown is one of the tab's. *)
Exists(v, t) == IF pages[t] = <<>> THEN v.page = NoPage ELSE v.page \in Range(pages[t])

LEMMA TurnedType ==
  ASSUME pages \in [Tabs -> Lists(Pages)], NEW v \in TabViews, NEW t \in Tabs, NEW p
  PROVE  /\ Turned(v, t, p) \in TabViews
         /\ Turned(v, t, p).page = v.page \/ Turned(v, t, p).page \in Range(pages[t])
<1>1. p \in Range(pages[t]) => p \in Pages /\ At(t, p) - 1 \in 0..MaxPage
  BY AtIs, PagesIs, ViewsAssumption
<1> QED BY <1>1 DEF Turned, TabViews

LEMMA ContentChangedType ==
  ASSUME pages \in [Tabs -> Lists(Pages)], NEW v \in TabViews, NEW t \in Tabs
  PROVE  ContentChanged(v, t) \in TabViews /\ Exists(ContentChanged(v, t), t)
<1>1. pages[t] # <<>> => Head(pages[t]) \in Range(pages[t]) /\ Head(pages[t]) \in Pages
  BY PagesIs
<1>2. 0 \in 0..MaxPage BY ViewsAssumption
<1>3. Exists(ContentChanged(v, t), t) BY <1>1 DEF ContentChanged, Exists, TabViews
<1>4. \A p \in Pages \union {NoPage} : [v EXCEPT !.page = p, !.index = 0] \in TabViews
  BY <1>2 DEF TabViews
<1> QED BY <1>1, <1>3, <1>4 DEF ContentChanged

LEMMA PageAppendedType ==
  ASSUME pages \in [Tabs -> Lists(Pages)], NEW v \in TabViews, NEW t \in Tabs, NEW follow,
         pages[t] # <<>>
  PROVE  /\ PageAppended(v, t, follow) \in TabViews
         /\ PageAppended(v, t, follow).page # NoPage
         /\ PageAppended(v, t, follow).page = v.page \/ PageAppended(v, t, follow).page \in Range(pages[t])
<1>1. Head(pages[t]) \in Range(pages[t]) /\ Last(pages[t]) \in Range(pages[t])
  BY PagesIs
<1>2. Len(pages[t]) \in 0..MaxPage BY PagesIs
<1>3. \A p \in Range(pages[t]) : p \in Pages /\ p # NoPage BY PagesIs
<1>4. CASE Len(pages[t]) < 2 \/ v.page = NoPage
  <2>1. 0 \in 0..MaxPage BY ViewsAssumption
  <2>2. PageAppended(v, t, follow) = [v EXCEPT !.page = Head(pages[t]), !.index = 0]
    BY <1>4 DEF PageAppended
  <2> QED BY <1>1, <1>3, <2>1, <2>2 DEF TabViews
<1>5. CASE /\ ~(Len(pages[t]) < 2 \/ v.page = NoPage)
           /\ follow /\ v.index = Len(pages[t]) - 2
  <2>1. Len(pages[t]) - 1 \in 0..MaxPage BY <1>2, <1>5, ViewsAssumption
  <2>2. PageAppended(v, t, follow) =
           [v EXCEPT !.page = Last(pages[t]), !.index = Len(pages[t]) - 1]
    BY <1>5 DEF PageAppended
  <2> QED BY <1>1, <1>3, <2>1, <2>2 DEF TabViews
<1>6. CASE /\ ~(Len(pages[t]) < 2 \/ v.page = NoPage)
           /\ ~(follow /\ v.index = Len(pages[t]) - 2)
  BY <1>6 DEF PageAppended
<1> QED BY <1>4, <1>5, <1>6

-------------------------------------------------------------------------------
(* The inductive invariant.  A view shows one of its tabs; a view that is   *)
(* not of the kneeboard has none; and a page that a view is on has gone, or *)
(* a first page has come, only while an event of the tab says so.           *)

CurrentShown ==
  \A k \in Kneeboards :
    IF shown[k] = <<>> THEN current[k] = NoTab ELSE current[k] \in Range(shown[k])

Unlisted == \A k \in Kneeboards : k \notin Range(kviews) => shown[k] = <<>>

(* An event of the tab is in the queue, and one of its content. *)
Waits(s, t) == \E e \in Range(s) : e.tab = t
Changes(s, t) == \E e \in Range(s) : e.tab = t /\ e.event = "content"

Told ==
  ~Waits(emitted, NoTab) /\ (tabs # <<>> \/ \A c \in Calls : ~change[c].setting) =>
    \A k \in Range(kviews) : shown[k] = tabs

OnPages ==
  ~crashed => \A k \in Kneeboards : \A t \in Range(shown[k]) :
    /\ ~Changes(emitted, t) /\ tabView[k][t].page # NoPage => tabView[k][t].page \in Range(pages[t])
    /\ ~Waits(emitted, t) /\ tabView[k][t].page = NoPage => pages[t] = <<>>

Viewing == CurrentShown /\ Unlisted /\ Told /\ OnPages

IInv == TypeOK /\ Viewing

LEMMA Emitting ==
  ASSUME emitted \in Seq(Events), NEW e \in Events, emitted' = Append(emitted, e), NEW t
  PROVE  /\ emitted' \in Seq(Events)
         /\ Waits(emitted', t) <=> Waits(emitted, t) \/ t = e.tab
         /\ Changes(emitted', t) <=> Changes(emitted, t) \/ (t = e.tab /\ e.event = "content")
<1>1. Range(emitted') = Range(emitted) \union {e} BY RangeAppend
<1>2. emitted' \in Seq(Events) OBVIOUS
<1> QED BY <1>1, <1>2 DEF Waits, Changes

LEMMA Taking ==
  ASSUME emitted \in Seq(Events), emitted # <<>>, emitted' = Tail(emitted), NEW t
  PROVE  /\ emitted' \in Seq(Events) /\ Head(emitted) \in Events
         /\ t # Head(emitted).tab =>
              /\ Waits(emitted', t) <=> Waits(emitted, t)
              /\ Changes(emitted', t) <=> Changes(emitted, t)
         /\ Head(emitted).event # "content" => (Changes(emitted', t) <=> Changes(emitted, t))
<1>1. Range(emitted) = Range(emitted') \union {Head(emitted)} /\ Head(emitted) \in Events
  BY RangeTail
<1>2. emitted' \in Seq(Events) OBVIOUS
<1> QED BY <1>1, <1>2 DEF Waits, Changes

(* The views get another list of tabs. *)

LEMMA SetTabsViewing ==
  ASSUME IInv, NEW K \in SUBSET Kneeboards, SetTabs(K, tabs), UNCHANGED <<pages, crashed>>,
         Range(kviews') = K,
         \A t \in Tabs :
           /\ Waits(emitted', t) <=> Waits(emitted, t)
           /\ Changes(emitted', t) <=> Changes(emitted, t)
  PROVE  /\ shown' \in [Kneeboards -> Seq(Tabs)]
         /\ tabView' \in [Kneeboards -> [Tabs -> TabViews]]
         /\ current' \in [Kneeboards -> Tabs \union {NoTab}]
         /\ CurrentShown' /\ Unlisted' /\ OnPages'
         /\ \A k \in K : shown'[k] = tabs
<1>0. tabs \in Seq(Tabs) /\ <<>> \in Seq(Tabs) BY DEF IInv, TypeOK
<1>1. shown' \in [Kneeboards -> Seq(Tabs)]
      /\ \A k \in Kneeboards : shown'[k] = IF k \in K THEN tabs ELSE <<>>
  BY <1>0 DEF SetTabs
<1>2. \A k \in Kneeboards, t \in Tabs : tabView[k][t] \in TabViews BY DEF IInv, TypeOK
<1>3. \A k \in Kneeboards, t \in Tabs : NoTabView \in TabViews /\ NewTabView(k, t) \in TabViews
  BY NewTabViewType DEF IInv, TypeOK
<1>4. tabView' \in [Kneeboards -> [Tabs -> TabViews]] BY <1>2, <1>3 DEF SetTabs
<1>5. tabs # <<>> => Head(tabs) \in Range(tabs) /\ Range(tabs) \subseteq Tabs
  BY <1>0, RangeType
<1>6. \A k \in K : IF tabs = <<>> THEN current'[k] = NoTab ELSE current'[k] \in Range(tabs)
  <2> SUFFICES ASSUME NEW k \in K, tabs # <<>> PROVE current'[k] \in Range(tabs)
    BY DEF SetTabs
  <2>1. CASE shown[k] = tabs
    BY <1>5, <2>1 DEF SetTabs, IInv, Viewing, CurrentShown
  <2>2. CASE shown[k] # tabs
    BY <1>5, <2>2 DEF SetTabs
  <2> QED BY <2>1, <2>2
<1>7. \A k \in Kneeboards \ K : current'[k] = NoTab BY DEF SetTabs
<1>8. current' \in [Kneeboards -> Tabs \union {NoTab}]
  <2>1. current' = [k \in Kneeboards |-> current'[k]] BY DEF SetTabs
  <2>2. \A k \in Kneeboards : current'[k] \in Tabs \union {NoTab}
    BY <1>5, <1>6, <1>7
  <2> QED BY <2>1, <2>2
<1>9. CurrentShown' BY <1>1, <1>6, <1>7 DEF CurrentShown
<1>10. Unlisted' BY <1>1 DEF Unlisted
<1>11. OnPages'
  <2> SUFFICES ASSUME ~crashed', NEW k \in Kneeboards, NEW t \in Range(shown'[k])
               PROVE  /\ ~Changes(emitted', t) /\ tabView'[k][t].page # NoPage =>
                            tabView'[k][t].page \in Range(pages'[t])
                      /\ ~Waits(emitted', t) /\ tabView'[k][t].page = NoPage => pages'[t] = <<>>
    BY DEF OnPages
  <2>1. k \in K /\ t \in Range(tabs) /\ t \in Tabs
    BY <1>0, <1>1, RangeType
  <2>2. CASE shown[k] = tabs \/ Keeps(k, t)
    <3>1. tabView'[k][t] = tabView[k][t] BY <2>1, <2>2 DEF SetTabs
    <3>2. t \in Range(shown[k]) BY <2>1, <2>2 DEF Keeps
    <3>3. /\ ~Changes(emitted, t) /\ tabView[k][t].page # NoPage => tabView[k][t].page \in Range(pages[t])
          /\ ~Waits(emitted, t) /\ tabView[k][t].page = NoPage => pages[t] = <<>>
      BY <3>2 DEF IInv, Viewing, OnPages
    <3>4. /\ Waits(emitted', t) <=> Waits(emitted, t)
          /\ Changes(emitted', t) <=> Changes(emitted, t)
      BY <2>1
    <3> QED BY <3>1, <3>3, <3>4
  <2>3. CASE ~(shown[k] = tabs \/ Keeps(k, t))
    <3>1. tabView'[k][t] = NewTabView(k, t) BY <2>1, <2>3 DEF SetTabs
    <3>2. IF pages[t] = <<>> THEN NewTabView(k, t).page = NoPage ELSE NewTabView(k, t).page \in Range(pages[t])
      BY <2>1, NewTabViewType DEF IInv, TypeOK
    <3>3. NoPage \notin Range(pages[t]) BY <2>1, PagesIs DEF IInv, TypeOK
    <3> QED BY <3>1, <3>2, <3>3
  <2> QED BY <2>2, <2>3
<1> QED BY <1>1, <1>4, <1>8, <1>9, <1>10, <1>11

(* Views turn to other pages and tabs, and all else but bookmarks stays. *)

LEMMA TurnedIInv ==
  ASSUME IInv, UNCHANGED <<listVars, pages, emitted, focusVars, shown>>,
         crashed' \in BOOLEAN, ~crashed' => ~crashed,
         DOMAIN bookmarks' = Tabs, inputs' \in 0..MaxInputs,
         tabView' \in [Kneeboards -> [Tabs -> TabViews]],
         current' \in [Kneeboards -> Tabs \union {NoTab}], CurrentShown',
         \A k \in Kneeboards, t \in Tabs :
           tabView'[k][t].page = tabView[k][t].page \/ tabView'[k][t].page \in Range(pages[t])
  PROVE  IInv'
<1> USE DEF listVars, focusVars
<1>1. TypeOK' BY DEF IInv, TypeOK
<1>2. Unlisted' /\ Told' BY DEF IInv, Viewing, Unlisted, Told
<1>3. OnPages'
  <2> SUFFICES ASSUME ~crashed', NEW k \in Kneeboards, NEW t \in Range(shown'[k])
               PROVE  /\ ~Changes(emitted', t) /\ tabView'[k][t].page # NoPage =>
                            tabView'[k][t].page \in Range(pages'[t])
                      /\ ~Waits(emitted', t) /\ tabView'[k][t].page = NoPage => pages'[t] = <<>>
    BY DEF OnPages
  <2>1. t \in Range(shown[k]) /\ t \in Tabs BY RangeType DEF IInv, TypeOK
  <2>2. /\ ~Changes(emitted, t) /\ tabView[k][t].page # NoPage => tabView[k][t].page \in Range(pages[t])
        /\ ~Waits(emitted, t) /\ tabView[k][t].page = NoPage => pages[t] = <<>>
    BY <2>1 DEF IInv, Viewing, OnPages
  <2>3. NoPage \notin Range(pages[t]) BY <2>1, PagesIs DEF IInv, TypeOK
  <2> QED BY <2>1, <2>2, <2>3
<1> QED BY <1>1, <1>2, <1>3 DEF IInv, Viewing

LEMMA TurningIInv ==
  ASSUME IInv, UNCHANGED <<listVars, pages, emitted, focusVars, shown, crashed>>,
         DOMAIN bookmarks' = Tabs, inputs' \in 0..MaxInputs,
         tabView' \in [Kneeboards -> [Tabs -> TabViews]],
         current' \in [Kneeboards -> Tabs \union {NoTab}], CurrentShown',
         \A k \in Kneeboards, t \in Tabs :
           tabView'[k][t].page = tabView[k][t].page \/ tabView'[k][t].page \in Range(pages[t])
  PROVE  IInv'
BY TurnedIInv DEF IInv, TypeOK

LEMMA StayingIInv ==
  ASSUME IInv, UNCHANGED <<listVars, pages, emitted, viewVars, kviews>>,
         DOMAIN bookmarks' = Tabs, inputs' \in 0..MaxInputs,
         active' \in DOMAIN kviews, looked' \in Kneeboards \union {NoKneeboard},
         crashed' = crashed \/ crashed' = TRUE
  PROVE  IInv'
<1> USE DEF listVars, viewVars
<1>1. TypeOK' BY DEF IInv, TypeOK
<1>2. CurrentShown' /\ Unlisted' /\ Told' /\ OnPages'
  BY DEF IInv, Viewing, CurrentShown, Unlisted, Told, OnPages
<1> QED BY <1>1, <1>2 DEF IInv, Viewing

LEMMA Looking ==
  ASSUME IInv
  PROVE  /\ View \in Kneeboards /\ View \in Range(kviews)
         /\ Tab \in Tabs \union {NoTab} /\ shown[View] \in Seq(Tabs)
         /\ Live \subseteq Tabs /\ NoTab \notin Live
         /\ Tab \in Tabs => This \in TabViews
<1>1. View \in Kneeboards /\ View \in Range(kviews)
  BY DEF View, IInv, TypeOK, Range
<1>2. Live \subseteq Tabs
  <2>1. Range(tabs) \subseteq Tabs BY RangeType DEF IInv, TypeOK
  <2>2. \A c \in Calls : change[c].old \in Seq(Tabs) /\ change[c].new \in Seq(Tabs)
    BY DEF IInv, TypeOK
  <2>3. \A c \in Calls : Range(change[c].old) \subseteq Tabs /\ Range(change[c].new) \subseteq Tabs
    BY <2>2, RangeType
  <2> QED BY <2>1, <2>3 DEF Live
<1> QED BY <1>1, <1>2, ViewsAssumption DEF Tab, This, IInv, TypeOK

(* A pointer to what has been destroyed may be followed. *)
LEMMA ActIInv ==
  ASSUME IInv, NEW followed, ~(followed \subseteq Live), inputs' \in 0..MaxInputs,
         crashed' = TRUE, UNCHANGED <<bookmarks, viewVars, listVars, pages, emitted, focusVars>>
  PROVE  IInv'
BY StayingIInv DEF IInv, TypeOK, focusVars

LEMMA InputType == ASSUME IInv, Input PROVE inputs' \in 0..MaxInputs
BY ViewsAssumption DEF Input, IInv, TypeOK

(* The tab that is shown gets another page. *)
LEMMA SetThisIInv ==
  ASSUME IInv, Tab \in Tabs, NEW v \in TabViews, v.page = This.page \/ v.page \in Range(pages[Tab]),
         SetThis(v), UNCHANGED <<listVars, pages, emitted, focusVars, crashed>>,
         inputs' \in 0..MaxInputs
  PROVE  IInv'
<1>1. View \in Kneeboards BY Looking
<1>2. tabView' = [tabView EXCEPT ![View][Tab] = v] /\ UNCHANGED <<bookmarks, shown, current>>
  BY DEF SetThis
<1>3. tabView' \in [Kneeboards -> [Tabs -> TabViews]] BY <1>2 DEF IInv, TypeOK
<1>4. \A k \in Kneeboards, t \in Tabs :
        tabView'[k][t] = IF k = View /\ t = Tab THEN v ELSE tabView[k][t]
  BY <1>1, <1>2 DEF IInv, TypeOK
<1>5. CurrentShown' BY <1>2 DEF IInv, Viewing, CurrentShown
<1>6. current' \in [Kneeboards -> Tabs \union {NoTab}] /\ DOMAIN bookmarks' = Tabs
  BY <1>2 DEF IInv, TypeOK
<1> QED BY <1>2, <1>3, <1>4, <1>5, <1>6, TurningIInv DEF This

(* Some of the views of a tab get another page. *)
LEMMA UpdatedType ==
  ASSUME IInv, NEW t \in Tabs, NEW new \in [Kneeboards -> TabViews],
         tabView' = [k \in Kneeboards |->
                      IF t \in Range(shown[k]) THEN [tabView[k] EXCEPT ![t] = new[k]]
                      ELSE tabView[k]]
  PROVE  /\ tabView' \in [Kneeboards -> [Tabs -> TabViews]]
         /\ \A k \in Kneeboards, u \in Tabs :
              tabView'[k][u] = IF u = t /\ t \in Range(shown[k]) THEN new[k] ELSE tabView[k][u]
BY DEF IInv, TypeOK

-------------------------------------------------------------------------------
(* The user's actions. *)

LEMMA TurnTabIInv ==
  ASSUME IInv, NEW step \in Directions, NEW loop \in BOOLEAN, TurnTab(step, loop)
  PROVE  IInv'
<1> DEFINE list == shown[View]
           index == CHOOSE i \in DOMAIN list : list[i] = Tab
           next == Neighbour(list, index, step, loop)
           to == IF list = <<>> THEN NoTab ELSE list[next]
<1>0. Act({to}, current' = [current EXCEPT ![View] = to] /\ UNCHANGED <<bookmarks, shown, tabView>>)
  BY DEF TurnTab
<1>1. list # <<>> => to \in Range(list) /\ to \in Tabs
  <2> SUFFICES ASSUME list # <<>> PROVE to \in Range(list) /\ to \in Tabs OBVIOUS
  <2>1. Tab \in Range(list) BY Looking DEF IInv, Viewing, CurrentShown, Tab
  <2>2. index \in DOMAIN list BY <2>1 DEF Range
  <2>3. list \in Seq(Tabs) BY Looking
  <2>4. next \in DOMAIN list BY <2>2, <2>3 DEF Neighbour
  <2> HIDE DEF next, list
  <2>5. to = list[next] OBVIOUS
  <2> QED BY <2>3, <2>4, <2>5 DEF Range
<1> HIDE DEF to
<1>2. CASE ~({to} \subseteq Live)
  BY <1>0, <1>2, ActIInv, InputType DEF Act
<1>3. CASE {to} \subseteq Live
  <2>1. /\ current' = [current EXCEPT ![View] = to]
        /\ UNCHANGED <<bookmarks, shown, tabView, crashed, listVars, pages, emitted, focusVars>>
    BY <1>0, <1>3 DEF Act
  <2>2. list # <<>> BY <1>3, Looking DEF to
  <2>3. current' \in [Kneeboards -> Tabs \union {NoTab}]
    BY <1>1, <2>1, <2>2 DEF IInv, TypeOK
  <2>4. CurrentShown'
    BY <1>1, <2>1, <2>2, Looking DEF IInv, TypeOK, Viewing, CurrentShown
  <2>5. inputs' \in 0..MaxInputs BY <1>0, InputType DEF Act
  <2> QED BY <2>1, <2>3, <2>4, <2>5, TurningIInv DEF IInv, TypeOK
<1> QED BY <1>2, <1>3

LEMMA TurnPageIInv ==
  ASSUME IInv, NEW step \in Directions, NEW loop \in BOOLEAN, TurnPage(step, loop)
  PROVE  IInv'
<1> DEFINE p == pages[Tab][Neighbour(pages[Tab], At(Tab, ThisPage), step, loop)]
           v == IF This.nav \/ Len(pages[Tab]) < 2 \/ ThisPage \notin Range(pages[Tab])
                  THEN This ELSE Turned(This, Tab, p)
<1>0. Act({Tab}, SetThis(v)) BY DEF TurnPage
<1>1. inputs' \in 0..MaxInputs BY <1>0, InputType DEF Act
<1>2. CASE ~({Tab} \subseteq Live)
  BY <1>0, <1>1, <1>2, ActIInv DEF Act
<1>3. CASE {Tab} \subseteq Live
  <2>1. Tab \in Tabs /\ This \in TabViews BY <1>3, Looking
  <2>2. v \in TabViews /\ (v.page = This.page \/ v.page \in Range(pages[Tab]))
    BY <2>1, TurnedType DEF IInv, TypeOK
  <2>3. SetThis(v) /\ UNCHANGED <<listVars, pages, emitted, focusVars, crashed>>
    BY <1>0, <1>3 DEF Act
  <2> HIDE DEF v
  <2> QED BY <1>1, <2>1, <2>2, <2>3, SetThisIInv
<1> QED BY <1>2, <1>3

LEMMA ToggleNavigationIInv ==
  ASSUME IInv, ToggleNavigation
  PROVE  IInv'
<1>1. inputs' \in 0..MaxInputs /\ Tab \in Live BY InputType DEF ToggleNavigation, Act
<1>2. Tab \in Tabs /\ This \in TabViews BY <1>1, Looking
<1> DEFINE v == [This EXCEPT !.nav = ~@]
<1>3. v \in TabViews /\ v.page = This.page BY <1>2 DEF TabViews
<1>4. SetThis(v) /\ UNCHANGED <<listVars, pages, emitted, focusVars, crashed>>
  BY <1>1 DEF ToggleNavigation, Act
<1> HIDE DEF v
<1> QED BY <1>1, <1>2, <1>3, <1>4, SetThisIInv

LEMMA FollowLinkIInv ==
  ASSUME IInv, NEW p \in Pages, FollowLink(p)
  PROVE  IInv'
<1>1. /\ inputs' \in 0..MaxInputs /\ Tab \in Live
      /\ UNCHANGED <<listVars, pages, emitted, focusVars, crashed>>
  BY InputType DEF FollowLink, Act
<1>2. Tab \in Tabs /\ This \in TabViews BY <1>1, Looking
<1>3. CASE This.nav
  <2> DEFINE v == [Turned(This, Tab, p) EXCEPT !.nav = FALSE]
  <2>1. SetThis(v) BY <1>1, <1>3 DEF FollowLink, Act
  <2>2. Turned(This, Tab, p) \in TabViews
        /\ (Turned(This, Tab, p).page = This.page \/ Turned(This, Tab, p).page \in Range(pages[Tab]))
    BY <1>2, TurnedType DEF IInv, TypeOK
  <2>3. v \in TabViews /\ v.page = Turned(This, Tab, p).page BY <2>2 DEF TabViews
  <2> HIDE DEF v
  <2> QED BY <1>1, <1>2, <2>1, <2>2, <2>3, SetThisIInv
<1>4. CASE ~This.nav
  <2> DEFINE Followed(v) == IF v.owner = This.owner /\ ~v.nav THEN Turned(v, Tab, p) ELSE v
             new == [k \in Kneeboards |-> Followed(tabView[k][Tab])]
  <2>1. /\ tabView' = [k \in Kneeboards |->
                         IF Tab \in Range(shown[k])
                           THEN [tabView[k] EXCEPT ![Tab] = Followed(tabView[k][Tab])]
                           ELSE tabView[k]]
        /\ UNCHANGED <<bookmarks, shown, current>>
    BY <1>1, <1>4 DEF FollowLink, Act, UpdatedViews
  <2>2. \A k \in Kneeboards :
          /\ Followed(tabView[k][Tab]) \in TabViews
          /\ \/ Followed(tabView[k][Tab]).page = tabView[k][Tab].page
             \/ Followed(tabView[k][Tab]).page \in Range(pages[Tab])
    BY <1>2, TurnedType DEF IInv, TypeOK
  <2>3. /\ tabView' = [k \in Kneeboards |->
                         IF Tab \in Range(shown[k]) THEN [tabView[k] EXCEPT ![Tab] = new[k]]
                         ELSE tabView[k]]
        /\ new \in [Kneeboards -> TabViews]
        /\ \A k \in Kneeboards : new[k].page = tabView[k][Tab].page \/ new[k].page \in Range(pages[Tab])
    BY <2>1, <2>2
  <2> HIDE DEF new
  <2>4. /\ tabView' \in [Kneeboards -> [Tabs -> TabViews]]
        /\ \A k \in Kneeboards, u \in Tabs :
             tabView'[k][u] = IF u = Tab /\ Tab \in Range(shown[k]) THEN new[k] ELSE tabView[k][u]
    BY <1>2, <2>3, UpdatedType
  <2>5. CurrentShown' BY <2>1 DEF IInv, Viewing, CurrentShown
  <2>6. \A k \in Kneeboards, t \in Tabs :
          tabView'[k][t].page = tabView[k][t].page \/ tabView'[k][t].page \in Range(pages[t])
    BY <2>3, <2>4
  <2>7. current' \in [Kneeboards -> Tabs \union {NoTab}] /\ DOMAIN bookmarks' = Tabs
    BY <2>1 DEF IInv, TypeOK
  <2> QED BY <1>1, <2>1, <2>4, <2>5, <2>6, <2>7, TurningIInv
<1> QED BY <1>3, <1>4

LEMMA ToggleBookmarkIInv ==
  ASSUME IInv, ToggleBookmark
  PROVE  IInv'
<1>1. inputs' \in 0..MaxInputs BY InputType DEF ToggleBookmark, Act
<1>2. CASE ~({Tab} \subseteq Live)
  BY <1>1, <1>2, ActIInv DEF ToggleBookmark, Act
<1>3. CASE {Tab} \subseteq Live
  <2>1. DOMAIN bookmarks' = Tabs
    <3>1. /\ DOMAIN [bookmarks EXCEPT ![Tab] = Kept(@, Pages \ {ThisPage})] = Tabs
          /\ DOMAIN [bookmarks EXCEPT ![Tab] = Bookmarked(Tab, ThisPage)] = Tabs
          /\ DOMAIN bookmarks = Tabs
      BY DEF IInv, TypeOK
    <3> QED BY <1>3, <3>1 DEF ToggleBookmark, Act
  <2>2. UNCHANGED <<viewVars, crashed, listVars, pages, emitted, focusVars>>
    BY <1>3 DEF ToggleBookmark, Act
  <2> QED BY <1>1, <2>1, <2>2, StayingIInv DEF focusVars, IInv, TypeOK
<1> QED BY <1>2, <1>3

LEMMA GoToBookmarkIInv ==
  ASSUME IInv, NEW forward \in BOOLEAN, NEW loop \in BOOLEAN, GoToBookmark(forward, loop)
  PROVE  IInv'
<1> DEFINE marks == Marks(View)
           S == IF This.nav THEN {} ELSE Range(pages[Tab])
           found == IF ~This.nav /\ ThisPage \notin S THEN 0
                    ELSE Step(marks, Tab, ThisPage, S, forward)
           target == IF found # 0 THEN found ELSE IF ~loop THEN 0
                     ELSE IF forward THEN 1 ELSE Len(marks)
           to == marks[target].tab
           Go == IF target \notin DOMAIN marks \/ to \notin Range(shown[View])
                   THEN UNCHANGED <<bookmarks, viewVars>>
                   ELSE /\ current' = [current EXCEPT ![View] = to]
                        /\ tabView' = [tabView EXCEPT ![View][to] =
                                         [Turned(@, to, marks[target].page) EXCEPT !.nav = FALSE]]
                        /\ UNCHANGED <<bookmarks, shown>>
           followed == {Tab} \union Range(shown[View])
<1>0. Act(followed, Go) BY DEF GoToBookmark
<1> HIDE DEF target, followed, marks
<1>1. inputs' \in 0..MaxInputs BY <1>0, InputType DEF Act
<1>2. CASE ~(followed \subseteq Live)
  BY <1>0, <1>1, <1>2, ActIInv DEF Act
<1>3. CASE followed \subseteq Live
  <2>0. Go /\ UNCHANGED <<crashed, listVars, pages, emitted, focusVars>> BY <1>0, <1>3 DEF Act
  <2>1. CASE UNCHANGED <<bookmarks, viewVars>>
    BY <1>1, <2>0, <2>1, StayingIInv DEF focusVars, IInv, TypeOK
  <2>2. CASE ~UNCHANGED <<bookmarks, viewVars>>
    <3> DEFINE v == [Turned(tabView[View][to], to, marks[target].page) EXCEPT !.nav = FALSE]
    <3>1. /\ to \in Range(shown[View])
          /\ current' = [current EXCEPT ![View] = to]
          /\ tabView' = [tabView EXCEPT ![View][to] = v]
          /\ UNCHANGED <<bookmarks, shown>>
      BY <2>0, <2>2
    <3>2. to \in Tabs /\ View \in Kneeboards BY <3>1, Looking, RangeType
    <3> HIDE DEF to
    <3>3. tabView[View][to] \in TabViews BY <3>2 DEF IInv, TypeOK
    <3>4. /\ Turned(tabView[View][to], to, marks[target].page) \in TabViews
          /\ \/ Turned(tabView[View][to], to, marks[target].page).page = tabView[View][to].page
             \/ Turned(tabView[View][to], to, marks[target].page).page \in Range(pages[to])
      BY <3>2, <3>3, TurnedType DEF IInv, TypeOK
    <3>5. v \in TabViews /\ (v.page = tabView[View][to].page \/ v.page \in Range(pages[to]))
      BY <3>4 DEF TabViews
    <3> HIDE DEF v
    <3>6. tabView' \in [Kneeboards -> [Tabs -> TabViews]] BY <3>1, <3>5 DEF IInv, TypeOK
    <3>7. \A k \in Kneeboards, t \in Tabs :
            tabView'[k][t] = IF k = View /\ t = to THEN v ELSE tabView[k][t]
      BY <3>1, <3>2 DEF IInv, TypeOK
    <3>8. current' \in [Kneeboards -> Tabs \union {NoTab}] BY <3>1, <3>2 DEF IInv, TypeOK
    <3>9. CurrentShown'
      <4>1. shown[View] # <<>> BY <3>1 DEF Range
      <4> QED BY <3>1, <3>2, <4>1 DEF IInv, TypeOK, Viewing, CurrentShown
    <3>10. DOMAIN bookmarks' = Tabs BY <3>1 DEF IInv, TypeOK
    <3> QED BY <1>1, <2>0, <3>1, <3>5, <3>6, <3>7, <3>8, <3>9, <3>10, TurningIInv
  <2> QED BY <2>1, <2>2
<1> QED BY <1>2, <1>3

LEMMA SwapIInv ==
  ASSUME IInv, SwapFirstTwoViews
  PROVE  IInv'
<1> DEFINE a == kviews[1]
           b == kviews[2]
<1>0. /\ a \in Kneeboards /\ b \in Kneeboards /\ a \in Range(kviews) /\ b \in Range(kviews)
      /\ inputs' \in 0..MaxInputs
  BY InputType DEF SwapFirstTwoViews, IInv, TypeOK, Range
<1> DEFINE Other(k) == IF k = b THEN a ELSE IF k = a THEN b ELSE k
<1>1. /\ shown' = [shown EXCEPT ![a] = shown[b], ![b] = shown[a]]
      /\ tabView' = [tabView EXCEPT ![a] = tabView[b], ![b] = tabView[a]]
      /\ current' = [current EXCEPT ![a] = current[b], ![b] = current[a]]
      /\ UNCHANGED <<listVars, tabVars, emitted, focusVars, crashed>>
  BY DEF SwapFirstTwoViews, Swapped
<1> HIDE DEF a, b
<1>2. \A k \in Kneeboards :
        /\ Other(k) \in Kneeboards
        /\ shown'[k] = shown[Other(k)] /\ tabView'[k] = tabView[Other(k)]
        /\ current'[k] = current[Other(k)]
        /\ k \in Range(kviews) <=> Other(k) \in Range(kviews)
  BY <1>0, <1>1 DEF IInv, TypeOK
<1>3. /\ shown' \in [Kneeboards -> Seq(Tabs)]
      /\ tabView' \in [Kneeboards -> [Tabs -> TabViews]]
      /\ current' \in [Kneeboards -> Tabs \union {NoTab}]
  BY <1>0, <1>1 DEF IInv, TypeOK
<1>4. TypeOK' BY <1>0, <1>1, <1>3 DEF IInv, TypeOK, listVars, tabVars, focusVars
<1> HIDE DEF Other
<1>5. CurrentShown' BY <1>2 DEF IInv, Viewing, CurrentShown
<1>6. Unlisted' BY <1>1, <1>2 DEF IInv, Viewing, Unlisted, focusVars
<1>7. Told'
  <2>1. \A k \in Range(kviews) : k \in Kneeboards BY RangeType DEF IInv, TypeOK
  <2> QED BY <1>1, <1>2, <2>1 DEF IInv, Viewing, Told, focusVars, listVars
<1>8. OnPages'
  <2> SUFFICES ASSUME ~crashed', NEW k \in Kneeboards, NEW t \in Range(shown'[k])
               PROVE  /\ ~Changes(emitted', t) /\ tabView'[k][t].page # NoPage =>
                            tabView'[k][t].page \in Range(pages'[t])
                      /\ ~Waits(emitted', t) /\ tabView'[k][t].page = NoPage => pages'[t] = <<>>
    BY DEF OnPages
  <2>1. Other(k) \in Kneeboards /\ t \in Range(shown[Other(k)]) /\ tabView'[k] = tabView[Other(k)]
    BY <1>2
  <2>2. ~crashed /\ emitted' = emitted /\ pages' = pages BY <1>1 DEF tabVars
  <2> QED BY <2>1, <2>2 DEF IInv, Viewing, OnPages
<1> QED BY <1>4, <1>5, <1>6, <1>7, <1>8 DEF IInv, Viewing

LEMMA CycleIInv ==
  ASSUME IInv, CycleActiveView
  PROVE  IInv'
<1>1. active' \in DOMAIN kviews BY DEF CycleActiveView, IInv, TypeOK
<1> QED BY <1>1, StayingIInv, InputType DEF CycleActiveView, tabVars, IInv, TypeOK

(* What the settings, the API and the game do. *)

LEMMA OthersIInv ==
  ASSUME IInv,
         \/ ToggleGaze \/ ChangeGame \/ AfterFrame
         \/ \E k \in Kneeboards : LookAt(k)
  PROVE  IInv'
<1>0. inputs \in 0..MaxInputs /\ active \in DOMAIN kviews /\ 1 \in DOMAIN kviews
  BY DEF IInv, TypeOK
<1>1. CASE ToggleGaze
  BY <1>0, <1>1, StayingIInv, InputType DEF ToggleGaze, tabVars, IInv, TypeOK
<1>2. CASE ChangeGame
  BY <1>0, <1>2, StayingIInv, InputType DEF ChangeGame, tabVars, IInv, TypeOK
<1>3. CASE AfterFrame
  BY <1>0, <1>3, StayingIInv DEF AfterFrame, tabVars, IInv, TypeOK
<1>4. ASSUME NEW k \in Kneeboards, LookAt(k) PROVE IInv'
  BY <1>0, <1>4, StayingIInv, InputType DEF LookAt, tabVars, IInv, TypeOK
<1> QED BY <1>1, <1>2, <1>3, <1>4

LEMMA SetCurrentTabIInv ==
  ASSUME IInv, NEW k \in Kneeboards, NEW t \in Tabs, NEW p, SetCurrentTab(k, t, p)
  PROVE  IInv'
<1> DEFINE to == IF t \in Range(shown[k]) THEN [current EXCEPT ![k] = t] ELSE current
           turns == p \in Range(pages[t]) /\ Len(pages[t]) > 1
           v == tabView[View][t]
<1>1. /\ current' = to /\ inputs' \in 0..MaxInputs
      /\ UNCHANGED <<listVars, tabVars, emitted, focusVars, shown>>
      /\ crashed' \in BOOLEAN /\ (~crashed' => ~crashed)
      /\ tabView' = IF turns /\ to[View] = t /\ ~v.nav
                      THEN [tabView EXCEPT ![View][t] = Turned(@, t, p)] ELSE tabView
  BY InputType DEF SetCurrentTab
<1>2. View \in Kneeboards /\ v \in TabViews BY Looking DEF IInv, TypeOK
<1>3. Turned(v, t, p) \in TabViews
      /\ (Turned(v, t, p).page = v.page \/ Turned(v, t, p).page \in Range(pages[t]))
  BY <1>2, TurnedType DEF IInv, TypeOK
<1>4. tabView' \in [Kneeboards -> [Tabs -> TabViews]] BY <1>1, <1>2, <1>3 DEF IInv, TypeOK
<1>5. \A j \in Kneeboards, u \in Tabs :
        tabView'[j][u].page = tabView[j][u].page \/ tabView'[j][u].page \in Range(pages[u])
  <2> SUFFICES ASSUME NEW j \in Kneeboards, NEW u \in Tabs
               PROVE  tabView'[j][u].page = tabView[j][u].page \/ tabView'[j][u].page \in Range(pages[u])
    OBVIOUS
  <2>1. tabView'[j][u] = tabView[j][u] \/ (j = View /\ u = t /\ tabView'[j][u] = Turned(v, t, p))
    BY <1>1, <1>2 DEF IInv, TypeOK
  <2> QED BY <2>1, <1>3
<1>6. current' \in [Kneeboards -> Tabs \union {NoTab}] BY <1>1 DEF IInv, TypeOK
<1>7. CurrentShown'
  <2>1. t \in Range(shown[k]) => shown[k] # <<>> BY DEF Range
  <2> QED BY <1>1, <2>1 DEF IInv, TypeOK, Viewing, CurrentShown
<1> QED BY <1>1, <1>4, <1>5, <1>6, <1>7, TurnedIInv DEF tabVars, IInv, TypeOK

-------------------------------------------------------------------------------
(* The sources. *)

LEMMA SourceIInv ==
  ASSUME IInv, NEW t \in Tabs, NEW new \in Lists(Pages), NEW e \in Events, e.tab = t,
         \/ e.event = "content"
         \/ Range(pages[t]) \subseteq Range(new),
         pages' = [pages EXCEPT ![t] = new], emitted' = Append(emitted, e),
         inputs' \in 0..MaxInputs,
         UNCHANGED <<listVars, bookmarks, focusVars, viewVars, crashed>>
  PROVE  IInv'
<1> USE DEF listVars, focusVars, viewVars
<1>0. emitted \in Seq(Events) /\ t # NoTab BY ViewsAssumption DEF IInv, TypeOK
<1>1. \A u : /\ emitted' \in Seq(Events)
             /\ Waits(emitted', u) <=> Waits(emitted, u) \/ u = t
             /\ Changes(emitted', u) <=> Changes(emitted, u) \/ (u = t /\ e.event = "content")
  <2> SUFFICES ASSUME NEW u
               PROVE  /\ emitted' \in Seq(Events)
                      /\ Waits(emitted', u) <=> Waits(emitted, u) \/ u = t
                      /\ Changes(emitted', u) <=> Changes(emitted, u) \/ (u = t /\ e.event = "content")
    OBVIOUS
  <2> QED BY <1>0, Emitting
<1>2. pages' \in [Tabs -> Lists(Pages)] BY DEF IInv, TypeOK
<1>3. TypeOK' BY <1>1, <1>2 DEF IInv, TypeOK
<1>4. CurrentShown' /\ Unlisted' BY DEF IInv, Viewing, CurrentShown, Unlisted
<1>5. Told' BY <1>0, <1>1 DEF IInv, Viewing, Told
<1>6. OnPages'
  <2> SUFFICES ASSUME ~crashed', NEW k \in Kneeboards, NEW u \in Range(shown'[k])
               PROVE  /\ ~Changes(emitted', u) /\ tabView'[k][u].page # NoPage =>
                            tabView'[k][u].page \in Range(pages'[u])
                      /\ ~Waits(emitted', u) /\ tabView'[k][u].page = NoPage => pages'[u] = <<>>
    BY DEF OnPages
  <2>1. u \in Range(shown[k]) /\ u \in Tabs BY RangeType DEF IInv, TypeOK
  <2>2. /\ ~Changes(emitted, u) /\ tabView[k][u].page # NoPage => tabView[k][u].page \in Range(pages[u])
        /\ ~Waits(emitted, u) /\ tabView[k][u].page = NoPage => pages[u] = <<>>
    BY <2>1 DEF IInv, Viewing, OnPages
  <2>3. /\ u # t => pages'[u] = pages[u]
        /\ u = t => pages'[u] = new
    BY <2>1 DEF IInv, TypeOK
  <2>4. /\ pages[t] = <<>> <=> Range(pages[t]) = {}
        /\ new = <<>> <=> Range(new) = {}
    BY PagesIs DEF IInv, TypeOK
  <2> QED BY <1>1, <2>1, <2>2, <2>3, <2>4
<1> QED BY <1>3, <1>4, <1>5, <1>6 DEF IInv, Viewing

LEMMA ChangeContentIInv ==
  ASSUME IInv, NEW t \in Tabs, NEW new \in Lists(Pages), ChangeContent(t, new)
  PROVE  IInv'
<1> DEFINE e == [event |-> "content", tab |-> t, follow |-> FALSE]
<1>1. e \in Events /\ e.tab = t /\ e.event = "content" BY DEF Events
<1> QED BY <1>1, SourceIInv, InputType DEF ChangeContent

LEMMA AppendedIs ==
  ASSUME NEW s \in Lists(Pages), NEW p \in Pages, p \notin Range(s)
  PROVE  Append(s, p) \in Lists(Pages) /\ Range(s) \subseteq Range(Append(s, p))
<1>1. s \in Seq(Pages) /\ IsInjective(s) BY PagesIs
<1>2. Append(s, p) \in Seq(Pages) /\ DOMAIN Append(s, p) = DOMAIN s \union {Len(s) + 1}
      /\ (\A i \in DOMAIN s : Append(s, p)[i] = s[i]) /\ Append(s, p)[Len(s) + 1] = p
  BY <1>1
<1>3. IsInjective(Append(s, p)) BY <1>1, <1>2 DEF IsInjective, Range
<1>4. Range(Append(s, p)) = Range(s) \union {p} BY <1>1, RangeAppend
<1> QED BY <1>2, <1>3, <1>4, ListsHave

LEMMA AppendPageIInv ==
  ASSUME IInv, NEW t \in Tabs, NEW follow \in BOOLEAN, AppendPage(t, follow)
  PROVE  IInv'
<1> DEFINE e == [event |-> "append", tab |-> t, follow |-> follow]
<1>1. e \in Events /\ e.tab = t BY DEF Events
<1>2. PICK p \in Pages : p \notin Range(pages[t]) /\ pages' = [pages EXCEPT ![t] = Append(@, p)]
  BY DEF AppendPage, Fresh
<1> DEFINE new == Append(pages[t], p)
<1>3. /\ new \in Lists(Pages) /\ Range(pages[t]) \subseteq Range(new)
      /\ pages' = [pages EXCEPT ![t] = new]
  BY <1>2, AppendedIs DEF IInv, TypeOK
<1>4. /\ emitted' = Append(emitted, e) /\ inputs' \in 0..MaxInputs
      /\ UNCHANGED <<listVars, bookmarks, focusVars, viewVars, crashed>>
  BY InputType DEF AppendPage
<1> HIDE DEF e, new
<1> QED BY <1>1, <1>3, <1>4, SourceIInv

-------------------------------------------------------------------------------
(* The handlers. *)

LEMMA HandleTabsIInv ==
  ASSUME IInv, emitted # <<>>, emitted' = Tail(emitted), HandleTabs,
         UNCHANGED <<listVars, pages, focusVars, inputs>>
  PROVE  IInv'
<1> USE DEF listVars, focusVars
<1>0. emitted \in Seq(Events) BY DEF IInv, TypeOK
<1>1. Head(emitted).event = "tabs" /\ Head(emitted) \in Events
  BY <1>0, RangeTail DEF HandleTabs
<1>2. Head(emitted).tab = NoTab BY <1>1 DEF Events
<1>3. emitted' \in Seq(Events) BY <1>0
<1>4. ASSUME NEW t \in Tabs
      PROVE  /\ Waits(emitted', t) <=> Waits(emitted, t)
             /\ Changes(emitted', t) <=> Changes(emitted, t)
  BY <1>0, <1>2, Taking, ViewsAssumption
<1>5. Range(kviews) \in SUBSET Kneeboards BY RangeType DEF IInv, TypeOK
<1>6. /\ shown' \in [Kneeboards -> Seq(Tabs)]
      /\ tabView' \in [Kneeboards -> [Tabs -> TabViews]]
      /\ current' \in [Kneeboards -> Tabs \union {NoTab}]
      /\ CurrentShown' /\ Unlisted' /\ OnPages'
      /\ \A k \in Range(kviews) : shown'[k] = tabs
  BY <1>4, <1>5, SetTabsViewing DEF HandleTabs
<1>7. TypeOK' BY <1>3, <1>6 DEF HandleTabs, IInv, TypeOK
<1>8. Told' BY <1>6 DEF Told
<1> QED BY <1>6, <1>7, <1>8 DEF IInv, Viewing

(* A handler that gives the views of a tab the pages it now has. *)
LEMMA HandledIInv ==
  ASSUME IInv, emitted # <<>>, emitted' = Tail(emitted), NEW t \in Tabs, Head(emitted).tab = t,
         NEW new \in [Kneeboards -> TabViews],
         tabView' = [k \in Kneeboards |->
                      IF t \in Range(shown[k]) THEN [tabView[k] EXCEPT ![t] = new[k]]
                      ELSE tabView[k]],
         \A k \in Kneeboards : t \in Range(shown[k]) =>
           \/ Exists(new[k], t)
           \/ /\ Head(emitted).event # "content" /\ new[k].page # NoPage
              /\ new[k].page = tabView[k][t].page \/ new[k].page \in Range(pages[t]),
         DOMAIN bookmarks' = Tabs,
         UNCHANGED <<listVars, pages, focusVars, inputs, shown, current, crashed>>
  PROVE  IInv'
<1> USE DEF listVars, focusVars
<1>0. emitted \in Seq(Events) /\ t # NoTab BY ViewsAssumption DEF IInv, TypeOK
<1>1. \A u : /\ emitted' \in Seq(Events)
             /\ u # t => /\ Waits(emitted', u) <=> Waits(emitted, u)
                         /\ Changes(emitted', u) <=> Changes(emitted, u)
             /\ Head(emitted).event # "content" =>
                  (Changes(emitted', u) <=> Changes(emitted, u))
  <2> SUFFICES ASSUME NEW u
               PROVE  /\ emitted' \in Seq(Events)
                      /\ u # t => /\ Waits(emitted', u) <=> Waits(emitted, u)
                                  /\ Changes(emitted', u) <=> Changes(emitted, u)
                      /\ Head(emitted).event # "content" =>
                           (Changes(emitted', u) <=> Changes(emitted, u))
    OBVIOUS
  <2> QED BY <1>0, Taking
<1>2. /\ tabView' \in [Kneeboards -> [Tabs -> TabViews]]
      /\ \A k \in Kneeboards, u \in Tabs :
           tabView'[k][u] = IF u = t /\ t \in Range(shown[k]) THEN new[k] ELSE tabView[k][u]
  BY UpdatedType
<1>3. TypeOK' BY <1>1, <1>2 DEF IInv, TypeOK
<1>4. CurrentShown' /\ Unlisted' BY DEF IInv, Viewing, CurrentShown, Unlisted
<1>5. Told' BY <1>0, <1>1 DEF IInv, Viewing, Told
<1>6. OnPages'
  <2> SUFFICES ASSUME ~crashed', NEW k \in Kneeboards, NEW u \in Range(shown'[k])
               PROVE  /\ ~Changes(emitted', u) /\ tabView'[k][u].page # NoPage =>
                            tabView'[k][u].page \in Range(pages'[u])
                      /\ ~Waits(emitted', u) /\ tabView'[k][u].page = NoPage => pages'[u] = <<>>
    BY DEF OnPages
  <2>1. u \in Range(shown[k]) /\ u \in Tabs BY RangeType DEF IInv, TypeOK
  <2>2. /\ ~Changes(emitted, u) /\ tabView[k][u].page # NoPage => tabView[k][u].page \in Range(pages[u])
        /\ ~Waits(emitted, u) /\ tabView[k][u].page = NoPage => pages[u] = <<>>
    BY <2>1 DEF IInv, Viewing, OnPages
  <2>3. CASE u # t
    <3>1. tabView'[k][u] = tabView[k][u] BY <1>2, <2>1, <2>3
    <3>2. /\ Waits(emitted', u) <=> Waits(emitted, u)
          /\ Changes(emitted', u) <=> Changes(emitted, u)
      BY <1>1, <2>3
    <3> QED BY <2>2, <3>1, <3>2
  <2>4. CASE u = t
    <3>1. tabView'[k][t] = new[k] BY <1>2, <2>1, <2>4
    <3>2. NoPage \notin Range(pages[t]) BY PagesIs DEF IInv, TypeOK
    <3>3. CASE Exists(new[k], t) BY <2>4, <3>1, <3>2, <3>3 DEF Exists
    <3>4. CASE /\ Head(emitted).event # "content" /\ new[k].page # NoPage
               /\ new[k].page = tabView[k][t].page \/ new[k].page \in Range(pages[t])
      <4>1. Changes(emitted', t) <=> Changes(emitted, t) BY <1>1, <3>4
      <4> QED BY <2>2, <2>4, <3>1, <3>4, <4>1
    <3> QED BY <2>1, <2>4, <3>3, <3>4
  <2> QED BY <2>3, <2>4
<1> QED BY <1>3, <1>4, <1>5, <1>6 DEF IInv, Viewing

LEMMA HandleContentIInv ==
  ASSUME IInv, emitted # <<>>, emitted' = Tail(emitted), HandleContent,
         UNCHANGED <<listVars, pages, focusVars, inputs>>
  PROVE  IInv'
<1> DEFINE t == Head(emitted).tab
           new == [k \in Kneeboards |-> ContentChanged(tabView[k][t], t)]
<1>1. t \in Tabs
  <2>1. Head(emitted) \in Events BY RangeTail DEF IInv, TypeOK
  <2> QED BY <2>1 DEF HandleContent, Events
<1>2. /\ tabView' = [k \in Kneeboards |->
                       IF t \in Range(shown[k])
                         THEN [tabView[k] EXCEPT ![t] = ContentChanged(tabView[k][t], t)]
                         ELSE tabView[k]]
      /\ bookmarks' = [bookmarks EXCEPT ![t] = Existing(bookmarks[t], t)]
      /\ UNCHANGED <<shown, current, crashed>>
  BY DEF HandleContent, UpdatedViews
<1>3. \A k \in Kneeboards : ContentChanged(tabView[k][t], t) \in TabViews
                           /\ Exists(ContentChanged(tabView[k][t], t), t)
  BY <1>1, ContentChangedType DEF IInv, TypeOK
<1>4. /\ new \in [Kneeboards -> TabViews] /\ \A k \in Kneeboards : Exists(new[k], t)
      /\ tabView' = [k \in Kneeboards |->
                       IF t \in Range(shown[k]) THEN [tabView[k] EXCEPT ![t] = new[k]]
                       ELSE tabView[k]]
  BY <1>2, <1>3
<1>5. DOMAIN bookmarks' = Tabs BY <1>2 DEF IInv, TypeOK
<1> HIDE DEF new
<1> QED BY <1>1, <1>2, <1>4, <1>5, HandledIInv

LEMMA HandleAppendIInv ==
  ASSUME IInv, emitted # <<>>, emitted' = Tail(emitted), HandleAppend,
         UNCHANGED <<listVars, pages, focusVars, inputs>>
  PROVE  IInv'
<1> DEFINE t == Head(emitted).tab
           After(k) == PageAppended(tabView[k][t], t, Head(emitted).follow)
           new == [k \in Kneeboards |-> IF t \in Range(shown[k]) THEN After(k) ELSE NoTabView]
<1>1. t \in Tabs /\ Head(emitted).event = "append"
  <2>1. Head(emitted) \in Events BY RangeTail DEF IInv, TypeOK
  <2> QED BY <2>1 DEF HandleAppend, Events
<1>2. CASE pages[t] = <<>> /\ \E k \in Kneeboards : t \in Range(shown[k])
  <2>1. crashed' = TRUE /\ UNCHANGED <<tabView, bookmarks, shown, current>>
    BY <1>2 DEF HandleAppend
  <2>2. emitted' \in Seq(Events) BY DEF IInv, TypeOK
  <2>3. TypeOK' BY <2>1, <2>2 DEF IInv, TypeOK, listVars, focusVars
  <2>4. CurrentShown' /\ Unlisted' /\ OnPages'
    BY <2>1 DEF IInv, Viewing, CurrentShown, Unlisted, OnPages, focusVars
  <2>5. Waits(emitted', NoTab) <=> Waits(emitted, NoTab)
    BY <1>1, Taking, ViewsAssumption DEF IInv, TypeOK
  <2>6. Told' BY <2>1, <2>5 DEF IInv, Viewing, Told, focusVars, listVars
  <2> QED BY <2>3, <2>4, <2>6 DEF IInv, Viewing
<1>3. CASE ~(pages[t] = <<>> /\ \E k \in Kneeboards : t \in Range(shown[k]))
  <2>1. /\ tabView' = [k \in Kneeboards |->
                         IF t \in Range(shown[k]) THEN [tabView[k] EXCEPT ![t] = After(k)]
                         ELSE tabView[k]]
        /\ UNCHANGED <<bookmarks, shown, current, crashed>>
    BY <1>3 DEF HandleAppend, UpdatedViews
  <2>2. \A k \in Kneeboards : t \in Range(shown[k]) =>
          /\ After(k) \in TabViews /\ After(k).page # NoPage
          /\ After(k).page = tabView[k][t].page \/ After(k).page \in Range(pages[t])
    BY <1>1, <1>3, PageAppendedType DEF IInv, TypeOK
  <2>3. NoTabView \in TabViews BY ViewsAssumption DEF NoTabView, TabViews
  <2>4. /\ new \in [Kneeboards -> TabViews]
        /\ tabView' = [k \in Kneeboards |->
                         IF t \in Range(shown[k]) THEN [tabView[k] EXCEPT ![t] = new[k]]
                         ELSE tabView[k]]
        /\ \A k \in Kneeboards : t \in Range(shown[k]) =>
             /\ new[k].page # NoPage
             /\ new[k].page = tabView[k][t].page \/ new[k].page \in Range(pages[t])
    BY <2>1, <2>2, <2>3
  <2>5. DOMAIN bookmarks' = Tabs BY <2>1 DEF IInv, TypeOK
  <2> HIDE DEF new
  <2> QED BY <1>1, <2>1, <2>4, <2>5, HandledIInv
<1> QED BY <1>2, <1>3

-------------------------------------------------------------------------------
(* The list of tabs and the views of the kneeboard. *)

LEMMA TabsChangedIs ==
  ASSUME emitted \in Seq(Events), emitted' = TabsChanged
  PROVE  /\ emitted' \in Seq(Events) /\ Waits(emitted', NoTab)
         /\ \A t \in Tabs : Waits(emitted', t) <=> Waits(emitted, t)
         /\ \A t \in Tabs : Changes(emitted', t) <=> Changes(emitted, t)
<1> DEFINE e == [event |-> "tabs", tab |-> NoTab, follow |-> FALSE]
<1>1. e \in Events /\ e.tab = NoTab /\ e.event = "tabs" BY DEF Events
<1>2. emitted' = Append(emitted, e) BY DEF TabsChanged
<1> HIDE DEF e
<1>3. emitted' \in Seq(Events) /\ Waits(emitted', NoTab) BY <1>1, <1>2, Emitting
<1>4. ASSUME NEW t \in Tabs
      PROVE  /\ Waits(emitted', t) <=> Waits(emitted, t)
             /\ Changes(emitted', t) <=> Changes(emitted, t)
  BY <1>1, <1>2, Emitting, ViewsAssumption
<1> QED BY <1>3, <1>4

(* The list changes, and with it what is told; the views stay. *)
LEMMA ListIInv ==
  ASSUME IInv, tabs' \in Seq(Tabs),
         change' \in [Calls -> [setting : BOOLEAN, old : Seq(Tabs), new : Seq(Tabs)]],
         \/ emitted' = TabsChanged
         \/ UNCHANGED emitted /\ tabs' = <<>> /\ (\E c \in Calls : change'[c].setting),
         DOMAIN bookmarks' = Tabs, inputs' \in 0..MaxInputs,
         UNCHANGED <<pages, focusVars, viewVars, crashed>>
  PROVE  IInv'
<1> USE DEF focusVars, viewVars
<1>1. /\ emitted' \in Seq(Events)
      /\ \A t \in Tabs : Waits(emitted', t) <=> Waits(emitted, t)
      /\ \A t \in Tabs : Changes(emitted', t) <=> Changes(emitted, t)
  BY TabsChangedIs DEF IInv, TypeOK
<1>2. TypeOK' BY <1>1 DEF IInv, TypeOK
<1>3. CurrentShown' /\ Unlisted' BY DEF IInv, Viewing, CurrentShown, Unlisted
<1>4. Told'
  <2>1. CASE emitted' = TabsChanged
    <3>1. Waits(emitted', NoTab) BY <2>1, TabsChangedIs DEF IInv, TypeOK
    <3> QED BY <3>1 DEF Told
  <2>2. CASE tabs' = <<>> /\ (\E c \in Calls : change'[c].setting) BY <2>2 DEF Told
  <2> QED BY <2>1, <2>2
<1>5. OnPages'
  <2> SUFFICES ASSUME ~crashed', NEW k \in Kneeboards, NEW t \in Range(shown'[k])
               PROVE  /\ ~Changes(emitted', t) /\ tabView'[k][t].page # NoPage =>
                            tabView'[k][t].page \in Range(pages'[t])
                      /\ ~Waits(emitted', t) /\ tabView'[k][t].page = NoPage => pages'[t] = <<>>
    BY DEF OnPages
  <2>1. t \in Range(shown[k]) /\ t \in Tabs BY RangeType DEF IInv, TypeOK
  <2> QED BY <1>1, <2>1 DEF IInv, Viewing, OnPages
<1> QED BY <1>2, <1>3, <1>4, <1>5 DEF IInv, Viewing

LEMMA StartSetTabsIInv ==
  ASSUME IInv, NEW c \in Calls, NEW list \in Lists(Tabs), StartSetTabs(c, list)
  PROVE  IInv'
<1>1. list \in Seq(Tabs) BY ListsType, ViewsAssumption
<1>2. /\ inputs' \in 0..MaxInputs /\ DOMAIN bookmarks' = Tabs
      /\ UNCHANGED <<pages, focusVars, viewVars, crashed>>
  BY InputType DEF StartSetTabs, IInv, TypeOK, tabVars
<1>3. CASE Range(tabs) \subseteq Range(list)
  <2>1. tabs' = list /\ emitted' = TabsChanged /\ UNCHANGED change BY <1>3 DEF StartSetTabs
  <2> QED BY <1>1, <1>2, <2>1, ListIInv DEF IInv, TypeOK
<1>4. CASE ~(Range(tabs) \subseteq Range(list))
  <2> DEFINE d == [setting |-> TRUE, old |-> tabs, new |-> list]
  <2>1. tabs' = <<>> /\ UNCHANGED emitted /\ change' = [change EXCEPT ![c] = d]
    BY <1>4 DEF StartSetTabs
  <2>2. d \in [setting : BOOLEAN, old : Seq(Tabs), new : Seq(Tabs)] /\ d.setting
    BY <1>1 DEF IInv, TypeOK
  <2> HIDE DEF d
  <2>3. change' \in [Calls -> [setting : BOOLEAN, old : Seq(Tabs), new : Seq(Tabs)]]
        /\ change'[c].setting
    BY <2>1, <2>2 DEF IInv, TypeOK
  <2>4. <<>> \in Seq(Tabs) OBVIOUS
  <2> QED BY <1>2, <2>1, <2>3, <2>4, ListIInv
<1> QED BY <1>3, <1>4

LEMMA FinishSetTabsIInv ==
  ASSUME IInv, NEW c \in Calls, FinishSetTabs(c)
  PROVE  IInv'
<1>1. Idle \in [setting : BOOLEAN, old : Seq(Tabs), new : Seq(Tabs)] BY DEF Idle
<1>2. /\ change' \in [Calls -> [setting : BOOLEAN, old : Seq(Tabs), new : Seq(Tabs)]]
      /\ tabs' \in Seq(Tabs)
  BY <1>1 DEF FinishSetTabs, IInv, TypeOK
<1>3. /\ DOMAIN bookmarks' = Tabs /\ emitted' = TabsChanged /\ inputs' \in 0..MaxInputs
      /\ UNCHANGED <<pages, focusVars, viewVars, crashed>>
  BY DEF FinishSetTabs, IInv, TypeOK
<1> QED BY <1>2, <1>3, ListIInv

LEMMA SetViewsSettingsIInv ==
  ASSUME IInv, NEW list \in Lists(Kneeboards) \ {<<>>}, SetViewsSettings(list)
  PROVE  IInv'
<1>0. list \in Seq(Kneeboards) /\ list # <<>> BY ListsType, ViewsAssumption
<1>1. /\ kviews' = list /\ SetTabs(Range(list), tabs) /\ inputs' \in 0..MaxInputs
      /\ active' = IF active > Len(list) THEN Len(list) ELSE active
      /\ UNCHANGED <<listVars, tabVars, emitted, looked, crashed>>
  BY InputType DEF SetViewsSettings, InitializeViews
<1>2. active' \in DOMAIN list BY <1>0, <1>1 DEF IInv, TypeOK
<1>3. Range(list) \in SUBSET Kneeboards BY <1>0, RangeType
<1>4. \A t \in Tabs :
        /\ Waits(emitted', t) <=> Waits(emitted, t)
        /\ Changes(emitted', t) <=> Changes(emitted, t)
  BY <1>1
<1>5. Range(kviews') = Range(list) /\ UNCHANGED <<pages, crashed>> BY <1>1 DEF tabVars
<1>6. /\ shown' \in [Kneeboards -> Seq(Tabs)]
      /\ tabView' \in [Kneeboards -> [Tabs -> TabViews]]
      /\ current' \in [Kneeboards -> Tabs \union {NoTab}]
      /\ CurrentShown' /\ Unlisted' /\ OnPages'
      /\ \A k \in Range(list) : shown'[k] = tabs
  BY <1>1, <1>3, <1>4, <1>5, SetTabsViewing
<1>7. TypeOK' BY <1>0, <1>1, <1>2, <1>6 DEF IInv, TypeOK, listVars, tabVars
<1>8. Told' BY <1>1, <1>6 DEF Told, listVars
<1> QED BY <1>6, <1>7, <1>8 DEF IInv, Viewing

-------------------------------------------------------------------------------
LEMMA InitIInv == Init => IInv
<1> SUFFICES ASSUME Init PROVE IInv OBVIOUS
<1>1. /\ tabs \in Seq(Tabs) /\ tabs # <<>>
      /\ kviews \in Seq(Kneeboards) /\ kviews # <<>>
  BY ListsType, ViewsAssumption DEF Init
<1>2. pages \in [Tabs -> Lists(Pages)]
  <2>1. <<1>> \in Lists(Pages)
    <3>1. <<1>> \in Seq(Pages) /\ IsInjective(<<1>>) BY ViewsAssumption DEF Pages, IsInjective
    <3> QED BY <3>1, ListsHave
  <2>2. MaxPage # 1 => <<1, 2>> \in Lists(Pages)
    <3> SUFFICES ASSUME MaxPage # 1 PROVE <<1, 2>> \in Lists(Pages) OBVIOUS
    <3>1. 1 \in Pages /\ 2 \in Pages BY ViewsAssumption DEF Pages
    <3>2. <<1, 2>> \in Seq(Pages) /\ IsInjective(<<1, 2>>) BY <3>1 DEF IsInjective
    <3> QED BY <3>2, ListsHave
  <2> QED BY <2>1, <2>2 DEF Init
<1>3. Head(tabs) \in Range(tabs) /\ Range(tabs) \subseteq Tabs BY <1>1, RangeType
<1>4. Range(kviews) \subseteq Kneeboards BY <1>1, RangeType
<1>5. shown \in [Kneeboards -> Seq(Tabs)] BY <1>1 DEF Init
<1>6. \A k \in Kneeboards, t \in Tabs : NewTabView(k, t) \in TabViews /\ NoTabView \in TabViews
  BY <1>2, NewTabViewType
<1>7. tabView \in [Kneeboards -> [Tabs -> TabViews]] BY <1>6 DEF Init
<1>8. current \in [Kneeboards -> Tabs \union {NoTab}] BY <1>3 DEF Init
<1>9. TypeOK
  <2>1. change \in [Calls -> [setting : BOOLEAN, old : Seq(Tabs), new : Seq(Tabs)]]
    BY DEF Init, Idle
  <2>2. active \in DOMAIN kviews BY <1>1 DEF Init
  <2>3. emitted \in Seq(Events) /\ DOMAIN bookmarks = Tabs BY DEF Init
  <2>4. looked \in Kneeboards \union {NoKneeboard} /\ crashed \in BOOLEAN /\ inputs \in 0..MaxInputs
    <3>1. MaxInputs \in Nat BY ViewsAssumption
    <3>2. looked = NoKneeboard /\ crashed = FALSE /\ inputs = 0 BY DEF Init
    <3>3. 0 \in 0..MaxInputs BY <3>1
    <3>4. crashed \in BOOLEAN BY DEF Init
    <3> QED BY <3>2, <3>3, <3>4
  <2> QED BY <1>1, <1>2, <1>5, <1>7, <1>8, <2>1, <2>2, <2>3, <2>4 DEF TypeOK
<1>10. \A k \in Kneeboards : shown[k] = IF k \in Range(kviews) THEN tabs ELSE <<>> BY DEF Init
<1>11. CurrentShown BY <1>1, <1>3, <1>10 DEF Init, CurrentShown
<1>12. Unlisted /\ Told BY <1>4, <1>10 DEF Unlisted, Told
<1>13. OnPages
  <2> SUFFICES ASSUME NEW k \in Kneeboards, NEW t \in Range(shown[k])
               PROVE  /\ tabView[k][t].page # NoPage => tabView[k][t].page \in Range(pages[t])
                      /\ tabView[k][t].page = NoPage => pages[t] = <<>>
    BY DEF OnPages
  <2>1. t \in Tabs BY <1>5, RangeType
  <2>2. tabView[k][t] = NewTabView(k, t) BY <2>1 DEF Init
  <2>3. NoPage \notin Range(pages[t]) BY <1>2, <2>1, PagesIs
  <2>4. IF pages[t] = <<>> THEN NewTabView(k, t).page = NoPage
                        ELSE NewTabView(k, t).page \in Range(pages[t])
    BY <1>2, <2>1, NewTabViewType
  <2> QED BY <2>2, <2>3, <2>4
<1> QED BY <1>9, <1>11, <1>12, <1>13 DEF IInv, Viewing

LEMMA NextIInv == IInv /\ [Next]_vars => IInv'
<1> SUFFICES ASSUME IInv, [Next]_vars PROVE IInv' OBVIOUS
<1>1. CASE UNCHANGED vars
  BY <1>1, StayingIInv DEF vars, tabVars, focusVars, IInv, TypeOK
<1>2. CASE UserActions
  BY <1>2, TurnTabIInv, TurnPageIInv, GoToBookmarkIInv, ToggleNavigationIInv,
     ToggleBookmarkIInv, SwapIInv, CycleIInv, FollowLinkIInv DEF UserActions
<1>3. CASE Settings
  BY <1>3, StartSetTabsIInv, SetViewsSettingsIInv, OthersIInv DEF Settings
<1>4. CASE Others
  BY <1>4, OthersIInv, SetCurrentTabIInv, ChangeContentIInv, AppendPageIInv, ViewsAssumption
     DEF Others
<1>5. CASE HandleEvent
  BY <1>5, HandleTabsIInv, HandleContentIInv, HandleAppendIInv DEF HandleEvent
<1> QED BY <1>1, <1>2, <1>3, <1>4, <1>5, FinishSetTabsIInv, OthersIInv DEF Next

LEMMA PendingWaits ==
  ASSUME NEW t
  PROVE  /\ Pending(t) <=> Waits(emitted, t)
         /\ Changes(emitted, t) => Pending(t)
BY DEF Pending, Waits, Changes, Range

(* The variables keep their types; in particular the active view is always  *)
(* one of the kneeboard's (KneeboardState::InitializeViews()).              *)
THEOREM Typing == Spec => []TypeOK
<1>1. IInv => TypeOK BY DEF IInv
<1> QED BY <1>1, InitIInv, NextIInv, PTL DEF Spec

(* For any number of tabs, views, changes and late events: once a change of *)
(* the list has been told, every view has its tabs in their order and shows *)
(* one of them (KneeboardView::SetTabs()).                                  *)
THEOREM TabsShown == Spec => []ViewsShowTabs
<1>1. IInv => ViewsShowTabs
  <2> SUFFICES ASSUME IInv, ~Pending(NoTab), tabs # <<>> \/ \A c \in Calls : ~change[c].setting,
                      NEW k \in Range(kviews)
               PROVE  /\ shown[k] = tabs
                      /\ IF tabs = <<>> THEN current[k] = NoTab ELSE current[k] \in Range(tabs)
    BY DEF ViewsShowTabs
  <2>1. shown[k] = tabs BY PendingWaits DEF IInv, Viewing, Told
  <2>2. k \in Kneeboards BY RangeType DEF IInv, TypeOK
  <2> QED BY <2>1, <2>2 DEF IInv, Viewing, CurrentShown
<1> QED BY <1>1, InitIInv, NextIInv, PTL DEF Spec

-------------------------------------------------------------------------------
(* Bookmarks.  No page has two, they stay in the order they are in, and     *)
(* those of a page that has gone wait for the event that says so.           *)

Marked(t) ==
  /\ bookmarks[t] \in Seq(Pages) /\ IsInjective(bookmarks[t])
  /\ ~Changes(emitted, t) => Range(bookmarks[t]) \subseteq Range(pages[t])

MarksInv == \A t \in Tabs : Marked(t)

(* Where a page is in a list, as a weight: a list without repetitions is in *)
(* the order of its own.                                                    *)
Index(s) == [p \in Pages |-> IF p \in Range(s) THEN CHOOSE i \in DOMAIN s : s[i] = p ELSE 0]

LEMMA IndexIs ==
  ASSUME NEW s \in Seq(Pages), IsInjective(s)
  PROVE  /\ Index(s) \in [Pages -> 0..MaxPage] /\ Index(s) \in [Pages -> Int]
         /\ \A i \in DOMAIN s : Index(s)[s[i]] = i
         /\ \A p \in Range(s) : Index(s)[p] \in DOMAIN s /\ s[Index(s)[p]] = p
         /\ Rising(Index(s), s)
<1>1. s \in Lists(Pages) BY ListsHave
<1>2. /\ Len(s) \in 0..MaxPage /\ DOMAIN s = 1..Len(s) /\ Range(s) \subseteq Pages
      /\ \A i \in DOMAIN s : s[i] \in Range(s)
  BY <1>1, PagesIs DEF Range
<1>3. ASSUME NEW p \in Range(s) PROVE Index(s)[p] \in DOMAIN s /\ s[Index(s)[p]] = p
  <2>1. \E i \in DOMAIN s : s[i] = p BY DEF Range
  <2>2. p \in Pages BY <1>2
  <2>3. Index(s)[p] = CHOOSE i \in DOMAIN s : s[i] = p BY <2>2 DEF Index
  <2> QED BY <2>1, <2>3
<1>4. \A p \in Pages \ Range(s) : Index(s)[p] = 0 BY DEF Index
<1>5. ASSUME NEW p \in Pages PROVE Index(s)[p] \in 0..MaxPage
  BY <1>2, <1>3, <1>4, ViewsAssumption
<1>6. Index(s) = [p \in Pages |-> Index(s)[p]] BY DEF Index
<1>7. Index(s) \in [Pages -> 0..MaxPage] BY <1>5, <1>6
<1>8. \A i \in DOMAIN s : Index(s)[s[i]] = i BY <1>2, <1>3 DEF IsInjective
<1>9. Rising(Index(s), s) BY <1>8 DEF Rising
<1>10. Index(s) \in [Pages -> Int] BY <1>7, ViewsAssumption
<1> QED BY <1>3, <1>7, <1>8, <1>9, <1>10

LEMMA RisingOnce ==
  ASSUME NEW V, NEW W \in [V -> Int], NEW s \in Seq(V), Rising(W, s)
  PROVE  IsInjective(s)
<1> SUFFICES ASSUME NEW i \in DOMAIN s, NEW j \in DOMAIN s, s[i] = s[j], i # j PROVE FALSE
  BY DEF IsInjective
<1>1. W[s[i]] \in Int OBVIOUS
<1>2. i < j \/ j < i OBVIOUS
<1> QED BY <1>1, <1>2 DEF Rising

(* A list whose pages that are there come in their order. *)
Ordered(t, s) ==
  \A i, j \in DOMAIN s :
    i < j /\ {s[i], s[j]} \subseteq Range(pages[t]) => At(t, s[i]) < At(t, s[j])

LEMMA KeptPages ==
  ASSUME NEW s \in Seq(Pages), IsInjective(s), NEW S
  PROVE  /\ Kept(s, S) \in Seq(Pages) /\ IsInjective(Kept(s, S))
         /\ Range(Kept(s, S)) = Range(s) \intersect S
         /\ \A t : Ordered(t, s) => Ordered(t, Kept(s, S))
<1> DEFINE W == Index(s)
           q == Kept(s, S)
<1>1. /\ W \in [Pages -> Int] /\ Rising(W, s)
      /\ \A p \in Range(s) : W[p] \in DOMAIN s /\ s[W[p]] = p
  BY IndexIs
<1> HIDE DEF W
<1>2. q \in Seq(Pages) /\ Range(q) = Range(s) \intersect S /\ Rising(W, q) BY <1>1, KeptIs
<1> HIDE DEF q
<1>3. IsInjective(q) BY <1>1, <1>2, RisingOnce
<1>4. ASSUME NEW t, Ordered(t, s) PROVE Ordered(t, q)
  <2> SUFFICES ASSUME NEW i \in DOMAIN q, NEW j \in DOMAIN q, i < j,
                      {q[i], q[j]} \subseteq Range(pages[t])
               PROVE  At(t, q[i]) < At(t, q[j])
    BY DEF Ordered
  <2>1. q[i] \in Range(s) /\ q[j] \in Range(s) /\ W[q[i]] < W[q[j]]
    BY <1>2 DEF Range, Rising
  <2>2. /\ W[q[i]] \in DOMAIN s /\ s[W[q[i]]] = q[i]
        /\ W[q[j]] \in DOMAIN s /\ s[W[q[j]]] = q[j]
    BY <1>1, <2>1
  <2> QED BY <1>4, <2>1, <2>2 DEF Ordered
<1> QED BY <1>2, <1>3, <1>4 DEF q

LEMMA SubSeqIs ==
  ASSUME NEW V, NEW W, NEW s \in Seq(V), Rising(W, s),
         NEW m \in 1..(Len(s) + 1), NEW k \in (m - 1)..Len(s)
  PROVE  /\ SubSeq(s, m, k) \in Seq(V) /\ Rising(W, SubSeq(s, m, k))
         /\ Range(SubSeq(s, m, k)) = {s[i] : i \in m..k}
<1> DEFINE q == SubSeq(s, m, k)
<1>1. /\ Len(s) \in Nat /\ DOMAIN s = 1..Len(s) /\ m \in Nat /\ k \in Int
      /\ q \in Seq(V) /\ DOMAIN q = 1..(k - m + 1)
      /\ \A i \in 1..(k - m + 1) : q[i] = s[m + i - 1]
  OBVIOUS
<1> HIDE DEF q
<1>2. \A i \in 1..(k - m + 1) : m + i - 1 \in m..k /\ m + i - 1 \in DOMAIN s BY <1>1
<1>3. \A i \in m..k : i - m + 1 \in 1..(k - m + 1) /\ q[i - m + 1] = s[i]
  <2> SUFFICES ASSUME NEW i \in m..k
               PROVE  i - m + 1 \in 1..(k - m + 1) /\ q[i - m + 1] = s[i]
    OBVIOUS
  <2>1. i - m + 1 \in 1..(k - m + 1) /\ m + (i - m + 1) - 1 = i BY <1>1
  <2>2. q[i - m + 1] = s[m + (i - m + 1) - 1] BY <1>1, <2>1
  <2> QED BY <2>1, <2>2
<1>4. Rising(W, q)
  <2> SUFFICES ASSUME NEW i \in DOMAIN q, NEW j \in DOMAIN q, i < j PROVE W[q[i]] < W[q[j]]
    BY DEF Rising
  <2>1. /\ m + i - 1 \in DOMAIN s /\ m + j - 1 \in DOMAIN s /\ m + i - 1 < m + j - 1
        /\ q[i] = s[m + i - 1] /\ q[j] = s[m + j - 1]
    BY <1>1, <1>2
  <2> QED BY <2>1 DEF Rising
<1>5. Range(q) = {s[i] : i \in m..k}
  <2>1. Range(q) \subseteq {s[i] : i \in m..k} BY <1>1, <1>2 DEF Range
  <2>2. {s[i] : i \in m..k} \subseteq Range(q)
    <3> SUFFICES ASSUME NEW i \in m..k PROVE s[i] \in Range(q) OBVIOUS
    <3>1. i - m + 1 \in DOMAIN q /\ q[i - m + 1] = s[i] BY <1>1, <1>3
    <3> QED BY <3>1 DEF Range
  <2> QED BY <2>1, <2>2
<1> QED BY <1>1, <1>4, <1>5 DEF q


(* AddBookmarkForCurrentPage() puts a bookmark where its page belongs, also *)
(* when it meets bookmarks of pages that have gone.                         *)
LEMMA BookmarkedIs ==
  ASSUME TypeOK, MarksInv, NEW t \in Tabs, NEW p \in Range(pages[t]), p \notin Range(bookmarks[t])
  PROVE  /\ Bookmarked(t, p) \in Seq(Pages) /\ IsInjective(Bookmarked(t, p))
         /\ Range(Bookmarked(t, p)) \subseteq Range(bookmarks[t]) \union {p}
         /\ Ordered(t, bookmarks[t]) => Ordered(t, Bookmarked(t, p))
<1> DEFINE marks == bookmarks[t]
           n == Len(marks)
           I == Index(marks)
           later == {i \in DOMAIN marks : marks[i] \in Range(pages[t]) /\ At(t, marks[i]) > At(t, p)}
           cut == Min(later \union {Len(marks) + 1})
           a == SubSeq(marks, 1, cut - 1)
           b == SubSeq(marks, cut, Len(marks))
           A == Kept(a, Range(pages[t]))
           e == <<p>>
           W == [q \in Pages |-> IF q = p THEN 2 * cut - 1 ELSE 2 * I[q]]
<1>1. Bookmarked(t, p) = A \o e \o b BY DEF Bookmarked, Existing
<1>2. /\ n \in Nat /\ DOMAIN marks = 1..n /\ marks \in Seq(Pages) /\ IsInjective(marks)
      /\ \A i \in 1..n : marks[i] \in Pages /\ marks[i] # p
  BY DEF MarksInv, Marked, Range
<1>3. /\ p \in Pages
      /\ \A q \in Range(pages[t]) : At(t, q) \in Int
      /\ \A q \in Range(pages[t]) : At(t, q) = At(t, p) => q = p
  <2>1. pages \in [Tabs -> Lists(Pages)] BY DEF TypeOK
  <2> QED BY <2>1, AtIs, PagesIs
<1>4. /\ I \in [Pages -> Int] /\ \A i \in 1..n : I[marks[i]] = i
      /\ \A q \in Range(marks) : I[q] \in 1..n /\ marks[I[q]] = q
  BY <1>2, IndexIs
<1>5. /\ cut \in later \union {n + 1} /\ \A i \in later : cut <= i
  <2>1. later \union {n + 1} \in SUBSET Nat BY <1>2
  <2> QED BY <2>1, MinExists
<1> HIDE DEF cut
<1>6. cut \in 1..(n + 1) /\ cut - 1 \in 0..n BY <1>2, <1>5
<1>7. \A i \in 1..n : marks[i] \in Range(pages[t]) /\ At(t, marks[i]) > At(t, p) => cut <= i
  BY <1>2, <1>5
<1>8. cut # n + 1 => marks[cut] \in Range(pages[t]) /\ At(t, marks[cut]) > At(t, p)
  BY <1>2, <1>5
<1> HIDE DEF later, I
<1>9. /\ W \in [Pages -> Int] /\ W[p] = 2 * cut - 1
      /\ \A i \in 1..n : W[marks[i]] = 2 * i
  <2>1. 2 * cut - 1 \in Int /\ \A q \in Pages : 2 * I[q] \in Int BY <1>4, <1>6
  <2> QED BY <1>2, <1>3, <1>4, <2>1
<1> HIDE DEF W
<1>10. Rising(W, marks)
  <2> SUFFICES ASSUME NEW i \in 1..n, NEW j \in 1..n, i < j PROVE W[marks[i]] < W[marks[j]]
    BY <1>2 DEF Rising
  <2> QED BY <1>9
<1>11. a \in Seq(Pages) /\ Rising(W, a) /\ Range(a) = {marks[i] : i \in 1..(cut - 1)}
  <2>1. 1 \in 1..(n + 1) /\ cut - 1 \in (1 - 1)..n BY <1>2, <1>6
  <2> QED BY <1>2, <1>10, <2>1, SubSeqIs
<1>12. b \in Seq(Pages) /\ Rising(W, b) /\ Range(b) = {marks[i] : i \in cut..n}
  <2>1. n \in (cut - 1)..n BY <1>2, <1>6
  <2> QED BY <1>2, <1>6, <1>10, <2>1, SubSeqIs
<1> HIDE DEF a, b, marks, n
<1>13. A \in Seq(Pages) /\ Rising(W, A) /\ Range(A) = Range(a) \intersect Range(pages[t])
  BY <1>9, <1>11, KeptIs
<1> HIDE DEF A
<1>14. e \in Seq(Pages) /\ Rising(W, e) /\ Range(e) = {p}
  BY <1>3 DEF Rising, Range
<1> HIDE DEF e
<1>15. \A x \in Range(A) : W[x] < W[p]
  <2> SUFFICES ASSUME NEW i \in 1..(cut - 1) PROVE W[marks[i]] < W[p]
    BY <1>11, <1>13
  <2>1. i \in 1..n /\ i < cut BY <1>2, <1>6
  <2> QED BY <1>6, <1>9, <2>1
<1>16. \A y \in Range(b) : W[p] < W[y] /\ \A x \in Range(A) : W[x] < W[y]
  <2> SUFFICES ASSUME NEW i \in cut..n
               PROVE  W[p] < W[marks[i]] /\ \A x \in Range(A) : W[x] < W[marks[i]]
    BY <1>12
  <2>1. i \in 1..n /\ cut <= i BY <1>2, <1>6
  <2>2. W[p] < W[marks[i]] BY <1>6, <1>9, <2>1
  <2>3. \A x \in Range(A) : W[x] \in Int
    <3>1. \A x \in Range(A) : x \in Pages BY <1>13, RangeType
    <3> QED BY <1>9, <3>1
  <2>4. W[p] \in Int /\ W[marks[i]] \in Int BY <1>6, <1>9, <2>1
  <2> QED BY <1>15, <2>2, <2>3, <2>4
<1>17. /\ A \o e \in Seq(Pages) /\ Range(A \o e) = Range(A) \union {p} /\ Rising(W, A \o e)
  BY <1>9, <1>13, <1>14, <1>15, RisingConcat
<1> DEFINE c == A \o e
           R == c \o b
<1> HIDE DEF c
<1>18. /\ R \in Seq(Pages) /\ Range(R) = Range(c) \union Range(b) /\ Rising(W, R)
  <2>1. c \in Seq(Pages) /\ Rising(W, c) /\ Range(c) = Range(A) \union {p} BY <1>17 DEF c
  <2>2. \A x \in Range(c), y \in Range(b) : W[x] < W[y] BY <1>16, <2>1
  <2> QED BY <1>9, <1>12, <2>1, <2>2, RisingConcat
<1>19. Bookmarked(t, p) = R BY <1>1 DEF c
<1> HIDE DEF R
<1>20. Range(R) \subseteq Range(marks) \union {p}
  <2>1. \A i \in 1..(cut - 1) : i \in DOMAIN marks BY <1>2, <1>6
  <2>2. \A i \in cut..n : i \in DOMAIN marks BY <1>2, <1>6
  <2>3. Range(a) \subseteq Range(marks) BY <1>11, <2>1 DEF Range
  <2>4. Range(b) \subseteq Range(marks) BY <1>12, <2>2 DEF Range
  <2> QED BY <1>13, <1>17, <1>18, <2>3, <2>4 DEF c
<1>21. IsInjective(R) BY <1>9, <1>18, RisingOnce
<1>22. ASSUME Ordered(t, marks) PROVE Ordered(t, R)
  <2> SUFFICES ASSUME NEW i \in DOMAIN R, NEW j \in DOMAIN R, i < j,
                      {R[i], R[j]} \subseteq Range(pages[t])
               PROVE  At(t, R[i]) < At(t, R[j])
    BY DEF Ordered
  <2> DEFINE x == R[i]
             y == R[j]
  <2>1. /\ W[x] < W[y] /\ x \in Range(pages[t]) /\ y \in Range(pages[t])
        /\ x \in Range(marks) \union {p} /\ y \in Range(marks) \union {p}
    BY <1>18, <1>20 DEF Rising, Range
  <2> SUFFICES At(t, x) < At(t, y) OBVIOUS
  <2> HIDE DEF x, y
  <2>2. \A q \in Range(marks) : /\ I[q] \in 1..n /\ marks[I[q]] = q /\ W[q] = 2 * I[q]
    BY <1>4, <1>9
  <2>3. At(t, x) \in Int /\ At(t, y) \in Int /\ At(t, p) \in Int BY <1>3, <2>1
  <2>4. CASE x = p /\ y \in Range(marks)
    <3> DEFINE m == I[y]
    <3>1. m \in 1..n /\ marks[m] = y /\ 2 * cut - 1 < 2 * m BY <1>9, <2>1, <2>2, <2>4
    <3> HIDE DEF m
    <3>2. cut <= m /\ cut \in 1..n /\ cut # n + 1 BY <1>2, <1>6, <3>1
    <3>3. marks[cut] \in Range(pages[t]) /\ At(t, marks[cut]) > At(t, p) BY <1>8, <3>2
    <3>4. CASE cut = m BY <2>3, <2>4, <3>1, <3>3, <3>4
    <3>5. CASE cut # m
      <4>1. cut < m /\ cut \in DOMAIN marks /\ m \in DOMAIN marks BY <1>2, <3>1, <3>2, <3>5
      <4>2. At(t, marks[cut]) < At(t, marks[m]) BY <1>22, <2>1, <3>1, <3>3, <4>1 DEF Ordered
      <4>3. At(t, marks[cut]) \in Int BY <1>3, <3>3
      <4> QED BY <2>3, <2>4, <3>1, <3>3, <4>2, <4>3
    <3> QED BY <3>4, <3>5
  <2>5. CASE x \in Range(marks) /\ y = p
    <3> DEFINE m == I[x]
    <3>1. m \in 1..n /\ marks[m] = x /\ 2 * m < 2 * cut - 1 BY <1>9, <2>1, <2>2, <2>5
    <3> HIDE DEF m
    <3>2. ~(cut <= m) BY <1>6, <3>1
    <3>3. ~(At(t, x) > At(t, p)) BY <1>7, <2>1, <3>1, <3>2
    <3>4. x # p BY <1>2, <3>1
    <3> QED BY <1>3, <2>1, <2>3, <2>5, <3>3, <3>4
  <2>6. CASE x \in Range(marks) /\ y \in Range(marks)
    <3> DEFINE m == I[x]
               o == I[y]
    <3>1. m \in 1..n /\ marks[m] = x /\ o \in 1..n /\ marks[o] = y /\ 2 * m < 2 * o
      BY <2>1, <2>2, <2>6
    <3> HIDE DEF m, o
    <3>2. m < o BY <1>2, <3>1
    <3> QED BY <1>2, <1>22, <2>1, <3>1, <3>2 DEF Ordered
  <2>7. ~(x = p /\ y = p)
    <3>1. W[p] \in Int BY <1>3, <1>9
    <3> QED BY <2>1, <3>1
  <2> QED BY <2>1, <2>4, <2>5, <2>6, <2>7
<1> QED BY <1>18, <1>19, <1>20, <1>21, <1>22 DEF marks

LEMMA MarksStay ==
  ASSUME MarksInv, UNCHANGED <<bookmarks, pages>>,
         \A t \in Tabs : Changes(emitted, t) => Changes(emitted', t)
  PROVE  MarksInv'
BY DEF MarksInv, Marked

(* One tab gets other bookmarks. *)
LEMMA MarksSet ==
  ASSUME TypeOK, MarksInv, NEW t \in Tabs, NEW s,
         s \in Seq(Pages), IsInjective(s),
         ~Changes(emitted', t) => Range(s) \subseteq Range(pages[t]),
         bookmarks' = [bookmarks EXCEPT ![t] = s], UNCHANGED pages,
         \A u \in Tabs \ {t} : Changes(emitted, u) => Changes(emitted', u)
  PROVE  MarksInv'
<1>1. \A u \in Tabs : bookmarks'[u] = IF u = t THEN s ELSE bookmarks[u] BY DEF TypeOK
<1> QED BY <1>1 DEF MarksInv, Marked

(* What a step does to bookmarks while the pages stay. *)
OrderKept ==
  /\ UNCHANGED pages
  /\ \A t \in Tabs : Ordered(t, bookmarks[t]) => Ordered(t, bookmarks'[t])

LEMMA OrderSet ==
  ASSUME TypeOK, NEW t \in Tabs, NEW s, Ordered(t, bookmarks[t]) => Ordered(t, s),
         bookmarks' = [bookmarks EXCEPT ![t] = s], UNCHANGED pages
  PROVE  OrderKept
<1>1. \A u \in Tabs : bookmarks'[u] = IF u = t THEN s ELSE bookmarks[u] BY DEF TypeOK
<1> QED BY <1>1 DEF OrderKept

LEMMA ToggleBookmarkMarks ==
  ASSUME IInv, MarksInv, ToggleBookmark
  PROVE  MarksInv' /\ OrderKept
<1>0. UNCHANGED <<pages, emitted>> /\ TypeOK BY DEF ToggleBookmark, Act, IInv
<1>1. CASE UNCHANGED bookmarks BY <1>0, <1>1, MarksStay DEF OrderKept
<1>2. CASE ~UNCHANGED bookmarks
  <2>1. Tab \in Live BY <1>2 DEF ToggleBookmark, Act
  <2>2. Tab \in Tabs BY <2>1, Looking
  <2> DEFINE t == Tab
             p == ThisPage
             marks == bookmarks[t]
  <2>3. \/ /\ p \in Range(marks)
           /\ bookmarks' = [bookmarks EXCEPT ![t] = Kept(marks, Pages \ {p})]
        \/ /\ p \notin Range(marks) /\ p \in Range(pages[t])
           /\ bookmarks' = [bookmarks EXCEPT ![t] = Bookmarked(t, p)]
    BY <1>2 DEF ToggleBookmark, Act
  <2> HIDE DEF t, p
  <2>4. t \in Tabs BY <2>2 DEF t
  <2>5. /\ marks \in Seq(Pages) /\ IsInjective(marks)
        /\ ~Changes(emitted, t) => Range(marks) \subseteq Range(pages[t])
    BY <2>4 DEF MarksInv, Marked
  <2>6. CASE bookmarks' = [bookmarks EXCEPT ![t] = Kept(marks, Pages \ {p})]
    <3> DEFINE s == Kept(marks, Pages \ {p})
    <3>1. /\ s \in Seq(Pages) /\ IsInjective(s) /\ Range(s) \subseteq Range(marks)
          /\ Ordered(t, marks) => Ordered(t, s)
      BY <2>5, KeptPages
    <3> HIDE DEF s
    <3>2. ~Changes(emitted', t) => Range(s) \subseteq Range(pages[t]) BY <1>0, <2>5, <3>1
    <3>3. bookmarks' = [bookmarks EXCEPT ![t] = s] BY <2>6 DEF s
    <3> QED BY <1>0, <2>4, <3>1, <3>2, <3>3, MarksSet, OrderSet
  <2>7. CASE /\ p \notin Range(marks) /\ p \in Range(pages[t])
             /\ bookmarks' = [bookmarks EXCEPT ![t] = Bookmarked(t, p)]
    <3> DEFINE s == Bookmarked(t, p)
    <3>1. /\ s \in Seq(Pages) /\ IsInjective(s) /\ Range(s) \subseteq Range(marks) \union {p}
          /\ Ordered(t, marks) => Ordered(t, s)
      BY <1>0, <2>4, <2>7, BookmarkedIs
    <3> HIDE DEF s
    <3>2. ~Changes(emitted', t) => Range(s) \subseteq Range(pages[t]) BY <1>0, <2>5, <2>7, <3>1
    <3>3. bookmarks' = [bookmarks EXCEPT ![t] = s] BY <2>7 DEF s
    <3> QED BY <1>0, <2>4, <3>1, <3>2, <3>3, MarksSet, OrderSet
  <2> QED BY <2>3, <2>6, <2>7
<1> QED BY <1>1, <1>2

LEMMA HandleEventMarks ==
  ASSUME IInv, MarksInv, HandleEvent
  PROVE  MarksInv' /\ OrderKept
<1> DEFINE e == Head(emitted)
           t == e.tab
<1>1. /\ emitted \in Seq(Events) /\ emitted # <<>> /\ emitted' = Tail(emitted)
      /\ UNCHANGED pages /\ TypeOK
  BY DEF HandleEvent, IInv, TypeOK
<1>2. e \in Events BY <1>1, Taking
<1>3. CASE e.event # "content"
  <2>1. UNCHANGED bookmarks
    BY <1>3 DEF HandleEvent, HandleTabs, HandleContent, HandleAppend
  <2>2. \A u \in Tabs : Changes(emitted', u) <=> Changes(emitted, u) BY <1>1, <1>3, Taking
  <2> QED BY <1>1, <2>1, <2>2, MarksStay DEF OrderKept
<1>4. CASE e.event = "content"
  <2>1. t \in Tabs BY <1>2, <1>4 DEF Events
  <2>2. bookmarks' = [bookmarks EXCEPT ![t] = Kept(bookmarks[t], Range(pages[t]))]
    BY <1>4 DEF HandleEvent, HandleTabs, HandleContent, HandleAppend, Existing
  <2>3. \A u \in Tabs \ {t} : Changes(emitted, u) => Changes(emitted', u) BY <1>1, Taking
  <2> HIDE DEF t
  <2>4. bookmarks[t] \in Seq(Pages) /\ IsInjective(bookmarks[t])
    BY <2>1 DEF MarksInv, Marked
  <2> DEFINE s == Kept(bookmarks[t], Range(pages[t]))
  <2>5. /\ s \in Seq(Pages) /\ IsInjective(s) /\ Range(s) \subseteq Range(pages[t])
        /\ Ordered(t, bookmarks[t]) => Ordered(t, s)
    BY <2>4, KeptPages
  <2>6. bookmarks' = [bookmarks EXCEPT ![t] = s] BY <2>2
  <2> HIDE DEF s
  <2> QED BY <1>1, <2>1, <2>3, <2>5, <2>6, MarksSet, OrderSet
<1> QED BY <1>3, <1>4

LEMMA FinishSetTabsMarks ==
  ASSUME IInv, MarksInv, NEW c \in Calls, FinishSetTabs(c)
  PROVE  MarksInv' /\ OrderKept
<1>1. /\ emitted \in Seq(Events) /\ emitted' = TabsChanged /\ UNCHANGED pages
      /\ \A t \in Tabs : bookmarks'[t] = bookmarks[t] \/ bookmarks'[t] = <<>>
  BY DEF FinishSetTabs, IInv, TypeOK
<1>2. \A t \in Tabs : Changes(emitted', t) <=> Changes(emitted, t)
  BY <1>1, TabsChangedIs
<1>3. <<>> \in Seq(Pages) /\ IsInjective(<<>>) /\ Range(<<>>) = {} /\ \A t : Ordered(t, <<>>)
  BY DEF IsInjective, Range, Ordered
<1>4. MarksInv' BY <1>1, <1>2, <1>3 DEF MarksInv, Marked
<1> QED BY <1>1, <1>3, <1>4 DEF OrderKept

(* What a source does to the pages of a tab, its bookmarks stay; one of a   *)
(* page that has gone does not come back.                                   *)
Sourced(t) ==
  /\ UNCHANGED bookmarks
  /\ \A u \in Tabs \ {t} : pages'[u] = pages[u]
  /\ Range(bookmarks[t]) \intersect Range(pages'[t]) \subseteq Range(pages[t])

LEMMA SourceMarks ==
  ASSUME IInv, MarksInv, NEW t \in Tabs,
         (\E new \in Lists(Pages) : ChangeContent(t, new)) \/ (\E f \in BOOLEAN : AppendPage(t, f))
  PROVE  MarksInv' /\ Sourced(t)
<1>0. emitted \in Seq(Events) /\ pages \in [Tabs -> Lists(Pages)] BY DEF IInv, TypeOK
<1>1. ASSUME NEW new \in Lists(Pages), ChangeContent(t, new) PROVE MarksInv' /\ Sourced(t)
  <2> DEFINE e == [event |-> "content", tab |-> t, follow |-> FALSE]
  <2>1. e \in Events /\ e.tab = t /\ e.event = "content" BY DEF Events
  <2>2. /\ emitted' = Append(emitted, e) /\ pages' = [pages EXCEPT ![t] = new] /\ UNCHANGED bookmarks
        /\ \A p \in Range(new) \ Range(pages[t]) : p \notin Range(bookmarks[t])
    BY <1>1 DEF ChangeContent, Fresh
  <2> HIDE DEF e
  <2>3. \A u \in Tabs : Changes(emitted', u) <=> Changes(emitted, u) \/ u = t
    BY <1>0, <2>1, <2>2, Emitting
  <2>4. pages'[t] = new /\ \A u \in Tabs \ {t} : pages'[u] = pages[u] BY <1>0, <2>2
  <2>5. MarksInv' BY <2>2, <2>3, <2>4 DEF MarksInv, Marked
  <2> QED BY <2>2, <2>4, <2>5 DEF Sourced
<1>2. ASSUME NEW f \in BOOLEAN, AppendPage(t, f) PROVE MarksInv' /\ Sourced(t)
  <2> DEFINE e == [event |-> "append", tab |-> t, follow |-> f]
  <2>1. e \in Events /\ e.event = "append" BY DEF Events
  <2>2. emitted' = Append(emitted, e) /\ UNCHANGED bookmarks
    BY <1>2 DEF AppendPage
  <2>3. PICK p \in Pages : /\ p \notin Range(pages[t]) /\ p \notin Range(bookmarks[t])
                           /\ pages' = [pages EXCEPT ![t] = Append(@, p)]
    BY <1>2 DEF AppendPage, Fresh
  <2> HIDE DEF e
  <2>4. \A u \in Tabs : Changes(emitted', u) <=> Changes(emitted, u)
    BY <1>0, <2>1, <2>2, Emitting
  <2>5. pages[t] \in Seq(Pages) BY <1>0, PagesIs
  <2>6. pages'[t] = Append(pages[t], p) /\ \A u \in Tabs \ {t} : pages'[u] = pages[u]
    BY <1>0, <2>3
  <2>7. Range(pages'[t]) = Range(pages[t]) \union {p} BY <2>5, <2>6, RangeAppend
  <2>8. MarksInv' BY <2>2, <2>4, <2>6, <2>7 DEF MarksInv, Marked
  <2> QED BY <2>2, <2>3, <2>6, <2>7, <2>8 DEF Sourced
<1> QED BY <1>1, <1>2

LEMMA InitMarks == Init => MarksInv
<1> SUFFICES ASSUME Init, NEW t \in Tabs PROVE Marked(t) BY DEF MarksInv
<1>1. bookmarks[t] = <<>> BY DEF Init
<1>2. <<>> \in Seq(Pages) /\ IsInjective(<<>>) /\ Range(<<>>) = {} BY DEF IsInjective, Range
<1> QED BY <1>1, <1>2 DEF Marked

LEMMA NextMarks == IInv /\ MarksInv /\ [Next]_vars =>
                     MarksInv' /\ (OrderKept \/ \E t \in Tabs : Sourced(t))
<1> SUFFICES ASSUME IInv, MarksInv, [Next]_vars
             PROVE  MarksInv' /\ (OrderKept \/ \E t \in Tabs : Sourced(t))
  OBVIOUS
<1>1. CASE UNCHANGED <<tabVars, emitted>> BY <1>1, MarksStay DEF tabVars, OrderKept
<1>2. CASE UNCHANGED vars BY <1>1, <1>2 DEF vars
<1>3. CASE UserActions
  <2>1. ASSUME NEW step \in Directions, NEW loop \in BOOLEAN, TurnTab(step, loop)
        PROVE  UNCHANGED <<tabVars, emitted>>
    BY <2>1 DEF TurnTab, Act, tabVars
  <2>2. ASSUME NEW step \in Directions, NEW loop \in BOOLEAN, TurnPage(step, loop)
        PROVE  UNCHANGED <<tabVars, emitted>>
    BY <2>2 DEF TurnPage, SetThis, Act, tabVars
  <2>3. ASSUME NEW forward \in BOOLEAN, NEW loop \in BOOLEAN, GoToBookmark(forward, loop)
        PROVE  UNCHANGED <<tabVars, emitted>>
    BY <2>3 DEF GoToBookmark, Act, tabVars
  <2>4. ToggleNavigation => UNCHANGED <<tabVars, emitted>>
    BY DEF ToggleNavigation, SetThis, Act, tabVars
  <2>5. SwapFirstTwoViews \/ CycleActiveView => UNCHANGED <<tabVars, emitted>>
    BY DEF SwapFirstTwoViews, CycleActiveView
  <2>6. ASSUME NEW p \in Pages, FollowLink(p) PROVE UNCHANGED <<tabVars, emitted>>
    BY <2>6 DEF FollowLink, SetThis, Act, tabVars
  <2> QED BY <1>1, <1>3, <2>1, <2>2, <2>3, <2>4, <2>5, <2>6, ToggleBookmarkMarks DEF UserActions
<1>4. CASE Settings
  <2>1. ASSUME NEW c \in Calls, NEW list \in Lists(Tabs), StartSetTabs(c, list)
        PROVE  MarksInv' /\ OrderKept
    <3>1. UNCHANGED <<pages, bookmarks>> /\ (emitted' = TabsChanged \/ UNCHANGED emitted)
      BY <2>1 DEF StartSetTabs, tabVars
    <3>2. emitted \in Seq(Events) BY DEF IInv, TypeOK
    <3>3. \A t \in Tabs : Changes(emitted', t) <=> Changes(emitted, t)
      BY <3>1, <3>2, TabsChangedIs
    <3> QED BY <3>1, <3>3, MarksStay DEF OrderKept
  <2>2. (\E list \in Lists(Kneeboards) \ {<<>>} : SetViewsSettings(list)) \/ ToggleGaze =>
          UNCHANGED <<tabVars, emitted>>
    BY DEF SetViewsSettings, ToggleGaze
  <2> QED BY <1>1, <1>4, <2>1, <2>2 DEF Settings
<1>5. CASE Others
  <2>1. (\E k \in Kneeboards : LookAt(k)) \/ ChangeGame => UNCHANGED <<tabVars, emitted>>
    BY DEF LookAt, ChangeGame
  <2>2. ASSUME NEW k \in Kneeboards, NEW t \in Tabs, NEW p \in Pages \union {NoPage},
               SetCurrentTab(k, t, p)
        PROVE  UNCHANGED <<tabVars, emitted>>
    BY <2>2 DEF SetCurrentTab
  <2> QED BY <1>1, <1>5, <2>1, <2>2, SourceMarks, ViewsAssumption DEF Others
<1>6. CASE AfterFrame
  <2>1. UNCHANGED <<tabVars, emitted>> BY <1>6 DEF AfterFrame
  <2> QED BY <1>1, <2>1
<1> QED BY <1>2, <1>3, <1>4, <1>5, <1>6, HandleEventMarks, FinishSetTabsMarks DEF Next

(* Whatever pages come and go, in any order, and in whichever order their   *)
(* events arrive: a view is on a page that exists, and bookmarks are of     *)
(* pages that exist, once the tab has told of its pages; and no page has    *)
(* two bookmarks (TabView::OnTabContentChanged() and OnTabPageAppended(),   *)
(* TabBase::OnContentChanged() and SetBookmarks()).                         *)
THEOREM PagesShownExist == Spec => []PagesExist
<1>1. IInv /\ MarksInv => PagesExist
  <2> SUFFICES ASSUME IInv, MarksInv, ~crashed, NEW t \in Tabs
               PROVE  /\ bookmarks[t] \in Lists(Pages)
                      /\ ~Pending(t) => Range(bookmarks[t]) \subseteq Range(pages[t])
                      /\ \A k \in Kneeboards : t \in Range(shown[k]) /\ ~Pending(t) =>
                           IF pages[t] = <<>> THEN tabView[k][t].page = NoPage
                                              ELSE tabView[k][t].page \in Range(pages[t])
    BY DEF PagesExist
  <2>1. bookmarks[t] \in Lists(Pages) BY ListsHave DEF MarksInv, Marked
  <2>2. ~Pending(t) => ~Waits(emitted, t) /\ ~Changes(emitted, t) BY PendingWaits
  <2>3. ~Pending(t) => Range(bookmarks[t]) \subseteq Range(pages[t])
    BY <2>2 DEF MarksInv, Marked
  <2>4. ASSUME NEW k \in Kneeboards, t \in Range(shown[k]), ~Pending(t)
        PROVE  IF pages[t] = <<>> THEN tabView[k][t].page = NoPage
                                  ELSE tabView[k][t].page \in Range(pages[t])
    <3>1. ~Waits(emitted, t) /\ ~Changes(emitted, t) BY <2>2, <2>4
    <3>2. Range(<<>>) = {} BY DEF Range
    <3> QED BY <2>4, <3>1, <3>2 DEF IInv, Viewing, OnPages
  <2> QED BY <2>1, <2>3, <2>4
<1> QED BY <1>1, InitIInv, NextIInv, InitMarks, NextMarks, PTL DEF Spec

LEMMA InOrderIs == \A t : InOrder(t) <=> Ordered(t, bookmarks[t])
BY DEF InOrder, Ordered

(* For any number of tabs, views and pages: bookmarks that are in the order *)
(* of the pages stay so in every step that leaves the order of the pages as *)
(* it is, also when pages come and go                                       *)
(* (KneeboardView::AddBookmarkForCurrentPage(), TabBase).                   *)
THEOREM BookmarksOrdered == Spec => BookmarksInOrder
<1>1. ASSUME IInv, MarksInv, [Next]_vars
      PROVE  \A t \in Tabs : InOrder(t) /\ SameOrder(t) => InOrder(t)'
  <2> SUFFICES ASSUME NEW t \in Tabs, InOrder(t), SameOrder(t) PROVE InOrder(t)' OBVIOUS
  <2>1. OrderKept \/ \E u \in Tabs : Sourced(u) BY <1>1, NextMarks
  <2>2. Ordered(t, bookmarks[t]) BY InOrderIs
  <2> SUFFICES ASSUME NEW i \in DOMAIN bookmarks'[t], NEW j \in DOMAIN bookmarks'[t], i < j,
                      NEW p \in Range(pages'[t]), p = bookmarks'[t][i],
                      NEW q \in Range(pages'[t]), q = bookmarks'[t][j]
               PROVE  At(t, p)' < At(t, q)'
    BY DEF InOrder, At
  <2>3. CASE OrderKept
    <3>1. pages' = pages /\ Ordered(t, bookmarks'[t]) BY <2>2, <2>3 DEF OrderKept
    <3>2. At(t, p) < At(t, q) BY <3>1 DEF Ordered
    <3>3. At(t, p)' = At(t, p) /\ At(t, q)' = At(t, q) BY <3>1 DEF At
    <3> QED BY <3>2, <3>3
  <2>4. ASSUME NEW u \in Tabs, Sourced(u) PROVE At(t, p)' < At(t, q)'
    <3>1. /\ bookmarks' = bookmarks
          /\ \A w \in Tabs \ {u} : pages'[w] = pages[w]
          /\ Range(bookmarks[u]) \intersect Range(pages'[u]) \subseteq Range(pages[u])
      BY <2>4 DEF Sourced
    <3>2. p \in Range(bookmarks[t]) /\ q \in Range(bookmarks[t]) BY <3>1 DEF Range
    <3>3. p \in Range(pages'[t]) /\ q \in Range(pages'[t]) OBVIOUS
    <3>4. p \in Range(pages[t]) /\ q \in Range(pages[t]) BY <3>1, <3>2, <3>3
    <3>5. At(t, p) < At(t, q) BY <2>2, <3>1, <3>4 DEF Ordered
    <3> QED BY <3>3, <3>4, <3>5 DEF SameOrder
  <2> QED BY <2>1, <2>3, <2>4
<1>2. IInv /\ MarksInv /\ [Next]_vars =>
        [\A t \in Tabs : InOrder(t) /\ SameOrder(t) => InOrder(t)']_vars
  BY <1>1
<1>3. IInv /\ MarksInv /\ [Next]_vars => MarksInv' BY NextMarks
<1> QED BY <1>2, <1>3, InitIInv, NextIInv, InitMarks, PTL DEF Spec, BookmarksInOrder

-------------------------------------------------------------------------------
(* GetBookmark().  No list has a tab twice, so that a tab has one place, and *)
(* bookmarks come in the order of the places of their tabs and pages.        *)

Once ==
  /\ IsInjective(tabs) /\ \A c \in Calls : IsInjective(change[c].new)
  /\ \A k \in Kneeboards : IsInjective(shown[k])

LEMMA EmptyOnce == IsInjective(<<>>)
BY DEF IsInjective

LEMMA ListsOnce ==
  ASSUME NEW S, NEW list \in Lists(S)
  PROVE  IsInjective(list)
BY DEF Lists

LEMMA InitOnce == Init => Once
<1> SUFFICES ASSUME Init PROVE Once OBVIOUS
<1>1. IsInjective(tabs) BY ListsOnce, ViewsAssumption DEF Init
<1>2. \A c \in Calls : change[c].new = <<>> BY DEF Init, Idle
<1>3. \A k \in Kneeboards : shown[k] = tabs \/ shown[k] = <<>> BY DEF Init
<1> QED BY <1>1, <1>2, <1>3, EmptyOnce DEF Once

LEMMA SetTabsOnce ==
  ASSUME Once, NEW K, SetTabs(K, tabs), UNCHANGED listVars
  PROVE  Once'
<1>1. \A k \in Kneeboards : shown'[k] = tabs \/ shown'[k] = <<>> BY DEF SetTabs
<1> QED BY <1>1, EmptyOnce DEF Once, listVars

LEMMA NextOnce == IInv /\ Once /\ [Next]_vars => Once'
<1> SUFFICES ASSUME IInv, Once, [Next]_vars PROVE Once' OBVIOUS
<1>1. CASE UNCHANGED <<listVars, shown>> BY <1>1 DEF Once, listVars
<1>2. CASE UNCHANGED vars BY <1>1, <1>2 DEF vars, viewVars
<1>3. CASE UserActions
  <2>1. ASSUME NEW step \in Directions, NEW loop \in BOOLEAN, TurnTab(step, loop)
        PROVE  UNCHANGED <<listVars, shown>>
    BY <2>1 DEF TurnTab, Act, viewVars
  <2>2. ASSUME NEW step \in Directions, NEW loop \in BOOLEAN, TurnPage(step, loop)
        PROVE  UNCHANGED <<listVars, shown>>
    BY <2>2 DEF TurnPage, SetThis, Act, viewVars
  <2>3. ASSUME NEW forward \in BOOLEAN, NEW loop \in BOOLEAN, GoToBookmark(forward, loop)
        PROVE  UNCHANGED <<listVars, shown>>
    BY <2>3 DEF GoToBookmark, Act, viewVars
  <2>4. ToggleNavigation \/ ToggleBookmark => UNCHANGED <<listVars, shown>>
    BY DEF ToggleNavigation, ToggleBookmark, SetThis, Act, viewVars
  <2>5. CycleActiveView => UNCHANGED <<listVars, shown>> BY DEF CycleActiveView, viewVars
  <2>6. ASSUME NEW p \in Pages, FollowLink(p) PROVE UNCHANGED <<listVars, shown>>
    BY <2>6 DEF FollowLink, SetThis, Act, viewVars
  <2>7. ASSUME SwapFirstTwoViews PROVE Once'
    <3>1. kviews[1] \in Kneeboards /\ kviews[2] \in Kneeboards
      BY <2>7 DEF SwapFirstTwoViews, IInv, TypeOK
    <3>2. \A k \in Kneeboards : \E l \in Kneeboards : shown'[k] = shown[l]
      BY <2>7, <3>1 DEF SwapFirstTwoViews, Swapped, IInv, TypeOK
    <3>3. UNCHANGED listVars BY <2>7 DEF SwapFirstTwoViews
    <3> QED BY <3>2, <3>3 DEF Once, listVars
  <2> QED BY <1>1, <1>3, <2>1, <2>2, <2>3, <2>4, <2>5, <2>6, <2>7 DEF UserActions
<1>4. CASE Settings
  <2>1. ASSUME NEW c \in Calls, NEW list \in Lists(Tabs), StartSetTabs(c, list) PROVE Once'
    <3>1. shown' = shown /\ tabs' \in {list, <<>>} BY <2>1 DEF StartSetTabs, viewVars
    <3>2. \A d \in Calls : change'[d].new \in {list, change[d].new}
      <4> DEFINE e == [setting |-> TRUE, old |-> tabs, new |-> list]
      <4>1. e.new = list OBVIOUS
      <4>2. change' = change \/ change' = [change EXCEPT ![c] = e] BY <2>1 DEF StartSetTabs
      <4> HIDE DEF e
      <4>3. \A d \in Calls : change'[d] = change[d] \/ change'[d] = e
        BY <4>2 DEF IInv, TypeOK
      <4> QED BY <4>1, <4>3
    <3>3. IsInjective(list) BY ListsOnce
    <3> QED BY <3>1, <3>2, <3>3, EmptyOnce DEF Once
  <2>2. ASSUME NEW list \in Lists(Kneeboards) \ {<<>>}, SetViewsSettings(list) PROVE Once'
    BY <2>2, SetTabsOnce DEF SetViewsSettings, InitializeViews
  <2>3. ToggleGaze => UNCHANGED <<listVars, shown>> BY DEF ToggleGaze, viewVars
  <2> QED BY <1>1, <1>4, <2>1, <2>2, <2>3 DEF Settings
<1>5. CASE Others
  <2>1. (\E k \in Kneeboards : LookAt(k)) \/ ChangeGame => UNCHANGED <<listVars, shown>>
    BY DEF LookAt, ChangeGame, viewVars
  <2>2. ASSUME NEW k \in Kneeboards, NEW t \in Tabs, NEW p \in Pages \union {NoPage},
               SetCurrentTab(k, t, p)
        PROVE  UNCHANGED <<listVars, shown>>
    BY <2>2 DEF SetCurrentTab
  <2>3. ASSUME NEW t \in Tabs, \/ \E new \in Lists(Pages) : ChangeContent(t, new)
                              \/ \E f \in BOOLEAN : AppendPage(t, f)
        PROVE  UNCHANGED <<listVars, shown>>
    BY <2>3 DEF ChangeContent, AppendPage, viewVars
  <2> QED BY <1>1, <1>5, <2>1, <2>2, <2>3, ViewsAssumption DEF Others
<1>6. CASE HandleEvent
  <2>1. UNCHANGED listVars BY <1>6 DEF HandleEvent
  <2>2. CASE HandleTabs BY <2>1, <2>2, SetTabsOnce DEF HandleTabs
  <2>3. CASE HandleContent \/ HandleAppend
    BY <1>1, <2>1, <2>3 DEF HandleContent, HandleAppend
  <2> QED BY <1>6, <2>2, <2>3 DEF HandleEvent
<1>7. ASSUME NEW c \in Calls, FinishSetTabs(c) PROVE Once'
  <2>1. /\ tabs' = change[c].new /\ shown' = shown
        /\ \A d \in Calls : change'[d].new \in {<<>>, change[d].new}
    BY <1>7 DEF FinishSetTabs, Idle, viewVars, IInv, TypeOK
  <2> QED BY <2>1, EmptyOnce DEF Once
<1>8. CASE AfterFrame
  <2>1. UNCHANGED <<listVars, shown>> BY <1>8 DEF AfterFrame, viewVars
  <2> QED BY <1>1, <2>1
<1> QED BY <1>2, <1>3, <1>4, <1>5, <1>6, <1>7, <1>8 DEF Next

(* The tab counts for more than the page. *)
LEMMA Weights ==
  ASSUME NEW m \in Nat, NEW i \in Nat, NEW j \in Nat, i < j, NEW a \in 0..m, NEW b \in 0..m
  PROVE  (m + 1) * i + a < (m + 1) * j + b
<1> DEFINE d == j - i - 1
<1>1. d \in Nat /\ j = i + 1 + d OBVIOUS
<1> HIDE DEF d
<1>2. (m + 1) * j = (m + 1) * i + (m + 1) + (m + 1) * d
  <2>1. (m + 1) * (i + 1 + d) = (m + 1) * i + (m + 1) * 1 + (m + 1) * d BY <1>1
  <2> QED BY <1>1, <2>1
<1>3. (m + 1) * d >= 0 /\ (m + 1) * d \in Int /\ (m + 1) * i \in Int BY <1>1
<1> DEFINE x == (m + 1) * i
           y == (m + 1) * d
           z == (m + 1) * j
<1>4. z = x + (m + 1) + y /\ y >= 0 /\ y \in Int /\ x \in Int BY <1>2, <1>3
<1> HIDE DEF x, y, z
<1>5. x + a < z + b BY <1>4
<1> QED BY <1>5 DEF x, z

Weight(k, t, n) == (MaxPage + 1) * Spot(k, t) + n

(* What a view can have bookmarks of, where they are in the list of them,   *)
(* and where their pages are.                                               *)
Spots(k) == [tab : Range(shown[k]), page : Pages]
Listed(k) == [x \in Spots(k) |-> Weight(k, x.tab, Index(bookmarks[x.tab])[x.page])]
Placed(k) == [x \in Spots(k) |-> Position(k, x.tab, x.page)]

LEMMA SpotIs ==
  ASSUME TypeOK, Once, NEW k \in Kneeboards, NEW t \in Range(shown[k])
  PROVE  /\ Spot(k, t) \in DOMAIN shown[k] /\ shown[k][Spot(k, t)] = t /\ Spot(k, t) \in Nat
         /\ \A i \in DOMAIN shown[k] : shown[k][i] = t <=> i = Spot(k, t)
<1> DEFINE I == {i \in DOMAIN shown[k] : shown[k][i] = t}
<1>1. I \in SUBSET Nat /\ I # {} BY DEF TypeOK, Range
<1>2. Min(I) \in I BY <1>1, MinExists
<1>3. Spot(k, t) = Min(I) BY DEF Spot
<1>4. Spot(k, t) \in DOMAIN shown[k] /\ shown[k][Spot(k, t)] = t /\ Spot(k, t) \in Nat
  BY <1>1, <1>2, <1>3
<1>5. \A i \in DOMAIN shown[k] : shown[k][i] = t <=> i = Spot(k, t)
  BY <1>4 DEF Once, IsInjective
<1> QED BY <1>4, <1>5

(* The order of places is that of the tabs, and that of the pages in a tab. *)
LEMMA PlacesIs ==
  ASSUME TypeOK, Once, NEW k \in Kneeboards,
         NEW t \in Range(shown[k]), NEW u \in Range(shown[k]),
         NEW p \in 0..MaxPage, NEW q \in 0..MaxPage
  PROVE  /\ Weight(k, t, p) \in Int
         /\ t = u => (Weight(k, t, p) < Weight(k, u, q) <=> p < q)
         /\ t # u => (Weight(k, t, p) < Weight(k, u, q) <=> Spot(k, t) < Spot(k, u))
         /\ t # u => Spot(k, t) < Spot(k, u) \/ Spot(k, u) < Spot(k, t)
<1>1. Spot(k, t) \in Nat /\ shown[k][Spot(k, t)] = t BY SpotIs
<1>2. Spot(k, u) \in Nat /\ shown[k][Spot(k, u)] = u BY SpotIs
<1>3. MaxPage \in Nat BY ViewsAssumption
<1> DEFINE i == Spot(k, t)
           j == Spot(k, u)
           x == (MaxPage + 1) * i
           y == (MaxPage + 1) * j
<1>4. i \in Nat /\ j \in Nat /\ x \in Int /\ y \in Int /\ (t = u => x = y) /\ (t # u => i # j)
  BY <1>1, <1>2, <1>3
<1>5. i < j => x + p < y + q BY <1>3, <1>4, Weights
<1>6. j < i => y + q < x + p BY <1>3, <1>4, Weights
<1>7. Weight(k, t, p) = x + p /\ Weight(k, u, q) = y + q BY DEF Weight
<1> HIDE DEF i, j, x, y
<1>8. p \in Int /\ q \in Int OBVIOUS
<1>9. t = u => (x + p < y + q <=> p < q) BY <1>4, <1>8
<1>10. t # u => (x + p < y + q <=> i < j) /\ (i < j \/ j < i) BY <1>4, <1>5, <1>6, <1>8
<1> QED BY <1>4, <1>7, <1>8, <1>9, <1>10 DEF i, j

LEMMA SameTabPlaces ==
  ASSUME TypeOK, Once, NEW k \in Kneeboards, NEW t \in Range(shown[k]),
         NEW p \in 0..MaxPage, NEW q \in 0..MaxPage
  PROVE  Weight(k, t, p) < Weight(k, t, q) <=> p < q
BY PlacesIs, Zenon

LEMMA PlacedType ==
  ASSUME TypeOK, Once, NEW k \in Kneeboards
  PROVE  /\ \A t \in Range(shown[k]) : t \in Tabs
         /\ \A t \in Range(shown[k]) : \A p :
              /\ At(t, p) \in 0..MaxPage /\ Position(k, t, p) \in Int
              /\ Position(k, t, p) = Weight(k, t, At(t, p))
         /\ Placed(k) \in [Spots(k) -> Int]
         /\ \A x \in Spots(k) : /\ Placed(k)[x] = Position(k, x.tab, x.page)
                                /\ x.tab \in Range(shown[k]) /\ x.page \in Pages
<1>1. \A t \in Range(shown[k]) : t \in Tabs BY RangeType DEF TypeOK
<1>2. ASSUME NEW t \in Range(shown[k]), NEW p
      PROVE  /\ At(t, p) \in 0..MaxPage /\ Position(k, t, p) \in Int
             /\ Position(k, t, p) = Weight(k, t, At(t, p))
  <2>1. At(t, p) \in 0..MaxPage BY <1>1, AtIs DEF TypeOK
  <2>2. Position(k, t, p) = Weight(k, t, At(t, p)) BY DEF Position, Weight
  <2> QED BY <2>1, <2>2, PlacesIs
<1>3. \A x \in Spots(k) : x.tab \in Range(shown[k]) /\ x.page \in Pages BY DEF Spots
<1> QED BY <1>1, <1>2, <1>3 DEF Placed

LEMMA ListedType ==
  ASSUME TypeOK, Once, MarksInv, NEW k \in Kneeboards
  PROVE  /\ Listed(k) \in [Spots(k) -> Int]
         /\ \A x \in Spots(k) : /\ Listed(k)[x] = Weight(k, x.tab, Index(bookmarks[x.tab])[x.page])
                                /\ Index(bookmarks[x.tab])[x.page] \in 0..MaxPage
<1>1. \A x \in Spots(k) : /\ x.tab \in Range(shown[k]) /\ x.page \in Pages
                          /\ Index(bookmarks[x.tab])[x.page] \in 0..MaxPage
  <2> SUFFICES ASSUME NEW x \in Spots(k)
               PROVE  /\ x.tab \in Range(shown[k]) /\ x.page \in Pages
                      /\ Index(bookmarks[x.tab])[x.page] \in 0..MaxPage
    OBVIOUS
  <2>1. x.tab \in Range(shown[k]) /\ x.page \in Pages /\ x.tab \in Tabs BY PlacedType
  <2>2. bookmarks[x.tab] \in Seq(Pages) /\ IsInjective(bookmarks[x.tab])
    BY <2>1 DEF MarksInv, Marked
  <2>3. Index(bookmarks[x.tab]) \in [Pages -> 0..MaxPage] BY <2>2, IndexIs
  <2> QED BY <2>1, <2>3
<1>2. \A x \in Spots(k) : Weight(k, x.tab, Index(bookmarks[x.tab])[x.page]) \in Int
  BY <1>1, PlacesIs
<1> QED BY <1>1, <1>2 DEF Listed

(* The bookmarks of a view, those of a tab together (GetBookmarks()). *)
LEMMA MarksIs ==
  ASSUME TypeOK, Once, MarksInv, NEW k \in Kneeboards
  PROVE  /\ Marks(k) \in Seq(Spots(k)) /\ Rising(Listed(k), Marks(k))
         /\ Range(Marks(k)) = {x \in Spots(k) : x.page \in Range(bookmarks[x.tab])}
<1> DEFINE V == Spots(k)
           W == Listed(k)
           Of(t) == [i \in DOMAIN bookmarks[t] |-> [tab |-> t, page |-> bookmarks[t][i]]]
           s == [i \in DOMAIN shown[k] |-> Of(shown[k][i])]
<1>1. Marks(k) = FlattenSeq(s) BY DEF Marks
<1>2. /\ shown[k] \in Seq(Tabs) /\ Len(shown[k]) \in Nat /\ DOMAIN shown[k] = 1..Len(shown[k])
      /\ \A i \in DOMAIN shown[k] : shown[k][i] \in Tabs /\ shown[k][i] \in Range(shown[k])
      /\ \A t \in Range(shown[k]) : t \in Tabs
  BY DEF TypeOK, Range
<1>3. W \in [V -> Int]
      /\ \A x \in V : /\ W[x] = Weight(k, x.tab, Index(bookmarks[x.tab])[x.page])
                      /\ Index(bookmarks[x.tab])[x.page] \in 0..MaxPage
                      /\ x.tab \in Range(shown[k])
  BY ListedType, PlacedType
<1> HIDE DEF W
<1>4. \A t \in Range(shown[k]) :
        /\ Of(t) \in Seq(V) /\ Rising(W, Of(t))
        /\ Range(Of(t)) = {x \in V : x.tab = t /\ x.page \in Range(bookmarks[t])}
  <2> SUFFICES ASSUME NEW t \in Range(shown[k])
               PROVE  /\ Of(t) \in Seq(V) /\ Rising(W, Of(t))
                      /\ Range(Of(t)) = {x \in V : x.tab = t /\ x.page \in Range(bookmarks[t])}
    OBVIOUS
  <2> DEFINE m == bookmarks[t]
  <2>1. /\ m \in Seq(Pages) /\ Len(m) \in Nat /\ DOMAIN m = 1..Len(m)
        /\ \A i \in DOMAIN m : m[i] \in Pages /\ Index(m)[m[i]] = i
    <3>1. m \in Seq(Pages) /\ IsInjective(m) BY <1>2 DEF MarksInv, Marked
    <3> HIDE DEF m
    <3> QED BY <3>1, IndexIs
  <2> HIDE DEF m
  <2> DEFINE q == [i \in DOMAIN m |-> [tab |-> t, page |-> m[i]]]
  <2>2. \A i \in DOMAIN m : [tab |-> t, page |-> m[i]] \in V BY <2>1 DEF Spots
  <2>3. /\ q \in Seq(V) /\ DOMAIN q = DOMAIN m
        /\ \A i \in DOMAIN m : q[i] \in V /\ q[i].tab = t /\ q[i].page = m[i]
                              /\ q[i] = [tab |-> t, page |-> m[i]]
    BY <2>1, <2>2
  <2>4. q = Of(t) BY DEF m
  <2> HIDE DEF q
  <2>5. Rising(W, q)
    <3> SUFFICES ASSUME NEW i \in DOMAIN m, NEW j \in DOMAIN m, i < j PROVE W[q[i]] < W[q[j]]
      BY <2>3 DEF Rising
    <3>1. /\ W[q[i]] = Weight(k, t, i) /\ i \in 0..MaxPage
          /\ W[q[j]] = Weight(k, t, j) /\ j \in 0..MaxPage
      <4>1. \A l \in DOMAIN m : l \in 0..MaxPage /\ W[q[l]] = Weight(k, t, l)
        <5> SUFFICES ASSUME NEW l \in DOMAIN m PROVE l \in 0..MaxPage /\ W[q[l]] = Weight(k, t, l)
          OBVIOUS
        <5>1. q[l] \in V /\ q[l].tab = t /\ q[l].page = m[l] /\ Index(m)[m[l]] = l
          BY <2>1, <2>3
        <5>2. /\ W[q[l]] = Weight(k, q[l].tab, Index(bookmarks[q[l].tab])[q[l].page])
              /\ Index(bookmarks[q[l].tab])[q[l].page] \in 0..MaxPage
          BY <1>3, <5>1
        <5> QED BY <5>1, <5>2 DEF m
      <4> QED BY <4>1
    <3>2. Weight(k, t, i) < Weight(k, t, j) BY <3>1, PlacesIs
    <3> QED BY <3>1, <3>2
  <2>6. Range(q) = {x \in V : x.tab = t /\ x.page \in Range(m)}
    <3>1. Range(q) \subseteq {x \in V : x.tab = t /\ x.page \in Range(m)} BY <2>3 DEF Range
    <3>2. ASSUME NEW x \in V, x.tab = t, x.page \in Range(m) PROVE x \in Range(q)
      <4>1. PICK i \in DOMAIN m : m[i] = x.page BY <3>2 DEF Range
      <4>2. x = [tab |-> t, page |-> m[i]] BY <3>2, <4>1 DEF Spots
      <4> QED BY <2>3, <4>2 DEF Range
    <3> QED BY <3>1, <3>2
  <2> QED BY <2>3, <2>4, <2>5, <2>6 DEF m
<1> HIDE DEF Of
<1>5. /\ s \in Seq(Seq(V)) /\ DOMAIN s = DOMAIN shown[k]
      /\ \A i \in DOMAIN s : s[i] = Of(shown[k][i])
  <2>1. \A i \in DOMAIN shown[k] : Of(shown[k][i]) \in Seq(V) BY <1>2, <1>4
  <2> QED BY <1>2, <2>1
<1> HIDE DEF s, V
<1>6. \A i \in DOMAIN s : Rising(W, s[i]) BY <1>2, <1>4, <1>5
<1>7. \A i, j \in DOMAIN s : i < j => \A x \in Range(s[i]), y \in Range(s[j]) : W[x] < W[y]
  <2> SUFFICES ASSUME NEW i \in DOMAIN s, NEW j \in DOMAIN s, i < j,
                      NEW x \in Range(s[i]), NEW y \in Range(s[j])
               PROVE  W[x] < W[y]
    OBVIOUS
  <2>1. x \in V /\ x.tab = shown[k][i] /\ y \in V /\ y.tab = shown[k][j] BY <1>2, <1>4, <1>5
  <2>2. i = Spot(k, x.tab) /\ j = Spot(k, y.tab) BY <1>2, <1>5, <2>1, SpotIs
  <2>3. x.tab # y.tab
    <3>1. i # j BY <1>2, <1>5
    <3> QED BY <2>2, <3>1
  <2> DEFINE a == Index(bookmarks[x.tab])[x.page]
             b == Index(bookmarks[y.tab])[y.page]
  <2>4. a \in 0..MaxPage /\ W[x] = Weight(k, x.tab, a) /\ b \in 0..MaxPage /\ W[y] = Weight(k, y.tab, b)
    BY <1>3, <2>1
  <2> HIDE DEF a, b
  <2>5. Weight(k, x.tab, a) < Weight(k, y.tab, b) BY <1>3, <2>1, <2>2, <2>3, <2>4, PlacesIs
  <2> QED BY <2>4, <2>5
<1>8. /\ FlattenSeq(s) \in Seq(V) /\ Rising(W, FlattenSeq(s))
      /\ Range(FlattenSeq(s)) = UNION {Range(s[i]) : i \in DOMAIN s}
  BY <1>3, <1>5, <1>6, <1>7, RisingFlat
<1>9. UNION {Range(s[i]) : i \in DOMAIN s} = {x \in V : x.page \in Range(bookmarks[x.tab])}
  <2>1. ASSUME NEW i \in DOMAIN s, NEW x \in Range(s[i])
        PROVE  x \in V /\ x.page \in Range(bookmarks[x.tab])
    <3>1. x \in Range(Of(shown[k][i])) /\ shown[k][i] \in Range(shown[k]) BY <1>2, <1>5
    <3> QED BY <1>4, <3>1
  <2>2. ASSUME NEW x \in V, x.page \in Range(bookmarks[x.tab])
        PROVE  \E i \in DOMAIN s : x \in Range(s[i])
    <3>1. PICK i \in DOMAIN shown[k] : shown[k][i] = x.tab BY <1>3 DEF Range
    <3>2. x \in Range(Of(x.tab)) BY <1>3, <1>4, <2>2
    <3> QED BY <1>5, <3>1, <3>2
  <2> QED BY <2>1, <2>2
<1> QED BY <1>1, <1>8, <1>9 DEF V, W

(* A search of bookmarks from the place of a page: those of other tabs come *)
(* before or after all of its tab.                                          *)
Around(W, marks, t, p, S, here) ==
  /\ \E i \in DOMAIN marks : marks[i].tab = t
  /\ \A i, j \in DOMAIN marks : i < j =>
       /\ marks[i].tab # t /\ marks[j].tab = t => W[marks[i]] < here
       /\ marks[i].tab = t /\ marks[j].tab # t => W[marks[j]] > here
  /\ \A i \in DOMAIN marks : marks[i].tab = t =>
       /\ marks[i].page \in S
       /\ At(t, marks[i].page) > At(t, p) <=> W[marks[i]] > here
       /\ At(t, marks[i].page) < At(t, p) <=> W[marks[i]] < here

Finds(W, marks, t, p, S, here) ==
  LET after == {i \in DOMAIN marks : W[marks[i]] > here}
      before == {i \in DOMAIN marks : W[marks[i]] < here}
      next == Step(marks, t, p, S, TRUE)
      previous == Step(marks, t, p, S, FALSE)
  IN  /\ IF after = {} THEN next = 0 ELSE next \in after
      /\ previous \in before \union {0}
      /\ Rising(W, marks) =>
           /\ \A i \in after : W[marks[next]] <= W[marks[i]]
           /\ \A i \in before : previous # 0 /\ W[marks[previous]] >= W[marks[i]]

(* Step(): all that come before the first bookmark of the tab are before    *)
(* the page, and after it the search stops at the first that is past the    *)
(* page; what it finds is the nearest one if the list is in the order of    *)
(* the places.                                                              *)
LEMMA StepIs ==
  ASSUME NEW V, NEW W \in [V -> Int], NEW marks \in Seq(V),
         NEW t, NEW p, NEW S, NEW here \in Int, Around(W, marks, t, p, S, here)
  PROVE  Finds(W, marks, t, p, S, here)
<1>0. /\ \E i \in DOMAIN marks : marks[i].tab = t
      /\ \A i, j \in DOMAIN marks : i < j =>
           /\ marks[i].tab # t /\ marks[j].tab = t => W[marks[i]] < here
           /\ marks[i].tab = t /\ marks[j].tab # t => W[marks[j]] > here
      /\ \A i \in DOMAIN marks : marks[i].tab = t =>
           /\ marks[i].page \in S
           /\ At(t, marks[i].page) > At(t, p) <=> W[marks[i]] > here
           /\ At(t, marks[i].page) < At(t, p) <=> W[marks[i]] < here
  BY DEF Around
<1> DEFINE n == Len(marks)
           first == Min({i \in DOMAIN marks : marks[i].tab = t} \union {Len(marks) + 1})
           Past(i) == marks[i].tab # t \/ (marks[i].page \in S /\ At(t, marks[i].page) > At(t, p))
           stop == Min({i \in first..Len(marks) : Past(i)} \union {Len(marks) + 1})
           passed == {i \in 1..(stop - 1) : i < first \/ (marks[i].page \in S /\ At(t, marks[i].page) < At(t, p))}
           after == {i \in DOMAIN marks : W[marks[i]] > here}
           before == {i \in DOMAIN marks : W[marks[i]] < here}
           next == Step(marks, t, p, S, TRUE)
           previous == Step(marks, t, p, S, FALSE)
<1>1. /\ next = IF stop > n THEN 0 ELSE stop
      /\ previous = Max(passed \union {0})
  BY DEF Step
<1> HIDE DEF next, previous
<1>2. /\ n \in Nat /\ DOMAIN marks = 1..n
      /\ \A i \in 1..n : marks[i] \in V /\ W[marks[i]] \in Int
  OBVIOUS
<1>3. /\ first \in 1..n /\ marks[first].tab = t
      /\ \A i \in 1..n : marks[i].tab = t => first <= i
  <2> DEFINE T == {i \in DOMAIN marks : marks[i].tab = t} \union {Len(marks) + 1}
  <2>1. T \in SUBSET Nat /\ T # {} BY <1>2
  <2>2. Min(T) \in T /\ \A x \in T : Min(T) <= x BY <2>1, MinExists
  <2>3. PICK i \in 1..n : marks[i].tab = t BY <1>0, <1>2
  <2>4. first = Min(T) OBVIOUS
  <2> HIDE DEF first
  <2>5. i \in T /\ \A x \in 1..n : marks[x].tab = t => x \in T BY <1>2, <2>3
  <2>6. \A x \in T : (x \in 1..n /\ marks[x].tab = t) \/ x = n + 1 BY <1>2
  <2> HIDE DEF T
  <2>7. first \in T /\ first <= i /\ \A x \in T : first <= x BY <2>2, <2>4, <2>5
  <2>8. first # n + 1 BY <1>2, <2>3, <2>7
  <2> QED BY <2>5, <2>6, <2>7, <2>8
<1> HIDE DEF first
<1>4. \A i \in 1..n : i < first => W[marks[i]] < here
  <2> SUFFICES ASSUME NEW i \in 1..n, i < first PROVE W[marks[i]] < here OBVIOUS
  <2>1. marks[i].tab # t BY <1>2, <1>3
  <2> QED BY <1>0, <1>2, <1>3, <2>1
<1>5. \A i \in first..n : i \in 1..n /\ (Past(i) <=> W[marks[i]] > here)
  <2> SUFFICES ASSUME NEW i \in first..n
               PROVE  i \in 1..n /\ (Past(i) <=> W[marks[i]] > here)
    OBVIOUS
  <2>1. i \in 1..n BY <1>2, <1>3
  <2>2. CASE marks[i].tab = t BY <1>0, <1>2, <2>1, <2>2
  <2>3. CASE marks[i].tab # t
    <3>1. first < i BY <1>2, <1>3, <2>1, <2>3
    <3>2. W[marks[i]] > here BY <1>0, <1>2, <1>3, <2>1, <2>3, <3>1
    <3> QED BY <2>1, <2>3, <3>2
  <2> QED BY <2>2, <2>3
<1>6. {i \in first..n : Past(i)} = after
  <2>1. \A i \in 1..n : W[marks[i]] > here => i \in first..n
    <3> SUFFICES ASSUME NEW i \in 1..n, W[marks[i]] > here PROVE i \in first..n OBVIOUS
    <3>1. ~(i < first) BY <1>2, <1>4
    <3> QED BY <1>2, <1>3, <3>1
  <2> HIDE DEF Past
  <2> QED BY <1>2, <1>5, <2>1
<1>7. /\ stop \in after \union {n + 1} /\ \A i \in after : stop <= i
  <2>1. after \union {n + 1} \in SUBSET Nat BY <1>2
  <2>2. /\ Min(after \union {n + 1}) \in after \union {n + 1}
        /\ \A i \in after \union {n + 1} : Min(after \union {n + 1}) <= i
    BY <2>1, MinExists
  <2>3. stop = Min(after \union {n + 1}) BY <1>6
  <2> HIDE DEF stop, after
  <2> QED BY <2>2, <2>3
<1>8. stop \in 1..(n + 1) BY <1>2, <1>7
<1>9. /\ IF after = {} THEN next = 0 ELSE next \in after
      /\ Rising(W, marks) => \A i \in after : W[marks[next]] <= W[marks[i]]
  <2> HIDE DEF stop
  <2>1. CASE after = {}
    <3>1. stop = n + 1 BY <1>7, <2>1
    <3>2. next = 0 BY <1>1, <1>2, <3>1
    <3> HIDE DEF after
    <3> QED BY <2>1, <3>2
  <2>2. CASE after # {}
    <3>1. PICK i \in after : TRUE BY <2>2
    <3>2. i \in 1..n /\ stop <= i BY <1>2, <1>7
    <3>3. stop \in 1..n /\ stop \in after /\ next = stop BY <1>1, <1>2, <1>7, <1>8, <3>2
    <3>4. ASSUME Rising(W, marks), NEW j \in after PROVE W[marks[stop]] <= W[marks[j]]
      <4>1. j \in 1..n /\ stop <= j BY <1>2, <1>7
      <4>2. CASE stop = j BY <1>2, <3>3, <4>2
      <4>3. CASE stop # j
        <5>1. stop < j BY <3>3, <4>1, <4>3
        <5>2. W[marks[stop]] < W[marks[j]] BY <1>2, <3>3, <3>4, <4>1, <5>1 DEF Rising
        <5> QED BY <1>2, <3>3, <4>1, <5>2
      <4> QED BY <4>2, <4>3
    <3> HIDE DEF after
    <3> QED BY <2>2, <3>3, <3>4
  <2> QED BY <2>1, <2>2
<1>10. ASSUME NEW i \in passed PROVE i \in before
  <2>1. i \in 1..n /\ i < stop /\ (i < first \/ At(t, marks[i].page) < At(t, p))
    <3>1. i \in 1..(stop - 1) /\ (i < first \/ At(t, marks[i].page) < At(t, p)) OBVIOUS
    <3> HIDE DEF stop
    <3> QED BY <1>2, <1>8, <3>1
  <2>2. CASE i < first BY <1>2, <1>4, <2>1, <2>2
  <2>3. CASE ~(i < first)
    <3>1. i \in first..n BY <1>2, <1>3, <2>1, <2>3
    <3>2. i \notin after
      <4> HIDE DEF stop, after
      <4> QED BY <1>2, <1>7, <1>8, <2>1
    <3>3. ~Past(i) BY <1>6, <3>1, <3>2
    <3>4. marks[i].tab = t BY <3>3
    <3> QED BY <1>0, <1>2, <2>1, <2>3, <3>4
  <2> QED BY <2>2, <2>3
<1>11. ASSUME Rising(W, marks), NEW i \in before PROVE i \in passed
  <2>1. i \in 1..n /\ W[marks[i]] < here BY <1>2
  <2>2. i < stop
    <3>1. CASE stop = n + 1 BY <1>2, <2>1, <3>1
    <3>2. CASE stop # n + 1
      <4>1. stop \in 1..n /\ W[marks[stop]] > here BY <1>2, <1>7, <3>2
      <4>2. CASE stop = i BY <1>2, <2>1, <4>1, <4>2
      <4>3. CASE stop < i
        <5>1. W[marks[stop]] < W[marks[i]] BY <1>2, <1>11, <2>1, <4>1, <4>3 DEF Rising
        <5> QED BY <1>2, <2>1, <4>1, <5>1
      <4> HIDE DEF stop
      <4> QED BY <1>2, <2>1, <4>1, <4>2, <4>3
    <3> QED BY <3>1, <3>2
  <2>3. i \in 1..(stop - 1)
    <3> HIDE DEF stop
    <3> QED BY <1>2, <1>8, <2>1, <2>2
  <2>4. i < first \/ (marks[i].page \in S /\ At(t, marks[i].page) < At(t, p))
    <3> SUFFICES ASSUME ~(i < first) PROVE marks[i].page \in S /\ At(t, marks[i].page) < At(t, p) OBVIOUS
    <3>1. i \in first..n BY <1>2, <1>3, <2>1
    <3>2. ~(W[marks[i]] > here) BY <1>2, <2>1
    <3>3. marks[i].tab = t BY <1>5, <3>1, <3>2
    <3> QED BY <1>0, <1>2, <2>1, <3>3
  <2> HIDE DEF stop
  <2> QED BY <2>3, <2>4
<1> HIDE DEF stop
<1>12. passed \subseteq 1..n BY <1>8
<1> HIDE DEF passed
<1> DEFINE T == passed \union {0}
<1>13. T \in SUBSET (0..n) /\ T # {} BY <1>2, <1>12
<1>14. previous \in T /\ \A i \in T : i <= previous
  <2>1. previous = Max(T) BY <1>1
  <2> QED BY <1>2, <1>13, <2>1, GreatestExists
<1>15. previous \in before \union {0} BY <1>10, <1>14
<1>16. ASSUME Rising(W, marks), NEW i \in before
       PROVE  previous # 0 /\ W[marks[previous]] >= W[marks[i]]
  <2>1. i \in T /\ i \in 1..n BY <1>2, <1>11, <1>16
  <2>2. i <= previous /\ previous \in 1..n BY <1>2, <1>13, <1>14, <2>1
  <2>3. CASE i = previous BY <1>2, <2>2, <2>3
  <2>4. CASE i # previous
    <3>1. i < previous BY <2>1, <2>2, <2>4
    <3>2. W[marks[i]] < W[marks[previous]] BY <1>2, <1>16, <2>1, <2>2, <3>1 DEF Rising
    <3> QED BY <1>2, <2>1, <2>2, <3>2
  <2> QED BY <2>3, <2>4
<1> HIDE DEF T
<1> QED BY <1>9, <1>15, <1>16 DEF next, previous, Finds

(* Bookmarks in the order of the pages of each tab are in that of their     *)
(* places.                                                                  *)
LEMMA MarksRise ==
  ASSUME TypeOK, Once, MarksInv, NEW k \in Kneeboards,
         \A u \in Range(shown[k]) : Ordered(u, bookmarks[u]),
         \A u \in Range(shown[k]) : Range(bookmarks[u]) \subseteq Range(pages[u])
  PROVE  Rising(Placed(k), Marks(k))
<1> SUFFICES ASSUME NEW i \in DOMAIN Marks(k), NEW j \in DOMAIN Marks(k), i < j
             PROVE  Placed(k)[Marks(k)[i]] < Placed(k)[Marks(k)[j]]
  BY DEF Rising
<1> DEFINE x == Marks(k)[i]
           y == Marks(k)[j]
           a == Index(bookmarks[x.tab])[x.page]
           b == Index(bookmarks[y.tab])[y.page]
<1>1. /\ x \in Spots(k) /\ y \in Spots(k) /\ Listed(k)[x] < Listed(k)[y]
      /\ x.page \in Range(bookmarks[x.tab]) /\ y.page \in Range(bookmarks[y.tab])
  <2>1. /\ Rising(Listed(k), Marks(k))
        /\ Range(Marks(k)) = {z \in Spots(k) : z.page \in Range(bookmarks[z.tab])}
    BY MarksIs
  <2>2. x \in Range(Marks(k)) /\ y \in Range(Marks(k)) BY DEF Range
  <2> QED BY <2>1, <2>2 DEF Rising
<1> HIDE DEF x, y
<1>2. /\ x.tab \in Range(shown[k]) /\ x.tab \in Tabs
      /\ y.tab \in Range(shown[k]) /\ y.tab \in Tabs
      /\ Placed(k)[x] = Weight(k, x.tab, At(x.tab, x.page)) /\ At(x.tab, x.page) \in 0..MaxPage
      /\ Placed(k)[y] = Weight(k, y.tab, At(y.tab, y.page)) /\ At(y.tab, y.page) \in 0..MaxPage
  BY <1>1, PlacedType
<1>3. /\ Listed(k)[x] = Weight(k, x.tab, a) /\ a \in 0..MaxPage
      /\ Listed(k)[y] = Weight(k, y.tab, b) /\ b \in 0..MaxPage
  BY <1>1, ListedType
<1>4. CASE x.tab # y.tab
  <2> HIDE DEF a, b
  <2>1. Spot(k, x.tab) < Spot(k, y.tab) BY <1>1, <1>2, <1>3, <1>4, PlacesIs
  <2>2. Weight(k, x.tab, At(x.tab, x.page)) < Weight(k, y.tab, At(y.tab, y.page))
    BY <1>2, <1>4, <2>1, PlacesIs
  <2> QED BY <1>2, <2>2 DEF x, y
<1>5. CASE x.tab = y.tab
  <2> DEFINE t == x.tab
             s == bookmarks[t]
  <2>1. s \in Seq(Pages) /\ IsInjective(s) BY <1>2 DEF MarksInv, Marked
  <2>2. /\ a \in DOMAIN s /\ s[a] = x.page /\ b \in DOMAIN s /\ s[b] = y.page
    <3>1. x.page \in Range(s) /\ y.page \in Range(s) BY <1>1, <1>5
    <3>2. a = Index(s)[x.page] /\ b = Index(s)[y.page] BY <1>5
    <3> HIDE DEF s, a, b
    <3> QED BY <2>1, <3>1, <3>2, IndexIs
  <2> HIDE DEF a, b
  <2>3. a < b
    <3>1. Weight(k, t, a) < Weight(k, t, b) BY <1>1, <1>3, <1>5
    <3> QED BY <1>2, <1>3, <3>1, SameTabPlaces
  <2>4. Ordered(t, s) /\ Range(s) \subseteq Range(pages[t]) BY <1>2
  <2>5. At(t, x.page) < At(t, y.page)
    <3>1. s[a] \in Range(s) /\ s[b] \in Range(s) BY <2>2 DEF Range
    <3>2. At(t, s[a]) < At(t, s[b]) BY <2>2, <2>3, <2>4, <3>1 DEF Ordered
    <3> QED BY <2>2, <3>2
  <2>6. Weight(k, t, At(t, x.page)) < Weight(k, t, At(t, y.page))
    <3>1. At(t, x.page) \in 0..MaxPage /\ At(t, y.page) \in 0..MaxPage BY <1>2, <1>5
    <3> QED BY <1>2, <2>5, <3>1, SameTabPlaces
  <2> QED BY <1>2, <1>5, <2>6 DEF x, y
<1> QED BY <1>4, <1>5

(* For any number of tabs, views and pages, whatever came and went: from a  *)
(* tab with bookmarks "next" goes to one after the page, in the order of    *)
(* tabs and pages, if there is any, and "previous" to one before it or to   *)
(* none; and each to the nearest, or finds that there is none, while the    *)
(* bookmarks are in the order of the pages (KneeboardView::GetBookmark()).  *)
THEOREM BookmarksNearest == Spec => []NearestBookmark
<1>1. ASSUME IInv, MarksInv, Once, NEW k \in Range(kviews),
             current[k] \in Range(tabs), bookmarks[current[k]] # <<>>,
             \A u \in Range(shown[k]) : ~Pending(u)
      PROVE  LET t == current[k]
                 p == tabView[k][t].page
                 marks == Marks(k)
                 Place(i) == Position(k, marks[i].tab, marks[i].page)
                 here == Position(k, t, p)
                 after == {i \in DOMAIN marks : Place(i) > here}
                 before == {i \in DOMAIN marks : Place(i) < here}
                 next == Step(marks, t, p, Range(pages[t]), TRUE)
                 previous == Step(marks, t, p, Range(pages[t]), FALSE)
             IN  /\ IF after = {} THEN next = 0 ELSE next \in after
                 /\ previous \in before \union {0}
                 /\ (\A u \in Range(shown[k]) : InOrder(u)) =>
                      /\ \A i \in after : Place(next) <= Place(i)
                      /\ \A i \in before : previous # 0 /\ Place(previous) >= Place(i)
  <2> DEFINE t == current[k]
             p == tabView[k][t].page
             marks == Marks(k)
             Place(i) == Position(k, marks[i].tab, marks[i].page)
             here == Position(k, t, p)
             V == Spots(k)
             W == Placed(k)
             S == Range(pages[t])
             after == {i \in DOMAIN marks : Place(i) > here}
             before == {i \in DOMAIN marks : Place(i) < here}
             next == Step(marks, t, p, S, TRUE)
             previous == Step(marks, t, p, S, FALSE)
  <2>1. k \in Kneeboards /\ TypeOK BY <1>1, RangeType DEF IInv, TypeOK
  <2>2. t \in Tabs /\ t \in Range(shown[k])
    <3>1. t \in Tabs BY <1>1, <2>1, RangeType DEF TypeOK
    <3>2. t # NoTab BY <3>1, ViewsAssumption
    <3> QED BY <1>1, <2>1, <3>1, <3>2 DEF IInv, Viewing, CurrentShown
  <2>3. \A u \in Range(shown[k]) : /\ u \in Tabs /\ bookmarks[u] \in Seq(Pages)
                                   /\ Range(bookmarks[u]) \subseteq Range(pages[u])
    <3> SUFFICES ASSUME NEW u \in Range(shown[k])
                 PROVE  /\ u \in Tabs /\ bookmarks[u] \in Seq(Pages)
                        /\ Range(bookmarks[u]) \subseteq Range(pages[u])
      OBVIOUS
    <3>1. u \in Tabs BY <2>1, PlacedType, <1>1
    <3>2. ~Changes(emitted, u) BY <1>1, PendingWaits
    <3> QED BY <1>1, <3>1, <3>2 DEF MarksInv, Marked
  <2>4. /\ marks \in Seq(V)
        /\ Range(marks) = {x \in V : x.page \in Range(bookmarks[x.tab])}
        /\ Rising(Listed(k), marks)
    BY <1>1, <2>1, MarksIs
  <2>5. /\ W \in [V -> Int] /\ here \in Int /\ here = Weight(k, t, At(t, p)) /\ At(t, p) \in 0..MaxPage
        /\ \A x \in V : /\ W[x] = Position(k, x.tab, x.page)
                        /\ x.tab \in Range(shown[k]) /\ x.page \in Pages
    BY <1>1, <2>1, <2>2, PlacedType
  <2>6. \A u \in Range(shown[k]) : \A q :
          /\ At(u, q) \in 0..MaxPage /\ Position(k, u, q) \in Int
          /\ Position(k, u, q) = Weight(k, u, At(u, q))
    BY <1>1, <2>1, PlacedType
  <2>7. (\A u \in Range(shown[k]) : InOrder(u)) => Rising(W, marks)
    BY <1>1, <2>1, <2>3, InOrderIs, MarksRise
  <2>8. \E i \in DOMAIN marks : marks[i].tab = t
    <3>1. bookmarks[t] # <<>> BY <1>1
    <3> HIDE DEF t
    <3>2. PICK q \in Range(bookmarks[t]) : TRUE BY <2>2, <2>3, <3>1, RangeType
    <3>3. q \in Pages BY <2>2, <2>3, RangeType
    <3> DEFINE x == [tab |-> t, page |-> q]
    <3>4. x \in V /\ x.page \in Range(bookmarks[x.tab]) /\ x.tab = t BY <2>2, <3>3 DEF Spots
    <3>5. x \in Range(marks) BY <2>4, <3>4
    <3> QED BY <3>4, <3>5 DEF Range
  <2> HIDE DEF t, p, here, V, W
  <2>9. \A i \in DOMAIN marks :
          /\ marks[i] \in V /\ W[marks[i]] = Place(i) /\ Place(i) \in Int
          /\ marks[i].tab \in Range(shown[k])
          /\ marks[i].page \in Range(bookmarks[marks[i].tab])
    <3>1. \A i \in DOMAIN marks : marks[i] \in Range(marks) /\ marks[i] \in V
      BY <2>4 DEF Range
    <3> HIDE DEF marks
    <3> QED BY <2>4, <2>5, <2>6, <3>1
  <2>10. \A i \in DOMAIN marks : marks[i].tab = t =>
           /\ marks[i].page \in S
           /\ At(t, marks[i].page) > At(t, p) <=> W[marks[i]] > here
           /\ At(t, marks[i].page) < At(t, p) <=> W[marks[i]] < here
    <3> SUFFICES ASSUME NEW i \in DOMAIN marks, marks[i].tab = t
                 PROVE  /\ marks[i].page \in S
                        /\ At(t, marks[i].page) > At(t, p) <=> W[marks[i]] > here
                        /\ At(t, marks[i].page) < At(t, p) <=> W[marks[i]] < here
      OBVIOUS
    <3> DEFINE q == marks[i].page
               a == At(t, q)
               b == At(t, p)
    <3>1. q \in S /\ W[marks[i]] = Position(k, t, q) BY <2>2, <2>3, <2>9
    <3>2. Position(k, t, q) = Weight(k, t, a) /\ a \in 0..MaxPage /\ b \in 0..MaxPage
      BY <2>2, <2>5, <2>6
    <3>3. Weight(k, t, a) < Weight(k, t, b) <=> a < b
      <4> HIDE DEF a, b
      <4> QED BY <1>1, <2>1, <2>2, <3>2, SameTabPlaces
    <3>4. Weight(k, t, b) < Weight(k, t, a) <=> b < a
      <4> HIDE DEF a, b
      <4> QED BY <1>1, <2>1, <2>2, <3>2, SameTabPlaces
    <3>5. Weight(k, t, a) \in Int /\ here \in Int /\ here = Weight(k, t, b) /\ a \in Int /\ b \in Int
      BY <2>2, <2>5, <2>6, <3>2
    <3> HIDE DEF a, b
    <3>6. /\ a > b <=> W[marks[i]] > here
          /\ a < b <=> W[marks[i]] < here
      BY <3>1, <3>2, <3>3, <3>4, <3>5
    <3> QED BY <3>1, <3>6 DEF a, b
  <2>11. \A i, j \in DOMAIN marks : i < j =>
           /\ marks[i].tab # t /\ marks[j].tab = t => W[marks[i]] < here
           /\ marks[i].tab = t /\ marks[j].tab # t => W[marks[j]] > here
    <3> SUFFICES ASSUME NEW i \in DOMAIN marks, NEW j \in DOMAIN marks, i < j
                 PROVE  /\ marks[i].tab # t /\ marks[j].tab = t => W[marks[i]] < here
                        /\ marks[i].tab = t /\ marks[j].tab # t => W[marks[j]] > here
      OBVIOUS
    <3> DEFINE x == marks[i]
               y == marks[j]
               u == x.tab
               w == y.tab
               a == Index(bookmarks[x.tab])[x.page]
               b == Index(bookmarks[y.tab])[y.page]
    <3>1. /\ x \in Spots(k) /\ y \in Spots(k) /\ Listed(k)[x] < Listed(k)[y]
          /\ u \in Range(shown[k]) /\ w \in Range(shown[k])
          /\ W[x] = Weight(k, u, At(u, x.page)) /\ At(u, x.page) \in 0..MaxPage
          /\ W[y] = Weight(k, w, At(w, y.page)) /\ At(w, y.page) \in 0..MaxPage
      BY <2>4, <2>6, <2>9 DEF Rising, V
    <3> HIDE DEF x, y
    <3>2. /\ Listed(k)[x] = Weight(k, u, a) /\ a \in 0..MaxPage
          /\ Listed(k)[y] = Weight(k, w, b) /\ b \in 0..MaxPage
      BY <1>1, <2>1, <3>1, ListedType
    <3> HIDE DEF u, w, a, b
    <3>3. u # w => Spot(k, u) < Spot(k, w) BY <1>1, <2>1, <3>1, <3>2, PlacesIs
    <3>4. CASE u # t /\ w = t
      <4>1. W[x] < here BY <1>1, <2>1, <2>2, <2>5, <3>1, <3>3, <3>4, PlacesIs
      <4> QED BY <3>4, <4>1 DEF u, w, x, y
    <3>5. CASE u = t /\ w # t
      <4>1. here < W[y] BY <1>1, <2>1, <2>2, <2>5, <3>1, <3>3, <3>5, PlacesIs
      <4>2. W[y] \in Int BY <2>5, <3>1 DEF V
      <4>3. W[y] > here BY <2>5, <4>1, <4>2
      <4> QED BY <3>5, <4>3 DEF u, w, x, y
    <3> QED BY <3>4, <3>5 DEF u, w, x, y
  <2> HIDE DEF marks, S
  <2> DEFINE A == {i \in DOMAIN marks : W[marks[i]] > here}
             B == {i \in DOMAIN marks : W[marks[i]] < here}
  <2>12. /\ IF A = {} THEN next = 0 ELSE next \in A
         /\ previous \in B \union {0}
         /\ Rising(W, marks) =>
              /\ \A i \in A : W[marks[next]] <= W[marks[i]]
              /\ \A i \in B : previous # 0 /\ W[marks[previous]] >= W[marks[i]]
    <3>1. Around(W, marks, t, p, S, here) BY <2>8, <2>10, <2>11 DEF Around
    <3>2. Finds(W, marks, t, p, S, here) BY <2>4, <2>5, <3>1, StepIs, Zenon
    <3> QED BY <3>2 DEF Finds
  <2>13. /\ after = {i \in DOMAIN marks : W[marks[i]] > here}
         /\ before = {i \in DOMAIN marks : W[marks[i]] < here}
    BY <2>9
  <2> HIDE DEF next, previous
  <2>14. /\ IF after = {} THEN next = 0 ELSE next \in after
         /\ previous \in before \union {0}
    BY <2>12, <2>13
  <2>15. (\A u \in Range(shown[k]) : InOrder(u)) =>
           /\ \A i \in after : Place(next) <= Place(i)
           /\ \A i \in before : previous # 0 /\ Place(previous) >= Place(i)
    <3> SUFFICES ASSUME \A u \in Range(shown[k]) : InOrder(u)
                 PROVE  /\ \A i \in after : Place(next) <= Place(i)
                        /\ \A i \in before : previous # 0 /\ Place(previous) >= Place(i)
      OBVIOUS
    <3>1. Rising(W, marks) BY <2>7
    <3>2. \A i \in DOMAIN marks : W[marks[i]] = Place(i) BY <2>9
    <3>3. ASSUME NEW i \in after PROVE Place(next) <= Place(i)
      <4>1. next \in DOMAIN marks /\ i \in DOMAIN marks BY <2>14, <3>3
      <4> QED BY <2>12, <2>13, <3>1, <3>2, <3>3, <4>1
    <3>4. ASSUME NEW i \in before PROVE previous # 0 /\ Place(previous) >= Place(i)
      <4>1. previous # 0 BY <2>12, <2>13, <3>1, <3>4
      <4>2. previous \in DOMAIN marks /\ i \in DOMAIN marks BY <2>14, <3>4, <4>1
      <4> QED BY <2>12, <2>13, <3>1, <3>2, <3>4, <4>1, <4>2
    <3> QED BY <3>3, <3>4
  <2> QED BY <2>14, <2>15 DEF t, p, marks, here, S, next, previous
<1>2. IInv /\ MarksInv /\ Once => NearestBookmark BY <1>1 DEF NearestBookmark
<1> QED BY <1>2, InitIInv, NextIInv, InitMarks, NextMarks, InitOnce, NextOnce, PTL DEF Spec
===============================================================================
