------------------------------ MODULE ListProofs ------------------------------
(***************************************************************************)
(* Proofs about the list on screen: its rows (GridView), the scroll bars   *)
(* over it (ScrollBars) and the widths of its columns (GridZoom).          *)
(*                                                                         *)
(* The rows, for documents of any length, any sorted order, any size of the*)
(* list and of the viewports: under every sequence of events, sorts, finds,*)
(* reveals, selections and switches of tabs, what is on screen, selected or*)
(* to be revealed is the row it stands for.                                *)
(*                                                                         *)
(* The bars, for every size of the window, of rows and of columns, and any *)
(* dots per inch: under every sequence of messages, timers and moves of the*)
(* mouse the bars show the range of the list, and a thumb leads the list to*)
(* where it is dragged.                                                    *)
(*                                                                         *)
(* The columns, for any levels of zoom, widths and layouts: however the rows*)
(* are zoomed, columns dragged and reported, and tabs switched, each is as *)
(* wide at this level as what was chosen for it.                           *)
(***************************************************************************)
EXTENDS GridView, ScrollBars, GridZoom, FiniteSetTheorems, WellFoundedInduction, TLAPS

Orders == {"file", "sorted"}

ViewFields ==
    {"tab", "order", "window", "cache", "pending", "find", "revealed", "failed",
     "selected", "top", "topRow", "selectedRow", "aim", "meant", "known"}

\* A window that lies within the rows there are.
WindowOK(w, limit) ==
    /\ DOMAIN w = {"total", "first", "visible"}
    /\ {w.total, w.first, w.visible} \subseteq Nat
    /\ 1 <= w.visible /\ w.visible <= MaxNativeRows
    /\ w.visible = w.total \/ w.visible = MaxNativeRows
    /\ w.first + w.visible <= w.total /\ w.total <= limit

\* A cache holds the rows of consecutive ranks.
CacheOK(c, ordering) ==
    \A rank \in Int : ContainsRow(c, rank) => SourceRow(c, rank) = RowAtRank(ordering, rank)

\* A rank stands for a row, if it is known which one was meant.
Stands(ordering, rank, row) ==
    rank # NoRank => rank \in GridRows /\ (row # NoRank => RowAtRank(ordering, rank) = row)

\* What holds of the view of a tab, shown or not.
ViewOK(f, limit) ==
    /\ DOMAIN f = ViewFields
    /\ f.order \in Orders /\ f.known \in BOOLEAN /\ f.failed \in BOOLEAN
    /\ WindowOK(f.window, limit)
    /\ ~ f.failed => CacheOK(f.cache, f.order)
    /\ Stands(f.order, f.pending, f.aim)

\* The tab that is shown has the selection in the list.
FrontOK(f) ==
    /\ f.selected \subseteq 0 .. f.window.visible - 1
    /\ f.top \in Nat
    /\ f.known => SelectedRows(f) = f.meant

\* One that is not shown keeps the first row of it, within its window.
BehindOK(b) ==
    /\ b.topRow \in Int
    /\ b.selectedRow = NoRank
       \/ b.selectedRow \in b.window.first .. b.window.first + b.window.visible - 1
    /\ b.known => b.meant = IF b.selectedRow = NoRank THEN {}
                            ELSE {RowAtRank(b.order, b.selectedRow)}

FrontFine(f, limit) == ViewOK(f, limit) /\ FrontOK(f)
BehindFine(b, limit) == ViewOK(b, limit) /\ BehindOK(b)

\* The rows that a tab may show so far.
LimitOf(f, d) == IF f.tab = "changing" THEN d.known ELSE RowCount

\* Only a file that is indexed to its end is sorted.
DocumentOK(d) ==
    /\ DOMAIN d = {"order", "known", "cache", "match"}
    /\ d.order \in Orders /\ d.known \in 1 .. RowCount
    /\ d.order # "file" => d.known = RowCount
    /\ CacheOK(d.cache, d.order)
    /\ d.match.serial # 0 => d.match.row \in GridRows

\* An event tells of a document of which so many rows are known.
Tells(e, count) ==
    /\ e.order \in Orders /\ e.available = count
    /\ CacheOK(e.cache, e.order)
    /\ Stands(e.order, e.reveal, e.goal)
    /\ e.match.serial # 0 =>
          e.matchRank \in GridRows /\ e.match.row = RowAtRank(e.order, e.matchRank)

\* An event that waits tells of the document as it is.
PostedPart == posted # NothingPosted => Tells(posted, document.known)

\* What is asked of the worker, it can do.
AsksOK(a) ==
    /\ DOMAIN a = {"viewport", "ordering", "find"}
    /\ a.viewport # NoAsk =>
          /\ a.viewport.row \in Int
          /\ a.viewport.kind = "row" => a.viewport.row \in GridRows
    /\ a.ordering \in Orders \cup {"none"}
    /\ a.find.serial # 0 => a.find.hit \in DOMAIN HitRows

\* The inductive invariant.
GridIInv ==
    /\ DocumentOK(document) /\ PostedPart /\ AsksOK(asks)
    /\ FrontFine(front, LimitOf(front, document))
    /\ BehindFine(behind, LimitOf(behind, document))

-----------------------------------------------------------------------------
(* Numbers.                                                                  *)

LEMMA MinPair ==
    ASSUME NEW a \in Int, NEW b \in Int
    PROVE  Min({a, b}) = IF a <= b THEN a ELSE b
<1> DEFINE least == IF a <= b THEN a ELSE b
<1>1. least \in {a, b} /\ \A y \in {a, b} : least <= y
  OBVIOUS
<1>2. \A x \in {a, b} : (\A y \in {a, b} : x <= y) => x = least
  OBVIOUS
<1> HIDE DEF least
<1> QED
  BY <1>1, <1>2 DEF Min

LEMMA MaxPair ==
    ASSUME NEW a \in Int, NEW b \in Int
    PROVE  Max({a, b}) = IF a <= b THEN b ELSE a
<1> DEFINE most == IF a <= b THEN b ELSE a
<1>1. most \in {a, b} /\ \A y \in {a, b} : most >= y
  OBVIOUS
<1>2. \A x \in {a, b} : (\A y \in {a, b} : x >= y) => x = most
  OBVIOUS
<1> HIDE DEF most
<1> QED
  BY <1>1, <1>2 DEF Max

LEMMA MinOfNats ==
    ASSUME NEW S, S \subseteq Nat, S # {}
    PROVE  Min(S) \in S /\ \A y \in S : Min(S) <= y
<1>1. PICK k \in S : \A j \in S : ~ (<<j, k>> \in OpToRel(<, Nat))
  BY WFMin, NatLessThanWellFounded, Zenon
<1>2. \A j \in S : ~ (j < k)
  BY <1>1 DEF OpToRel
<1>3. \A j \in S : k <= j
  BY <1>2
<1> QED
  BY <1>3 DEF Min

\* A shifted set has a shifted minimum.
LEMMA MinShifted ==
    ASSUME NEW S, S \subseteq Nat, S # {}, NEW n \in Nat
    PROVE  Min({n + i : i \in S}) = n + Min(S)
<1> DEFINE T == {n + i : i \in S}
           m == Min(S)
<1>1. m \in S /\ m \in Nat /\ \A y \in S : m <= y
  BY MinOfNats
<1>2. n + m \in T /\ \A y \in T : n + m <= y
  BY <1>1
<1>3. T \subseteq Nat /\ T # {}
  BY <1>1
<1>4. Min(T) \in T /\ \A y \in T : Min(T) <= y
  BY <1>3, MinOfNats
<1> HIDE DEF T, m
<1>5. Min(T) = n + m
  <2> DEFINE k == Min(T)
  <2>1. k \in Nat /\ k <= n + m /\ n + m <= k /\ n + m \in Nat
    BY <1>1, <1>2, <1>3, <1>4
  <2> HIDE DEF k
  <2>2. k = n + m
    BY <2>1
  <2> QED
    BY <2>2 DEF k
<1> QED
  BY <1>5 DEF T, m

LEMMA MaxOfInterval ==
    ASSUME NEW a \in Int, NEW b \in Int, a <= b
    PROVE  Max(a .. b) = b
<1>1. b \in a .. b /\ \A y \in a .. b : b >= y
  OBVIOUS
<1>2. \A x \in a .. b : (\A y \in a .. b : x >= y) => x = b
  OBVIOUS
<1> QED
  BY <1>1, <1>2 DEF Max

LEMMA MinOfInterval ==
    ASSUME NEW a \in Int, NEW b \in Int, a <= b
    PROVE  Min(a .. b) = a
<1>1. a \in a .. b /\ \A y \in a .. b : a <= y
  OBVIOUS
<1>2. \A x \in a .. b : (\A y \in a .. b : x <= y) => x = a
  OBVIOUS
<1> QED
  BY <1>1, <1>2 DEF Min

-----------------------------------------------------------------------------
(* Ranks.                                                                    *)

LEMMA Rows == RowCount \in Nat \ {0} /\ GridRows \subseteq Nat /\ NoRank \notin Nat
BY GridAssumption DEF GridRows, NoRank

\* A sorted order has every row once.
LEMMA SortedIsPermutation ==
    /\ \A i, j \in GridRows : SortedRow[i] = SortedRow[j] => i = j
    /\ \A row \in GridRows : \E rank \in GridRows : SortedRow[rank] = row
<1>1. IsFiniteSet(GridRows)
  BY Rows, FS_Interval DEF GridRows
<1>2. SortedRow \in Injection(GridRows, GridRows)
  BY GridAssumption DEF IsInjective, Injection
<1>3. SortedRow \in Surjection(GridRows, GridRows)
  BY <1>1, <1>2, FS_Injection
<1> QED
  BY <1>2, <1>3 DEF Injection, Surjection, IsInjective

LEMMA RanksAndRows ==
    ASSUME NEW ordering \in Orders
    PROVE  /\ \A rank \in GridRows : RowAtRank(ordering, rank) \in GridRows
           /\ \A i, j \in GridRows :
                 RowAtRank(ordering, i) = RowAtRank(ordering, j) => i = j
           /\ \A row \in GridRows :
                 /\ RankOf(ordering, row) \in GridRows
                 /\ RowAtRank(ordering, RankOf(ordering, row)) = row
           /\ \A rank \in GridRows : RankOf(ordering, RowAtRank(ordering, rank)) = rank
<1>1. \A rank \in GridRows : RowAtRank(ordering, rank) \in GridRows
  BY GridAssumption DEF RowAtRank
<1>2. \A i, j \in GridRows : RowAtRank(ordering, i) = RowAtRank(ordering, j) => i = j
  BY SortedIsPermutation DEF RowAtRank
<1>3. \A row \in GridRows : \E rank \in GridRows : RowAtRank(ordering, rank) = row
  BY SortedIsPermutation DEF RowAtRank
<1>4. \A row \in GridRows : /\ RankOf(ordering, row) \in GridRows
                            /\ RowAtRank(ordering, RankOf(ordering, row)) = row
  BY <1>3 DEF RankOf
<1> QED
  BY <1>1, <1>2, <1>4

-----------------------------------------------------------------------------
(* The sliding window.                                                       *)

LEMMA NewWindowOK ==
    ASSUME NEW total \in Nat \ {0}
    PROVE  /\ WindowOK(NewWindow(total), total)
           /\ NewWindow(total).total = total /\ NewWindow(total).first = 0
           /\ NewWindow(total).visible =
                 IF total <= MaxNativeRows THEN total ELSE MaxNativeRows
<1>1. MaxNativeRows \in Nat \ {0}
  BY GridAssumption
<1>2. Min({total, MaxNativeRows}) = IF total <= MaxNativeRows THEN total ELSE MaxNativeRows
  BY <1>1, MinPair
<1> QED
  BY <1>1, <1>2 DEF NewWindow, WindowOK

LEMMA SeekOK ==
    ASSUME NEW limit \in Nat, NEW w, WindowOK(w, limit), NEW first \in Nat
    PROVE  /\ WindowOK(Seek(w, first), limit)
           /\ Seek(w, first).total = w.total /\ Seek(w, first).visible = w.visible
           /\ Seek(w, first).first = IF first <= w.total - w.visible
                                     THEN first ELSE w.total - w.visible
<1>1. {w.total, w.first, w.visible} \subseteq Nat /\ w.visible <= w.total
      /\ DOMAIN w = {"total", "first", "visible"}
  BY DEF WindowOK
<1>2. Max({w.total - w.visible, 0}) = w.total - w.visible
  BY <1>1, MaxPair
<1>3. Min({first, w.total - w.visible}) = IF first <= w.total - w.visible
                                          THEN first ELSE w.total - w.visible
  BY <1>1, MinPair
<1> DEFINE new == IF first <= w.total - w.visible THEN first ELSE w.total - w.visible
<1>4. Seek(w, first) = [w EXCEPT !.first = new]
  BY <1>2, <1>3 DEF Seek
<1>5. new \in Nat /\ new + w.visible <= w.total
  BY <1>1
<1> HIDE DEF new
<1>6. /\ DOMAIN Seek(w, first) = {"total", "first", "visible"}
      /\ Seek(w, first).total = w.total /\ Seek(w, first).visible = w.visible
      /\ Seek(w, first).first = new
  BY <1>1, <1>4
<1>7. WindowOK(Seek(w, first), limit)
  BY <1>5, <1>6 DEF WindowOK
<1> QED
  BY <1>6, <1>7 DEF new

\* A window of at least as many rows stays where it was.
LEMMA WindowGrows ==
    ASSUME NEW limit \in Nat, NEW w, WindowOK(w, limit), NEW total \in Nat, limit <= total
    PROVE  LET new == Seek(NewWindow(total), w.first)
           IN  /\ WindowOK(new, total) /\ new.first = w.first
               /\ w.visible <= new.visible
<1>1. /\ {w.total, w.first, w.visible} \subseteq Nat /\ 1 <= w.visible
      /\ w.visible <= MaxNativeRows /\ (w.visible = w.total \/ w.visible = MaxNativeRows)
      /\ w.first + w.visible <= w.total /\ w.total <= limit /\ MaxNativeRows \in Nat
  BY GridAssumption DEF WindowOK
<1> DEFINE n == NewWindow(total)
<1>2. total \in Nat \ {0}
  BY <1>1
<1>3. WindowOK(n, total) /\ n.total = total
      /\ n.visible = IF total <= MaxNativeRows THEN total ELSE MaxNativeRows
  BY <1>2, NewWindowOK
<1> HIDE DEF n
<1>4. w.first <= n.total - n.visible /\ w.visible <= n.visible
  BY <1>1, <1>3
<1>5. WindowOK(Seek(n, w.first), total) /\ Seek(n, w.first).first = w.first
      /\ Seek(n, w.first).visible = n.visible
  BY <1>1, <1>3, <1>4, SeekOK
<1> QED
  BY <1>4, <1>5 DEF n

LEMMA CenterOnOK ==
    ASSUME NEW limit \in Nat, NEW w, WindowOK(w, limit), NEW row \in Nat
    PROVE  /\ WindowOK(CenterOn(w, row), limit)
           /\ CenterOn(w, row).total = w.total /\ CenterOn(w, row).visible = w.visible
<1>1. {w.total, w.visible} \subseteq Nat
  BY DEF WindowOK
<1>2. Max({w.total - 1, 0}) \in Int
  BY <1>1, MaxPair
<1>3. Min({row, Max({w.total - 1, 0})}) \in Int
  <2> DEFINE last == Max({w.total - 1, 0})
  <2> HIDE DEF last
  <2>1. last \in Int /\ row \in Int
    BY <1>2 DEF last
  <2>2. Min({row, last}) \in Int
    BY <2>1, MinPair
  <2> QED
    BY <2>2 DEF last
<1> DEFINE middle == Min({row, Max({w.total - 1, 0})}) - w.visible \div 2
<1>4. middle \in Int
  BY <1>1, <1>3
<1> HIDE DEF middle
<1>5. Max({middle, 0}) \in Nat
  BY <1>4, MaxPair
<1>6. CenterOn(w, row) = Seek(w, Max({middle, 0}))
  BY DEF CenterOn, middle
<1> QED
  BY <1>5, <1>6, SeekOK

\* Items and ranks of a window answer each other.
LEMMA LocalsAndRanks ==
    ASSUME NEW limit \in Nat, NEW w, WindowOK(w, limit)
    PROVE  /\ \A local \in 0 .. w.visible - 1 : LocalToAbsolute(w, local) = w.first + local
           /\ \A local \in Int : LocalToAbsolute(w, local) \in Int
           /\ \A rank \in Int :
                 /\ AbsoluteToLocal(w, rank) # NoRank =>
                       /\ AbsoluteToLocal(w, rank) \in 0 .. w.visible - 1
                       /\ w.first + AbsoluteToLocal(w, rank) = rank
                 /\ rank \in w.first .. w.first + w.visible - 1 =>
                       AbsoluteToLocal(w, rank) # NoRank
<1>1. {w.total, w.first, w.visible} \subseteq Nat /\ w.first + w.visible <= w.total
      /\ NoRank = -1
  BY DEF WindowOK, NoRank
<1> QED
  BY <1>1 DEF LocalToAbsolute, AbsoluteToLocal

-----------------------------------------------------------------------------
(* The cache of rows.                                                        *)

LEMMA CountedLength ==
    ASSUME NEW n \in Int, NEW S, NEW f \in [1 .. n -> S]
    PROVE  Len(f) = IF n >= 0 THEN n ELSE 0
<1>1. CASE n >= 0
  BY <1>1
<1>2. CASE n < 0
  <2>1. 1 .. n = 1 .. 0
    BY <1>2
  <2>2. f \in [1 .. 0 -> S]
    BY <2>1
  <2> QED
    BY <1>2, <2>2
<1> QED
  BY <1>1, <1>2

LEMMA CacheFromOK ==
    ASSUME NEW ordering, NEW first \in Int, NEW known \in Int
    PROVE  CacheOK(CacheFrom(ordering, first, known), ordering)
<1> DEFINE n == Min({CachedRows, known - first})
           e(i) == RowAtRank(ordering, first + i - 1)
           sources == [i \in 1 .. n |-> e(i)]
           c == CacheFrom(ordering, first, known)
<1>1. n \in Int
  BY MinPair, GridAssumption
<1>2. c.first = first /\ c.sources = sources
  BY DEF CacheFrom
<1> HIDE DEF n, c
<1>3. Len(sources) = IF n >= 0 THEN n ELSE 0
  <2> DEFINE S == {e(i) : i \in 1 .. n}
  <2>1. sources \in [1 .. n -> S]
    OBVIOUS
  <2> HIDE DEF S, sources
  <2> QED
    BY <1>1, <2>1, CountedLength
<1>4. SUFFICES ASSUME NEW rank \in Int, ContainsRow(c, rank)
               PROVE  SourceRow(c, rank) = RowAtRank(ordering, rank)
  BY DEF CacheOK, c
<1>5. rank - first \in 0 .. Len(sources) - 1
  BY <1>2, <1>4 DEF ContainsRow
<1>6. rank - first + 1 \in 1 .. n /\ first + (rank - first + 1) - 1 = rank
  <2> DEFINE length == Len(sources)
  <2>1. length = (IF n >= 0 THEN n ELSE 0) /\ rank - first \in 0 .. length - 1
    BY <1>3, <1>5
  <2> HIDE DEF length
  <2> QED
    BY <1>1, <2>1
<1>7. sources[rank - first + 1] = RowAtRank(ordering, first + (rank - first + 1) - 1)
  BY <1>6
<1> QED
  BY <1>2, <1>6, <1>7 DEF SourceRow

-----------------------------------------------------------------------------
(* The list, as the view of the tab that is shown uses it.                   *)

\* Nothing but the list and the reveal differs.
SameRows(g, f) ==
    /\ DOMAIN g = DOMAIN f /\ g.tab = f.tab /\ g.order = f.order
    /\ g.cache = f.cache /\ g.failed = f.failed

\* The list shows items that are there.
ListOK(f) == f.selected \subseteq 0 .. f.window.visible - 1 /\ f.top \in Nat

LEMMA WithCountKeeps ==
    ASSUME NEW limit \in Nat, NEW f, DOMAIN f = ViewFields, WindowOK(f.window, limit),
           f.selected \subseteq Nat, f.top \in Nat
    PROVE  LET g == WithCount(f) IN
           /\ SameRows(g, f) /\ ListOK(g)
           /\ g.selected = {local \in f.selected : local < f.window.visible}
           /\ g.window = f.window /\ g.pending = f.pending /\ g.aim = f.aim
           /\ g.meant = f.meant /\ g.known = f.known
           /\ g.selectedRow = f.selectedRow /\ g.topRow = f.topRow
<1> DEFINE v == f.window.visible
           picked == {local \in f.selected : local < v}
           first == Max({Min({f.top, v - PageRows}), 0})
           g == WithCount(f)
<1>1. v \in Nat /\ PageRows \in Nat
  BY GridAssumption DEF WindowOK
<1>2. first \in Nat
  <2>1. Min({f.top, v - PageRows}) \in Int
    BY <1>1, MinPair
  <2> DEFINE low == Min({f.top, v - PageRows})
  <2> HIDE DEF low
  <2>2. low \in Int
    BY <2>1 DEF low
  <2>3. Max({low, 0}) \in Nat
    BY <2>2, MaxPair
  <2> QED
    BY <2>3 DEF low
<1>3. g = [f EXCEPT !.selected = picked, !.top = first]
  BY DEF WithCount
<1>4. picked \subseteq 0 .. v - 1
  BY <1>1
<1> HIDE DEF first, picked, g
<1>5. /\ DOMAIN g = ViewFields /\ g.selected = picked /\ g.top = first
      /\ g.tab = f.tab /\ g.order = f.order /\ g.cache = f.cache /\ g.failed = f.failed
      /\ g.window = f.window /\ g.pending = f.pending /\ g.aim = f.aim
      /\ g.meant = f.meant /\ g.known = f.known
      /\ g.selectedRow = f.selectedRow /\ g.topRow = f.topRow
  BY <1>3 DEF ViewFields
<1> QED
  BY <1>2, <1>4, <1>5 DEF SameRows, ListOK, g, picked

\* Only the place of the list differs.
OnlyTop(g, f) == \E top \in Nat : g = [f EXCEPT !.top = top]

LEMMA EnsureVisibleKeeps ==
    ASSUME NEW f, f.top \in Nat, NEW local \in Nat
    PROVE  OnlyTop(EnsureVisible(f, local), f)
<1> DEFINE low == Min({f.top, local})
           top == Max({low, local - PageRows + 1})
<1>1. low \in Nat /\ PageRows \in Nat
  BY MinPair, GridAssumption
<1> HIDE DEF low
<1>2. top \in Nat
  BY <1>1, MaxPair
<1>3. EnsureVisible(f, local) = [f EXCEPT !.top = top]
  BY DEF EnsureVisible, low
<1> QED
  BY <1>2, <1>3 DEF OnlyTop

LEMMA ScrollToTopKeeps ==
    ASSUME NEW limit \in Nat, NEW f, WindowOK(f.window, limit), f.top \in Nat,
           NEW target \in Nat
    PROVE  ScrollToTop(f, target) = f \/ OnlyTop(ScrollToTop(f, target), f)
<1>1. f.window.visible \in Nat \ {0} /\ PageRows \in Nat \ {0}
  BY GridAssumption DEF WindowOK
<1> DEFINE below == Min({target + PageRows - 1, f.window.visible - 1})
<1>2. below \in Nat
  BY <1>1, MinPair
<1>3. ScrollToTop(f, target) = f
      \/ ScrollToTop(f, target) = EnsureVisible(f, IF target > f.top THEN below ELSE target)
  BY DEF ScrollToTop
<1> HIDE DEF below
<1> QED
  BY <1>2, <1>3, EnsureVisibleKeeps

Same(g, f) == g.tab = f.tab /\ g.order = f.order

LEMMA OnlyTopFine ==
    ASSUME NEW limit \in Nat, NEW f, FrontFine(f, limit), NEW g, OnlyTop(g, f)
    PROVE  FrontFine(g, limit) /\ Same(g, f)
<1>1. PICK top \in Nat : g = [f EXCEPT !.top = top]
  BY DEF OnlyTop
<1>2. DOMAIN f = ViewFields
  BY DEF FrontFine, ViewOK
<1>3. /\ DOMAIN g = ViewFields /\ g.top = top
      /\ g.tab = f.tab /\ g.order = f.order /\ g.cache = f.cache /\ g.failed = f.failed
      /\ g.window = f.window /\ g.pending = f.pending /\ g.aim = f.aim
      /\ g.meant = f.meant /\ g.known = f.known /\ g.selected = f.selected
  BY <1>1, <1>2 DEF ViewFields
<1>4. SelectedRows(g) = SelectedRows(f)
  BY <1>3 DEF SelectedRows
<1>5. ViewOK(g, limit)
  BY <1>3 DEF FrontFine, ViewOK
<1>6. FrontOK(g)
  BY <1>3, <1>4 DEF FrontFine, FrontOK
<1> QED
  BY <1>3, <1>5, <1>6 DEF FrontFine, Same

\* One row, and no other.
LEMMA SelectOne ==
    ASSUME NEW f, NEW local, f.selected = {local}
    PROVE  SelectedRows(f) = {RowAtRank(f.order, f.window.first + local)}
BY DEF SelectedRows

\* A row that was to be revealed is selected once it is there.
LEMMA CompletePendingFine ==
    ASSUME NEW limit \in Nat, NEW f, FrontFine(f, limit)
    PROVE  FrontFine(CompletePending(f), limit) /\ Same(CompletePending(f), f)
<1> DEFINE g == CompletePending(f)
           local == AbsoluteToLocal(f.window, f.pending)
           h == EnsureVisible(MarkSelected(f, local), local)
<1>1. CASE f.pending = NoRank \/ ~ ContainsRow(f.cache, f.pending) \/ local = NoRank
  BY <1>1 DEF CompletePending, Same
<1>2. CASE ~ (f.pending = NoRank \/ ~ ContainsRow(f.cache, f.pending) \/ local = NoRank)
  <2>1. /\ DOMAIN f = ViewFields /\ WindowOK(f.window, limit) /\ f.top \in Nat
        /\ f.pending \in GridRows /\ f.pending \in Int
        /\ f.aim # NoRank => RowAtRank(f.order, f.pending) = f.aim
    <3>1. f.pending # NoRank
      BY <1>2
    <3>2. Stands(f.order, f.pending, f.aim)
      BY DEF FrontFine, ViewOK
    <3>3. DOMAIN f = ViewFields /\ WindowOK(f.window, limit) /\ f.top \in Nat
      BY DEF FrontFine, ViewOK, FrontOK
    <3>4. f.pending \in GridRows
      BY <3>1, <3>2 DEF Stands
    <3>5. f.aim # NoRank => RowAtRank(f.order, f.pending) = f.aim
      BY <3>1, <3>2 DEF Stands
    <3>6. f.pending \in Int
      <4> DEFINE pending == f.pending
      <4> HIDE DEF pending
      <4>1. pending \in Nat
        BY <3>4, Rows DEF pending
      <4> QED
        BY <4>1 DEF pending
    <3> QED
      BY <3>3, <3>4, <3>5, <3>6
  <2>2. local \in 0 .. f.window.visible - 1 /\ f.window.first + local = f.pending
    BY <1>2, <2>1, LocalsAndRanks
  <2>3. f.window.visible \in Nat
    BY <2>1 DEF WindowOK
  <2> DEFINE m == MarkSelected(f, local)
  <2>4. DOMAIN m = ViewFields /\ m.top = f.top /\ m = [f EXCEPT !.selected = {local}]
    BY <2>1 DEF MarkSelected, ViewFields
  <2>5. PICK top \in Nat : h = [m EXCEPT !.top = top]
    <3> HIDE DEF local, m
    <3>1. local \in Nat /\ m.top \in Nat
      BY <2>1, <2>2, <2>3, <2>4
    <3>2. OnlyTop(EnsureVisible(m, local), m)
      BY <3>1, EnsureVisibleKeeps
    <3> QED
      BY <3>2 DEF OnlyTop, m
  <2>6. g = [h EXCEPT !.pending = NoRank, !.meant = {f.aim} \ {NoRank},
                      !.known = (f.aim # NoRank)]
    BY <1>2 DEF CompletePending
  <2> HIDE DEF g, h, local, m
  <2>7. /\ DOMAIN g = ViewFields /\ g.top = top /\ g.selected = {local}
        /\ g.tab = f.tab /\ g.order = f.order /\ g.cache = f.cache /\ g.failed = f.failed
        /\ g.window = f.window /\ g.pending = NoRank
        /\ g.meant = {f.aim} \ {NoRank} /\ g.known = (f.aim # NoRank)
    BY <2>1, <2>4, <2>5, <2>6 DEF ViewFields
  <2>8. SelectedRows(g) = {RowAtRank(f.order, f.pending)}
    BY <2>2, <2>7, SelectOne
  <2>9. ViewOK(g, limit)
    BY <2>7 DEF FrontFine, ViewOK, Stands
  <2>10. FrontOK(g)
    <3>1. g.known => g.meant = {f.aim}
      BY <2>7
    <3>2. g.known => SelectedRows(g) = g.meant
      BY <2>1, <2>7, <2>8, <3>1
    <3> QED
      BY <2>2, <2>7, <3>2 DEF FrontOK
  <2> QED
    BY <2>7, <2>9, <2>10 DEF FrontFine, Same, g
<1> QED
  BY <1>1, <1>2

\* The window is centred on a row to be revealed.
LEMMA CentredFine ==
    ASSUME NEW limit \in Nat, NEW f, FrontFine(f, limit), NEW rank \in GridRows, NEW row,
           Stands(f.order, rank, row)
    PROVE  FrontFine(Centred(f, rank, row), limit) /\ Same(Centred(f, rank, row), f)
<1> DEFINE w == CenterOn(f.window, rank)
           m == Moved(f, w)
           c == WithCount(m)
           g == Centred(f, rank, row)
<1>1. /\ DOMAIN f = ViewFields /\ WindowOK(f.window, limit) /\ f.top \in Nat
      /\ f.selected \subseteq 0 .. f.window.visible - 1 /\ f.known \in BOOLEAN
      /\ f.known => SelectedRows(f) = f.meant
      /\ rank \in Nat
  BY Rows DEF FrontFine, ViewOK, FrontOK
<1>2. WindowOK(w, limit) /\ w.visible = f.window.visible
  BY <1>1, CenterOnOK
<1> DEFINE stays == w.first = f.window.first \/ f.selected = {}
<1>3. m = [f EXCEPT !.window = w, !.known = f.known /\ stays]
  BY DEF Moved
<1>4. g = [c EXCEPT !.pending = rank, !.aim = row]
  BY DEF Centred
<1> HIDE DEF w
<1>5. stays \in BOOLEAN
  OBVIOUS
<1> HIDE DEF stays, m, g
<1>6. /\ DOMAIN m = ViewFields /\ m.window = w /\ m.selected = f.selected
      /\ m.tab = f.tab /\ m.order = f.order /\ m.cache = f.cache /\ m.failed = f.failed
      /\ m.top = f.top /\ m.meant = f.meant
      /\ m.known = (f.known /\ stays)
  BY <1>1, <1>3 DEF ViewFields
<1>7. f.selected \subseteq Nat
  BY <1>1
<1>8. /\ SameRows(c, m) /\ ListOK(c)
      /\ c.selected = {local \in m.selected : local < w.visible}
      /\ c.window = w /\ c.meant = m.meant /\ c.known = m.known
  BY <1>1, <1>2, <1>6, <1>7, WithCountKeeps
<1> HIDE DEF c
<1>9. c.selected = f.selected
  <2>1. f.window.visible \in Nat
    BY <1>1 DEF WindowOK
  <2> QED
    BY <1>1, <1>2, <1>6, <1>8, <2>1
<1>10. /\ DOMAIN g = ViewFields /\ g.window = w /\ g.selected = f.selected
       /\ g.tab = f.tab /\ g.order = f.order /\ g.cache = f.cache /\ g.failed = f.failed
       /\ g.top = c.top /\ g.meant = f.meant /\ g.pending = rank /\ g.aim = row
       /\ g.known = (f.known /\ stays)
  BY <1>4, <1>6, <1>8, <1>9 DEF ViewFields, SameRows
<1>11. ViewOK(g, limit)
  <2>1. g.known \in BOOLEAN
    BY <1>1, <1>5, <1>10
  <2> QED
    BY <1>2, <1>10, <2>1 DEF FrontFine, ViewOK
<1>12. FrontOK(g)
  <2>1. g.known => SelectedRows(g) = SelectedRows(f)
    <3>1. CASE f.selected = {}
      BY <1>10, <3>1 DEF SelectedRows
    <3>2. CASE f.selected # {}
      BY <1>10, <3>2 DEF SelectedRows, stays
    <3> QED
      BY <3>1, <3>2
  <2>2. g.known => f.known
    BY <1>10
  <2> QED
    BY <1>1, <1>2, <1>8, <1>10, <2>1, <2>2 DEF FrontOK, ListOK
<1> QED
  BY <1>10, <1>11, <1>12 DEF FrontFine, Same, g

LEMMA BeginRankRevealFine ==
    ASSUME NEW limit \in Nat, NEW f, FrontFine(f, limit), NEW rank \in GridRows, NEW row,
           Stands(f.order, rank, row)
    PROVE  /\ FrontFine(BeginRankReveal(f, rank, row), limit)
           /\ Same(BeginRankReveal(f, rank, row), f)
<1>1. FrontFine(Centred(f, rank, row), limit) /\ Same(Centred(f, rank, row), f)
  BY CentredFine
<1>2. /\ FrontFine(CompletePending(Centred(f, rank, row)), limit)
      /\ Same(CompletePending(Centred(f, rank, row)), Centred(f, rank, row))
  BY <1>1, CompletePendingFine
<1> QED
  BY <1>1, <1>2 DEF BeginRankReveal, Same

-----------------------------------------------------------------------------
(* Events, in the tab that is shown.                                         *)

\* The window after an event: a new one, or the old one with more rows.
LEMMA WindowTaken ==
    ASSUME NEW limit \in Nat, NEW count \in Nat \ {0}, limit <= count,
           NEW f, WindowOK(f.window, limit), NEW e, e.available = count,
           NEW changed \in BOOLEAN
    PROVE  LET w == WindowOf(f, e, changed) IN
           /\ WindowOK(w, count)
           /\ ~ changed => w.first = f.window.first /\ f.window.visible <= w.visible
<1>1. CASE changed
  <2>1. WindowOK(NewWindow(count), count)
    BY NewWindowOK
  <2>2. WindowOf(f, e, changed) = Seek(NewWindow(count), 0)
    BY <1>1 DEF WindowOf
  <2>3. WindowOK(Seek(NewWindow(count), 0), count)
    BY <2>1, SeekOK
  <2> QED
    BY <1>1, <2>2, <2>3
<1>2. CASE ~ changed
  <2>1. WindowOf(f, e, changed) = Seek(NewWindow(count), f.window.first)
    BY <1>2 DEF WindowOf
  <2> QED
    BY <1>2, <2>1, WindowGrows
<1> QED
  BY <1>1, <1>2

\* The rows of an event are taken; a new order takes the selection with it.
LEMMA RowsTaken ==
    ASSUME NEW limit \in Nat, NEW count \in Nat \ {0}, limit <= count,
           NEW f, FrontFine(f, limit), NEW e, Tells(e, count)
    PROVE  LET changed == ChangesOrder(f, e)
               g == WithOrder(WithRows(f, e, changed), changed)
           IN  FrontFine(g, count) /\ g.tab = f.tab /\ g.order = e.order
<1> DEFINE changed == ChangesOrder(f, e)
           w == WindowOf(f, e, changed)
           m == Moved(f, w)
           t == [m EXCEPT !.order = e.order, !.cache = e.cache, !.failed = FALSE]
           r == WithRows(f, e, changed)
           g == WithOrder(r, changed)
<1>1. /\ DOMAIN f = ViewFields /\ WindowOK(f.window, limit) /\ f.top \in Nat
      /\ f.selected \subseteq 0 .. f.window.visible - 1 /\ f.known \in BOOLEAN
      /\ f.known => SelectedRows(f) = f.meant
      /\ Stands(f.order, f.pending, f.aim)
      /\ f.selected \subseteq Nat
  BY DEF FrontFine, ViewOK, FrontOK
<1>2. /\ WindowOK(w, count)
      /\ ~ changed => w.first = f.window.first /\ f.window.visible <= w.visible
  <2>1. e.available = count /\ changed \in BOOLEAN
    BY DEF Tells, ChangesOrder
  <2> HIDE DEF changed
  <2> QED
    BY <1>1, <2>1, WindowTaken
<1> DEFINE stays == w.first = f.window.first \/ f.selected = {}
<1>3. m = [f EXCEPT !.window = w, !.known = f.known /\ stays]
  BY DEF Moved
<1>4. r = WithCount(t)
  BY DEF WithRows
<1>5. stays \in BOOLEAN /\ (~ changed => stays) /\ changed = (f.order # e.order)
  BY <1>2 DEF ChangesOrder
<1> HIDE DEF w, stays, m, changed
<1>6. /\ DOMAIN t = ViewFields /\ t.window = w /\ t.selected = f.selected
      /\ t.tab = f.tab /\ t.order = e.order /\ t.cache = e.cache /\ t.failed = FALSE
      /\ t.top = f.top /\ t.meant = f.meant /\ t.known = (f.known /\ stays)
      /\ t.pending = f.pending /\ t.aim = f.aim
  BY <1>1, <1>3 DEF ViewFields
<1> HIDE DEF t
<1>7. /\ SameRows(r, t) /\ ListOK(r)
      /\ r.selected = {local \in f.selected : local < w.visible}
      /\ r.window = w /\ r.meant = f.meant /\ r.known = (f.known /\ stays)
      /\ r.pending = f.pending /\ r.aim = f.aim
  BY <1>1, <1>2, <1>4, <1>6, WithCountKeeps
<1> HIDE DEF r
<1>8. /\ DOMAIN r = ViewFields /\ r.tab = f.tab /\ r.order = e.order
      /\ r.cache = e.cache /\ r.failed = FALSE
  BY <1>6, <1>7 DEF SameRows
<1>9. e.order \in Orders /\ CacheOK(e.cache, e.order)
  BY DEF Tells
<1>10. CASE ~ changed
  <2>1. g = r
    BY <1>10 DEF WithOrder
  <2>2. r.selected = f.selected
    <3>1. {f.window.visible, w.visible} \subseteq Nat
      BY <1>1, <1>2 DEF WindowOK
    <3> QED
      BY <1>1, <1>2, <1>7, <1>10, <3>1
  <2>3. r.known => SelectedRows(r) = r.meant
    <3>1. SelectedRows(r) = SelectedRows(f)
      BY <1>2, <1>5, <1>7, <1>8, <1>10, <2>2 DEF SelectedRows
    <3> QED
      BY <1>1, <1>7, <3>1
  <2>4. FrontOK(r)
    BY <1>7, <2>3 DEF FrontOK, ListOK
  <2>5. r.known \in BOOLEAN
    BY <1>1, <1>5, <1>7
  <2>6. ViewOK(r, count)
    BY <1>1, <1>2, <1>5, <1>7, <1>8, <1>9, <1>10, <2>5 DEF ViewOK
  <2> HIDE DEF g
  <2>7. FrontFine(g, count) /\ g.tab = f.tab /\ g.order = e.order
    BY <1>8, <2>1, <2>4, <2>6 DEF FrontFine
  <2> QED
    BY <2>7 DEF g, r, changed
<1>11. CASE changed
  <2> DEFINE u == [r EXCEPT !.pending = NoRank, !.aim = NoRank, !.selected = {},
                            !.meant = {}, !.known = TRUE]
  <2>1. g = ScrollToTop(u, 0)
    BY <1>11 DEF WithOrder
  <2>2. /\ DOMAIN u = ViewFields /\ u.tab = f.tab /\ u.order = e.order
        /\ u.cache = e.cache /\ u.failed = FALSE /\ u.window = w /\ u.top = r.top
        /\ u.pending = NoRank /\ u.aim = NoRank /\ u.selected = {} /\ u.meant = {}
        /\ u.known = TRUE
    BY <1>7, <1>8 DEF ViewFields
  <2> HIDE DEF u
  <2>3. SelectedRows(u) = {}
    BY <2>2 DEF SelectedRows
  <2>4. ViewOK(u, count)
    BY <1>2, <1>9, <2>2 DEF ViewOK, Stands
  <2>5. FrontOK(u)
    BY <1>7, <2>2, <2>3 DEF FrontOK, ListOK
  <2>6. FrontFine(u, count)
    BY <2>4, <2>5 DEF FrontFine
  <2>7. g = u \/ OnlyTop(g, u)
    BY <1>2, <1>7, <2>1, <2>2, ScrollToTopKeeps DEF ListOK
  <2> HIDE DEF g
  <2>8. FrontFine(g, count) /\ Same(g, u)
    BY <2>6, <2>7, OnlyTopFine DEF Same
  <2>9. FrontFine(g, count) /\ g.tab = f.tab /\ g.order = e.order
    BY <2>2, <2>8 DEF Same
  <2> QED
    BY <2>9 DEF g, r, changed
<1> QED
  BY <1>10, <1>11

LEMMA ApplyToFrontFine ==
    ASSUME NEW limit \in Nat, NEW count \in Nat \ {0}, limit <= count,
           NEW f, FrontFine(f, limit), NEW e, Tells(e, count)
    PROVE  FrontFine(ApplyToFront(f, e), count) /\ ApplyToFront(f, e).tab = f.tab
<1> DEFINE changed == ChangesOrder(f, e)
           rows == WithOrder(WithRows(f, e, changed), changed)
           shown == WithReveal(rows, e)
           found == WithMatch(shown, e)
<1>1. FrontFine(rows, count) /\ rows.tab = f.tab /\ rows.order = e.order
  BY RowsTaken
<1> HIDE DEF rows
<1>2. FrontFine(shown, count) /\ shown.tab = f.tab /\ shown.order = e.order
  <2>1. CASE e.reveal = NoRank
    BY <1>1, <2>1 DEF WithReveal
  <2>2. CASE e.reveal # NoRank
    <3>1. e.reveal \in GridRows /\ Stands(rows.order, e.reveal, e.goal)
      BY <1>1, <2>2 DEF Tells, Stands
    <3>2. shown = Centred(rows, e.reveal, e.goal)
      BY <2>2 DEF WithReveal
    <3> QED
      BY <1>1, <3>1, <3>2, CentredFine DEF Same
  <2> QED
    BY <2>1, <2>2
<1> HIDE DEF shown
<1>3. FrontFine(found, count) /\ found.tab = f.tab
  <2>1. CASE ~ Reveals(e, shown)
    BY <1>2, <2>1 DEF WithMatch
  <2>2. CASE Reveals(e, shown)
    <3> DEFINE marked == [shown EXCEPT !.revealed = MatchToReveal(e, shown)]
    <3>1. e.match.serial # 0
      BY <2>2 DEF Reveals, MatchToReveal, NoReveal
    <3>2. e.matchRank \in GridRows /\ Stands(e.order, e.matchRank, e.match.row)
      BY <3>1 DEF Tells, Stands
    <3>3. DOMAIN shown = ViewFields
      BY <1>2 DEF FrontFine, ViewOK
    <3>4. /\ DOMAIN marked = ViewFields /\ marked.top = shown.top
          /\ marked.tab = shown.tab /\ marked.order = shown.order
          /\ marked.cache = shown.cache /\ marked.failed = shown.failed
          /\ marked.window = shown.window /\ marked.pending = shown.pending
          /\ marked.aim = shown.aim /\ marked.meant = shown.meant
          /\ marked.known = shown.known /\ marked.selected = shown.selected
      BY <3>3 DEF ViewFields
    <3>5. found = BeginRankReveal(marked, e.matchRank, e.match.row)
      BY <2>2 DEF WithMatch
    <3> HIDE DEF marked
    <3>6. SelectedRows(marked) = SelectedRows(shown)
      BY <3>4 DEF SelectedRows
    <3>7. FrontFine(marked, count)
      BY <1>2, <3>4, <3>6 DEF FrontFine, ViewOK, FrontOK
    <3> HIDE DEF found
    <3> QED
      BY <1>2, <3>2, <3>4, <3>5, <3>7, BeginRankRevealFine DEF Same
  <2> QED
    BY <2>1, <2>2
<1> HIDE DEF found
<1>4. ApplyToFront(f, e) = CompletePending(found)
  BY DEF ApplyToFront, found, shown, rows
<1> QED
  BY <1>3, <1>4, CompletePendingFine DEF Same

-----------------------------------------------------------------------------
(* Views of more rows, and events that fail.                                 *)

\* More rows may be known than a view shows.
LEMMA ViewGrows ==
    ASSUME NEW limit \in Nat, NEW count \in Nat, limit <= count,
           NEW f, ViewOK(f, limit)
    PROVE  ViewOK(f, count)
<1>1. WindowOK(f.window, limit)
  BY DEF ViewOK
<1>2. WindowOK(f.window, count)
  BY <1>1 DEF WindowOK
<1> QED
  BY <1>2 DEF ViewOK

LEMMA ColumnsFailKeeps ==
    ASSUME NEW limit \in Nat, NEW f, ViewOK(f, limit), NEW e, e.order \in Orders
    PROVE  LET g == ColumnsFail(f, e) IN
           /\ ViewOK(g, limit) /\ g.tab = f.tab
           /\ FrontOK(f) => FrontOK(g)
           /\ BehindOK(f) => BehindOK(g)
<1> DEFINE changed == ChangesOrder(f, e)
           known == f.known /\ ~ changed
           aim == IF changed THEN NoRank ELSE f.aim
           g == ColumnsFail(f, e)
<1>1. g = [f EXCEPT !.order = e.order, !.failed = TRUE, !.known = known, !.aim = aim]
  BY DEF ColumnsFail
<1>2. /\ DOMAIN f = ViewFields /\ f.known \in BOOLEAN /\ WindowOK(f.window, limit)
      /\ Stands(f.order, f.pending, f.aim)
  BY DEF ViewOK
<1>3. /\ known \in BOOLEAN /\ (known => f.known) /\ (known => f.order = e.order)
      /\ (f.order = e.order => aim = f.aim) /\ (f.order # e.order => aim = NoRank)
  BY <1>2 DEF ChangesOrder
<1> HIDE DEF g, changed, known, aim
<1>4. /\ DOMAIN g = ViewFields /\ g.order = e.order /\ g.failed = TRUE /\ g.known = known
      /\ g.aim = aim /\ g.tab = f.tab /\ g.window = f.window /\ g.cache = f.cache
      /\ g.pending = f.pending /\ g.selected = f.selected /\ g.top = f.top
      /\ g.topRow = f.topRow /\ g.selectedRow = f.selectedRow /\ g.meant = f.meant
  BY <1>1, <1>2 DEF ViewFields
<1>5. Stands(g.order, g.pending, g.aim)
  BY <1>2, <1>3, <1>4 DEF Stands
<1>6. ViewOK(g, limit)
  BY <1>2, <1>3, <1>4, <1>5 DEF ViewOK
<1>7. ASSUME FrontOK(f)
      PROVE  FrontOK(g)
  <2>1. g.known => f.known /\ SelectedRows(g) = SelectedRows(f)
    BY <1>3, <1>4 DEF SelectedRows
  <2> QED
    BY <1>4, <1>7, <2>1 DEF FrontOK
<1>8. ASSUME BehindOK(f)
      PROVE  BehindOK(g)
  <2>1. g.known => f.known /\ g.order = f.order
    BY <1>3, <1>4
  <2> QED
    BY <1>4, <1>8, <2>1 DEF BehindOK
<1>9. /\ ViewOK(g, limit) /\ g.tab = f.tab
      /\ FrontOK(f) => FrontOK(g)
      /\ BehindOK(f) => BehindOK(g)
  BY <1>4, <1>6, <1>7, <1>8
<1> QED
  BY <1>9 DEF g

-----------------------------------------------------------------------------
(* Events, in the tab behind.                                                *)

LEMMA ApplyBehindFine ==
    ASSUME NEW limit \in Nat, NEW count \in Nat \ {0}, limit <= count,
           NEW b, BehindFine(b, limit), NEW e, Tells(e, count)
    PROVE  BehindFine(ApplyBehind(b, e), count) /\ ApplyBehind(b, e).tab = b.tab
<1> DEFINE changed == ChangesOrder(b, e)
           match == MatchToReveal(e, b)
           fresh == match.serial # 0 /\ (changed \/ b.revealed # match)
           w == WindowOf(b, e, changed)
           topRow == IF changed THEN 0 ELSE b.topRow
           selectedRow == IF changed THEN NoRank ELSE b.selectedRow
           meant == IF changed THEN {} ELSE b.meant
           known == b.known \/ changed
           revealed == IF fresh THEN match ELSE IF changed THEN NoReveal ELSE b.revealed
           pending == IF fresh THEN e.matchRank ELSE IF e.reveal # NoRank THEN e.reveal
                      ELSE IF changed THEN NoRank ELSE b.pending
           aim == IF fresh THEN e.match.row ELSE IF e.reveal # NoRank THEN e.goal
                  ELSE IF changed THEN NoRank ELSE b.aim
           g == ApplyBehind(b, e)
<1>1. g = [b EXCEPT !.order = e.order, !.window = w, !.cache = e.cache, !.failed = FALSE,
                    !.topRow = topRow, !.selectedRow = selectedRow, !.meant = meant,
                    !.known = known, !.revealed = revealed, !.pending = pending,
                    !.aim = aim]
  BY DEF ApplyBehind
<1>2. /\ DOMAIN b = ViewFields /\ WindowOK(b.window, limit) /\ b.known \in BOOLEAN
      /\ Stands(b.order, b.pending, b.aim) /\ b.topRow \in Int
      /\ b.selectedRow = NoRank
         \/ b.selectedRow \in b.window.first .. b.window.first + b.window.visible - 1
      /\ b.known => b.meant = IF b.selectedRow = NoRank THEN {}
                              ELSE {RowAtRank(b.order, b.selectedRow)}
  BY DEF BehindFine, ViewOK, BehindOK
<1>3. /\ e.order \in Orders /\ e.available = count /\ CacheOK(e.cache, e.order)
      /\ Stands(e.order, e.reveal, e.goal)
      /\ e.match.serial # 0 =>
            e.matchRank \in GridRows /\ e.match.row = RowAtRank(e.order, e.matchRank)
  BY DEF Tells
<1>4. /\ WindowOK(w, count)
      /\ ~ changed => w.first = b.window.first /\ b.window.visible <= w.visible
  <2>1. changed \in BOOLEAN
    BY DEF ChangesOrder
  <2> HIDE DEF changed
  <2> QED
    BY <1>2, <1>3, <2>1, WindowTaken
<1>5. changed \in BOOLEAN /\ changed = (b.order # e.order) /\ known \in BOOLEAN
  BY <1>2 DEF ChangesOrder
<1>6. fresh => e.match.serial # 0
  BY DEF MatchToReveal, NoReveal
<1> HIDE DEF changed, fresh, w
<1>7. Stands(e.order, pending, aim)
  <2>1. CASE fresh
    <3>1. pending = e.matchRank /\ aim = e.match.row
      BY <2>1
    <3> QED
      BY <1>3, <1>6, <2>1, <3>1 DEF Stands
  <2>2. CASE ~ fresh /\ e.reveal # NoRank
    <3>1. pending = e.reveal /\ aim = e.goal
      BY <2>2
    <3> QED
      BY <1>3, <3>1
  <2>3. CASE ~ fresh /\ e.reveal = NoRank /\ changed
    <3>1. pending = NoRank
      BY <2>3
    <3> QED
      BY <3>1 DEF Stands
  <2>4. CASE ~ fresh /\ e.reveal = NoRank /\ ~ changed
    <3>1. pending = b.pending /\ aim = b.aim
      BY <2>4
    <3> QED
      BY <1>2, <1>5, <2>4, <3>1
  <2> QED
    BY <2>1, <2>2, <2>3, <2>4
<1>8. /\ changed => topRow = 0 /\ selectedRow = NoRank /\ meant = {}
      /\ ~ changed => /\ topRow = b.topRow /\ selectedRow = b.selectedRow
                      /\ meant = b.meant /\ known = b.known
  BY <1>2, <1>5
<1> HIDE DEF g, topRow, selectedRow, meant, known, revealed, pending, aim
<1>9. /\ DOMAIN g = ViewFields /\ g.order = e.order /\ g.window = w /\ g.cache = e.cache
      /\ g.failed = FALSE /\ g.topRow = topRow /\ g.selectedRow = selectedRow
      /\ g.meant = meant /\ g.known = known /\ g.pending = pending /\ g.aim = aim
      /\ g.tab = b.tab
  BY <1>1, <1>2 DEF ViewFields
<1>10. ViewOK(g, count)
  BY <1>3, <1>4, <1>5, <1>7, <1>9 DEF ViewOK
<1>11. BehindOK(g)
  <2>1. CASE changed
    BY <1>8, <1>9, <2>1 DEF BehindOK
  <2>2. CASE ~ changed
    <3>1. {b.window.first, b.window.visible, w.first, w.visible} \subseteq Nat
      BY <1>2, <1>4 DEF WindowOK
    <3>2. /\ g.topRow \in Int
          /\ g.selectedRow = b.selectedRow /\ g.meant = b.meant /\ g.known = b.known
          /\ g.order = b.order
      BY <1>2, <1>5, <1>8, <1>9, <2>2
    <3>3. b.selectedRow # NoRank => b.selectedRow \in w.first .. w.first + w.visible - 1
      BY <1>2, <1>4, <2>2, <3>1
    <3> QED
      BY <1>2, <1>9, <3>2, <3>3 DEF BehindOK
  <2> QED
    BY <2>1, <2>2
<1> QED
  BY <1>9, <1>10, <1>11 DEF BehindFine, g

-----------------------------------------------------------------------------
(* Tabs.                                                                     *)

\* What a tab keeps of its selection is the row that was selected first.
LEMMA StashedFine ==
    ASSUME NEW limit \in Nat, limit <= RowCount, NEW f, FrontFine(f, limit)
    PROVE  BehindFine(StashedView(f), limit) /\ StashedView(f).tab = f.tab
<1> DEFINE w == f.window
           ranks == {w.first + local : local \in f.selected}
           topRow == TopVisibleRow(f)
           selectedRow == FirstSelectedRow(f)
           meant == IF f.meant = {} THEN {}
                    ELSE {RowAtRank(f.order, Min({RankOf(f.order, row) : row \in f.meant}))}
           g == StashedView(f)
<1>1. g = [f EXCEPT !.topRow = topRow, !.selectedRow = selectedRow, !.selected = {},
                    !.top = 0, !.meant = meant]
  BY DEF StashedView
<1>2. /\ DOMAIN f = ViewFields /\ WindowOK(w, limit) /\ f.order \in Orders
      /\ f.selected \subseteq 0 .. w.visible - 1 /\ f.top \in Nat
      /\ f.known => SelectedRows(f) = f.meant
  BY DEF FrontFine, ViewOK, FrontOK
<1>3. {w.first, w.visible, w.total} \subseteq Nat /\ w.first + w.visible <= RowCount
      /\ RowCount \in Nat
  BY <1>2, Rows DEF WindowOK
<1>4. topRow \in Int
  <2>1. f.top \in Int
    BY <1>2
  <2> QED
    BY <1>2, <2>1, LocalsAndRanks DEF TopVisibleRow
<1>5. /\ selectedRow = NoRank \/ selectedRow \in w.first .. w.first + w.visible - 1
      /\ f.known => meant = IF selectedRow = NoRank THEN {}
                            ELSE {RowAtRank(f.order, selectedRow)}
  <2>1. CASE f.selected = {}
    <3>1. selectedRow = NoRank /\ SelectedRows(f) = {}
      BY <2>1 DEF FirstSelectedRow, SelectedRows
    <3>2. f.known => meant = {}
      BY <1>2, <3>1
    <3> QED
      BY <3>1, <3>2
  <2>2. CASE f.selected # {}
    <3> DEFINE least == Min(f.selected)
    <3>1. f.selected \subseteq Nat
      BY <1>2
    <3>2. least \in f.selected
      BY <2>2, <3>1, MinOfNats
    <3>3. Min(ranks) = w.first + least
      BY <1>3, <2>2, <3>1, MinShifted
    <3>4. selectedRow = w.first + least
      <4>1. selectedRow = LocalToAbsolute(w, least)
        BY <2>2 DEF FirstSelectedRow
      <4> HIDE DEF least, selectedRow
      <4> QED
        BY <1>2, <3>2, <4>1, LocalsAndRanks
    <3>5. selectedRow \in w.first .. w.first + w.visible - 1 /\ selectedRow # NoRank
      <4> HIDE DEF least, selectedRow
      <4>1. least \in 0 .. w.visible - 1
        BY <1>2, <3>2
      <4>2. selectedRow \in w.first .. w.first + w.visible - 1 /\ selectedRow \in Nat
        BY <1>3, <3>4, <4>1
      <4> QED
        BY <4>2, Rows
    <3>6. \A local \in f.selected : w.first + local \in GridRows
      BY <1>2, <1>3 DEF GridRows
    <3>7. ASSUME f.known
          PROVE  meant = {RowAtRank(f.order, selectedRow)}
      <4>1. f.meant = {RowAtRank(f.order, w.first + local) : local \in f.selected}
        BY <1>2, <3>7 DEF SelectedRows
      <4>2. f.meant # {}
        BY <2>2, <4>1
      <4>3. \A local \in f.selected :
               RankOf(f.order, RowAtRank(f.order, w.first + local)) = w.first + local
        BY <1>2, <3>6, RanksAndRows
      <4>4. {RankOf(f.order, row) : row \in f.meant} = ranks
        BY <4>1, <4>3
      <4> HIDE DEF ranks, least, selectedRow
      <4> QED
        BY <3>3, <3>4, <4>2, <4>4
    <3> QED
      BY <3>5, <3>7
  <2> QED
    BY <2>1, <2>2
<1> HIDE DEF g, topRow, selectedRow, meant
<1>6. /\ DOMAIN g = ViewFields /\ g.topRow = topRow /\ g.selectedRow = selectedRow
      /\ g.meant = meant /\ g.tab = f.tab /\ g.order = f.order /\ g.window = w
      /\ g.cache = f.cache /\ g.failed = f.failed /\ g.pending = f.pending
      /\ g.aim = f.aim /\ g.known = f.known
  BY <1>1, <1>2 DEF ViewFields
<1>7. ViewOK(g, limit)
  BY <1>6 DEF FrontFine, ViewOK
<1>8. BehindOK(g)
  BY <1>4, <1>5, <1>6 DEF BehindOK
<1> QED
  BY <1>6, <1>7, <1>8 DEF BehindFine, g

\* The list of one tab, taken over by the other.
LEMMA RestoredRowsFine ==
    ASSUME NEW limit \in Nat, NEW b, BehindFine(b, limit),
           NEW f, f.selected \subseteq Nat, f.top \in Nat
    PROVE  FrontFine(RestoredRows(b, f), limit) /\ Same(RestoredRows(b, f), b)
<1> DEFINE w == b.window
           t == [b EXCEPT !.selected = f.selected, !.top = f.top, !.pending = NoRank]
           c == WithCount(t)
           s == WithSelection(c, b.selectedRow)
           g == RestoredRows(b, f)
<1>1. /\ DOMAIN b = ViewFields /\ WindowOK(w, limit) /\ b.order \in Orders
      /\ b.known \in BOOLEAN /\ b.failed \in BOOLEAN
      /\ ~ b.failed => CacheOK(b.cache, b.order)
      /\ b.topRow \in Int
      /\ b.selectedRow = NoRank \/ b.selectedRow \in w.first .. w.first + w.visible - 1
      /\ b.known => b.meant = IF b.selectedRow = NoRank THEN {}
                              ELSE {RowAtRank(b.order, b.selectedRow)}
  BY DEF BehindFine, ViewOK, BehindOK
<1>2. /\ DOMAIN t = ViewFields /\ t.selected = f.selected /\ t.top = f.top
      /\ t.pending = NoRank /\ t.tab = b.tab /\ t.order = b.order /\ t.window = w
      /\ t.cache = b.cache /\ t.failed = b.failed /\ t.aim = b.aim /\ t.meant = b.meant
      /\ t.known = b.known
  BY <1>1 DEF ViewFields
<1> HIDE DEF t
<1>3. /\ SameRows(c, t) /\ ListOK(c)
      /\ c.window = w /\ c.pending = NoRank /\ c.aim = b.aim
      /\ c.meant = b.meant /\ c.known = b.known
  BY <1>1, <1>2, WithCountKeeps
<1> HIDE DEF c
<1>4. /\ DOMAIN c = ViewFields /\ c.tab = b.tab /\ c.order = b.order
      /\ c.cache = b.cache /\ c.failed = b.failed /\ c.top \in Nat
      /\ c.selected \subseteq 0 .. w.visible - 1
  BY <1>2, <1>3 DEF SameRows, ListOK
<1>5. FrontFine(s, limit) /\ Same(s, b)
  <2>1. CASE b.selectedRow = NoRank
    <3> DEFINE known == b.known /\ c.selected = {}
    <3>1. s = [c EXCEPT !.known = known]
      BY <1>3, <2>1 DEF WithSelection
    <3>2. known \in BOOLEAN /\ (known => b.meant = {} /\ c.selected = {})
      BY <1>1, <2>1
    <3> HIDE DEF s, known
    <3>3. /\ DOMAIN s = ViewFields /\ s.tab = b.tab /\ s.order = b.order /\ s.window = w
          /\ s.cache = b.cache /\ s.failed = b.failed /\ s.top = c.top
          /\ s.selected = c.selected /\ s.pending = NoRank /\ s.aim = b.aim
          /\ s.meant = b.meant /\ s.known = known
      BY <1>3, <1>4, <3>1 DEF ViewFields
    <3>4. ViewOK(s, limit)
      BY <1>1, <3>2, <3>3 DEF ViewOK, Stands
    <3>5. s.known => SelectedRows(s) = s.meant
      BY <3>2, <3>3 DEF SelectedRows
    <3>6. FrontOK(s)
      BY <1>4, <3>3, <3>5 DEF FrontOK
    <3> QED
      BY <3>3, <3>4, <3>6 DEF FrontFine, Same
  <2>2. CASE b.selectedRow # NoRank
    <3> DEFINE local == AbsoluteToLocal(w, b.selectedRow)
    <3>1. /\ b.selectedRow \in w.first .. w.first + w.visible - 1 /\ b.selectedRow \in Int
      BY <1>1, <2>2
    <3>2. local # NoRank /\ local \in 0 .. w.visible - 1 /\ w.first + local = b.selectedRow
      BY <1>1, <3>1, LocalsAndRanks
    <3>3. s = [c EXCEPT !.selected = {local}]
      BY <1>3, <2>2, <3>2 DEF WithSelection, MarkSelected
    <3> HIDE DEF s, local
    <3>4. /\ DOMAIN s = ViewFields /\ s.tab = b.tab /\ s.order = b.order /\ s.window = w
          /\ s.cache = b.cache /\ s.failed = b.failed /\ s.top = c.top
          /\ s.selected = {local} /\ s.pending = NoRank /\ s.aim = b.aim
          /\ s.meant = b.meant /\ s.known = b.known
      BY <1>3, <1>4, <3>3 DEF ViewFields
    <3>5. ViewOK(s, limit)
      BY <1>1, <3>4 DEF ViewOK, Stands
    <3>6. SelectedRows(s) = {RowAtRank(b.order, b.selectedRow)}
      BY <3>2, <3>4, SelectOne
    <3>7. FrontOK(s)
      BY <1>1, <1>4, <2>2, <3>2, <3>4, <3>6 DEF FrontOK
    <3> QED
      BY <3>4, <3>5, <3>7 DEF FrontFine, Same
  <2> QED
    BY <2>1, <2>2
<1>6. g = WithTop(s, b.topRow)
  BY DEF RestoredRows, s, c, t
<1> HIDE DEF s, g
<1>7. s.window = w /\ s.top \in Nat
  <2>1. WithSelection(c, b.selectedRow).window = c.window
    BY <1>4 DEF WithSelection, MarkSelected, ViewFields
  <2> QED
    BY <1>3, <1>5, <2>1 DEF FrontFine, FrontOK, s
<1>8. g = s \/ OnlyTop(g, s)
  <2> DEFINE local == AbsoluteToLocal(s.window, b.topRow)
  <2>1. CASE b.topRow = NoRank \/ local = NoRank
    BY <1>6, <2>1 DEF WithTop
  <2>2. CASE b.topRow # NoRank /\ local # NoRank
    <3>1. local \in Nat
      BY <1>1, <1>7, <2>2, LocalsAndRanks
    <3>2. g = ScrollToTop(s, local)
      BY <1>6, <2>2 DEF WithTop
    <3> HIDE DEF local
    <3> QED
      BY <1>1, <1>7, <3>1, <3>2, ScrollToTopKeeps
  <2> QED
    BY <2>1, <2>2
<1>9. FrontFine(g, limit) /\ Same(g, b)
  BY <1>5, <1>8, OnlyTopFine DEF Same
<1> QED
  BY <1>9 DEF g

LEMMA RestoredFine ==
    ASSUME NEW limit \in Nat, NEW b, BehindFine(b, limit),
           NEW f, f.selected \subseteq Nat, f.top \in Nat
    PROVE  FrontFine(RestoredView(b, f), limit) /\ RestoredView(b, f).tab = b.tab
<1> DEFINE r == RestoredRows(b, f)
           p == WithPending(r, b.pending, b.aim)
           g == RestoredView(b, f)
<1>1. FrontFine(r, limit) /\ Same(r, b)
  BY RestoredRowsFine
<1>2. Stands(b.order, b.pending, b.aim)
  BY DEF BehindFine, ViewOK
<1>3. g = [p EXCEPT !.topRow = NoRank, !.selectedRow = NoRank]
  BY DEF RestoredView
<1> HIDE DEF r, g
<1>4. FrontFine(p, limit) /\ Same(p, b)
  <2>1. CASE b.pending = NoRank
    BY <1>1, <2>1 DEF WithPending
  <2>2. CASE b.pending # NoRank
    <3>1. b.pending \in GridRows /\ Stands(r.order, b.pending, b.aim)
      BY <1>1, <1>2, <2>2 DEF Stands, Same
    <3>2. p = BeginRankReveal(r, b.pending, b.aim)
      BY <2>2 DEF WithPending
    <3> QED
      BY <1>1, <3>1, <3>2, BeginRankRevealFine DEF Same
  <2> QED
    BY <2>1, <2>2
<1> HIDE DEF p
<1>5. DOMAIN p = ViewFields
  BY <1>4 DEF FrontFine, ViewOK
<1>6. /\ DOMAIN g = ViewFields /\ g.tab = p.tab /\ g.order = p.order /\ g.window = p.window
      /\ g.cache = p.cache /\ g.failed = p.failed /\ g.top = p.top
      /\ g.selected = p.selected /\ g.pending = p.pending /\ g.aim = p.aim
      /\ g.meant = p.meant /\ g.known = p.known
  BY <1>3, <1>5 DEF ViewFields
<1>7. SelectedRows(g) = SelectedRows(p)
  BY <1>6 DEF SelectedRows
<1>8. ViewOK(g, limit)
  BY <1>4, <1>6 DEF FrontFine, ViewOK
<1>9. FrontOK(g)
  BY <1>4, <1>6, <1>7 DEF FrontFine, FrontOK
<1> QED
  BY <1>4, <1>6, <1>8, <1>9 DEF FrontFine, Same, g

-----------------------------------------------------------------------------
(* The worker.                                                               *)

\* What is posted tells of the document as it is.
LEMMA EventTells ==
    ASSUME NEW d, DocumentOK(d), NEW reveal, NEW goal, Stands(d.order, reveal, goal)
    PROVE  Tells(EventOf(d, reveal, goal), d.known)
<1> DEFINE e == EventOf(d, reveal, goal)
<1>1. /\ d.order \in Orders /\ d.known \in Nat /\ (d.order # "file" => d.known = RowCount)
      /\ CacheOK(d.cache, d.order) /\ (d.match.serial # 0 => d.match.row \in GridRows)
  BY DEF DocumentOK
<1>2. /\ e.order = d.order /\ e.cache = d.cache /\ e.match = d.match
      /\ e.reveal = reveal /\ e.goal = goal
      /\ e.available = (IF d.order = "file" THEN d.known ELSE RowCount)
      /\ e.matchRank = (IF d.match.serial = 0 THEN NoRank ELSE RankOf(d.order, d.match.row))
  BY DEF EventOf
<1> HIDE DEF e
<1>3. e.available = d.known
  BY <1>1, <1>2
<1>4. ASSUME d.match.serial # 0
      PROVE  /\ RankOf(d.order, d.match.row) \in GridRows
             /\ RowAtRank(d.order, RankOf(d.order, d.match.row)) = d.match.row
  BY <1>1, <1>4, RanksAndRows
<1>5. Tells(e, d.known)
  BY <1>1, <1>2, <1>3, <1>4 DEF Tells
<1> QED
  BY <1>5 DEF e

\* A step of the worker posts one event of the document that it leaves.
LEMMA EmitKeeps ==
    ASSUME GridIInv, NEW d, DocumentOK(d), document.known <= d.known,
           NEW reveal, NEW goal, Stands(d.order, reveal, goal),
           EmitEvent(d, reveal, goal), AsksOK(asks')
    PROVE  GridIInv'
<1>1. /\ document' = d /\ posted' = EventOf(d, reveal, goal)
      /\ front' = front /\ behind' = behind
  BY DEF EmitEvent
<1>2. Tells(EventOf(d, reveal, goal), d.known)
  BY EventTells
<1>3. \A f : /\ LimitOf(f, document) \in Nat /\ LimitOf(f, d) \in Nat
             /\ LimitOf(f, document) <= LimitOf(f, d)
  <2>1. document.known \in Nat /\ d.known \in Nat /\ RowCount \in Nat
    BY Rows DEF GridIInv, DocumentOK
  <2> QED
    BY <2>1 DEF LimitOf
<1>4. FrontFine(front, LimitOf(front, d))
  <2>1. FrontFine(front, LimitOf(front, document))
    BY DEF GridIInv
  <2> DEFINE old == LimitOf(front, document)
             new == LimitOf(front, d)
  <2>2. old \in Nat /\ new \in Nat /\ old <= new
    BY <1>3
  <2> HIDE DEF old, new
  <2>3. ViewOK(front, new)
    BY <2>1, <2>2, ViewGrows DEF FrontFine, old
  <2> QED
    BY <2>1, <2>3 DEF FrontFine, new
<1>5. BehindFine(behind, LimitOf(behind, d))
  <2>1. BehindFine(behind, LimitOf(behind, document))
    BY DEF GridIInv
  <2> DEFINE old == LimitOf(behind, document)
             new == LimitOf(behind, d)
  <2>2. old \in Nat /\ new \in Nat /\ old <= new
    BY <1>3
  <2> HIDE DEF old, new
  <2>3. ViewOK(behind, new)
    BY <2>1, <2>2, ViewGrows DEF BehindFine, old
  <2> QED
    BY <2>1, <2>3 DEF BehindFine, new
<1>6. (posted # NothingPosted => Tells(posted, document.known))'
  BY <1>1, <1>2
<1> QED
  BY <1>1, <1>4, <1>5, <1>6 DEF GridIInv, PostedPart

LEMMA ScanKeeps ==
    ASSUME GridIInv, Scan
    PROVE  GridIInv'
<1> DEFINE d == [document EXCEPT !.known = RowCount]
<1>1. DocumentOK(document) /\ document.known < RowCount /\ RowCount \in Nat \ {0}
  BY Rows DEF GridIInv, Scan
<1>2. /\ DOMAIN d = {"order", "known", "cache", "match"} /\ d.order = document.order
      /\ d.known = RowCount /\ d.cache = document.cache /\ d.match = document.match
  BY <1>1 DEF DocumentOK
<1>3. EmitEvent(d, NoRank, NoRank) /\ asks' = asks
  BY DEF Scan
<1> HIDE DEF d
<1>4. document.known \in Nat
  BY <1>1 DEF DocumentOK
<1>5. DocumentOK(d) /\ document.known <= d.known
  BY <1>1, <1>2, <1>4 DEF DocumentOK
<1>6. Stands(d.order, NoRank, NoRank) /\ AsksOK(asks')
  BY <1>3 DEF Stands, GridIInv
<1> QED
  BY <1>3, <1>5, <1>6, EmitKeeps

LEMMA ServeViewportKeeps ==
    ASSUME GridIInv, ServeViewport
    PROVE  GridIInv'
<1> DEFINE ask == asks.viewport
           rank == IF ask.kind = "row" THEN RankOf(document.order, ask.row) ELSE ask.row
           known == IF document.order = "file" THEN document.known ELSE RowCount
           cache == CacheFrom(document.order, rank, known)
           d == [document EXCEPT !.cache = cache]
           a == [asks EXCEPT !.viewport = NoAsk]
<1>1. /\ DocumentOK(document) /\ RowCount \in Nat \ {0} /\ document.order \in Orders
      /\ document.known \in Nat /\ AsksOK(asks)
      /\ ask # NoAsk /\ ask.row \in Int /\ (ask.kind = "row" => ask.row \in GridRows)
  BY Rows DEF GridIInv, ServeViewport, DocumentOK, AsksOK
<1>2. known \in Int
  BY <1>1
<1>3. ask.kind = "row" => rank \in GridRows /\ RowAtRank(document.order, rank) = ask.row
  BY <1>1, RanksAndRows
<1>4. rank \in Int
  <2>1. CASE ask.kind = "row"
    <3>1. rank \in GridRows
      BY <1>3, <2>1
    <3> HIDE DEF rank
    <3> QED
      BY <3>1, Rows
  <2>2. CASE ask.kind # "row"
    <3>1. rank = ask.row
      BY <2>2
    <3> QED
      BY <1>1, <3>1
  <2> QED
    BY <2>1, <2>2
<1>5. asks' = a /\ \/ ask.kind = "row" /\ EmitEvent(d, rank, ask.row)
                   \/ EmitEvent(d, NoRank, NoRank)
  BY DEF ServeViewport
<1> HIDE DEF rank, known
<1>6. CacheOK(cache, document.order)
  BY <1>2, <1>4, CacheFromOK
<1> HIDE DEF cache
<1>7. /\ DOMAIN d = {"order", "known", "cache", "match"} /\ d.order = document.order
      /\ d.known = document.known /\ d.cache = cache /\ d.match = document.match
  BY <1>1 DEF DocumentOK
<1>8. /\ DOMAIN a = {"viewport", "ordering", "find"} /\ a.viewport = NoAsk
      /\ a.ordering = asks.ordering /\ a.find = asks.find
  BY <1>1 DEF AsksOK
<1> HIDE DEF d, a, ask
<1>9. DocumentOK(d) /\ document.known <= d.known
  BY <1>1, <1>6, <1>7 DEF DocumentOK
<1>10. AsksOK(asks')
  BY <1>1, <1>5, <1>8 DEF AsksOK
<1>11. CASE ask.kind = "row" /\ EmitEvent(d, rank, ask.row)
  <2>1. Stands(d.order, rank, ask.row)
    BY <1>3, <1>7, <1>11 DEF Stands
  <2> QED
    BY <1>9, <1>10, <1>11, <2>1, EmitKeeps
<1>12. CASE EmitEvent(d, NoRank, NoRank)
  <2>1. Stands(d.order, NoRank, NoRank)
    BY DEF Stands
  <2> QED
    BY <1>9, <1>10, <1>12, <2>1, EmitKeeps
<1> QED
  BY <1>5, <1>11, <1>12

LEMMA ServeSortKeeps ==
    ASSUME GridIInv, ServeSort
    PROVE  GridIInv'
<1> DEFINE cache == CacheFrom(asks.ordering, 0, RowCount)
           d == [document EXCEPT !.order = asks.ordering, !.cache = cache]
           a == [asks EXCEPT !.ordering = "none"]
<1>1. /\ DocumentOK(document) /\ RowCount \in Nat \ {0} /\ document.known = RowCount
      /\ AsksOK(asks) /\ asks.ordering \in Orders
  BY Rows DEF GridIInv, ServeSort, AsksOK
<1>2. CacheOK(cache, asks.ordering)
  BY <1>1, CacheFromOK
<1>3. EmitEvent(d, NoRank, NoRank) /\ asks' = a
  BY DEF ServeSort
<1> HIDE DEF cache
<1>4. /\ DOMAIN d = {"order", "known", "cache", "match"} /\ d.order = asks.ordering
      /\ d.known = RowCount /\ d.cache = cache /\ d.match = document.match
  BY <1>1 DEF DocumentOK
<1>5. /\ DOMAIN a = {"viewport", "ordering", "find"} /\ a.viewport = asks.viewport
      /\ a.ordering = "none" /\ a.find = asks.find
  BY <1>1 DEF AsksOK
<1> HIDE DEF d, a
<1>6. DocumentOK(d) /\ document.known <= d.known
  BY <1>1, <1>2, <1>4 DEF DocumentOK
<1>7. Stands(d.order, NoRank, NoRank) /\ AsksOK(asks')
  BY <1>1, <1>3, <1>5 DEF Stands, AsksOK
<1> QED
  BY <1>3, <1>6, <1>7, EmitKeeps

LEMMA ServeFindKeeps ==
    ASSUME GridIInv, ServeFind
    PROVE  GridIInv'
<1> DEFINE match == [serial |-> asks.find.serial, hit |-> asks.find.hit,
                     row |-> HitRows[asks.find.hit]]
           d == [document EXCEPT !.match = match]
           a == [asks EXCEPT !.find = [serial |-> 0, hit |-> 0]]
<1>1. /\ DocumentOK(document) /\ AsksOK(asks) /\ asks.find.hit \in DOMAIN HitRows
  BY DEF GridIInv, ServeFind, AsksOK
<1>2. match.row \in GridRows
  BY <1>1, GridAssumption
<1>3. EmitEvent(d, NoRank, NoRank) /\ asks' = a
  BY DEF ServeFind
<1> HIDE DEF match
<1>4. /\ DOMAIN d = {"order", "known", "cache", "match"} /\ d.order = document.order
      /\ d.known = document.known /\ d.cache = document.cache /\ d.match = match
  BY <1>1 DEF DocumentOK
<1>5. /\ DOMAIN a = {"viewport", "ordering", "find"} /\ a.viewport = asks.viewport
      /\ a.ordering = asks.ordering /\ a.find.serial = 0
  BY <1>1 DEF AsksOK
<1> HIDE DEF d, a
<1>6. DocumentOK(d) /\ document.known <= d.known
  BY <1>1, <1>2, <1>4 DEF DocumentOK
<1>7. Stands(d.order, NoRank, NoRank) /\ AsksOK(asks')
  BY <1>1, <1>3, <1>5 DEF Stands, AsksOK
<1> QED
  BY <1>3, <1>6, <1>7, EmitKeeps

-----------------------------------------------------------------------------
(* The window.                                                               *)

\* The tab that an event is for shows at most the rows of the event.
LEMMA Limits ==
    ASSUME GridIInv
    PROVE  /\ document.known \in Nat \ {0} /\ document.known <= RowCount
           /\ \A f : LimitOf(f, document) \in Nat /\ LimitOf(f, document) <= RowCount
           /\ \A f, g : f.tab = g.tab => LimitOf(f, document) = LimitOf(g, document)
           /\ \A f : f.tab = "changing" => LimitOf(f, document) = document.known
<1>1. document.known \in Nat \ {0} /\ document.known <= RowCount /\ RowCount \in Nat
  BY Rows DEF GridIInv, DocumentOK
<1> QED
  BY <1>1 DEF LimitOf

LEMMA ApplyEventKeeps ==
    ASSUME GridIInv, ApplyEvent
    PROVE  GridIInv'
<1> DEFINE count == document.known
<1>1. /\ Tells(posted, count) /\ AsksOK(asks)
      /\ FrontFine(front, LimitOf(front, document))
      /\ BehindFine(behind, LimitOf(behind, document))
      /\ posted' = NothingPosted /\ document' = document
  BY DEF GridIInv, PostedPart, ApplyEvent
<1>2. count \in Nat \ {0} /\ count \in Nat /\ count <= count /\ posted.order \in Orders
  BY <1>1, Limits DEF Tells
<1> HIDE DEF count
<1>3. CASE /\ front.tab = "changing" /\ behind' = behind
           /\ front' = ApplyToFront(front, posted)
           /\ asks' = IF Reveals(posted, front) /\ posted.matchRank < posted.available
                      THEN [asks EXCEPT !.viewport = ViewportAt(posted.matchRank)] ELSE asks
  <2>1. FrontFine(front, count)
    BY <1>1, <1>3, Limits DEF count
  <2>2. FrontFine(front', count) /\ front'.tab = front.tab
    BY <1>1, <1>2, <1>3, <2>1, ApplyToFrontFine
  <2>3. LimitOf(front', document) = count
    BY <1>3, <2>2, Limits DEF count
  <2>4. AsksOK(asks')
    <3>1. CASE asks' = asks
      BY <1>1, <3>1
    <3>2. CASE /\ Reveals(posted, front)
               /\ asks' = [asks EXCEPT !.viewport = ViewportAt(posted.matchRank)]
      <4>1. posted.match.serial # 0
        BY <3>2 DEF Reveals, MatchToReveal, NoReveal
      <4>2. posted.matchRank \in Nat
        BY <1>1, <4>1, Rows DEF Tells
      <4>3. /\ DOMAIN asks' = {"viewport", "ordering", "find"}
            /\ asks'.viewport = ViewportAt(posted.matchRank)
            /\ asks'.ordering = asks.ordering /\ asks'.find = asks.find
        BY <1>1, <3>2 DEF AsksOK
      <4>4. asks'.viewport.row \in Int /\ asks'.viewport.kind = "rank"
        BY <4>2, <4>3 DEF ViewportAt
      <4> QED
        BY <1>1, <4>3, <4>4 DEF AsksOK
    <3> QED
      BY <1>3, <3>1, <3>2
  <2> QED
    BY <1>1, <1>3, <2>2, <2>3, <2>4 DEF GridIInv, PostedPart
<1>4. CASE /\ front.tab = "changing" /\ front' = ColumnsFail(front, posted)
           /\ behind' = behind /\ asks' = asks
  <2>1. FrontFine(front, count)
    BY <1>1, <1>4, Limits DEF count
  <2>2. FrontFine(front', count) /\ front'.tab = front.tab
    BY <1>2, <1>4, <2>1, ColumnsFailKeeps DEF FrontFine
  <2>3. LimitOf(front', document) = count
    BY <1>4, <2>2, Limits DEF count
  <2> QED
    BY <1>1, <1>4, <2>2, <2>3 DEF GridIInv, PostedPart
<1>5. CASE /\ behind.tab = "changing" /\ front' = front /\ asks' = asks
           /\ behind' \in {ApplyBehind(behind, posted), ColumnsFail(behind, posted)}
  <2>1. BehindFine(behind, count)
    BY <1>1, <1>5, Limits DEF count
  <2>2. BehindFine(behind', count) /\ behind'.tab = behind.tab
    <3>1. CASE behind' = ApplyBehind(behind, posted)
      BY <1>1, <1>2, <2>1, <3>1, ApplyBehindFine
    <3>2. CASE behind' = ColumnsFail(behind, posted)
      BY <1>2, <2>1, <3>2, ColumnsFailKeeps DEF BehindFine
    <3> QED
      BY <1>5, <3>1, <3>2
  <2>3. LimitOf(behind', document) = count
    BY <1>5, <2>2, Limits DEF count
  <2> QED
    BY <1>1, <1>5, <2>2, <2>3 DEF GridIInv, PostedPart
<1> QED
  BY <1>3, <1>4, <1>5 DEF ApplyEvent

\* A step of the user on the tab that is shown.
LEMMA FrontStepKeeps ==
    ASSUME GridIInv, document' = document, behind' = behind,
           posted' = posted \/ posted' = NothingPosted, AsksOK(asks'),
           FrontFine(front', LimitOf(front, document)), front'.tab = front.tab
    PROVE  GridIInv'
<1>1. LimitOf(front', document) = LimitOf(front, document)
  BY Limits
<1> QED
  BY <1>1 DEF GridIInv, PostedPart

\* Rows are asked for from any rank on.
LEMMA AsksForRows ==
    ASSUME AsksOK(asks), NEW rank \in Int
    PROVE  AsksOK([asks EXCEPT !.viewport = ViewportAt(rank)])
<1> DEFINE a == [asks EXCEPT !.viewport = ViewportAt(rank)]
<1>1. /\ DOMAIN a = {"viewport", "ordering", "find"} /\ a.viewport = ViewportAt(rank)
      /\ a.ordering = asks.ordering /\ a.find = asks.find
  BY DEF AsksOK
<1>2. a.viewport.row = rank /\ a.viewport.kind = "rank"
  BY <1>1 DEF ViewportAt
<1> HIDE DEF a
<1>3. AsksOK(a)
  BY <1>1, <1>2 DEF AsksOK
<1> QED
  BY <1>3 DEF a

LEMMA RevealRowKeeps ==
    ASSUME GridIInv, RevealRow
    PROVE  GridIInv'
<1>1. PICK row \in GridRows :
        \/ /\ front.order = "file" /\ front' = BeginRankReveal(front, row, row)
           /\ asks' = asks \/ asks' = [asks EXCEPT !.viewport = ViewportAt(row)]
        \/ /\ front' = front
           /\ asks' = [asks EXCEPT !.viewport = [kind |-> "row", row |-> row]]
  BY DEF RevealRow
<1>2. /\ AsksOK(asks) /\ FrontFine(front, LimitOf(front, document))
      /\ document' = document /\ behind' = behind /\ posted' = posted
      /\ LimitOf(front, document) \in Nat
  BY Limits DEF GridIInv, RevealRow
<1>3. row \in Int
  BY Rows
<1>4. FrontFine(front', LimitOf(front, document)) /\ front'.tab = front.tab
  <2> DEFINE limit == LimitOf(front, document)
  <2>0. limit \in Nat /\ FrontFine(front, limit)
    BY <1>2
  <2> HIDE DEF limit
  <2>1. CASE front.order = "file" /\ front' = BeginRankReveal(front, row, row)
    <3>1. Stands(front.order, row, row)
      BY <2>1 DEF Stands, RowAtRank
    <3>2. FrontFine(front', limit) /\ Same(front', front)
      BY <2>0, <2>1, <3>1, BeginRankRevealFine
    <3> QED
      BY <3>2 DEF Same, limit
  <2>2. CASE front' = front
    BY <2>0, <2>2 DEF limit
  <2> QED
    BY <1>1, <2>1, <2>2
<1>5. AsksOK(asks')
  <2>1. CASE asks' = asks \/ asks' = [asks EXCEPT !.viewport = ViewportAt(row)]
    BY <1>2, <1>3, <2>1, AsksForRows
  <2>2. CASE asks' = [asks EXCEPT !.viewport = [kind |-> "row", row |-> row]]
    <3>1. /\ DOMAIN asks' = {"viewport", "ordering", "find"}
          /\ asks'.viewport = [kind |-> "row", row |-> row]
          /\ asks'.ordering = asks.ordering /\ asks'.find = asks.find
      BY <1>2, <2>2 DEF AsksOK
    <3>2. asks'.viewport.row = row
      BY <3>1
    <3> QED
      BY <1>2, <1>3, <3>1, <3>2 DEF AsksOK
  <2> QED
    BY <1>1, <2>1, <2>2
<1> QED
  BY <1>2, <1>4, <1>5, FrontStepKeeps

LEMMA FindKeeps ==
    ASSUME GridIInv, Find
    PROVE  GridIInv'
<1>1. PICK hit \in DOMAIN HitRows :
        /\ front' = [front EXCEPT !.find = 1, !.pending = NoRank, !.aim = NoRank,
                         !.revealed = NoReveal]
        /\ asks' = [asks EXCEPT !.find = [serial |-> 1, hit |-> hit]]
  BY DEF Find
<1>2. /\ AsksOK(asks) /\ FrontFine(front, LimitOf(front, document))
      /\ document' = document /\ behind' = behind /\ posted' = NothingPosted
  BY DEF GridIInv, Find
<1>3. DOMAIN front = ViewFields
  BY <1>2 DEF FrontFine, ViewOK
<1>4. /\ DOMAIN front' = ViewFields /\ front'.pending = NoRank /\ front'.aim = NoRank
      /\ front'.tab = front.tab /\ front'.order = front.order
      /\ front'.window = front.window /\ front'.cache = front.cache
      /\ front'.failed = front.failed /\ front'.selected = front.selected
      /\ front'.top = front.top /\ front'.meant = front.meant /\ front'.known = front.known
  BY <1>1, <1>3 DEF ViewFields
<1>5. SelectedRows(front') = SelectedRows(front)
  BY <1>4 DEF SelectedRows
<1>6. FrontFine(front', LimitOf(front, document))
  BY <1>2, <1>4, <1>5 DEF FrontFine, ViewOK, FrontOK, Stands
<1>7. AsksOK(asks')
  <2>1. /\ DOMAIN asks' = {"viewport", "ordering", "find"} /\ asks'.viewport = asks.viewport
        /\ asks'.ordering = asks.ordering /\ asks'.find = [serial |-> 1, hit |-> hit]
    BY <1>1, <1>2 DEF AsksOK
  <2> QED
    BY <1>2, <2>1 DEF AsksOK
<1> QED
  BY <1>2, <1>4, <1>6, <1>7, FrontStepKeeps

LEMMA SortRowsKeeps ==
    ASSUME GridIInv, SortRows
    PROVE  GridIInv'
<1>1. PICK ordering \in Orders : asks' = [asks EXCEPT !.ordering = ordering]
  BY DEF SortRows, Orders
<1>2. /\ AsksOK(asks) /\ FrontFine(front, LimitOf(front, document))
      /\ document' = document /\ behind' = behind /\ posted' = posted /\ front' = front
  BY DEF GridIInv, SortRows
<1>3. /\ DOMAIN asks' = {"viewport", "ordering", "find"} /\ asks'.viewport = asks.viewport
      /\ asks'.ordering = ordering /\ asks'.find = asks.find
  BY <1>1, <1>2 DEF AsksOK
<1>4. AsksOK(asks')
  BY <1>2, <1>3 DEF AsksOK
<1> QED
  BY <1>2, <1>4, FrontStepKeeps

LEMMA SelectItemKeeps ==
    ASSUME GridIInv, SelectItem
    PROVE  GridIInv'
<1>1. /\ DOMAIN front = ViewFields /\ WindowOK(front.window, LimitOf(front, document))
      /\ front.selected \subseteq 0 .. front.window.visible - 1 /\ front.top \in Nat
      /\ front.known \in BOOLEAN /\ (front.known => SelectedRows(front) = front.meant)
      /\ FrontFine(front, LimitOf(front, document)) /\ AsksOK(asks)
      /\ document' = document /\ behind' = behind /\ posted' = posted /\ asks' = asks
      /\ LimitOf(front, document) \in Nat
  BY Limits DEF GridIInv, FrontFine, ViewOK, FrontOK, SelectItem
<1>2. PICK local \in Visible(front), others \in {{}, front.selected} :
        LET row == RowAtRank(front.order, LocalToAbsolute(front.window, local)) IN
        front' = [front EXCEPT !.selected = others \cup {local},
                     !.meant = IF others = {} THEN {row} ELSE front.meant \cup {row},
                     !.known = front.known \/ others = {}]
  BY DEF SelectItem
<1> DEFINE limit == LimitOf(front, document)
           row == RowAtRank(front.order, front.window.first + local)
           meant == IF others = {} THEN {row} ELSE front.meant \cup {row}
           known == front.known \/ others = {}
<1>3. local \in 0 .. front.window.visible - 1
  <2>1. front.window.visible \in Nat /\ PageRows \in Nat
    BY <1>1, GridAssumption DEF WindowOK
  <2> DEFINE below == Min({front.top + PageRows, front.window.visible})
  <2>2. below \in Int /\ below <= front.window.visible
    BY <1>1, <2>1, MinPair
  <2>3. local \in front.top .. below - 1
    BY DEF Visible
  <2> HIDE DEF below
  <2> QED
    BY <1>1, <2>1, <2>2, <2>3
<1>4. LocalToAbsolute(front.window, local) = front.window.first + local
  BY <1>1, <1>3, LocalsAndRanks
<1>5. front' = [front EXCEPT !.selected = others \cup {local}, !.meant = meant,
                             !.known = known]
  BY <1>2, <1>4
<1>6. known \in BOOLEAN
  BY <1>1
<1>7. known => {RowAtRank(front.order, front.window.first + i) : i \in others \cup {local}}
               = meant
  <2>1. CASE others = {}
    BY <2>1
  <2>2. CASE others # {}
    <3>1. others = front.selected
      BY <2>2
    <3>2. known => {RowAtRank(front.order, front.window.first + i) : i \in others}
                   = front.meant
      BY <1>1, <2>2, <3>1 DEF SelectedRows
    <3> QED
      BY <2>2, <3>2
  <2> QED
    BY <2>1, <2>2
<1>8. others \cup {local} \subseteq 0 .. front.window.visible - 1
  BY <1>1, <1>3
<1> HIDE DEF row, meant, known, limit
<1>9. /\ DOMAIN front' = ViewFields /\ front'.selected = others \cup {local}
      /\ front'.meant = meant /\ front'.known = known
      /\ front'.tab = front.tab /\ front'.order = front.order
      /\ front'.window = front.window /\ front'.cache = front.cache
      /\ front'.failed = front.failed /\ front'.top = front.top
      /\ front'.pending = front.pending /\ front'.aim = front.aim
  BY <1>1, <1>5 DEF ViewFields
<1>10. front'.known => SelectedRows(front') = front'.meant
  BY <1>7, <1>9 DEF SelectedRows
<1>11. FrontFine(front', limit)
  BY <1>1, <1>6, <1>8, <1>9, <1>10 DEF FrontFine, ViewOK, FrontOK, limit
<1> QED
  BY <1>1, <1>9, <1>11, FrontStepKeeps DEF limit

LEMMA ScrollRowsKeeps ==
    ASSUME GridIInv, ScrollRows
    PROVE  GridIInv'
<1>1. /\ FrontFine(front, LimitOf(front, document)) /\ AsksOK(asks)
      /\ WindowOK(front.window, LimitOf(front, document)) /\ DOMAIN front = ViewFields
      /\ document' = document /\ behind' = behind /\ posted' = posted
      /\ LimitOf(front, document) \in Nat
  BY Limits DEF GridIInv, FrontFine, ViewOK, ScrollRows
<1>2. PICK top \in 0 .. Max({front.window.visible - PageRows, 0}) :
        LET f == [front EXCEPT !.top = top]
            ends == {LocalToAbsolute(f.window, Min(Visible(f))),
                     LocalToAbsolute(f.window, Max(Visible(f)))}
        IN  /\ front' = f
            /\ asks' = asks \/ asks' = [asks EXCEPT !.viewport = ViewportAt(Min(ends))]
  BY DEF ScrollRows
<1> DEFINE f == [front EXCEPT !.top = top]
           upper == LocalToAbsolute(f.window, Min(Visible(f)))
           lower == LocalToAbsolute(f.window, Max(Visible(f)))
           limit == LimitOf(front, document)
<1>3. top \in Nat
  <2> DEFINE most == Max({front.window.visible - PageRows, 0})
  <2>1. top \in 0 .. most
    OBVIOUS
  <2> HIDE DEF most
  <2> QED
    BY <2>1
<1>4. OnlyTop(f, front)
  BY <1>3 DEF OnlyTop
<1> HIDE DEF limit
<1>5. FrontFine(f, limit) /\ f.tab = front.tab
  BY <1>1, <1>4, OnlyTopFine DEF Same, limit
<1>6. f.window = front.window
  BY <1>1 DEF ViewFields
<1> HIDE DEF f
<1>7. \A local : LocalToAbsolute(front.window, local) \in Int
  BY <1>1, LocalsAndRanks DEF LocalToAbsolute, NoRank
<1>8. upper \in Int /\ lower \in Int
  BY <1>6, <1>7
<1>9. front' = f /\ (asks' = asks \/ asks' = [asks EXCEPT !.viewport = ViewportAt(Min({upper, lower}))])
  BY <1>2 DEF f
<1> HIDE DEF upper, lower
<1>10. Min({upper, lower}) \in Int
  BY <1>8, MinPair
<1>11. AsksOK(asks')
  BY <1>1, <1>9, <1>10, AsksForRows
<1> QED
  BY <1>1, <1>5, <1>9, <1>11, FrontStepKeeps DEF limit

LEMMA SwitchTabKeeps ==
    ASSUME GridIInv, SwitchTab
    PROVE  GridIInv'
<1>1. /\ FrontFine(front, LimitOf(front, document)) /\ AsksOK(asks)
      /\ BehindFine(behind, LimitOf(behind, document))
      /\ document' = document /\ posted' = posted
      /\ behind' = StashedView(front) /\ front' = RestoredView(behind, front)
      /\ GridIInv
  BY DEF GridIInv, SwitchTab
<1>2. /\ LimitOf(front, document) \in Nat /\ LimitOf(front, document) <= RowCount
      /\ LimitOf(behind, document) \in Nat
  BY <1>1, Limits
<1>3. front.selected \subseteq Nat /\ front.top \in Nat
  BY <1>1 DEF FrontFine, FrontOK
<1>4. BehindFine(behind', LimitOf(behind', document))
  <2> DEFINE limit == LimitOf(front, document)
  <2>1. FrontFine(front, limit) /\ limit \in Nat /\ limit <= RowCount
    BY <1>1, <1>2
  <2> HIDE DEF limit
  <2>2. BehindFine(behind', limit) /\ behind'.tab = front.tab
    BY <1>1, <2>1, StashedFine
  <2>3. LimitOf(behind', document) = limit
    BY <1>1, <2>2, Limits DEF limit
  <2> QED
    BY <2>2, <2>3
<1>5. FrontFine(front', LimitOf(front', document))
  <2> DEFINE limit == LimitOf(behind, document)
  <2>1. BehindFine(behind, limit) /\ limit \in Nat
    BY <1>1, <1>2
  <2> HIDE DEF limit
  <2>2. FrontFine(front', limit) /\ front'.tab = behind.tab
    BY <1>1, <1>3, <2>1, RestoredFine
  <2>3. LimitOf(front', document) = limit
    BY <1>1, <2>2, Limits DEF limit
  <2> QED
    BY <2>2, <2>3
<1>6. AsksOK(asks')
  <2> DEFINE row == IF behind.pending # NoRank THEN behind.pending ELSE behind.topRow
  <2>1. row \in Int
    <3>1. behind.pending # NoRank => behind.pending \in GridRows
      BY <1>1 DEF BehindFine, ViewOK, Stands
    <3>2. behind.topRow \in Int
      BY <1>1 DEF BehindFine, BehindOK
    <3>3. CASE behind.pending # NoRank
      <4>1. row \in GridRows
        BY <3>1, <3>3
      <4> HIDE DEF row
      <4> QED
        BY <4>1, Rows
    <3>4. CASE behind.pending = NoRank
      BY <3>2, <3>4
    <3> QED
      BY <3>3, <3>4
  <2>2. asks' = asks \/ asks' = [asks EXCEPT !.viewport = ViewportAt(row)]
    BY DEF SwitchTab
  <2> HIDE DEF row
  <2> QED
    BY <1>1, <2>1, <2>2, AsksForRows
<1> QED
  BY <1>1, <1>4, <1>5, <1>6 DEF GridIInv, PostedPart

-----------------------------------------------------------------------------
(* The theorem.                                                              *)

LEMMA FreshOK ==
    ASSUME NEW tab, NEW known \in Nat \ {0}, NEW cached \in Nat, known <= RowCount
    PROVE  LET f == FreshView(tab, known, cached) IN
           /\ FrontFine(f, known) /\ BehindFine(f, known) /\ f.tab = tab
           /\ CacheOK(f.cache, "file")
<1> DEFINE n == Min({cached, known})
           f == FreshView(tab, known, cached)
           sources == [i \in 1 .. n |-> i - 1]
<1>1. n \in Nat
  BY MinPair
<1>2. /\ DOMAIN f = ViewFields /\ f.tab = tab /\ f.order = "file"
      /\ f.window = NewWindow(known) /\ f.cache = [first |-> 0, sources |-> sources]
      /\ f.pending = NoRank /\ f.failed = FALSE /\ f.selected = {} /\ f.top = 0
      /\ f.topRow = NoRank /\ f.selectedRow = NoRank /\ f.aim = NoRank /\ f.meant = {}
      /\ f.known = TRUE
  BY DEF FreshView, ViewFields
<1> HIDE DEF f
<1>3. WindowOK(NewWindow(known), known)
  BY NewWindowOK
<1>4. CacheOK(f.cache, "file")
  <2> HIDE DEF n
  <2>1. Len(sources) = n
    BY <1>1
  <2>2. SUFFICES ASSUME NEW rank \in Int, ContainsRow(f.cache, rank)
                 PROVE  SourceRow(f.cache, rank) = rank
    BY DEF CacheOK, RowAtRank
  <2>3. f.cache.first = 0 /\ f.cache.sources = sources
    BY <1>2
  <2>4. rank \in 0 .. n - 1
    <3>1. rank - f.cache.first \in 0 .. Len(f.cache.sources) - 1
      BY <2>2 DEF ContainsRow
    <3> HIDE DEF sources
    <3> QED
      BY <1>1, <2>1, <2>3, <3>1
  <2>5. SourceRow(f.cache, rank) = sources[rank + 1]
    BY <2>3 DEF SourceRow
  <2> QED
    BY <1>1, <2>4, <2>5
<1>5. ViewOK(f, known)
  BY <1>2, <1>3, <1>4 DEF ViewOK, Stands, Orders
<1>6. FrontOK(f)
  BY <1>2 DEF FrontOK, SelectedRows
<1>7. BehindOK(f)
  BY <1>2 DEF BehindOK, NoRank
<1>8. FrontFine(f, known) /\ BehindFine(f, known) /\ f.tab = tab /\ CacheOK(f.cache, "file")
  BY <1>2, <1>4, <1>5, <1>6, <1>7 DEF FrontFine, BehindFine
<1> QED
  BY <1>8 DEF f

LEMMA GridStarts == GridInit => GridIInv
<1> SUFFICES ASSUME GridInit
             PROVE  GridIInv
  OBVIOUS
<1>1. /\ FirstKnown \in Nat \ {0} /\ FirstKnown \in 1 .. RowCount /\ FirstKnown <= RowCount
      /\ RowCount \in Nat \ {0} /\ RowCount <= RowCount /\ RowCount \in Nat
      /\ CachedRows \in Nat
  BY GridAssumption
<1>2. /\ front = FreshView("changing", FirstKnown, CachedRows)
      /\ behind = FreshView("settled", RowCount, RowCount)
      /\ document = [order |-> "file", known |-> FirstKnown, cache |-> front.cache,
                     match |-> NoMatch]
      /\ posted = NothingPosted
      /\ asks = [viewport |-> NoAsk, ordering |-> "none",
                 find |-> [serial |-> 0, hit |-> 0]]
  BY DEF GridInit
<1>3. FrontFine(front, FirstKnown) /\ front.tab = "changing" /\ CacheOK(front.cache, "file")
  BY <1>1, <1>2, FreshOK
<1>4. BehindFine(behind, RowCount) /\ behind.tab = "settled"
  BY <1>1, <1>2, FreshOK
<1>5. document.known = FirstKnown
  BY <1>2
<1>6. LimitOf(front, document) = FirstKnown /\ LimitOf(behind, document) = RowCount
  BY <1>3, <1>4, <1>5 DEF LimitOf
<1>7. DocumentOK(document)
  BY <1>1, <1>2, <1>3 DEF DocumentOK, Orders, NoMatch
<1>8. AsksOK(asks)
  BY <1>2 DEF AsksOK
<1> QED
  BY <1>2, <1>3, <1>4, <1>6, <1>7, <1>8 DEF GridIInv, PostedPart

LEMMA GridKeeps == GridIInv /\ [GridNext]_viewVars => GridIInv'
<1> SUFFICES ASSUME GridIInv, [GridNext]_viewVars
             PROVE  GridIInv'
  OBVIOUS
<1>1. CASE Scan
  BY <1>1, ScanKeeps
<1>2. CASE ServeViewport
  BY <1>2, ServeViewportKeeps
<1>3. CASE ServeSort
  BY <1>3, ServeSortKeeps
<1>4. CASE ServeFind
  BY <1>4, ServeFindKeeps
<1>5. CASE ApplyEvent
  BY <1>5, ApplyEventKeeps
<1>6. CASE RevealRow
  BY <1>6, RevealRowKeeps
<1>7. CASE Find
  BY <1>7, FindKeeps
<1>8. CASE SortRows
  BY <1>8, SortRowsKeeps
<1>9. CASE SelectItem
  BY <1>9, SelectItemKeeps
<1>10. CASE ScrollRows
  BY <1>10, ScrollRowsKeeps
<1>11. CASE SwitchTab
  BY <1>11, SwitchTabKeeps
<1>12. CASE UNCHANGED viewVars
  BY <1>12 DEF viewVars, GridIInv, PostedPart
<1> QED
  BY <1>1, <1>2, <1>3, <1>4, <1>5, <1>6, <1>7, <1>8, <1>9, <1>10, <1>11, <1>12 DEF GridNext

LEMMA FineRowsStand == GridIInv => RowsStandForThemselves
<1> SUFFICES ASSUME GridIInv, ~ front.failed
             PROVE  /\ \A rank \in front.window.first ..
                                   front.window.first + front.window.visible - 1 :
                          Served(front, rank) \in {NoRank, RowAtRank(front.order, rank)}
                    /\ front.known => SelectedRows(front) = front.meant
                    /\ (front.pending # NoRank /\ front.aim # NoRank) =>
                          RowAtRank(front.order, front.pending) = front.aim
  BY DEF RowsStandForThemselves
<1>1. /\ CacheOK(front.cache, front.order) /\ Stands(front.order, front.pending, front.aim)
      /\ (front.known => SelectedRows(front) = front.meant)
  BY DEF GridIInv, FrontFine, ViewOK, FrontOK
<1>2. \A rank \in Int : Served(front, rank) \in {NoRank, RowAtRank(front.order, rank)}
  BY <1>1 DEF CacheOK, Served
<1> QED
  BY <1>1, <1>2 DEF Stands

\* Whatever the number of rows, the sorted order, the limit of the list and the size of
\* the viewports, and in whichever order events, sorts, finds, reveals, selections and
\* switches of tabs come: every item shows its row or that it is loading, the rows that
\* are selected are those that were meant, unless the window moved away under them, and
\* a reveal under way is for its row
\* (apply_document_event, BackgroundTab::apply_event, restore_tab, build_copy_text).
THEOREM ScreenStandsForItsRows == GridSpec => []RowsStandForThemselves
<1>1. GridInit => GridIInv
  BY GridStarts
<1>2. GridIInv /\ [GridNext]_viewVars => GridIInv'
  BY GridKeeps
<1>3. GridIInv => RowsStandForThemselves
  BY FineRowsStand
<1> QED
  BY <1>1, <1>2, <1>3, PTL DEF GridSpec

-----------------------------------------------------------------------------
(* The bars follow the list.                                                *)

ListFields == {"visible", "size", "rows", "columns", "tall", "top", "left"}
BarFields == {"shown", "length", "lead", "range", "grabbed", "grab", "paging", "heldAt"}

\* The list, and what its frame depends on.
ListShape(l) == DOMAIN l = ListFields
BarShape(bs) == /\ DOMAIN bs = Axes
                /\ \A axis \in Axes : DOMAIN bs[axis] = BarFields

TimerShape == /\ DOMAIN timer = Axes
              /\ \A axis \in Axes : DOMAIN timer[axis] = {"set", "due"}

\* The bars follow a list that has painted.
Following(l, on, bs) ==
    \A axis \in Axes :
        LET frame == Frame(l, on)
            due == on /\ l.visible /\ frame[axis]
        IN  /\ bs[axis].shown = due
            /\ bs[axis].range = IF due THEN RangeOf(l, frame, axis) ELSE NoRange

\* Only the bar that holds the mouse drags or pages, and has a timer.
Held == \A axis \in Axes :
    /\ (bars[axis].grabbed \/ bars[axis].paging # 0) => capture = axis
    /\ timer[axis].set => capture = axis

BarsIInv ==
    /\ ListShape(listView) /\ BarShape(bars) /\ TimerShape
    /\ capture \in Axes \cup {"none"}
    /\ ~ unpainted => Following(listView, overlaid, bars)
    /\ Held

\* Where the list is scrolled to makes no difference to its frame.
LEMMA FrameOfSettled ==
    ASSUME NEW l, ListShape(l), NEW frame, NEW on
    PROVE  /\ Frame(Settled(l, frame), on) = Frame(l, on)
           /\ Settled(l, frame).visible = l.visible
           /\ ListShape(Settled(l, frame))
<1> DEFINE top == Clamp(l.top, 0, Max({l.rows - RowsThatFit(l, frame.height), 0}))
           left == Clamp(l.left, 0, Max({l.columns - frame.width, 0}))
           s == Settled(l, frame)
<1>1. s = [l EXCEPT !.top = top, !.left = left]
  BY DEF Settled
<1> HIDE DEF top, left, s
<1>2. /\ DOMAIN s = ListFields /\ s.visible = l.visible /\ s.size = l.size
      /\ s.rows = l.rows /\ s.columns = l.columns /\ s.tall = l.tall
  BY <1>1 DEF ListShape, ListFields
<1>3. \A height : RowsThatFit(s, height) = RowsThatFit(l, height)
  BY <1>2 DEF RowsThatFit
<1>4. /\ \A across : TooTall(s, on, across) = TooTall(l, on, across)
      /\ \A down : TooWide(s, on, down) = TooWide(l, on, down)
  BY <1>2, <1>3 DEF TooTall, TooWide
<1>5. \A down, across : FrameWith(s, on, down, across) = FrameWith(l, on, down, across)
  BY <1>2 DEF FrameWith
<1>6. Frame(s, on) = Frame(l, on)
  BY <1>4, <1>5 DEF Frame, FrameDown
<1> QED
  BY <1>2, <1>6 DEF ListShape, s

\* Bringing the bars up to date makes them follow and leaves what the mouse does.
LEMMA SyncedFollows ==
    ASSUME NEW l, NEW on, NEW bs, BarShape(bs)
    PROVE  LET new == Synced(bs, l, Frame(l, on), on)
           IN  /\ BarShape(new) /\ Following(l, on, new)
               /\ \A axis \in Axes : /\ new[axis].grabbed = bs[axis].grabbed
                                     /\ new[axis].paging = bs[axis].paging
<1> DEFINE frame == Frame(l, on)
           due == BarsDue(l, frame, on)
           new == Synced(bs, l, frame, on)
<1>1. new = [axis \in Axes |-> BarSynced(bs[axis], axis, l, frame, due)]
  BY DEF Synced, SyncedAs
<1> HIDE DEF frame, new
<1>2. \A axis \in Axes : due[axis] = (on /\ l.visible /\ frame[axis])
  BY DEF BarsDue
<1> HIDE DEF due
<1>3. ASSUME NEW axis \in Axes
      PROVE  /\ DOMAIN new[axis] = BarFields
             /\ new[axis].shown = due[axis]
             /\ new[axis].range = (IF due[axis] THEN RangeOf(l, frame, axis) ELSE NoRange)
             /\ new[axis].grabbed = bs[axis].grabbed
             /\ new[axis].paging = bs[axis].paging
  <2> DEFINE length == IF axis = "across" THEN frame.width
                       ELSE frame.height + IF due["across"] THEN Pixels(StripDip) ELSE 0
             lead == IF axis = "down" THEN HeaderHeight ELSE 0
             range == IF due[axis] THEN RangeOf(l, frame, axis) ELSE NoRange
             bar == bs[axis]
  <2>1. new[axis] = [bar EXCEPT !.shown = due[axis], !.length = length, !.lead = lead,
                                !.range = range]
    BY <1>1 DEF BarSynced
  <2>2. DOMAIN bar = BarFields
    BY DEF BarShape
  <2> HIDE DEF length, lead, range, bar
  <2>3. /\ DOMAIN new[axis] = BarFields /\ new[axis].shown = due[axis]
        /\ new[axis].range = range /\ new[axis].grabbed = bar.grabbed
        /\ new[axis].paging = bar.paging
    BY <2>1, <2>2 DEF BarFields
  <2> QED
    BY <2>3 DEF range, bar
<1>4. BarShape(new)
  BY <1>1, <1>3 DEF BarShape
<1>5. Following(l, on, new)
  BY <1>2, <1>3 DEF Following, frame
<1> QED
  BY <1>3, <1>4, <1>5 DEF new, frame

\* After a message to the list the bars follow it, or it has still to paint.
LEMMA ListStep ==
    ASSUME NEW l, ListShape(l), NEW bs, BarShape(bs), NEW on,
           NEW message \in {"notify", "paint", "size", "scroll", "wheel", "key", "redraw",
                            "column_width", "item_count"},
           ListBecomes(message, l, bs, on)
    PROVE  /\ ListShape(listView') /\ BarShape(bars')
           /\ unpainted' \/ Following(listView', on, bars')
           /\ \A axis \in Axes : /\ bars'[axis].grabbed = bs[axis].grabbed
                                 /\ bars'[axis].paging = bs[axis].paging
<1> DEFINE frame == Frame(l, on)
           s == Settled(l, frame)
<1>1. /\ listView' = s
      /\ bars' = (IF IsSyncMessage(message) THEN Synced(bs, s, frame, on) ELSE bs)
      /\ unpainted' = (message = "notify" \/ (unpainted /\ message # "paint"))
  BY DEF ListBecomes, ListFramed, ListSettles
<1>2. ListShape(s) /\ Frame(s, on) = frame
  BY FrameOfSettled
<1>3. CASE message = "notify"
  <2>1. bars' = bs /\ unpainted'
    BY <1>1, <1>3 DEF IsSyncMessage
  <2> QED
    BY <1>1, <1>2, <2>1
<1>4. CASE message # "notify"
  <2>1. bars' = Synced(bs, s, frame, on)
    BY <1>1, <1>4 DEF IsSyncMessage
  <2>2. /\ BarShape(bars') /\ Following(s, on, bars')
        /\ \A axis \in Axes : /\ bars'[axis].grabbed = bs[axis].grabbed
                              /\ bars'[axis].paging = bs[axis].paging
    BY <1>2, <2>1, SyncedFollows
  <2> QED
    BY <1>1, <1>2, <2>2
<1> QED
  BY <1>3, <1>4

\* Steps by which nothing but the list and its bars changes.
LEMMA ListStepKeeps ==
    ASSUME BarsIInv, NEW l, ListShape(l), NEW on, overlaid' = on,
           NEW message \in {"notify", "paint", "size", "scroll", "wheel", "key", "redraw",
                            "column_width", "item_count"},
           ListBecomes(message, l, bars, on), UNCHANGED <<capture, timer>>
    PROVE  BarsIInv'
<1>1. /\ ListShape(listView') /\ BarShape(bars')
      /\ unpainted' \/ Following(listView', on, bars')
      /\ \A axis \in Axes : /\ bars'[axis].grabbed = bars[axis].grabbed
                            /\ bars'[axis].paging = bars[axis].paging
  BY ListStep DEF BarsIInv
<1>2. Held'
  BY <1>1 DEF BarsIInv, Held
<1> QED
  BY <1>1, <1>2 DEF BarsIInv, TimerShape

LEMMA PlacedShape ==
    ASSUME NEW l, ListShape(l), NEW axis, NEW pos
    PROVE  ListShape(PlacedAt(l, axis, pos))
BY DEF PlacedAt, ListShape

LEMMA ScrolledShape ==
    ASSUME NEW l, ListShape(l), NEW axis, NEW pos
    PROVE  ListShape(ScrolledTo(l, axis, pos))
BY PlacedShape DEF ScrolledTo, ScrolledBy

LEMMA PagedShape ==
    ASSUME NEW l, ListShape(l), NEW axis, NEW direction
    PROVE  ListShape(Paged(l, axis, direction))
BY PlacedShape DEF Paged, PagedIn

\* Before the first rows.
LEMMA BarsStart == ScrollInit => BarsIInv
<1> SUFFICES ASSUME ScrollInit
             PROVE  BarsIInv
  OBVIOUS
<1> DEFINE none == [axis \in Axes |-> Bar]
<1>1. /\ bars = Synced(none, listView, Frame(listView, overlaid), overlaid)
      /\ capture = "none"
      /\ timer = [axis \in Axes |-> [set |-> FALSE, due |-> FALSE]]
      /\ listView.rows = 0 /\ listView.columns = 0
      /\ listView.top = 0 /\ listView.left = 0 /\ ListShape(listView)
  BY DEF ScrollInit, ListShape, ListFields
<1>2. BarShape(none)
  BY DEF BarShape, Bar, BarFields
<1>3. \A axis \in Axes : none[axis].grabbed = FALSE /\ none[axis].paging = 0
  BY DEF Bar
<1> HIDE DEF none
<1>4. /\ BarShape(bars) /\ Following(listView, overlaid, bars)
      /\ \A axis \in Axes : /\ bars[axis].grabbed = none[axis].grabbed
                            /\ bars[axis].paging = none[axis].paging
  BY <1>1, <1>2, SyncedFollows
<1>5. Held
  BY <1>1, <1>3, <1>4 DEF Held
<1>6. TimerShape
  BY <1>1 DEF TimerShape
<1> QED
  BY <1>1, <1>4, <1>5, <1>6 DEF BarsIInv

\* What happens to the list from outside the bars.
LEMMA ListActionsKeep ==
    ASSUME BarsIInv,
           \/ SetItemCount \/ ScrollByKey \/ TurnWheel \/ DragDivider \/ PaintList
           \/ SetColumnWidth \/ SetRowHeight \/ ResizeList \/ ShowList \/ SetEnabled
    PROVE  BarsIInv'
<1>1. ListShape(listView)
  BY DEF BarsIInv
<1>2. CASE SetItemCount
  <2>1. PICK count : ListBecomes("item_count", [listView EXCEPT !.rows = count], bars, overlaid)
    BY <1>2 DEF SetItemCount
  <2>2. ListShape([listView EXCEPT !.rows = count])
    BY <1>1 DEF ListShape
  <2> QED
    BY <1>2, <2>1, <2>2, ListStepKeeps DEF SetItemCount
<1>3. ASSUME NEW message \in {"key", "wheel"}, NEW by, ScrollList(message, by)
      PROVE  BarsIInv'
  <2> DEFINE l == [listView EXCEPT !.top = Max({listView.top + by, 0})]
  <2>1. ListBecomes(message, l, bars, overlaid)
    BY <1>3 DEF ScrollList
  <2>2. ListShape(l)
    BY <1>1 DEF ListShape
  <2> HIDE DEF l
  <2> QED
    BY <1>3, <2>1, <2>2, ListStepKeeps DEF ScrollList
<1>4. CASE ScrollByKey
  BY <1>3, <1>4 DEF ScrollByKey
<1>5. CASE TurnWheel
  BY <1>3, <1>5 DEF TurnWheel
<1>6. CASE DragDivider
  <2>1. PICK width : ListBecomes("notify", [listView EXCEPT !.columns = width], bars, overlaid)
    BY <1>6 DEF DragDivider
  <2>2. ListShape([listView EXCEPT !.columns = width])
    BY <1>1 DEF ListShape
  <2> QED
    BY <1>6, <2>1, <2>2, ListStepKeeps DEF DragDivider
<1>7. CASE PaintList
  BY <1>1, <1>7, ListStepKeeps DEF PaintList
<1>8. CASE SetColumnWidth
  <2>1. PICK width :
           ListBecomes("column_width", [listView EXCEPT !.columns = width], bars, overlaid)
    BY <1>8 DEF SetColumnWidth
  <2>2. ListShape([listView EXCEPT !.columns = width])
    BY <1>1 DEF ListShape
  <2> QED
    BY <1>8, <2>1, <2>2, ListStepKeeps DEF SetColumnWidth
<1>9. CASE SetRowHeight
  <2>1. PICK tall : ListBecomes("redraw", [listView EXCEPT !.tall = tall], bars, overlaid)
    BY <1>9 DEF SetRowHeight
  <2>2. ListShape([listView EXCEPT !.tall = tall])
    BY <1>1 DEF ListShape
  <2> QED
    BY <1>9, <2>1, <2>2, ListStepKeeps DEF SetRowHeight
<1>10. CASE ResizeList
  <2>1. PICK size : ListBecomes("size", [listView EXCEPT !.size = size], bars, overlaid)
    BY <1>10 DEF ResizeList
  <2>2. ListShape([listView EXCEPT !.size = size])
    BY <1>1 DEF ListShape
  <2> QED
    BY <1>10, <2>1, <2>2, ListStepKeeps DEF ResizeList
<1>11. CASE ShowList
  <2>1. ListBecomes("size", [listView EXCEPT !.visible = ~ listView.visible], bars, overlaid)
    BY <1>11 DEF ShowList
  <2>2. ListShape([listView EXCEPT !.visible = ~ listView.visible])
    BY <1>1 DEF ListShape
  <2> QED
    BY <1>11, <2>1, <2>2, ListStepKeeps DEF ShowList
<1>12. CASE SetEnabled
  BY <1>1, <1>12, ListStepKeeps DEF SetEnabled
<1> QED
  BY <1>2, <1>4, <1>5, <1>6, <1>7, <1>8, <1>9, <1>10, <1>11, <1>12

\* A bar that the mouse catches, drags or lets go of stays with the list's range.
LEMMA SameRanges ==
    ASSUME NEW l, NEW on, NEW bs, Following(l, on, bs), NEW new,
           \A axis \in Axes : new[axis].shown = bs[axis].shown /\ new[axis].range = bs[axis].range
    PROVE  Following(l, on, new)
BY DEF Following

LEMMA ButtonDownKeeps ==
    ASSUME BarsIInv, NEW axis \in Axes, ButtonDown(axis)
    PROVE  BarsIInv'
<1>1. /\ ListShape(listView) /\ BarShape(bars) /\ TimerShape /\ Held
      /\ ~ unpainted => Following(listView, overlaid, bars)
      /\ capture = "none" /\ capture' = axis /\ overlaid' = overlaid
  BY DEF BarsIInv, ButtonDown
<1>2. PICK at : \/ Catch(axis, at, ThumbOf(bars[axis]))
                \/ PageTowards(axis, at, PageDirection(ThumbOf(bars[axis]), at))
  BY DEF ButtonDown
<1>3. \A other \in Axes : other # capture
  BY <1>1 DEF Axes
<1>4. \A other \in Axes : ~ bars[other].grabbed /\ bars[other].paging = 0 /\ ~ timer[other].set
  BY <1>1, <1>3 DEF Held
<1>5. CASE Catch(axis, at, ThumbOf(bars[axis]))
  <2>1. /\ bars' = [bars EXCEPT ![axis].grabbed = TRUE,
                                ![axis].grab = at - ThumbOf(bars[axis]).start]
        /\ listView' = listView /\ timer' = timer /\ unpainted' = unpainted
    BY <1>5 DEF Catch
  <2>2. BarShape(bars')
    BY <1>1, <2>1 DEF BarShape
  <2>3. \A other \in Axes : /\ bars'[other].shown = bars[other].shown
                            /\ bars'[other].range = bars[other].range
    BY <1>1, <2>1 DEF BarShape, BarFields
  <2>4. \A other \in Axes \ {axis} : bars'[other] = bars[other]
    BY <1>1, <2>1 DEF BarShape
  <2>5. Held'
    BY <1>1, <1>4, <2>1, <2>4 DEF Held
  <2>6. ~ unpainted' => Following(listView', overlaid', bars')
    BY <1>1, <2>1, <2>3, SameRanges
  <2> QED
    BY <1>1, <2>1, <2>2, <2>5, <2>6 DEF BarsIInv, TimerShape
<1>6. CASE PageTowards(axis, at, PageDirection(ThumbOf(bars[axis]), at))
  <2> DEFINE direction == PageDirection(ThumbOf(bars[axis]), at)
             bs == [bars EXCEPT ![axis].paging = direction, ![axis].heldAt = at]
             l == Paged(listView, axis, direction)
  <2>1. ListBecomes("scroll", l, bs, overlaid) /\ timer' = [timer EXCEPT ![axis].set = TRUE]
    BY <1>6 DEF PageTowards, TimerSet
  <2>2. ListShape(l)
    BY <1>1, PagedShape
  <2>3. BarShape(bs)
    BY <1>1 DEF BarShape
  <2>4. \A other \in Axes \ {axis} : bs[other] = bars[other]
    BY <1>1 DEF BarShape
  <2> HIDE DEF l, bs, direction
  <2>5. /\ ListShape(listView') /\ BarShape(bars')
        /\ unpainted' \/ Following(listView', overlaid, bars')
        /\ \A other \in Axes : /\ bars'[other].grabbed = bs[other].grabbed
                               /\ bars'[other].paging = bs[other].paging
    BY <2>1, <2>2, <2>3, ListStep
  <2>6. TimerShape' /\ \A other \in Axes \ {axis} : timer'[other] = timer[other]
    BY <1>1, <2>1 DEF TimerShape
  <2>7. Held'
    BY <1>1, <1>4, <2>4, <2>5, <2>6 DEF Held
  <2> QED
    BY <1>1, <2>5, <2>6, <2>7 DEF BarsIInv
<1> QED
  BY <1>2, <1>5, <1>6

LEMMA MouseMoveKeeps ==
    ASSUME BarsIInv, NEW axis \in Axes, MouseMove(axis)
    PROVE  BarsIInv'
<1>1. /\ ListShape(listView) /\ BarShape(bars) /\ TimerShape /\ Held
      /\ ~ unpainted => Following(listView, overlaid, bars)
      /\ capture' = capture /\ overlaid' = overlaid /\ timer' = timer
  BY DEF BarsIInv, MouseMove
<1>2. PICK at : Drag(axis, at) \/ HoldAt(axis, at)
  BY DEF MouseMove
<1>3. CASE Drag(axis, at)
  <2> DEFINE pos == PositionAt(bars[axis].range, TrackLength(bars[axis]),
                               ThumbOf(bars[axis]).length, at - bars[axis].grab)
  <2>1. ScrollTo(axis, pos, bars)
    BY <1>3 DEF Drag
  <2> HIDE DEF pos
  <2>2. CASE bars' = bars /\ UNCHANGED <<listView, unpainted>>
    BY <1>1, <2>2 DEF BarsIInv, TimerShape, Held
  <2>3. CASE ListBecomes("scroll", ScrolledTo(listView, axis, pos), bars, overlaid)
    BY <1>1, <2>3, ScrolledShape, ListStepKeeps
  <2> QED
    BY <2>1, <2>2, <2>3 DEF ScrollTo
<1>4. CASE HoldAt(axis, at)
  <2>1. /\ bars' = [bars EXCEPT ![axis].heldAt = at]
        /\ listView' = listView /\ unpainted' = unpainted
    BY <1>4 DEF HoldAt
  <2>2. BarShape(bars')
    BY <1>1, <2>1 DEF BarShape
  <2>3. \A other \in Axes : /\ bars'[other].shown = bars[other].shown
                            /\ bars'[other].range = bars[other].range
                            /\ bars'[other].grabbed = bars[other].grabbed
                            /\ bars'[other].paging = bars[other].paging
    BY <1>1, <2>1 DEF BarShape, BarFields
  <2>4. ~ unpainted' => Following(listView', overlaid', bars')
    BY <1>1, <2>1, <2>3, SameRanges
  <2>5. Held'
    BY <1>1, <2>3 DEF Held
  <2> QED
    BY <1>1, <2>1, <2>2, <2>4, <2>5 DEF BarsIInv, TimerShape
<1> QED
  BY <1>2, <1>3, <1>4

LEMMA TimerFiresKeeps ==
    ASSUME BarsIInv, NEW axis \in Axes, TimerFires(axis)
    PROVE  BarsIInv'
<1>1. /\ TimerShape /\ Held /\ timer' = [timer EXCEPT ![axis].due = TRUE]
      /\ UNCHANGED <<listView, overlaid, bars, capture, unpainted>>
  BY DEF BarsIInv, TimerFires
<1>2. TimerShape' /\ \A other \in Axes : timer'[other].set = timer[other].set
  BY <1>1 DEF TimerShape
<1>3. Held'
  BY <1>1, <1>2 DEF Held
<1> QED
  BY <1>1, <1>2, <1>3 DEF BarsIInv

LEMMA PageAgainKeeps ==
    ASSUME BarsIInv, NEW axis \in Axes, PageAgain(axis)
    PROVE  BarsIInv'
<1>1. /\ ListShape(listView) /\ BarShape(bars) /\ TimerShape /\ Held
      /\ ~ unpainted => Following(listView, overlaid, bars)
      /\ capture' = capture /\ overlaid' = overlaid
  BY DEF BarsIInv, PageAgain
<1>2. CASE /\ bars[axis].paging # 0
           /\ ListBecomes("scroll", Paged(listView, axis, bars[axis].paging), bars, overlaid)
           /\ timer' = [timer EXCEPT ![axis] = [set |-> TRUE, due |-> FALSE]]
  <2> DEFINE l == Paged(listView, axis, bars[axis].paging)
  <2>1. ListShape(l)
    BY <1>1, PagedShape
  <2>2. ListBecomes("scroll", l, bars, overlaid)
    BY <1>2
  <2> HIDE DEF l
  <2>3. /\ ListShape(listView') /\ BarShape(bars')
        /\ unpainted' \/ Following(listView', overlaid, bars')
        /\ \A other \in Axes : /\ bars'[other].grabbed = bars[other].grabbed
                               /\ bars'[other].paging = bars[other].paging
    BY <1>1, <2>1, <2>2, ListStep
  <2>4. TimerShape' /\ \A other \in Axes \ {axis} : timer'[other] = timer[other]
    BY <1>1, <1>2 DEF TimerShape
  <2>5. capture = axis
    BY <1>1, <1>2 DEF Held
  <2>6. Held'
    BY <1>1, <2>3, <2>4, <2>5 DEF Held
  <2> QED
    BY <1>1, <2>3, <2>4, <2>6 DEF BarsIInv
<1>3. CASE /\ timer' = [timer EXCEPT ![axis] = [set |-> FALSE, due |-> FALSE]]
           /\ UNCHANGED <<listView, bars, unpainted>>
  <2>1. TimerShape' /\ \A other \in Axes : timer'[other].set => timer[other].set
    BY <1>1, <1>3 DEF TimerShape
  <2>2. Held'
    BY <1>1, <1>3, <2>1 DEF Held
  <2> QED
    BY <1>1, <1>3, <2>1, <2>2 DEF BarsIInv
<1> QED
  BY <1>2, <1>3 DEF PageAgain

LEMMA ButtonUpKeeps ==
    ASSUME BarsIInv, NEW axis \in Axes, ButtonUp(axis)
    PROVE  BarsIInv'
<1>1. /\ ListShape(listView) /\ BarShape(bars) /\ TimerShape /\ Held
      /\ ~ unpainted => Following(listView, overlaid, bars)
      /\ capture = axis /\ capture' = "none"
      /\ UNCHANGED <<listView, overlaid, unpainted>>
      /\ bars' = [bars EXCEPT ![axis].grabbed = FALSE, ![axis].grab = 0,
                              ![axis].paging = 0, ![axis].heldAt = 0]
      /\ timer' = [timer EXCEPT ![axis].set = FALSE]
  BY DEF BarsIInv, ButtonUp, Released, TimerKilled
<1>2. BarShape(bars')
  BY <1>1 DEF BarShape
<1>3. \A other \in Axes : /\ bars'[other].shown = bars[other].shown
                          /\ bars'[other].range = bars[other].range
  BY <1>1 DEF BarShape, BarFields
<1>4. /\ bars'[axis].grabbed = FALSE /\ bars'[axis].paging = 0
      /\ \A other \in Axes \ {axis} : bars'[other] = bars[other]
  BY <1>1 DEF BarShape, BarFields
<1>5. /\ TimerShape' /\ timer'[axis].set = FALSE
      /\ \A other \in Axes \ {axis} : timer'[other] = timer[other]
  BY <1>1 DEF TimerShape
<1>6. Held'
  BY <1>1, <1>4, <1>5 DEF Held
<1>7. ~ unpainted' => Following(listView', overlaid', bars')
  BY <1>1, <1>3, SameRanges
<1> QED
  BY <1>1, <1>2, <1>5, <1>6, <1>7 DEF BarsIInv

LEMMA BarsKeep == BarsIInv /\ [ScrollNext]_scrollVars => BarsIInv'
<1> SUFFICES ASSUME BarsIInv, [ScrollNext]_scrollVars
             PROVE  BarsIInv'
  OBVIOUS
<1>1. CASE \/ SetItemCount \/ ScrollByKey \/ TurnWheel \/ DragDivider \/ PaintList
           \/ SetColumnWidth \/ SetRowHeight \/ ResizeList \/ ShowList \/ SetEnabled
  BY <1>1, ListActionsKeep
<1>2. ASSUME NEW axis \in Axes,
             \/ ButtonDown(axis) \/ MouseMove(axis) \/ TimerFires(axis) \/ PageAgain(axis)
             \/ ButtonUp(axis)
      PROVE  BarsIInv'
  BY <1>2, ButtonDownKeeps, MouseMoveKeeps, TimerFiresKeeps, PageAgainKeeps, ButtonUpKeeps
<1>3. CASE UNCHANGED scrollVars
  BY <1>3 DEF scrollVars, BarsIInv, TimerShape, Held
<1> QED
  BY <1>1, <1>2, <1>3 DEF ScrollNext

\* For every size of the window, of rows and of columns, and any dots per inch: a bar is
\* there when the list has more than fits and shows the list's range, and only the bar
\* with the mouse drags, pages or has a timer, in whichever order messages and timers
\* come (sync, list_proc, bar_proc).
THEOREM BarsFollow == ScrollSpec => []BarsServeTheList
<1>1. BarsIInv => BarsServeTheList
  BY DEF BarsIInv, BarsServeTheList, Following, Held
<1>2. ScrollInit => BarsIInv
  BY BarsStart
<1>3. BarsIInv /\ [ScrollNext]_scrollVars => BarsIInv'
  BY BarsKeep
<1> QED
  BY <1>1, <1>2, <1>3, PTL DEF ScrollSpec

-----------------------------------------------------------------------------
(* Numbers of the bars.                                                      *)

LEMMA DivisionBounds ==
    ASSUME NEW a \in Int, NEW b \in Nat \ {0}
    PROVE  a \div b \in Int /\ b * (a \div b) <= a /\ a < b * (a \div b) + b
BY SMT

LEMMA DivisionIs ==
    ASSUME NEW a \in Int, NEW b \in Nat \ {0}, NEW q \in Int, b * q <= a, a < b * q + b
    PROVE  a \div b = q
BY SMT

LEMMA Halves ==
    ASSUME NEW n \in Nat
    PROVE  n \div 2 \in Nat /\ 2 * (n \div 2) <= n /\ n <= 2 * (n \div 2) + 1
BY SMT

LEMMA TimesAtMost ==
    ASSUME NEW s \in Nat \ {0}, NEW d \in Int, s * d <= s
    PROVE  d <= 1
BY SMT

LEMMA TimesGrows ==
    ASSUME NEW s \in Nat, NEW x \in Int, NEW y \in Int, x <= y
    PROVE  s * x \in Int /\ s * y \in Int /\ s * x <= s * y
BY SMT

\* Division to the nearest, as the thumb and the place are computed.
Nearest(a, b) == (a + b \div 2) \div b

LEMMA NearestBounds ==
    ASSUME NEW a \in Int, NEW b \in Nat \ {0}
    PROVE  /\ Nearest(a, b) \in Int
           /\ b * Nearest(a, b) <= a + b \div 2
           /\ a + b \div 2 < b * Nearest(a, b) + b
<1>1. a + b \div 2 \in Int
  BY Halves
<1> QED
  BY <1>1, DivisionBounds DEF Nearest

\* From a place of the thumb to a position and back: travel pixels and so many steps.
\* No position beside the one found has its thumb nearer, but for rounding.
LEMMA ThereAndBack ==
    ASSUME NEW steps \in Nat \ {0}, NEW travel \in Nat \ {0}, NEW start \in 0 .. travel
    PROVE  LET q == Nearest(steps * start, travel)
               off(p) == Nearest(travel * p, steps) - start
           IN  /\ q \in 0 .. steps
               /\ start = 0 => q = 0
               /\ start = travel => q = steps
               /\ off(q) <= off(q + 1) + 1 /\ - off(q) <= off(q + 1) + 1
               /\ off(q) <= 1 - off(q - 1) /\ - off(q) <= 1 - off(q - 1)
<1> DEFINE h == travel \div 2
           k == steps \div 2
           sx == steps * start
           q == Nearest(sx, travel)
           tq == travel * q
           t == Nearest(tq, steps)
           u == Nearest(tq + travel, steps)
           v == Nearest(tq - travel, steps)
<1>1. h \in Nat /\ 2 * h <= travel /\ travel <= 2 * h + 1
      /\ k \in Nat /\ 2 * k <= steps /\ steps <= 2 * k + 1
  BY Halves
<1>2. sx \in Int /\ 0 <= sx /\ sx <= steps * travel /\ steps * travel \in Int
      /\ (start = 0 => sx = 0) /\ (start = travel => sx = steps * travel)
  <2>1. steps * 0 <= steps * start /\ steps * start <= steps * travel /\ sx \in Int
        /\ steps * travel \in Int
    BY TimesGrows
  <2> QED
    BY <2>1
<1>3. q \in Int /\ tq <= sx + h /\ sx + h < tq + travel
  <2> HIDE DEF sx
  <2> QED
    BY <1>2, NearestBounds
<1>4. tq \in Int
  BY <1>3
<1>5. /\ t \in Int /\ steps * t <= tq + k /\ tq + k < steps * t + steps
      /\ u \in Int /\ steps * u <= tq + travel + k /\ tq + travel + k < steps * u + steps
      /\ v \in Int /\ steps * v <= tq - travel + k /\ tq - travel + k < steps * v + steps
  <2> HIDE DEF tq
  <2>1. tq + travel \in Int /\ tq - travel \in Int
    BY <1>4
  <2> QED
    BY <1>4, <2>1, NearestBounds
<1>6. travel * (q + 1) = tq + travel /\ travel * (q - 1) = tq - travel
  BY <1>3
<1>7. q \in 0 .. steps
  <2>1. q >= 0
    <3>1. CASE q < 0
      <4>1. travel * q <= travel * (-1)
        BY <1>3, <3>1, TimesGrows
      <4> HIDE DEF sx, q, h
      <4> QED
        BY <1>1, <1>2, <1>3, <1>4, <4>1
    <3> QED
      BY <1>3, <3>1
  <2>2. q <= steps
    <3>1. CASE q > steps
      <4>1. travel * (steps + 1) <= travel * q
        BY <1>3, <3>1, TimesGrows
      <4>2. travel * (steps + 1) = steps * travel + travel
        OBVIOUS
      <4> HIDE DEF sx, q, h
      <4> QED
        BY <1>1, <1>2, <1>3, <1>4, <4>1, <4>2
    <3> QED
      BY <1>3, <3>1
  <2> QED
    BY <1>3, <2>1, <2>2
<1>8. start = 0 => q = 0
  <2> SUFFICES ASSUME start = 0 PROVE q = 0
    OBVIOUS
  <2>1. h < travel
    BY <1>1
  <2>2. q < 1
    <3>1. CASE q >= 1
      <4>1. travel * 1 <= travel * q
        BY <1>3, <3>1, TimesGrows
      <4> HIDE DEF sx, q, h
      <4> QED
        BY <1>1, <1>2, <1>3, <1>4, <2>1, <4>1
    <3> QED
      BY <1>3, <3>1
  <2> QED
    BY <1>7, <2>2
<1>9. start = travel => q = steps
  <2> SUFFICES ASSUME start = travel PROVE q = steps
    OBVIOUS
  <2>1. q > steps - 1
    <3>1. CASE q <= steps - 1
      <4>1. travel * q <= travel * (steps - 1)
        BY <1>3, <3>1, TimesGrows
      <4>2. travel * (steps - 1) = steps * travel - travel
        OBVIOUS
      <4> HIDE DEF sx, q, h
      <4> QED
        BY <1>1, <1>2, <1>3, <1>4, <4>1, <4>2
    <3> QED
      BY <1>3, <3>1
  <2> QED
    BY <1>7, <2>1
<1>10. /\ steps * t - sx <= steps * u - sx + steps
       /\ sx - steps * t <= steps * u - sx + steps
       /\ steps * t - sx <= sx - steps * v + steps
       /\ sx - steps * t <= sx - steps * v + steps
  <2> DEFINE a == steps * t
             b == steps * u
             c == steps * v
  <2>1. a \in Int /\ b \in Int /\ c \in Int
    BY <1>5
  <2> HIDE DEF a, b, c, sx, tq, h, k
  <2>2. /\ a - sx <= b - sx + steps /\ sx - a <= b - sx + steps
        /\ a - sx <= sx - c + steps /\ sx - a <= sx - c + steps
    BY <1>1, <1>2, <1>3, <1>4, <1>5, <2>1 DEF a, b, c
  <2> QED
    BY <2>2 DEF a, b, c
<1> HIDE DEF t, u, v, q, h, k
<1>11. /\ t - start <= u - start + 1 /\ start - t <= u - start + 1
       /\ t - start <= start - v + 1 /\ start - t <= start - v + 1
  <2>1. /\ steps * (t - u) <= steps
        /\ steps * (2 * start - t - u) <= steps
        /\ steps * (t + v - 2 * start) <= steps
        /\ steps * (v - t) <= steps
    BY <1>2, <1>5, <1>10
  <2>2. t - u <= 1 /\ 2 * start - t - u <= 1 /\ t + v - 2 * start <= 1 /\ v - t <= 1
    BY <1>5, <2>1, TimesAtMost
  <2> QED
    BY <1>5, <2>2
<1>12. /\ Nearest(travel * q, steps) = t
       /\ Nearest(travel * (q + 1), steps) = u
       /\ Nearest(travel * (q - 1), steps) = v
  BY <1>6 DEF t, u, v
<1>13. /\ t - start \in Int /\ u - start \in Int /\ v - start \in Int
       /\ t - start <= (u - start) + 1 /\ - (t - start) <= (u - start) + 1
       /\ t - start <= 1 - (v - start) /\ - (t - start) <= 1 - (v - start)
  BY <1>5, <1>11
<1> QED
  BY <1>7, <1>8, <1>9, <1>12, <1>13 DEF q

-----------------------------------------------------------------------------
(* Sizes and places are numbers.                                             *)

RangeNumbers(r) ==
    /\ DOMAIN r = {"min", "max", "page", "pos"}
    /\ r.min = 0 /\ {r.max, r.page, r.pos} \subseteq Int

ListNumbers(l) ==
    /\ ListShape(l) /\ {l.rows, l.columns} \subseteq Nat /\ {l.top, l.left} \subseteq Int
    /\ l.tall \in Nat \ {0} /\ {l.size.width, l.size.height} \subseteq Int

BarNumbers(bs) ==
    \A axis \in Axes : /\ {bs[axis].length, bs[axis].lead, bs[axis].grab} \subseteq Int
                       /\ bs[axis].paging \in {-1, 0, 1} /\ RangeNumbers(bs[axis].range)

LEMMA AtLeastZero ==
    ASSUME NEW n \in Int
    PROVE  /\ Max({n, 0}) = IF n <= 0 THEN 0 ELSE n
           /\ Max({0, n}) = IF n <= 0 THEN 0 ELSE n
<1>1. Max({n, 0}) = IF n <= 0 THEN 0 ELSE n
  BY MaxPair
<1>2. {0, n} = {n, 0}
  OBVIOUS
<1> QED
  BY <1>1, <1>2

LEMMA ClampIn ==
    ASSUME NEW n \in Int, NEW high \in Nat
    PROVE  /\ Clamp(n, 0, high) \in 0 .. high
           /\ n \in 0 .. high => Clamp(n, 0, high) = n
<1> DEFINE low == Min({n, high})
<1>1. low = IF n <= high THEN n ELSE high
  BY MinPair
<1> HIDE DEF low
<1>2. low \in Int
  BY <1>1
<1>3. Max({0, low}) = IF low <= 0 THEN 0 ELSE low
  BY <1>2, AtLeastZero
<1>4. Clamp(n, 0, high) = Max({0, low})
  BY DEF Clamp, low
<1> QED
  BY <1>1, <1>2, <1>3, <1>4

LEMMA PixelsNumber ==
    ASSUME NEW dip \in Nat
    PROVE  Pixels(dip) \in Int
<1>1. Max({Dpi, 96}) \in Int
  BY MaxPair, ScrollAssumption
<1> DEFINE most == Max({Dpi, 96})
<1>2. Pixels(dip) = (dip * most + 48) \div 96
  BY DEF Pixels
<1> HIDE DEF most
<1>3. dip * most + 48 \in Int
  BY <1>1 DEF most
<1> QED
  BY <1>2, <1>3, DivisionBounds

LEMMA FitsNumber ==
    ASSUME NEW l, ListNumbers(l), NEW height \in Int
    PROVE  RowsThatFit(l, height) \in Nat
<1> DEFINE n == (height - HeaderHeight) \div l.tall
<1>1. l.tall \in Nat \ {0} /\ height - HeaderHeight \in Int
  BY ScrollAssumption DEF ListNumbers
<1>2. n \in Int
  BY <1>1, DivisionBounds
<1>3. RowsThatFit(l, height) = Max({n, 0})
  BY DEF RowsThatFit
<1> HIDE DEF n
<1> QED
  BY <1>2, <1>3, AtLeastZero

LEMMA EdgeNumber ==
    ASSUME NEW proposed \in Int, NEW barred, NEW on
    PROVE  ClientEdge(proposed, barred, on) \in Nat
<1> DEFINE taken == IF ~ barred THEN 0 ELSE IF on THEN Pixels(StripDip) ELSE SystemBar
<1>1. taken \in Int
  BY PixelsNumber, ScrollAssumption
<1>2. ClientEdge(proposed, barred, on) = Max({0, proposed - taken})
  BY DEF ClientEdge
<1> HIDE DEF taken
<1> QED
  BY <1>1, <1>2, AtLeastZero

LEMMA FrameNumbers ==
    ASSUME NEW l, ListNumbers(l), NEW on
    PROVE  Frame(l, on).height \in Nat /\ Frame(l, on).width \in Nat
<1> DEFINE down == TooTall(l, on, TooWide(l, on, TooTall(l, on, FALSE)))
           across == TooWide(l, on, down)
<1>1. Frame(l, on) = FrameWith(l, on, down, across)
  BY DEF Frame, FrameDown
<1> HIDE DEF down, across
<1>2. /\ Frame(l, on).height = ClientEdge(l.size.height, across, on)
      /\ Frame(l, on).width = ClientEdge(l.size.width, down, on)
  BY <1>1 DEF FrameWith
<1>3. l.size.height \in Int /\ l.size.width \in Int
  BY DEF ListNumbers
<1> QED
  BY <1>2, <1>3, EdgeNumber

LEMMA SettledNumbers ==
    ASSUME NEW l, ListNumbers(l), NEW on
    PROVE  ListNumbers(Settled(l, Frame(l, on)))
<1> DEFINE frame == Frame(l, on)
           fits == RowsThatFit(l, frame.height)
           below == Max({l.rows - fits, 0})
           beside == Max({l.columns - frame.width, 0})
           top == Clamp(l.top, 0, below)
           left == Clamp(l.left, 0, beside)
           s == Settled(l, frame)
<1>1. /\ frame.height \in Nat /\ frame.width \in Nat
      /\ l.rows \in Nat /\ l.columns \in Nat /\ l.top \in Int /\ l.left \in Int
      /\ l.tall \in Nat \ {0} /\ {l.size.width, l.size.height} \subseteq Int
      /\ DOMAIN l = ListFields
  BY FrameNumbers DEF ListNumbers, ListShape
<1>2. s = [l EXCEPT !.top = top, !.left = left]
  BY DEF Settled
<1> HIDE DEF frame, s
<1>3. fits \in Nat
  BY <1>1, FitsNumber
<1> HIDE DEF fits
<1>4. below \in Nat /\ beside \in Nat
  <2>1. ASSUME NEW n \in Int
        PROVE  Max({n, 0}) \in Nat
    <3>1. Max({n, 0}) = IF n <= 0 THEN 0 ELSE n
      BY AtLeastZero
    <3> DEFINE m == IF n <= 0 THEN 0 ELSE n
    <3>2. m \in Nat
      OBVIOUS
    <3> QED
      BY <3>1, <3>2
  <2>2. l.rows - fits \in Int /\ l.columns - frame.width \in Int
    BY <1>1, <1>3
  <2> QED
    BY <2>1, <2>2
<1> HIDE DEF below, beside
<1>5. top \in Int /\ left \in Int
  <2>1. top \in 0 .. below /\ left \in 0 .. beside
    BY <1>1, <1>4, ClampIn
  <2> HIDE DEF top, left
  <2> QED
    BY <2>1
<1> HIDE DEF top, left
<1>6. /\ DOMAIN s = ListFields /\ s.rows = l.rows /\ s.columns = l.columns
      /\ s.tall = l.tall /\ s.size = l.size /\ s.top = top /\ s.left = left
  BY <1>1, <1>2 DEF ListFields
<1>7. ListNumbers(s)
  BY <1>1, <1>5, <1>6 DEF ListNumbers, ListShape
<1> QED
  BY <1>7 DEF s, frame

LEMMA RangeOfNumbers ==
    ASSUME NEW l, ListNumbers(l), NEW frame, frame.height \in Nat, frame.width \in Nat,
           NEW axis
    PROVE  RangeNumbers(RangeOf(l, frame, axis))
<1>1. RowsThatFit(l, frame.height) \in Int
  BY FitsNumber
<1>2. l.rows - 1 \in Int /\ l.columns - 1 \in Int /\ l.top \in Int /\ l.left \in Int
  BY DEF ListNumbers
<1> DEFINE fits == RowsThatFit(l, frame.height)
<1>3. \/ RangeOf(l, frame, axis) = [min |-> 0, max |-> l.rows - 1, page |-> fits, pos |-> l.top]
      \/ RangeOf(l, frame, axis) =
            [min |-> 0, max |-> l.columns - 1, page |-> frame.width, pos |-> l.left]
  BY DEF RangeOf
<1> HIDE DEF fits
<1>4. fits \in Int
  BY <1>1 DEF fits
<1> QED
  BY <1>2, <1>3, <1>4 DEF RangeNumbers

LEMMA SyncedNumbers ==
    ASSUME NEW l, ListNumbers(l), NEW on, NEW bs, BarShape(bs), BarNumbers(bs)
    PROVE  BarNumbers(Synced(bs, l, Frame(l, on), on))
<1> DEFINE frame == Frame(l, on)
           due == BarsDue(l, frame, on)
           new == Synced(bs, l, frame, on)
<1>1. new = [axis \in Axes |-> BarSynced(bs[axis], axis, l, frame, due)]
  BY DEF Synced, SyncedAs
<1>2. frame.height \in Nat /\ frame.width \in Nat
  BY FrameNumbers
<1> HIDE DEF frame, new, due
<1>3. ASSUME NEW axis \in Axes
      PROVE  /\ {new[axis].length, new[axis].lead, new[axis].grab} \subseteq Int
             /\ new[axis].paging \in {-1, 0, 1} /\ RangeNumbers(new[axis].range)
  <2> DEFINE strip == IF due["across"] THEN Pixels(StripDip) ELSE 0
             length == IF axis = "across" THEN frame.width ELSE frame.height + strip
             lead == IF axis = "down" THEN HeaderHeight ELSE 0
             range == IF due[axis] THEN RangeOf(l, frame, axis) ELSE NoRange
             bar == bs[axis]
  <2>1. new[axis] = [bar EXCEPT !.shown = due[axis], !.length = length, !.lead = lead,
                                !.range = range]
    BY <1>1 DEF BarSynced
  <2>2. /\ DOMAIN bar = BarFields /\ bar.grab \in Int /\ bar.paging \in {-1, 0, 1}
    BY DEF BarShape, BarNumbers
  <2>3. strip \in Int /\ lead \in Int
    BY PixelsNumber, ScrollAssumption
  <2>4. RangeNumbers(range)
    <3>1. RangeNumbers(NoRange)
      BY DEF RangeNumbers, NoRange
    <3>2. RangeNumbers(RangeOf(l, frame, axis))
      BY <1>2, RangeOfNumbers
    <3> QED
      BY <3>1, <3>2
  <2> HIDE DEF strip
  <2>5. length \in Int
    BY <1>2, <2>3
  <2> HIDE DEF length, lead, range, bar
  <2>6. /\ new[axis].length = length /\ new[axis].lead = lead /\ new[axis].range = range
        /\ new[axis].grab = bar.grab /\ new[axis].paging = bar.paging
    BY <2>1, <2>2 DEF BarFields
  <2> QED
    BY <2>2, <2>3, <2>4, <2>5, <2>6
<1>4. BarNumbers(new)
  BY <1>3 DEF BarNumbers
<1> QED
  BY <1>4 DEF new, frame

LEMMA ListStepNumbers ==
    ASSUME NEW l, ListNumbers(l), NEW bs, BarShape(bs), BarNumbers(bs), NEW on, NEW message,
           ListBecomes(message, l, bs, on)
    PROVE  ListNumbers(listView') /\ BarNumbers(bars')
<1> DEFINE frame == Frame(l, on)
           s == Settled(l, frame)
<1>1. /\ listView' = s
      /\ bars' = (IF IsSyncMessage(message) THEN Synced(bs, s, frame, on) ELSE bs)
  BY DEF ListBecomes, ListFramed, ListSettles
<1>2. ListNumbers(s)
  BY SettledNumbers
<1>3. Frame(s, on) = frame
  BY FrameOfSettled DEF ListNumbers
<1> HIDE DEF s, frame
<1>4. BarNumbers(Synced(bs, s, frame, on))
  BY <1>2, <1>3, SyncedNumbers
<1> QED
  BY <1>1, <1>2, <1>4

LEMMA PlacedNumbers ==
    ASSUME NEW l, ListNumbers(l), NEW axis, NEW pos \in Int
    PROVE  ListNumbers(PlacedAt(l, axis, pos))
<1> DEFINE s == PlacedAt(l, axis, pos)
<1>1. /\ l.top \in Int /\ l.left \in Int /\ l.tall \in Nat \ {0} /\ DOMAIN l = ListFields
      /\ {l.rows, l.columns} \subseteq Nat /\ {l.size.width, l.size.height} \subseteq Int
  BY DEF ListNumbers, ListShape
<1>2. s = [l EXCEPT !.top = pos] \/ s = [l EXCEPT !.left = pos]
  BY DEF PlacedAt
<1> HIDE DEF s
<1>3. /\ DOMAIN s = ListFields /\ s.rows = l.rows /\ s.columns = l.columns
      /\ s.tall = l.tall /\ s.size = l.size
      /\ s.top \in {pos, l.top} /\ s.left \in {pos, l.left}
  BY <1>1, <1>2 DEF ListFields
<1>4. ListNumbers(s)
  BY <1>1, <1>3 DEF ListNumbers, ListShape
<1> QED
  BY <1>4 DEF s

LEMMA CutNumber ==
    ASSUME NEW n \in Int
    PROVE  CutPixels(n) \in Int
<1> DEFINE low == - MaxPixels - 1
           least == Min({n, MaxPixels})
<1>1. MaxPixels \in Int /\ low \in Int
  BY ScrollAssumption
<1>2. least \in Int
  BY <1>1, MinPair
<1> HIDE DEF low, least
<1>3. Max({low, least}) \in Int
  BY <1>1, <1>2, MaxPair
<1> QED
  BY <1>3 DEF CutPixels, Clamp, low, least

\* Whatever the pixels are cut to, the list is at a row and a pixel; uncut they lead to
\* the place that was asked for.
LEMMA ScrolledNumbers ==
    ASSUME NEW l, ListNumbers(l), NEW axis, NEW pos \in Int
    PROVE  /\ ListNumbers(ScrolledTo(l, axis, pos))
           /\ CutPixels(Away(l, axis, pos)) = Away(l, axis, pos) =>
                 ScrolledTo(l, axis, pos) = PlacedAt(l, axis, pos)
<1> DEFINE n == pos - l.top
           away == Away(l, axis, pos)
           place(d) == IF axis = "down" THEN l.top + Nearest(d, l.tall) ELSE l.left + d
<1>1. l.top \in Int /\ l.left \in Int /\ l.tall \in Nat \ {0} /\ n \in Int
  BY DEF ListNumbers
<1>2. ScrolledTo(l, axis, pos) = PlacedAt(l, axis, place(CutPixels(away)))
  BY DEF ScrolledTo, ScrolledBy, Nearest
<1>3. axis = "down" => away = n * l.tall
  BY DEF Away
<1>4. axis # "down" => away = pos - l.left
  BY DEF Away
<1> HIDE DEF n, away
<1>5. n * l.tall \in Int
  BY <1>1
<1>6. away \in Int
  BY <1>1, <1>3, <1>4, <1>5
<1>7. ASSUME NEW d \in Int
      PROVE  place(d) \in Int
  <2>1. Nearest(d, l.tall) \in Int
    BY <1>1, NearestBounds
  <2> QED
    BY <1>1, <2>1
<1>8. ListNumbers(ScrolledTo(l, axis, pos))
  <2> HIDE DEF place
  <2>1. place(CutPixels(away)) \in Int
    BY <1>6, <1>7, CutNumber
  <2> QED
    BY <1>2, <2>1, PlacedNumbers
<1>9. place(away) = pos
  <2>1. CASE axis = "down"
    <3> DEFINE h == l.tall \div 2
    <3>1. h \in Nat /\ 2 * h <= l.tall /\ l.tall <= 2 * h + 1 /\ h < l.tall
      BY <1>1, Halves
    <3> HIDE DEF h
    <3>2. /\ n * l.tall + h \in Int /\ l.tall * n <= n * l.tall + h
          /\ n * l.tall + h < l.tall * n + l.tall
      BY <1>1, <1>5, <3>1
    <3>3. (n * l.tall + h) \div l.tall = n
      BY <1>1, <3>2, DivisionIs
    <3>4. Nearest(away, l.tall) = n
      BY <1>3, <2>1, <3>3 DEF Nearest, h
    <3>5. l.top + n = pos
      BY <1>1 DEF n
    <3> QED
      BY <2>1, <3>4, <3>5
  <2>2. CASE axis # "down"
    BY <1>1, <1>4, <2>2
  <2> QED
    BY <2>1, <2>2
<1> HIDE DEF place
<1> QED
  BY <1>2, <1>8, <1>9 DEF away

-----------------------------------------------------------------------------
(* The thumb.                                                                *)

\* A range that scrolls: so many steps from the first page to the last.
LEMMA StepsOf ==
    ASSUME NEW r, RangeNumbers(r)
    PROVE  /\ SpanOf(r) \in Nat /\ LastPos(r) \in Nat
           /\ Scrolls(r) => /\ SpanOf(r) \in Nat \ {0} /\ LastPos(r) \in Nat \ {0}
                            /\ LastPos(r) = r.max - r.page + 1
<1>1. r.min = 0 /\ r.max \in Int /\ r.page \in Int
  BY DEF RangeNumbers
<1>2. SpanOf(r) = IF r.max + 1 <= 0 THEN 0 ELSE r.max + 1
  <2>1. Max({r.max + 1, 0}) = IF r.max + 1 <= 0 THEN 0 ELSE r.max + 1
    BY <1>1, AtLeastZero
  <2>2. r.max - r.min + 1 = r.max + 1
    BY <1>1
  <2> QED
    BY <2>1, <2>2 DEF SpanOf
<1>3. LastPos(r) = IF r.max - r.page + 1 <= 0 THEN 0 ELSE r.max - r.page + 1
  <2>1. Max({r.max - r.page + 1, 0}) =
           IF r.max - r.page + 1 <= 0 THEN 0 ELSE r.max - r.page + 1
    BY <1>1, AtLeastZero
  <2> QED
    BY <1>1, <2>1 DEF LastPos
<1>4. Scrolls(r) => r.page > 0 /\ SpanOf(r) > r.page
  BY DEF Scrolls
<1> QED
  BY <1>1, <1>2, <1>3, <1>4

LEMMA LengthNumber ==
    ASSUME NEW r, RangeNumbers(r), NEW track \in Nat, HasThumb(r, track)
    PROVE  ThumbLength(r, track) \in Int
<1> DEFINE share == (track * r.page) \div SpanOf(r)
           least == Min({Pixels(MinThumbDip), track})
           wanted == Max({share, least})
<1>1. SpanOf(r) \in Nat \ {0} /\ r.page \in Int
  BY StepsOf DEF HasThumb, RangeNumbers
<1>2. share \in Int
  <2>1. track * r.page \in Int
    BY <1>1
  <2> QED
    BY <1>1, <2>1, DivisionBounds
<1>3. least \in Int
  BY PixelsNumber, MinPair, ScrollAssumption
<1> HIDE DEF share, least
<1>4. wanted \in Int
  BY <1>2, <1>3, MaxPair
<1>5. ThumbLength(r, track) = Min({track, wanted})
  BY DEF ThumbLength, share, least
<1> HIDE DEF wanted
<1> QED
  BY <1>4, <1>5, MinPair

\* Where the thumb lies for a position within the range.
LEMMA ThumbPlace ==
    ASSUME NEW r, RangeNumbers(r), NEW track \in Nat, HasThumb(r, track)
    PROVE  /\ Thumb(r, track).length = ThumbLength(r, track)
           /\ Thumb(r, track).start \in Int
           /\ r.pos \in 0 .. LastPos(r) =>
                 Thumb(r, track).start =
                    Nearest((track - ThumbLength(r, track)) * r.pos, LastPos(r))
<1> DEFINE length == ThumbLength(r, track)
           steps == LastPos(r)
           pos == Clamp(r.pos - r.min, 0, steps)
           place == Nearest((track - length) * pos, steps)
<1>1. r.min = 0 /\ r.pos \in Int /\ r.pos - r.min = r.pos /\ steps - r.min = steps
      /\ steps \in Nat \ {0}
  BY StepsOf DEF RangeNumbers, HasThumb
<1>2. length \in Int
  BY LengthNumber
<1>3. Thumb(r, track) = ThumbAt(r, track - length, length, steps)
  BY <1>1 DEF Thumb, ThumbAs
<1>4. Thumb(r, track).length = length
  BY <1>3 DEF ThumbAt
<1>5. Thumb(r, track).start = place
  <2>1. steps # 0
    BY <1>1
  <2> QED
    BY <1>3, <2>1 DEF ThumbAt, Nearest
<1> HIDE DEF length, steps
<1>6. pos \in Int /\ (r.pos \in 0 .. steps => pos = r.pos)
  <2>1. pos \in 0 .. steps /\ (r.pos \in 0 .. steps => pos = r.pos)
    BY <1>1, ClampIn
  <2> HIDE DEF pos
  <2> QED
    BY <2>1
<1> HIDE DEF pos
<1>7. place \in Int
  <2>1. (track - length) * pos \in Int
    BY <1>2, <1>6
  <2> QED
    BY <1>1, <2>1, NearestBounds
<1> HIDE DEF place
<1>8. r.pos \in 0 .. steps => place = Nearest((track - length) * r.pos, steps)
  BY <1>6 DEF place
<1> QED
  BY <1>4, <1>5, <1>7, <1>8 DEF length, steps

LEMMA PositionNumber ==
    ASSUME NEW r, RangeNumbers(r), NEW track \in Int, NEW length \in Int, NEW start \in Int
    PROVE  PositionAt(r, track, length, start) \in Int
<1> DEFINE travel == track - length
           steps == LastPos(r)
           clamped == Clamp(start, 0, travel)
<1>1. r.min = 0 /\ steps \in Nat /\ steps - r.min = steps
  BY StepsOf DEF RangeNumbers
<1>2. PositionAt(r, track, length, start) = PositionAlong(r, travel, start, steps)
  BY <1>1 DEF PositionAt
<1>3. travel \in Int
  OBVIOUS
<1> HIDE DEF travel, steps
<1>4. CASE travel <= 0 \/ steps <= 0
  BY <1>1, <1>2, <1>4 DEF PositionAlong
<1>5. CASE ~ (travel <= 0 \/ steps <= 0)
  <2>1. travel \in Nat \ {0}
    BY <1>3, <1>5
  <2>2. clamped \in 0 .. travel
    BY <2>1, ClampIn
  <2> HIDE DEF clamped
  <2>3. steps * clamped \in Int
    BY <1>1, <2>1, <2>2
  <2>4. Nearest(steps * clamped, travel) \in Int
    BY <2>1, <2>3, NearestBounds
  <2>5. PositionAlong(r, travel, start, steps) = 0 + Nearest(steps * clamped, travel)
    BY <1>1, <1>5 DEF PositionAlong, Nearest, clamped
  <2> QED
    BY <1>2, <2>4, <2>5
<1> QED
  BY <1>4, <1>5

\* The position that a place of the thumb stands for.
LEMMA PositionThere ==
    ASSUME NEW r, RangeNumbers(r), NEW track \in Int, NEW length \in Int,
           Scrolls(r), track - length > 0, NEW start \in 0 .. track - length
    PROVE  PositionAt(r, track, length, start) = Nearest(LastPos(r) * start, track - length)
<1> DEFINE travel == track - length
           steps == LastPos(r)
           clamped == Clamp(start, 0, travel)
<1>1. r.min = 0 /\ steps \in Nat \ {0} /\ steps - r.min = steps
  BY StepsOf DEF RangeNumbers
<1>2. PositionAt(r, track, length, start) = PositionAlong(r, travel, start, steps)
  BY <1>1 DEF PositionAt
<1>3. travel \in Nat \ {0} /\ start \in 0 .. travel
  OBVIOUS
<1> HIDE DEF travel, steps
<1>4. start \in Int
  BY <1>3
<1>5. clamped = start
  BY <1>3, <1>4, ClampIn
<1> HIDE DEF clamped
<1>6. PositionAlong(r, travel, start, steps) = 0 + Nearest(steps * start, travel)
  BY <1>1, <1>3, <1>5 DEF PositionAlong, Nearest, clamped
<1>7. Nearest(steps * start, travel) \in Int
  <2>1. steps * start \in Int
    BY <1>1, <1>4
  <2> QED
    BY <1>3, <2>1, NearestBounds
<1> QED
  BY <1>2, <1>6, <1>7 DEF travel, steps

LEMMA TrackNumbers ==
    ASSUME BarNumbers(bars), NEW axis \in Axes
    PROVE  TrackStart(bars[axis]) \in Int /\ TrackLength(bars[axis]) \in Nat
<1> DEFINE inset == Pixels(InsetDip)
           n == bars[axis].length - bars[axis].lead - 2 * inset
<1>1. inset \in Int /\ bars[axis].length \in Int /\ bars[axis].lead \in Int
  BY PixelsNumber, ScrollAssumption DEF BarNumbers
<1>2. TrackStart(bars[axis]) = bars[axis].lead + inset /\ TrackLength(bars[axis]) = Max({n, 0})
  BY DEF TrackStart, TrackLength
<1> HIDE DEF inset
<1>3. n \in Int
  BY <1>1
<1> HIDE DEF n
<1>4. Max({n, 0}) \in Nat
  BY <1>3, AtLeastZero
<1> QED
  BY <1>1, <1>2, <1>4

\* Rust's abs of a distance.
LEMMA OffIs ==
    ASSUME NEW r, RangeNumbers(r), NEW track \in Nat, HasThumb(r, track),
           NEW start \in Int, r.pos \in 0 .. LastPos(r)
    PROVE  LET n == Nearest((track - ThumbLength(r, track)) * r.pos, LastPos(r)) - start
           IN  n \in Int /\ ThumbOff(r, track, start) = IF n <= 0 THEN - n ELSE n
<1> DEFINE place == Thumb(r, track).start
           n == place - start
<1>1. place \in Int
  BY ThumbPlace
<1>2. place = Nearest((track - ThumbLength(r, track)) * r.pos, LastPos(r))
  BY ThumbPlace
<1>3. ThumbOff(r, track, start) = Max({place - start, start - place})
  BY DEF ThumbOff
<1> HIDE DEF place
<1>4. n \in Int /\ start - place = - n
  BY <1>1
<1>5. place - start = n
  OBVIOUS
<1> HIDE DEF n
<1>6. Max({n, - n}) = IF n <= - n THEN - n ELSE n
  <2>1. - n \in Int
    BY <1>4
  <2> DEFINE m == - n
  <2>2. m \in Int
    BY <2>1
  <2> HIDE DEF m
  <2>3. Max({n, m}) = IF n <= m THEN m ELSE n
    BY <1>4, <2>2, MaxPair
  <2> QED
    BY <2>3 DEF m
<1>7. ThumbOff(r, track, start) = IF n <= 0 THEN - n ELSE n
  BY <1>3, <1>4, <1>5, <1>6
<1> QED
  BY <1>2, <1>4, <1>5, <1>7

\* The list follows a thumb to the position that the bar computes.
LEMMA LedThere ==
    ASSUME NEW l, ListNumbers(l), NEW on, NEW axis \in Axes, NEW r,
           r = RangeOf(l, Frame(l, on), axis), Scrolls(r), NEW q \in 0 .. LastPos(r),
           CutPixels(Away(l, axis, q)) = Away(l, axis, q)
    PROVE  LET there == RangeOf(Settled(ScrolledTo(l, axis, q), Frame(l, on)),
                                Frame(l, on), axis)
           IN  /\ RangeNumbers(there) /\ there.pos = q
               /\ there.max = r.max /\ there.page = r.page
<1> DEFINE frame == Frame(l, on)
           s == ScrolledTo(l, axis, q)
           t == Settled(s, frame)
           there == RangeOf(t, frame, axis)
           fits(m) == RowsThatFit(m, frame.height)
           below == Max({s.rows - fits(s), 0})
           beside == Max({s.columns - frame.width, 0})
           top == Clamp(s.top, 0, below)
           left == Clamp(s.left, 0, beside)
<1>1. frame.height \in Nat /\ frame.width \in Nat
  BY FrameNumbers
<1>2. RangeNumbers(r) /\ LastPos(r) \in Nat \ {0} /\ LastPos(r) = r.max - r.page + 1
  <2>1. RangeNumbers(r)
    BY <1>1, RangeOfNumbers
  <2> QED
    BY <2>1, StepsOf
<1> HIDE DEF frame
<1>3. r = RangeOf(l, frame, axis)
  BY DEF frame
<1>4. q \in Int /\ q \in Nat
  BY <1>2
<1>5. /\ l.rows \in Nat /\ l.columns \in Nat /\ DOMAIN l = ListFields
      /\ l.top \in Int /\ l.left \in Int
  BY DEF ListNumbers, ListShape
<1>6. t = [s EXCEPT !.top = top, !.left = left]
  BY DEF Settled
<1>7. ListNumbers(s) /\ (axis = "down" => s = [l EXCEPT !.top = q])
      /\ (axis # "down" => s = [l EXCEPT !.left = q])
  BY <1>4, ScrolledNumbers DEF PlacedAt
<1> HIDE DEF s, t, top, left
<1>8. /\ DOMAIN s = ListFields /\ s.rows = l.rows /\ s.columns = l.columns
      /\ s.tall = l.tall /\ (axis = "down" => s.top = q) /\ (axis # "down" => s.left = q)
  BY <1>5, <1>7 DEF ListFields
<1>9. /\ t.rows = s.rows /\ t.columns = s.columns /\ t.tall = s.tall
      /\ t.top = top /\ t.left = left
  BY <1>6, <1>8 DEF ListFields
<1>10. fits(s) = fits(l) /\ fits(t) = fits(l) /\ fits(l) \in Nat
  <2>1. fits(l) \in Nat
    BY <1>1, FitsNumber
  <2> QED
    BY <1>8, <1>9, <2>1 DEF RowsThatFit
<1>11. CASE axis = "down"
  <2>1. r.max = l.rows - 1 /\ r.page = fits(l)
    BY <1>3, <1>11 DEF RangeOf
  <2>2. below = LastPos(r)
    <3> DEFINE n == s.rows - fits(s)
    <3>1. n = LastPos(r)
      <4> HIDE DEF fits
      <4> QED
        BY <1>2, <1>5, <1>8, <1>10, <2>1
    <3> HIDE DEF n
    <3>2. Max({n, 0}) = n
      BY <1>2, <3>1, AtLeastZero
    <3> QED
      BY <3>1, <3>2 DEF n
  <2> HIDE DEF below, fits
  <2>3. top = q
    BY <1>2, <1>4, <1>8, <1>11, <2>2, ClampIn DEF top
  <2>4. there = [min |-> 0, max |-> l.rows - 1, page |-> fits(l), pos |-> q]
    BY <1>8, <1>9, <1>10, <1>11, <2>3 DEF RangeOf, fits
  <2> HIDE DEF there
  <2>5. /\ DOMAIN there = {"min", "max", "page", "pos"} /\ there.min = 0
        /\ there.max = l.rows - 1 /\ there.page = fits(l) /\ there.pos = q
    BY <2>4
  <2>6. RangeNumbers(there) /\ there.pos = q /\ there.max = r.max /\ there.page = r.page
    BY <1>4, <1>5, <1>10, <2>1, <2>5 DEF RangeNumbers
  <2> QED
    BY <2>6 DEF there, t, s, frame
<1>12. CASE axis # "down"
  <2>1. r.max = l.columns - 1 /\ r.page = frame.width
    BY <1>3, <1>12 DEF RangeOf
  <2>2. beside = LastPos(r)
    <3> DEFINE n == s.columns - frame.width
    <3>1. n = LastPos(r)
      BY <1>1, <1>2, <1>5, <1>8, <2>1
    <3> HIDE DEF n
    <3>2. Max({n, 0}) = n
      BY <1>2, <3>1, AtLeastZero
    <3> QED
      BY <3>1, <3>2 DEF n
  <2> HIDE DEF beside
  <2>3. left = q
    BY <1>2, <1>4, <1>8, <1>12, <2>2, ClampIn DEF left
  <2>4. there = [min |-> 0, max |-> l.columns - 1, page |-> frame.width, pos |-> q]
    BY <1>8, <1>9, <1>12, <2>3 DEF RangeOf
  <2> HIDE DEF there
  <2>5. /\ DOMAIN there = {"min", "max", "page", "pos"} /\ there.min = 0
        /\ there.max = l.columns - 1 /\ there.page = frame.width /\ there.pos = q
    BY <2>4
  <2>6. RangeNumbers(there) /\ there.pos = q /\ there.max = r.max /\ there.page = r.page
    BY <1>1, <1>4, <1>5, <2>1, <2>5 DEF RangeNumbers
  <2> QED
    BY <2>6 DEF there, t, s, frame
<1> QED
  BY <1>11, <1>12

\* Ranges of the same rows have a thumb of the same length.
LEMMA SameThumb ==
    ASSUME NEW r, RangeNumbers(r), NEW there, RangeNumbers(there),
           there.max = r.max, there.page = r.page, NEW track
    PROVE  /\ LastPos(there) = LastPos(r)
           /\ HasThumb(there, track) = HasThumb(r, track)
           /\ ThumbLength(there, track) = ThumbLength(r, track)
<1>1. there.min = r.min
  BY DEF RangeNumbers
<1>2. SpanOf(there) = SpanOf(r)
  BY <1>1 DEF SpanOf
<1> QED
  BY <1>1, <1>2 DEF LastPos, HasThumb, Scrolls, ThumbLength

LEMMA NearestThere ==
    ASSUME NEW there, RangeNumbers(there), NEW track \in Nat, HasThumb(there, track),
           track - ThumbLength(there, track) > 0,
           NEW start \in 0 .. track - ThumbLength(there, track),
           there.pos = Nearest(LastPos(there) * start, track - ThumbLength(there, track))
    PROVE  LeadsAt(start, track - ThumbLength(there, track), there, track)
<1> DEFINE steps == LastPos(there)
           length == ThumbLength(there, track)
           travel == track - length
           q == Nearest(steps * start, travel)
           off(p) == Nearest(travel * p, steps) - start
<1>1. steps \in Nat \ {0} /\ steps = there.max - there.page + 1 /\ length \in Int
      /\ there.max \in Int /\ there.page \in Int
  BY StepsOf, LengthNumber DEF HasThumb, RangeNumbers
<1>2. travel \in Nat \ {0} /\ start \in 0 .. travel /\ start \in Int
  <2>1. travel > 0 /\ start \in 0 .. travel
    OBVIOUS
  <2>2. travel \in Int
    <3> HIDE DEF length
    <3> QED
      BY <1>1
  <2> HIDE DEF travel
  <2> QED
    BY <2>1, <2>2
<1>3. there.pos = q
  OBVIOUS
<1>4. q \in 0 .. steps /\ (start = 0 => q = 0) /\ (start = travel => q = steps)
      /\ off(q) <= off(q + 1) + 1 /\ - off(q) <= off(q + 1) + 1
      /\ off(q) <= 1 - off(q - 1) /\ - off(q) <= 1 - off(q - 1)
  <2>1. steps \in Nat \ {0}
    BY <1>1
  <2> HIDE DEF steps, travel
  <2>2. travel \in Nat \ {0} /\ start \in 0 .. travel
    BY <1>2
  <2>3. LET z == Nearest(steps * start, travel)
            of(p) == Nearest(travel * p, steps) - start
        IN  /\ z \in 0 .. steps
            /\ start = 0 => z = 0
            /\ start = travel => z = steps
            /\ of(z) <= of(z + 1) + 1 /\ - of(z) <= of(z + 1) + 1
            /\ of(z) <= 1 - of(z - 1) /\ - of(z) <= 1 - of(z - 1)
    BY <2>1, <2>2, ThereAndBack
  <2> QED
    BY <2>3
<1>5. \A p \in Int : p \in 0 .. steps => off(p) \in Int
  <2> HIDE DEF steps, travel
  <2> SUFFICES ASSUME NEW p \in Int PROVE off(p) \in Int
    OBVIOUS
  <2>1. travel * p \in Int
    BY <1>2
  <2>2. Nearest(travel * p, steps) \in Int
    BY <1>1, <2>1, NearestBounds
  <2> QED
    BY <1>2, <2>2
<1>6. ThumbOff(there, track, start) = IF off(q) <= 0 THEN - off(q) ELSE off(q)
  BY <1>2, <1>3, <1>4, OffIs
<1>7. ASSUME NEW p \in {q - 1, q + 1} \cap (0 .. steps)
      PROVE  ThumbOff([there EXCEPT !.pos = p], track, start)
                = IF off(p) <= 0 THEN - off(p) ELSE off(p)
  <2> DEFINE beside == [there EXCEPT !.pos = p]
  <2>1. /\ DOMAIN beside = {"min", "max", "page", "pos"} /\ beside.min = there.min
        /\ beside.max = there.max /\ beside.page = there.page /\ beside.pos = p
    BY DEF RangeNumbers
  <2>2. p \in Int /\ p \in 0 .. steps
    <3> HIDE DEF steps, q
    <3> QED
      BY <1>1, <1>7
  <2> HIDE DEF beside
  <2>3. RangeNumbers(beside)
    BY <2>1, <2>2 DEF RangeNumbers
  <2>4. LastPos(beside) = steps /\ HasThumb(beside, track)
        /\ ThumbLength(beside, track) = length
    BY <2>1, <2>3, SameThumb
  <2>5. beside.pos \in 0 .. LastPos(beside)
    BY <2>1, <2>2, <2>4
  <2> HIDE DEF steps, length
  <2>6. ThumbOff(beside, track, start) =
           LET n == Nearest((track - ThumbLength(beside, track)) * beside.pos,
                            LastPos(beside)) - start
           IN  IF n <= 0 THEN - n ELSE n
    BY <1>2, <2>3, <2>4, <2>5, OffIs
  <2>7. ThumbOff(beside, track, start) = IF off(p) <= 0 THEN - off(p) ELSE off(p)
    BY <2>1, <2>4, <2>6
  <2> QED
    BY <2>7 DEF beside
<1>8. NearestTo(start, there, track)
  <2> SUFFICES ASSUME NEW p \in {q - 1, q + 1} \cap (0 .. steps)
               PROVE  ThumbOff(there, track, start)
                         <= ThumbOff([there EXCEPT !.pos = p], track, start) + 1
    BY <1>3 DEF NearestTo
  <2> DEFINE a == off(q)
             b == off(p)
  <2>1. p \in Int /\ p \in 0 .. steps /\ q \in Int /\ q \in 0 .. steps
    <3> HIDE DEF steps, q
    <3> QED
      BY <1>1, <1>4
  <2>2. a \in Int /\ b \in Int
    BY <1>5, <2>1
  <2>3. \/ p = q + 1 /\ a <= b + 1 /\ - a <= b + 1
        \/ p = q - 1 /\ a <= 1 - b /\ - a <= 1 - b
    BY <1>4
  <2>4. ThumbOff(there, track, start) = IF a <= 0 THEN - a ELSE a
    BY <1>6
  <2>5. ThumbOff([there EXCEPT !.pos = p], track, start) = IF b <= 0 THEN - b ELSE b
    BY <1>7
  <2> HIDE DEF a, b
  <2> QED
    BY <2>2, <2>3, <2>4, <2>5
<1>9. start = 0 => there.pos = 0
  BY <1>3, <1>4
<1>10. start = travel => there.pos + there.page > there.max
  <2> SUFFICES ASSUME start = travel
               PROVE  there.pos + there.page > there.max
    OBVIOUS
  <2>1. there.pos = steps
    BY <1>3, <1>4
  <2> HIDE DEF steps, q
  <2> QED
    BY <1>1, <2>1
<1>11. LeadsAt(start, travel, there, track)
  <2> HIDE DEF travel
  <2> QED
    BY <1>8, <1>9, <1>10 DEF LeadsAt
<1> QED
  BY <1>11

LEMMA BarLeads ==
    ASSUME Following(listView, overlaid, bars), ListNumbers(listView), BarNumbers(bars),
           NEW axis \in Axes, ThumbShown(bars[axis])
    PROVE  LeadsFrom(axis, bars[axis], ThumbOf(bars[axis]).length, Frame(listView, overlaid))
<1> DEFINE frame == Frame(listView, overlaid)
           bar == bars[axis]
           r == bar.range
           track == TrackLength(bar)
           length == ThumbLength(r, track)
           travel == track - length
<1>1. HasThumb(r, track) /\ Scrolls(r)
  BY DEF ThumbShown, HasThumb
<1>2. r = RangeOf(listView, frame, axis)
  <2>1. ~ Scrolls(NoRange)
    BY DEF Scrolls, NoRange
  <2> QED
    BY <1>1, <2>1 DEF Following
<1>3. RangeNumbers(r) /\ track \in Nat
  BY TrackNumbers DEF BarNumbers
<1>4. ThumbOf(bar).length = length /\ length \in Int
  BY <1>1, <1>3, ThumbPlace, LengthNumber DEF ThumbOf
<1> HIDE DEF bar, r, track, length
<1>5. ASSUME travel > 0, NEW start \in 0 .. travel, InReach(axis, Sought(bar, start, length))
      PROVE  LeadsAt(start, travel, Led(axis, bar, start, length, frame), track)
  <2> DEFINE q == PositionAt(r, track, length, start)
             there == Led(axis, bar, start, length, frame)
             steps == LastPos(r)
  <2>1. q = Nearest(steps * start, travel)
    BY <1>1, <1>3, <1>4, <1>5, PositionThere
  <2>2. travel \in Nat \ {0} /\ steps \in Nat \ {0}
    BY <1>1, <1>3, <1>4, <1>5, StepsOf
  <2>3. q \in 0 .. steps
    <3> HIDE DEF travel, steps, q
    <3> QED
      BY <1>5, <2>1, <2>2, ThereAndBack
  <2>4. /\ there = RangeOf(Settled(ScrolledTo(listView, axis, q), frame), frame, axis)
        /\ CutPixels(Away(listView, axis, q)) = Away(listView, axis, q)
    BY <1>5 DEF Led, Sought, InReach, r, track
  <2> HIDE DEF q, there, steps
  <2>5. RangeNumbers(there) /\ there.pos = q /\ there.max = r.max /\ there.page = r.page
    BY <1>1, <1>2, <2>3, <2>4, LedThere DEF steps
  <2>6. /\ LastPos(there) = steps /\ HasThumb(there, track)
        /\ ThumbLength(there, track) = length
    <3>1. ThumbLength(r, track) = length
      BY DEF length
    <3>2. LastPos(r) = steps
      BY DEF steps
    <3> QED
      BY <1>1, <1>3, <2>5, <3>1, <3>2, SameThumb
  <2>7. there.pos = Nearest(LastPos(there) * start, track - ThumbLength(there, track))
    BY <2>1, <2>5, <2>6
  <2>8. LeadsAt(start, track - ThumbLength(there, track), there, track)
    BY <1>3, <1>5, <2>5, <2>6, <2>7, NearestThere
  <2> QED
    BY <2>6, <2>8 DEF there
<1>6. LeadsFrom(axis, bar, length, frame)
  BY <1>5 DEF LeadsFrom, Leads, track
<1> QED
  BY <1>4, <1>6 DEF bar

-----------------------------------------------------------------------------
(* Numbers stay numbers.                                                     *)

BarsNumbers == ListNumbers(listView) /\ BarNumbers(bars)

LEMMA NumbersStart == ScrollInit => BarsNumbers
<1> SUFFICES ASSUME ScrollInit
             PROVE  BarsNumbers
  OBVIOUS
<1> DEFINE none == [axis \in Axes |-> Bar]
           least == Min(RowHeights)
<1>1. least \in Nat \ {0}
  BY ScrollAssumption, MinOfNats
<1>2. bars = Synced(none, listView, Frame(listView, TRUE), TRUE)
  BY DEF ScrollInit
<1>3. /\ ListShape(listView) /\ listView.size \in WindowSizes
      /\ listView.rows = 0 /\ listView.columns = 0 /\ listView.tall = least
      /\ listView.top = 0 /\ listView.left = 0
  BY DEF ScrollInit, ListShape, ListFields
<1> HIDE DEF least
<1>4. ListNumbers(listView)
  <2>1. listView.size.width \in Nat /\ listView.size.height \in Nat
    BY <1>3, ScrollAssumption
  <2> QED
    BY <1>1, <1>3, <2>1 DEF ListNumbers
<1>5. BarShape(none) /\ BarNumbers(none)
  <2>1. RangeNumbers(NoRange)
    BY DEF RangeNumbers, NoRange
  <2>2. \A axis \in Axes : none[axis] = Bar
    OBVIOUS
  <2>3. /\ DOMAIN Bar = BarFields /\ Bar.length = 0 /\ Bar.lead = 0 /\ Bar.grab = 0
        /\ Bar.paging = 0 /\ Bar.range = NoRange
    BY DEF Bar, BarFields
  <2> QED
    BY <2>1, <2>2, <2>3 DEF BarShape, BarNumbers
<1> HIDE DEF none
<1> QED
  BY <1>2, <1>4, <1>5, SyncedNumbers DEF BarsNumbers

LEMMA PagedNumbers ==
    ASSUME NEW l, ListNumbers(l), NEW axis, NEW direction \in {-1, 0, 1}
    PROVE  ListNumbers(Paged(l, axis, direction))
<1> DEFINE r == RangeOf(l, Frame(l, overlaid), axis)
<1>1. RangeNumbers(r)
  BY FrameNumbers, RangeOfNumbers
<1> HIDE DEF r
<1>2. r.pos \in Int /\ r.page \in Int
  BY <1>1 DEF RangeNumbers
<1>3. r.pos + direction * r.page \in Int
  BY <1>2
<1>4. ListNumbers(PlacedAt(l, axis, r.pos + direction * r.page))
  BY <1>3, PlacedNumbers
<1> QED
  BY <1>4 DEF Paged, PagedIn, r

LEMMA ListActionNumbers ==
    ASSUME BarsIInv, BarsNumbers,
           \/ SetItemCount \/ ScrollByKey \/ TurnWheel \/ DragDivider \/ PaintList
           \/ SetColumnWidth \/ SetRowHeight \/ ResizeList \/ ShowList \/ SetEnabled
    PROVE  BarsNumbers'
<1>1. /\ BarShape(bars) /\ BarNumbers(bars) /\ ListNumbers(listView)
      /\ DOMAIN listView = ListFields
  BY DEF BarsIInv, BarsNumbers, ListShape
<1>2. \A l, message, on : (ListNumbers(l) /\ ListBecomes(message, l, bars, on)) => BarsNumbers'
  BY <1>1, ListStepNumbers DEF BarsNumbers
<1>3. CASE SetItemCount
  <2>1. PICK count \in RowCounts :
           ListBecomes("item_count", [listView EXCEPT !.rows = count], bars, overlaid)
    BY <1>3 DEF SetItemCount
  <2>2. count \in Nat
    BY ScrollAssumption
  <2>3. ListNumbers([listView EXCEPT !.rows = count])
    BY <1>1, <2>2 DEF ListNumbers, ListShape, ListFields
  <2> QED
    BY <1>2, <2>1, <2>3
<1>4. ASSUME NEW message, NEW by \in Int, ScrollList(message, by)
      PROVE  BarsNumbers'
  <2> DEFINE top == Max({listView.top + by, 0})
  <2>1. top \in Int
    <3>1. listView.top + by \in Int
      BY <1>1 DEF ListNumbers
    <3> QED
      BY <3>1, AtLeastZero
  <2>2. ListBecomes(message, [listView EXCEPT !.top = top], bars, overlaid)
    BY <1>4 DEF ScrollList
  <2> HIDE DEF top
  <2>3. ListNumbers([listView EXCEPT !.top = top])
    BY <1>1, <2>1 DEF ListNumbers, ListShape, ListFields
  <2> QED
    BY <1>2, <2>2, <2>3
<1>5. CASE ScrollByKey
  <2> DEFINE r == RangeOf(listView, Frame(listView, overlaid), "down")
  <2>1. RangeNumbers(r)
    BY <1>1, FrameNumbers, RangeOfNumbers
  <2>2. \E by \in {-1, 1, r.page} : ScrollList("key", by)
    BY <1>5 DEF ScrollByKey
  <2> HIDE DEF r
  <2>3. {-1, 1, r.page} \subseteq Int
    BY <2>1 DEF RangeNumbers
  <2> QED
    BY <1>4, <2>2, <2>3
<1>6. CASE TurnWheel
  <2>1. \E by \in {-1, 1} : ScrollList("wheel", by)
    BY <1>6 DEF TurnWheel
  <2>2. {-1, 1} \subseteq Int
    OBVIOUS
  <2> QED
    BY <1>4, <2>1, <2>2
<1>7. ASSUME NEW width \in ColumnWidths
      PROVE  ListNumbers([listView EXCEPT !.columns = width])
  <2>1. width \in Nat
    BY ScrollAssumption
  <2> QED
    BY <1>1, <2>1 DEF ListNumbers, ListShape, ListFields
<1>8. CASE DragDivider
  BY <1>2, <1>7, <1>8 DEF DragDivider
<1>9. CASE PaintList
  BY <1>1, <1>2, <1>9 DEF PaintList
<1>10. CASE SetColumnWidth
  BY <1>2, <1>7, <1>10 DEF SetColumnWidth
<1>11. CASE SetRowHeight
  <2>1. PICK tall \in RowHeights :
           ListBecomes("redraw", [listView EXCEPT !.tall = tall], bars, overlaid)
    BY <1>11 DEF SetRowHeight
  <2>2. tall \in Nat \ {0}
    BY ScrollAssumption
  <2>3. ListNumbers([listView EXCEPT !.tall = tall])
    BY <1>1, <2>2 DEF ListNumbers, ListShape, ListFields
  <2> QED
    BY <1>2, <2>1, <2>3
<1>12. CASE ResizeList
  <2>1. PICK size \in WindowSizes :
           ListBecomes("size", [listView EXCEPT !.size = size], bars, overlaid)
    BY <1>12 DEF ResizeList
  <2>2. size.width \in Int /\ size.height \in Int
    BY ScrollAssumption
  <2>3. ListNumbers([listView EXCEPT !.size = size])
    BY <1>1, <2>2 DEF ListNumbers, ListShape, ListFields
  <2> QED
    BY <1>2, <2>1, <2>3
<1>13. CASE ShowList
  <2>1. ListBecomes("size", [listView EXCEPT !.visible = ~ listView.visible], bars, overlaid)
    BY <1>13 DEF ShowList
  <2>2. ListNumbers([listView EXCEPT !.visible = ~ listView.visible])
    BY <1>1 DEF ListNumbers, ListShape, ListFields
  <2> QED
    BY <1>2, <2>1, <2>2
<1>14. CASE SetEnabled
  BY <1>1, <1>2, <1>14 DEF SetEnabled
<1> QED
  BY <1>3, <1>5, <1>6, <1>8, <1>9, <1>10, <1>11, <1>12, <1>13, <1>14

LEMMA ThumbNumbers ==
    ASSUME BarNumbers(bars), NEW axis \in Axes, ThumbShown(bars[axis])
    PROVE  ThumbOf(bars[axis]).start \in Int /\ ThumbOf(bars[axis]).length \in Int
<1> DEFINE r == bars[axis].range
           track == TrackLength(bars[axis])
<1>1. RangeNumbers(r) /\ track \in Nat /\ HasThumb(r, track)
  BY TrackNumbers DEF BarNumbers, ThumbShown
<1> HIDE DEF r, track
<1>2. Thumb(r, track).start \in Int /\ Thumb(r, track).length \in Int
  BY <1>1, ThumbPlace, LengthNumber
<1> QED
  BY <1>2 DEF ThumbOf, r, track

LEMMA BarActionNumbers ==
    ASSUME BarsIInv, BarsNumbers, NEW axis \in Axes,
           \/ ButtonDown(axis) \/ MouseMove(axis) \/ TimerFires(axis) \/ PageAgain(axis)
           \/ ButtonUp(axis)
    PROVE  BarsNumbers'
<1>1. /\ BarShape(bars) /\ BarNumbers(bars) /\ ListNumbers(listView)
      /\ DOMAIN bars = Axes /\ \A other \in Axes : DOMAIN bars[other] = BarFields
  BY DEF BarsIInv, BarsNumbers, BarShape
<1>2. \A l, bs, message : (/\ ListNumbers(l) /\ BarShape(bs) /\ BarNumbers(bs)
                           /\ ListBecomes(message, l, bs, overlaid)) => BarsNumbers'
  BY ListStepNumbers DEF BarsNumbers
<1>3. ASSUME NEW pointer \in Pointers
      PROVE  pointer - TrackStart(bars[axis]) \in Int
  BY <1>1, TrackNumbers, ScrollAssumption
<1>4. CASE ButtonDown(axis)
  <2>1. PICK at \in Int : \/ Catch(axis, at, ThumbOf(bars[axis]))
                          \/ PageTowards(axis, at, PageDirection(ThumbOf(bars[axis]), at))
    BY <1>3, <1>4 DEF ButtonDown
  <2>2. ThumbShown(bars[axis])
    BY <1>4 DEF ButtonDown
  <2>3. CASE Catch(axis, at, ThumbOf(bars[axis]))
    <3> DEFINE grab == at - ThumbOf(bars[axis]).start
    <3>1. grab \in Int
      BY <1>1, <2>2, ThumbNumbers
    <3>2. bars' = [bars EXCEPT ![axis].grabbed = TRUE, ![axis].grab = grab]
          /\ listView' = listView
      BY <2>3 DEF Catch
    <3> HIDE DEF grab
    <3>3. \A other \in Axes : /\ bars'[other].length = bars[other].length
                              /\ bars'[other].lead = bars[other].lead
                              /\ bars'[other].grab \in {grab, bars[other].grab}
                              /\ bars'[other].paging = bars[other].paging
                              /\ bars'[other].range = bars[other].range
      BY <1>1, <3>2 DEF BarFields
    <3>4. BarNumbers(bars')
      BY <1>1, <3>1, <3>3 DEF BarNumbers
    <3> QED
      BY <1>1, <3>2, <3>4 DEF BarsNumbers
  <2>4. CASE PageTowards(axis, at, PageDirection(ThumbOf(bars[axis]), at))
    <3> DEFINE direction == PageDirection(ThumbOf(bars[axis]), at)
               bs == [bars EXCEPT ![axis].paging = direction, ![axis].heldAt = at]
               l == Paged(listView, axis, direction)
    <3>1. direction \in {-1, 0, 1}
      BY DEF PageDirection
    <3>2. ListBecomes("scroll", l, bs, overlaid)
      BY <2>4 DEF PageTowards
    <3> HIDE DEF direction
    <3>3. ListNumbers(l)
      BY <1>1, <3>1, PagedNumbers
    <3>4. \A other \in Axes : /\ DOMAIN bs[other] = BarFields
                              /\ bs[other].length = bars[other].length
                              /\ bs[other].lead = bars[other].lead
                              /\ bs[other].grab = bars[other].grab
                              /\ bs[other].paging \in {direction, bars[other].paging}
                              /\ bs[other].range = bars[other].range
      BY <1>1 DEF BarFields
    <3>5. DOMAIN bs = Axes
      BY <1>1
    <3> HIDE DEF bs, l
    <3>6. BarShape(bs) /\ BarNumbers(bs)
      BY <1>1, <3>1, <3>4, <3>5 DEF BarShape, BarNumbers
    <3> QED
      BY <1>2, <3>2, <3>3, <3>6
  <2> QED
    BY <2>1, <2>3, <2>4
<1>5. CASE MouseMove(axis)
  <2>1. PICK at \in Int : Drag(axis, at) \/ HoldAt(axis, at)
    BY <1>3, <1>5 DEF MouseMove
  <2>2. CASE Drag(axis, at)
    <3> DEFINE pos == PositionAt(bars[axis].range, TrackLength(bars[axis]),
                                 ThumbOf(bars[axis]).length, at - bars[axis].grab)
    <3>1. pos \in Int
      <4>1. ThumbOf(bars[axis]).length \in Int
        BY <1>1, <2>2, ThumbNumbers DEF Drag
      <4>2. at - bars[axis].grab \in Int
        BY <1>1 DEF BarNumbers
      <4>3. RangeNumbers(bars[axis].range) /\ TrackLength(bars[axis]) \in Int
        BY <1>1, TrackNumbers DEF BarNumbers
      <4> QED
        BY <4>1, <4>2, <4>3, PositionNumber
    <3>2. ScrollTo(axis, pos, bars)
      BY <2>2 DEF Drag
    <3> HIDE DEF pos
    <3>3. CASE bars' = bars /\ UNCHANGED <<listView, unpainted>>
      BY <1>1, <3>3 DEF BarsNumbers
    <3>4. CASE ListBecomes("scroll", ScrolledTo(listView, axis, pos), bars, overlaid)
      BY <1>1, <1>2, <3>1, <3>4, ScrolledNumbers
    <3> QED
      BY <3>2, <3>3, <3>4 DEF ScrollTo
  <2>3. CASE HoldAt(axis, at)
    <3>1. bars' = [bars EXCEPT ![axis].heldAt = at] /\ listView' = listView
      BY <2>3 DEF HoldAt
    <3>2. \A other \in Axes : /\ bars'[other].length = bars[other].length
                              /\ bars'[other].lead = bars[other].lead
                              /\ bars'[other].grab = bars[other].grab
                              /\ bars'[other].paging = bars[other].paging
                              /\ bars'[other].range = bars[other].range
      BY <1>1, <3>1 DEF BarFields
    <3>3. BarNumbers(bars')
      BY <1>1, <3>2 DEF BarNumbers
    <3> QED
      BY <1>1, <3>1, <3>3 DEF BarsNumbers
  <2> QED
    BY <2>1, <2>2, <2>3
<1>6. CASE TimerFires(axis)
  BY <1>1, <1>6 DEF TimerFires, BarsNumbers
<1>7. CASE PageAgain(axis)
  <2> DEFINE direction == bars[axis].paging
             l == Paged(listView, axis, direction)
  <2>1. direction \in {-1, 0, 1}
    BY <1>1 DEF BarNumbers
  <2>2. \/ ListBecomes("scroll", l, bars, overlaid)
        \/ UNCHANGED <<listView, bars, unpainted>>
    BY <1>7 DEF PageAgain
  <2> HIDE DEF direction
  <2>3. ListNumbers(l)
    BY <1>1, <2>1, PagedNumbers
  <2> HIDE DEF l
  <2>4. CASE ListBecomes("scroll", l, bars, overlaid)
    BY <1>1, <1>2, <2>3, <2>4
  <2>5. CASE UNCHANGED <<listView, bars, unpainted>>
    BY <1>1, <2>5 DEF BarsNumbers
  <2> QED
    BY <2>2, <2>4, <2>5
<1>8. CASE ButtonUp(axis)
  <2>1. bars' = [bars EXCEPT ![axis].grabbed = FALSE, ![axis].grab = 0,
                             ![axis].paging = 0, ![axis].heldAt = 0]
        /\ listView' = listView
    BY <1>8 DEF ButtonUp, Released
  <2>2. \A other \in Axes : /\ bars'[other].length = bars[other].length
                            /\ bars'[other].lead = bars[other].lead
                            /\ bars'[other].grab \in {0, bars[other].grab}
                            /\ bars'[other].paging \in {0, bars[other].paging}
                            /\ bars'[other].range = bars[other].range
    BY <1>1, <2>1 DEF BarFields
  <2>3. BarNumbers(bars')
    BY <1>1, <2>2 DEF BarNumbers
  <2> QED
    BY <1>1, <2>1, <2>3 DEF BarsNumbers
<1> QED
  BY <1>4, <1>5, <1>6, <1>7, <1>8

\* For every size of the window, of rows and of columns, and any dots per inch: wherever
\* on its track the thumb is dragged to, the list scrolls to a place whose thumb lies
\* there, as near as its rows or pixels allow, with the first and the last of the list at
\* the ends of the track, as far as one message scrolls (thumb, position_at, scroll_to).
THEOREM ThumbIsTheHandle == ScrollSpec => []ThumbLeadsTheList
<1> DEFINE I == BarsIInv /\ BarsNumbers
<1>1. ScrollInit => I
  BY BarsStart, NumbersStart
<1>2. I /\ [ScrollNext]_scrollVars => I'
  <2> SUFFICES ASSUME BarsIInv, BarsNumbers, [ScrollNext]_scrollVars
               PROVE  BarsNumbers'
    BY BarsKeep
  <2>1. CASE \/ SetItemCount \/ ScrollByKey \/ TurnWheel \/ DragDivider \/ PaintList
             \/ SetColumnWidth \/ SetRowHeight \/ ResizeList \/ ShowList \/ SetEnabled
    BY <2>1, ListActionNumbers
  <2>2. ASSUME NEW axis \in Axes,
               \/ ButtonDown(axis) \/ MouseMove(axis) \/ TimerFires(axis) \/ PageAgain(axis)
               \/ ButtonUp(axis)
        PROVE  BarsNumbers'
    BY <2>2, BarActionNumbers
  <2>3. CASE UNCHANGED scrollVars
    BY <2>3 DEF scrollVars, BarsNumbers
  <2> QED
    BY <2>1, <2>2, <2>3 DEF ScrollNext
<1>3. I => ThumbLeadsTheList
  <2> SUFFICES ASSUME BarsIInv, BarsNumbers, NEW axis \in Axes, ThumbShown(bars[axis]),
                      ~ unpainted
               PROVE  LeadsFrom(axis, bars[axis], ThumbOf(bars[axis]).length,
                                Frame(listView, overlaid))
    BY DEF ThumbLeadsTheList
  <2> QED
    BY BarLeads DEF BarsIInv, BarsNumbers
<1> QED
  BY <1>1, <1>2, <1>3, PTL DEF ScrollSpec

-----------------------------------------------------------------------------
(* Widths over changes of zoom.                                             *)

Kinds == {"Preview", "Fields", "Cells"}
Bases == [width : Nat, zoom : Nat \ {0}, applied : Int]
Wishes == [width : Nat, zoom : Nat \ {0}, moved : BOOLEAN]
Grids == [kind : Kinds \cup {"none"}, count : Nat,
          widths : Seq(Nat), bases : Seq(Bases), chosen : Seq(Wishes)]

\* A basis is up to date: it was last applied at this zoom.
Fresh(b, z) == b.applied = ScaleWidth(b.width, b.zoom, z)

\* What was chosen for a column is its basis, or a width not yet a basis.
Tracks(w, b, c, z) ==
    IF w = b.applied THEN c.width = b.width /\ c.zoom = b.zoom
    ELSE c.width = w /\ c.zoom = z

\* A column whose width is as chosen: not one that came back resized.
Exact(c, i, kind) ==
    \/ ~ c.moved
    \/ i > 1 /\ c.width = DataColumnWidth(kind) /\ c.zoom = DefaultZoom

\* Lengths of the columns of a tab, and of what is known of them.
SizesOK(g) ==
    /\ Len(g.chosen) = Len(g.widths)
    /\ Len(g.widths) <= Len(g.bases)
    /\ Len(g.widths) <= g.count + 1
    /\ g.kind = "none" => g.count = 0

ColumnOK(g, i, z) ==
    /\ Fresh(g.bases[i], z)
    /\ Exact(g.chosen[i], i, g.kind) => Tracks(g.widths[i], g.bases[i], g.chosen[i], z)

GridOK(g, z) ==
    /\ g \in Grids /\ SizesOK(g)
    /\ \A i \in 1 .. Len(g.widths) : ColumnOK(g, i, z)

\* The list has a column for the rows besides the data columns.
Listed(g) == Len(g.widths) = g.count + 1

\* The inductive invariant of the zoom.
WidthsIInv ==
    /\ gridZoom \in ZoomLevels
    /\ GridOK(grid, gridZoom) /\ Listed(grid)
    /\ GridOK(kept, gridZoom)
    /\ zoomWheel \in Int /\ wheel \in Seq([delta : Int, zooms : BOOLEAN])

-----------------------------------------------------------------------------
\* Induction over the numbers, for a set S: there is no least number outside it.
LEMMA NumbersByInduction ==
    ASSUME NEW S, 0 \in S, \A n \in Nat : n \in S => n + 1 \in S
    PROVE  Nat \subseteq S
<1> DEFINE left == {n \in Nat : n \notin S}
<1>1. SUFFICES left = {}
  OBVIOUS
<1>2. SUFFICES ASSUME left # {} PROVE FALSE
  OBVIOUS
<1>3. PICK k \in left : \A j \in left : ~ (<<j, k>> \in OpToRel(<, Nat))
  BY <1>2, WFMin, NatLessThanWellFounded, Zenon
<1>4. \A j \in left : ~ (j < k)
  BY <1>3 DEF OpToRel
<1>5. k # 0 /\ k - 1 \in Nat
  OBVIOUS
<1>6. k - 1 \in S
  BY <1>4, <1>5
<1> QED
  BY <1>5, <1>6

(* Scaling.                                                                 *)

\* A quotient is the number whose multiple is the nearest below.
LEMMA QuotientIs ==
    ASSUME NEW w \in Nat, NEW z \in Nat, z > 0, NEW h \in Nat, h < z
    PROVE  (w * z + h) \div z = w
<1> DEFINE q == (w * z + h) \div z
           r == (w * z + h) % z
<1>1. w * z \in Nat
  OBVIOUS
<1>2. q \in Int /\ r \in 0 .. z - 1 /\ w * z + h = q * z + r
  BY <1>1
<1> HIDE DEF q, r
<1>3. (w - q) * z = r - h
  BY <1>2
<1>4. CASE w - q >= 1
  <2>1. (w - q) * z >= z
    BY <1>2, <1>4
  <2> QED
    BY <1>2, <1>3, <2>1
<1>5. CASE w - q <= -1
  <2>1. (w - q) * z <= -z
    BY <1>2, <1>5
  <2> QED
    BY <1>2, <1>3, <2>1
<1> QED
  BY <1>2, <1>4, <1>5 DEF q

LEMMA ScalesToItself ==
    ASSUME NEW w \in Nat, NEW z \in Nat, z > 0
    PROVE  ScaleWidth(w, z, z) = AtLeastOne(w)
<1>1. z \div 2 \in Nat /\ z \div 2 < z
  OBVIOUS
<1>2. (w * z + z \div 2) \div z = w
  BY <1>1, QuotientIs
<1> QED
  BY <1>2 DEF ScaleWidth

\* A width that opens at a level is its design scaled to that level.
LEMMA OpensAsScaled ==
    ASSUME NEW w \in Nat, NEW z \in Nat
    PROVE  ScaleByZoom(w, z) = ScaleWidth(w, DefaultZoom, z)
BY DEF ScaleByZoom, ScaleWidth, DefaultZoom

LEMMA ScaledIsWidth ==
    ASSUME NEW w \in Nat, NEW from \in Nat, from > 0, NEW to \in Nat
    PROVE  ScaleWidth(w, from, to) \in Nat /\ ScaleWidth(w, from, to) >= 1
<1>1. w * to + from \div 2 \in Int
  OBVIOUS
<1> DEFINE n == w * to + from \div 2
<1> HIDE DEF n
<1>2. n \div from \in Int
  BY <1>1 DEF n
<1> QED
  BY <1>2 DEF ScaleWidth, AtLeastOne, n

\* What an exact column tracks is as wide as chosen.
LEMMA TrackedIsAsChosen ==
    ASSUME NEW w \in Nat, NEW b \in Bases, NEW c \in Wishes, NEW z \in Nat, z > 0,
           Fresh(b, z), Tracks(w, b, c, z)
    PROVE  AtLeastOne(w) = ScaleWidth(c.width, c.zoom, z)
<1>0. b.width \in Nat /\ b.zoom \in Nat /\ b.zoom > 0
  BY DEF Bases
<1>1. CASE w = b.applied
  <2>1. w = ScaleWidth(b.width, b.zoom, z)
    BY <1>1 DEF Fresh
  <2>2. w >= 1
    BY <1>0, <2>1, ScaledIsWidth
  <2> QED
    BY <1>1, <2>1, <2>2 DEF Tracks, AtLeastOne
<1>2. CASE w # b.applied
  BY <1>2, ScalesToItself DEF Tracks
<1> QED
  BY <1>1, <1>2

-----------------------------------------------------------------------------
(* The operations on a grid.                                                *)

\* The parts of a grid, by name.
LEMMA GridParts ==
    ASSUME NEW g \in Grids
    PROVE  /\ g.kind \in Kinds \cup {"none"} /\ g.count \in Nat
           /\ g.widths \in Seq(Nat) /\ Len(g.widths) \in Nat
           /\ g.bases \in Seq(Bases) /\ Len(g.bases) \in Nat
           /\ g.chosen \in Seq(Wishes) /\ Len(g.chosen) \in Nat
           /\ \A i \in 1 .. Len(g.widths) : g.widths[i] \in Nat
           /\ \A i \in 1 .. Len(g.bases) : g.bases[i] \in Bases
           /\ \A i \in 1 .. Len(g.chosen) : g.chosen[i] \in Wishes
<1>1. /\ g.kind \in Kinds \cup {"none"} /\ g.count \in Nat
      /\ g.widths \in Seq(Nat) /\ g.bases \in Seq(Bases) /\ g.chosen \in Seq(Wishes)
  BY DEF Grids
<1> QED
  BY <1>1

LEMMA FunctionIsSequence ==
    ASSUME NEW S, NEW n \in Nat, NEW f \in [1 .. n -> S]
    PROVE  f \in Seq(S) /\ Len(f) = n
OBVIOUS

LEMMA UnknownIsBasis == Unknown \in Bases
BY DEF Unknown, Bases, DefaultZoom

\* Room for a column that is there keeps what is known of it.
LEMMA ResizedKeeps ==
    ASSUME NEW bases \in Seq(Bases), NEW n \in Nat
    PROVE  /\ Resized(bases, n) \in Seq(Bases) /\ Len(Resized(bases, n)) = n
           /\ DOMAIN Resized(bases, n) = 1 .. n
           /\ \A i \in 1 .. n : i <= Len(bases) => Resized(bases, n)[i] = bases[i]
<1>1. \A i \in 1 .. n : (IF i <= Len(bases) THEN bases[i] ELSE Unknown) \in Bases
  <2> TAKE i \in 1 .. n
  <2>1. CASE i <= Len(bases)
    BY <2>1
  <2>2. CASE ~ (i <= Len(bases))
    BY <2>2, UnknownIsBasis
  <2> QED
    BY <2>1, <2>2
<1>2. Resized(bases, n) \in [1 .. n -> Bases]
  BY <1>1 DEF Resized
<1>3. Resized(bases, n) \in Seq(Bases) /\ Len(Resized(bases, n)) = n
  BY <1>2, FunctionIsSequence
<1>4. \A i \in 1 .. n : i <= Len(bases) => Resized(bases, n)[i] = bases[i]
  BY DEF Resized
<1> QED
  BY <1>2, <1>3, <1>4

\* A change of zoom brings every basis up to date and leaves what was chosen.
LEMMA RescaledIsOK ==
    ASSUME NEW g, NEW z \in Nat, z > 0, NEW y \in Nat, y > 0, GridOK(g, z)
    PROVE  /\ GridOK(Rescaled(g, z, y), y)
           /\ Listed(g) => Listed(Rescaled(g, z, y))
<1> DEFINE n == Len(g.widths)
           bases == Resized(g.bases, n)
           B(i) == Basis(bases[i], g.widths[i], z)
           scaled == [i \in DOMAIN bases |->
                        [B(i) EXCEPT !.applied = ScaleWidth(B(i).width, B(i).zoom, y)]]
           widths == [i \in DOMAIN scaled |-> scaled[i].applied]
           r == Rescaled(g, z, y)
<1>0. g \in Grids /\ SizesOK(g)
  BY DEF GridOK
<1>1. r = [g EXCEPT !.bases = scaled, !.widths = widths]
  BY DEF Rescaled
<1>2. n \in Nat /\ Len(g.bases) \in Nat /\ n <= Len(g.bases) /\ g.bases \in Seq(Bases)
  BY <1>0, GridParts DEF SizesOK
<1>3. DOMAIN bases = 1 .. n /\ \A i \in 1 .. n : bases[i] = g.bases[i]
  <2> HIDE DEF n, bases
  <2>1. /\ DOMAIN bases = 1 .. n
        /\ \A i \in 1 .. n : i <= Len(g.bases) => bases[i] = g.bases[i]
    BY <1>2, ResizedKeeps, Zenon DEF bases
  <2> QED
    BY <1>2, <2>1
<1>4. ASSUME NEW i \in 1 .. n
      PROVE  /\ g.bases[i] \in Bases /\ g.widths[i] \in Nat
             /\ g.chosen[i] \in Wishes /\ bases[i] = g.bases[i]
  BY <1>0, <1>2, <1>3, GridParts DEF SizesOK
<1>5. ASSUME NEW i \in 1 .. n
      PROVE  /\ B(i) \in Bases
             /\ B(i) = IF g.bases[i].applied = g.widths[i] THEN g.bases[i]
                       ELSE [width |-> g.widths[i], zoom |-> z, applied |-> g.widths[i]]
  BY <1>4 DEF Basis, Bases
<1> HIDE DEF bases, B
<1>6. ASSUME NEW i \in 1 .. n
      PROVE  /\ scaled[i] \in Bases
             /\ scaled[i].width = B(i).width /\ scaled[i].zoom = B(i).zoom
             /\ scaled[i].applied = ScaleWidth(B(i).width, B(i).zoom, y)
             /\ scaled[i].applied \in Nat
  <2>1. B(i).width \in Nat /\ B(i).zoom \in Nat /\ B(i).zoom > 0
    BY <1>5 DEF Bases
  <2>2. ScaleWidth(B(i).width, B(i).zoom, y) \in Nat
    BY <2>1, ScaledIsWidth
  <2>3. scaled[i] = [B(i) EXCEPT !.applied = ScaleWidth(B(i).width, B(i).zoom, y)]
    BY <1>3
  <2> DEFINE s == ScaleWidth(B(i).width, B(i).zoom, y)
  <2> HIDE DEF s
  <2>4. [B(i) EXCEPT !.applied = s] \in Bases
    BY <1>5, <2>2 DEF Bases, s
  <2>5. /\ [B(i) EXCEPT !.applied = s].width = B(i).width
        /\ [B(i) EXCEPT !.applied = s].zoom = B(i).zoom
        /\ [B(i) EXCEPT !.applied = s].applied = s
    BY <1>5 DEF Bases
  <2> QED
    BY <2>2, <2>3, <2>4, <2>5 DEF s
<1>7. DOMAIN scaled = 1 .. n /\ DOMAIN widths = 1 .. n
  BY <1>3
<1>8. scaled \in [1 .. n -> Bases]
  <2> HIDE DEF scaled
  <2>1. scaled = [i \in 1 .. n |-> scaled[i]]
    BY <1>3 DEF scaled
  <2> QED
    BY <2>1, <1>6
<1>9. ASSUME NEW i \in 1 .. n PROVE widths[i] = scaled[i].applied
  BY <1>7
<1> HIDE DEF scaled
<1>10. widths \in [1 .. n -> Nat]
  BY <1>6, <1>7
<1> HIDE DEF widths
<1>11. scaled \in Seq(Bases) /\ Len(scaled) = n /\ widths \in Seq(Nat) /\ Len(widths) = n
  BY <1>2, <1>8, <1>10, FunctionIsSequence
<1>12. /\ r \in Grids /\ r.kind = g.kind /\ r.count = g.count
       /\ r.bases = scaled /\ r.widths = widths /\ r.chosen = g.chosen
  <2>1. g = [kind |-> g.kind, count |-> g.count, widths |-> g.widths,
             bases |-> g.bases, chosen |-> g.chosen]
    BY <1>0 DEF Grids
  <2>2. r = [kind |-> g.kind, count |-> g.count, widths |-> widths,
             bases |-> scaled, chosen |-> g.chosen]
    BY <1>1, <2>1
  <2> QED
    BY <2>2, <1>0, <1>11, GridParts DEF Grids
<1> HIDE DEF r
<1>13. SizesOK(r)
  BY <1>0, <1>11, <1>12 DEF SizesOK, n
<1>14. ASSUME NEW i \in 1 .. n PROVE ColumnOK(r, i, y)
  <2>1. Fresh(r.bases[i], y)
    BY <1>6, <1>12 DEF Fresh
  <2>2. ASSUME Exact(r.chosen[i], i, r.kind)
        PROVE  Tracks(r.widths[i], r.bases[i], r.chosen[i], y)
    <3>1. Tracks(g.widths[i], g.bases[i], g.chosen[i], z)
      BY <2>2, <1>12 DEF GridOK, ColumnOK, n
    <3>2. g.chosen[i].width = B(i).width /\ g.chosen[i].zoom = B(i).zoom
      BY <3>1, <1>5 DEF Tracks
    <3> QED
      BY <3>2, <1>6, <1>9, <1>12 DEF Tracks
  <2> QED
    BY <2>1, <2>2 DEF ColumnOK
<1>15. GridOK(r, y)
  BY <1>11, <1>12, <1>13, <1>14 DEF GridOK
<1> QED
  BY <1>11, <1>12, <1>15 DEF Listed, r, n

LEMMA LargerOfTwo ==
    ASSUME NEW a \in Nat, NEW b \in Nat
    PROVE  Max({a, b}) \in Nat /\ Max({a, b}) >= a /\ Max({a, b}) >= b
<1>1. \E x \in {a, b} : \A y \in {a, b} : x >= y
  OBVIOUS
<1>2. Max({a, b}) \in {a, b} /\ \A y \in {a, b} : Max({a, b}) >= y
  BY <1>1 DEF Max
<1> QED
  BY <1>2

\* The basis of a column that opens.
NewBasis(design, zoom) ==
    [width |-> design, zoom |-> DefaultZoom, applied |-> ScaleByZoom(design, zoom)]

LEMMA NewBasisIsFresh ==
    ASSUME NEW design \in Nat, NEW z \in Nat
    PROVE  /\ NewBasis(design, z) \in Bases /\ Fresh(NewBasis(design, z), z)
           /\ NewBasis(design, z).applied \in Nat
           /\ Opened(design) \in Wishes
           /\ Tracks(NewBasis(design, z).applied, NewBasis(design, z), Opened(design), z)
<1>1. ScaleByZoom(design, z) = ScaleWidth(design, DefaultZoom, z)
  BY OpensAsScaled
<1>2. ScaleWidth(design, DefaultZoom, z) \in Nat
  BY ScaledIsWidth DEF DefaultZoom
<1>3. DefaultZoom \in Nat \ {0}
  BY DEF DefaultZoom
<1> QED
  BY <1>1, <1>2, <1>3 DEF NewBasis, Bases, Fresh, Opened, Wishes, Tracks

LEMMA InsertedIs ==
    ASSUME NEW bases \in Seq(Bases), NEW first \in Nat, first > 0, NEW last \in Nat,
           NEW design \in Nat, NEW z \in Nat,
           NEW r, r = Inserted(bases, first, last, design, z)
    PROVE  /\ r \in Seq(Bases) /\ Len(r) \in Nat /\ Len(r) >= last
           /\ \A i \in 1 .. Len(bases) : i < first => r[i] = bases[i]
           /\ \A i \in first .. last : r[i] = NewBasis(design, z)
<1> DEFINE n == Max({Len(bases), last})
           room == Resized(bases, n)
           new == NewBasis(design, z)
           F == [i \in DOMAIN room |-> IF i \in first .. last THEN new ELSE room[i]]
<1>1. r = F
  BY DEF Inserted, NewBasis
<1>2. n \in Nat /\ n >= Len(bases) /\ n >= last /\ Len(bases) \in Nat
  BY LargerOfTwo
<1> HIDE DEF n
<1>3. /\ room \in Seq(Bases) /\ Len(room) = n /\ DOMAIN room = 1 .. n
      /\ \A i \in 1 .. n : i <= Len(bases) => room[i] = bases[i]
  <2> HIDE DEF room
  <2> QED
    BY <1>2, ResizedKeeps, Zenon DEF room
<1> HIDE DEF room
<1>4. new \in Bases
  BY NewBasisIsFresh
<1> HIDE DEF new
<1>5. F \in [1 .. n -> Bases]
  BY <1>3, <1>4
<1>6. F \in Seq(Bases) /\ Len(F) = n
  BY <1>2, <1>5, FunctionIsSequence
<1>7. \A i \in 1 .. Len(bases) : i < first => F[i] = bases[i]
  BY <1>2, <1>3
<1>8. \A i \in first .. last : F[i] = new
  BY <1>2, <1>3
<1> QED
  BY <1>1, <1>2, <1>6, <1>7, <1>8 DEF new

\* The columns of g, and new ones up to last.
Gains(r, g, last, design, z) ==
    /\ r \in Grids /\ r.kind = g.kind /\ r.count = g.count
    /\ Len(r.widths) = last /\ Len(r.chosen) = last /\ Len(r.bases) >= last
    /\ \A i \in 1 .. Len(g.widths) :
          /\ r.widths[i] = g.widths[i] /\ r.bases[i] = g.bases[i]
          /\ r.chosen[i] = g.chosen[i]
    /\ \A i \in Len(g.widths) + 1 .. last :
          /\ r.bases[i] = NewBasis(design, z)
          /\ r.widths[i] = NewBasis(design, z).applied
          /\ r.chosen[i] = Opened(design)

\* Columns that are there stay as they are; new ones are as wide as they open.
LEMMA WithColumnsIs ==
    ASSUME NEW g \in Grids, Len(g.chosen) = Len(g.widths), Len(g.widths) <= Len(g.bases),
           NEW last \in Nat, Len(g.widths) <= last, NEW design \in Nat, NEW z \in Nat,
           NEW r, r = WithColumns(g, last, design, z)
    PROVE  Gains(r, g, last, design, z)
<1> DEFINE n == Len(g.widths)
           bases == Inserted(g.bases, n + 1, last, design, z)
           widths == [i \in 1 .. last |-> IF i <= n THEN g.widths[i] ELSE bases[i].applied]
           chosen == [i \in 1 .. last |-> IF i <= Len(g.chosen) THEN g.chosen[i]
                                          ELSE Opened(design)]
<1>1. r = [g EXCEPT !.bases = bases, !.widths = widths, !.chosen = chosen]
  BY DEF WithColumns
<1>2. /\ n \in Nat /\ Len(g.bases) \in Nat
      /\ g.bases \in Seq(Bases)
      /\ \A i \in 1 .. n : g.widths[i] \in Nat /\ g.chosen[i] \in Wishes
  BY GridParts
<1>3. /\ bases \in Seq(Bases) /\ Len(bases) \in Nat /\ Len(bases) >= last
      /\ \A i \in 1 .. Len(g.bases) : i < n + 1 => bases[i] = g.bases[i]
      /\ \A i \in n + 1 .. last : bases[i] = NewBasis(design, z)
  <2> HIDE DEF bases, n
  <2>1. n + 1 \in Nat /\ n + 1 > 0
    BY <1>2
  <2> QED
    <3>1. bases = Inserted(g.bases, n + 1, last, design, z)
      BY DEF bases
    <3> QED
      BY <1>2, <2>1, <3>1, InsertedIs
<1>4. /\ NewBasis(design, z).applied \in Nat /\ Opened(design) \in Wishes
  BY NewBasisIsFresh
<1>5. \A i \in 1 .. last : i > n => i \in n + 1 .. last
  BY <1>2
<1> HIDE DEF bases
<1>6. widths \in [1 .. last -> Nat] /\ chosen \in [1 .. last -> Wishes]
  <2>1. ASSUME NEW i \in 1 .. last
        PROVE  /\ (IF i <= n THEN g.widths[i] ELSE bases[i].applied) \in Nat
               /\ (IF i <= Len(g.chosen) THEN g.chosen[i] ELSE Opened(design)) \in Wishes
    <3>1. CASE i <= n
      BY <3>1, <1>2
    <3>2. CASE ~ (i <= n)
      <4>1. bases[i].applied \in Nat
        BY <3>2, <1>2, <1>3, <1>4, <1>5
      <4> QED
        BY <3>2, <4>1, <1>4
    <3> QED
      BY <3>1, <3>2
  <2> QED
    BY <2>1
<1>7. /\ widths \in Seq(Nat) /\ Len(widths) = last
      /\ chosen \in Seq(Wishes) /\ Len(chosen) = last
  <2> HIDE DEF widths, chosen
  <2> QED
    BY <1>6, FunctionIsSequence
<1>8. \A i \in 1 .. n : widths[i] = g.widths[i] /\ chosen[i] = g.chosen[i]
  BY <1>2
<1>9. \A i \in n + 1 .. last : widths[i] = NewBasis(design, z).applied
                              /\ chosen[i] = Opened(design)
  BY <1>2, <1>3
<1> HIDE DEF widths, chosen
<1>10. /\ r \in Grids /\ r.kind = g.kind /\ r.count = g.count
       /\ r.bases = bases /\ r.widths = widths /\ r.chosen = chosen
  <2>1. g = [kind |-> g.kind, count |-> g.count, widths |-> g.widths,
             bases |-> g.bases, chosen |-> g.chosen]
    BY DEF Grids
  <2>2. r = [kind |-> g.kind, count |-> g.count, widths |-> widths,
             bases |-> bases, chosen |-> chosen]
    BY <1>1, <2>1
  <2> QED
    BY <2>2, <1>3, <1>7, GridParts DEF Grids
<1> QED
  <2>1. /\ Len(r.widths) = last /\ Len(r.chosen) = last /\ Len(r.bases) >= last
    BY <1>3, <1>7, <1>10
  <2>2. \A i \in 1 .. n : i \in 1 .. Len(g.bases) /\ i < n + 1
    BY <1>2
  <2> HIDE DEF n
  <2>3. \A i \in 1 .. n : /\ r.widths[i] = g.widths[i] /\ r.bases[i] = g.bases[i]
                         /\ r.chosen[i] = g.chosen[i]
    BY <2>2, <1>3, <1>8, <1>10
  <2>4. \A i \in n + 1 .. last : /\ r.bases[i] = NewBasis(design, z)
                               /\ r.widths[i] = NewBasis(design, z).applied
                               /\ r.chosen[i] = Opened(design)
    BY <1>3, <1>9, <1>10
  <2> QED
    BY <2>1, <2>3, <2>4, <1>10 DEF Gains, n

LEMMA DesignIsWidth ==
    ASSUME NEW kind \in Kinds PROVE DataColumnWidth(kind) \in Nat /\ DataColumnWidth(kind) > 0
BY DEF Kinds, DataColumnWidth

\* The columns of g, and new ones up to count.
Widens(r, g, kind, count, z) ==
    /\ r.kind = kind /\ r.count >= count
    /\ \A i \in Len(g.widths) + 1 .. Len(r.widths) :
          r.bases[i] = NewBasis(DataColumnWidth(kind), z)

\* New columns of a tab, none when its kind is not known.
LEMMA WidenedIs ==
    ASSUME NEW z \in Nat, z > 0, NEW g, GridOK(g, z), Listed(g),
           NEW kind \in Kinds \cup {"none"}, g.kind \in {"none", kind},
           NEW count \in Nat, kind = "none" => count = 0,
           NEW r, r = Widened(g, kind, count, z)
    PROVE  GridOK(r, z) /\ Listed(r) /\ Widens(r, g, kind, count, z)
<1>1. /\ g \in Grids /\ SizesOK(g) /\ g.count \in Nat
      /\ Len(g.widths) = g.count + 1 /\ Len(g.widths) \in Nat
      /\ Len(g.chosen) = Len(g.widths) /\ Len(g.widths) <= Len(g.bases)
      /\ Len(g.bases) \in Nat
      /\ g.kind = "none" => g.count = 0
  BY GridParts DEF GridOK, Listed, SizesOK
<1>2. ASSUME NEW i \in 1 .. Len(g.widths), Exact(g.chosen[i], i, kind)
      PROVE  Exact(g.chosen[i], i, g.kind)
  <2>1. i > 1 => g.kind = kind
    BY <1>1
  <2> QED
    BY <1>2, <2>1 DEF Exact
<1>3. CASE count <= g.count
  <2>1. r = [g EXCEPT !.kind = kind]
    BY <1>3 DEF Widened
  <2>2. /\ r \in Grids /\ r.kind = kind /\ r.count = g.count
        /\ r.bases = g.bases /\ r.widths = g.widths /\ r.chosen = g.chosen
    BY <1>1, <2>1 DEF Grids
  <2>3. SizesOK(r)
    BY <1>1, <1>3, <2>2 DEF SizesOK
  <2>4. ASSUME NEW i \in 1 .. Len(r.widths) PROVE ColumnOK(r, i, z)
    BY <1>2, <2>2 DEF GridOK, ColumnOK
  <2>5. GridOK(r, z)
    BY <2>2, <2>3, <2>4 DEF GridOK
  <2> QED
    BY <1>1, <1>3, <2>2, <2>5 DEF Listed, Widens
<1>4. CASE ~ (count <= g.count)
  <2>1. kind \in Kinds
    BY <1>1, <1>4
  <2> DEFINE last == Len(g.widths) + count - g.count
             design == DataColumnWidth(kind)
             w == WithColumns(g, last, design, z)
             n == Len(g.widths)
  <2>2. last \in Nat /\ n <= last /\ last = count + 1 /\ n \in Nat
    BY <1>1, <1>4
  <2>3. design \in Nat
    BY <2>1, DesignIsWidth
  <2>4. r = [w EXCEPT !.kind = kind, !.count = count]
    BY <1>4 DEF Widened
  <2> HIDE DEF last, design
  <2>5. /\ w \in Grids /\ w.kind = g.kind /\ w.count = g.count
        /\ Len(w.widths) = last /\ Len(w.chosen) = last /\ Len(w.bases) >= last
        /\ \A i \in 1 .. n :
              /\ w.widths[i] = g.widths[i] /\ w.bases[i] = g.bases[i]
              /\ w.chosen[i] = g.chosen[i]
        /\ \A i \in n + 1 .. last :
              /\ w.bases[i] = NewBasis(design, z)
              /\ w.widths[i] = NewBasis(design, z).applied
              /\ w.chosen[i] = Opened(design)
    <3>1. Gains(w, g, last, design, z)
      BY <1>1, <2>2, <2>3, WithColumnsIs
    <3> HIDE DEF w
    <3> QED
      BY <3>1 DEF Gains
  <2> HIDE DEF w
  <2>6. /\ r \in Grids /\ r.kind = kind /\ r.count = count
        /\ r.bases = w.bases /\ r.widths = w.widths /\ r.chosen = w.chosen
    BY <2>4, <2>5 DEF Grids
  <2>7. SizesOK(r)
    BY <2>1, <2>2, <2>5, <2>6 DEF SizesOK, Kinds
  <2>8. ASSUME NEW i \in 1 .. Len(r.widths) PROVE ColumnOK(r, i, z)
    <3>1. i \in 1 .. n \/ i \in n + 1 .. last
      BY <2>2, <2>5, <2>6
    <3>2. CASE i \in 1 .. n
      <4>1. ColumnOK(g, i, z)
        BY <3>2 DEF GridOK
      <4>2. Exact(g.chosen[i], i, kind) => Exact(g.chosen[i], i, g.kind)
        BY <1>2, <3>2
      <4> HIDE DEF n
      <4> QED
        BY <3>2, <4>1, <4>2, <2>5, <2>6 DEF ColumnOK
    <3>3. CASE i \in n + 1 .. last
      BY <3>3, <2>3, <2>5, <2>6, NewBasisIsFresh DEF ColumnOK
    <3> QED
      BY <3>1, <3>2, <3>3
  <2>9. GridOK(r, z)
    BY <2>6, <2>7, <2>8 DEF GridOK
  <2>10. Listed(r)
    BY <2>2, <2>5, <2>6 DEF Listed
  <2>11. \A i \in n + 1 .. Len(r.widths) : r.bases[i] = NewBasis(design, z)
    BY <2>5, <2>6
  <2> QED
    BY <2>2, <2>6, <2>9, <2>10, <2>11 DEF design, Widens
<1> QED
  BY <1>3, <1>4

LEMMA FirstOnly ==
    ASSUME NEW S, NEW s \in Seq(S), Len(s) >= 1
    PROVE  /\ SubSeq(s, 1, 1) \in Seq(S) /\ Len(SubSeq(s, 1, 1)) = 1
           /\ SubSeq(s, 1, 1)[1] = s[1]
OBVIOUS

LEMMA WithoutDataIs ==
    ASSUME NEW z, NEW g, GridOK(g, z), Listed(g), NEW r, r = WithoutData(g)
    PROVE  /\ GridOK(r, z) /\ Listed(r)
           /\ r.kind = "none" /\ r.count = 0 /\ Len(r.widths) = 1
<1>1. /\ g \in Grids /\ g.count \in Nat
      /\ Len(g.widths) = g.count + 1 /\ Len(g.widths) \in Nat
      /\ Len(g.chosen) = Len(g.widths) /\ Len(g.widths) <= Len(g.bases)
      /\ Len(g.bases) \in Nat
      /\ g.widths \in Seq(Nat) /\ g.chosen \in Seq(Wishes) /\ g.bases \in Seq(Bases)
  BY GridParts DEF GridOK, Listed, SizesOK
<1> DEFINE widths == SubSeq(g.widths, 1, 1)
           chosen == SubSeq(g.chosen, 1, 1)
<1>2. r = [g EXCEPT !.kind = "none", !.count = 0, !.widths = widths, !.chosen = chosen]
  BY DEF WithoutData
<1>3. widths \in Seq(Nat) /\ Len(widths) = 1 /\ widths[1] = g.widths[1]
  BY <1>1, FirstOnly
<1>4. chosen \in Seq(Wishes) /\ Len(chosen) = 1 /\ chosen[1] = g.chosen[1]
  BY <1>1, FirstOnly
<1> HIDE DEF widths, chosen
<1>5. /\ r \in Grids /\ r.kind = "none" /\ r.count = 0
      /\ r.bases = g.bases /\ r.widths = widths /\ r.chosen = chosen
  <2>1. g = [kind |-> g.kind, count |-> g.count, widths |-> g.widths,
             bases |-> g.bases, chosen |-> g.chosen]
    BY <1>1 DEF Grids
  <2>2. r = [kind |-> "none", count |-> 0, widths |-> widths,
             bases |-> g.bases, chosen |-> chosen]
    BY <1>2, <2>1
  <2> QED
    BY <2>2, <1>1, <1>3, <1>4 DEF Grids
<1> HIDE DEF widths, chosen
<1>8. Len(r.widths) = 1 /\ Len(r.chosen) = 1 /\ Len(r.bases) = Len(g.bases)
  BY <1>3, <1>4, <1>5, Zenon
<1>6. SizesOK(r) /\ Listed(r)
  BY <1>1, <1>5, <1>8 DEF SizesOK, Listed
<1>7. ASSUME NEW i \in 1 .. Len(r.widths) PROVE ColumnOK(r, i, z)
  <2>1. i = 1 /\ 1 \in 1 .. Len(g.widths)
    BY <1>1, <1>8
  <2>2. ColumnOK(g, 1, z)
    BY <2>1 DEF GridOK
  <2>3. Exact(r.chosen[1], 1, r.kind) => Exact(g.chosen[1], 1, g.kind)
    BY <1>4, <1>5 DEF Exact
  <2> QED
    BY <2>1, <2>2, <2>3, <1>3, <1>4, <1>5 DEF ColumnOK
<1> QED
  BY <1>3, <1>5, <1>6, <1>7 DEF GridOK

\* Widths laid over new columns: a column nobody resized has its own again.
LEMMA RestoredIsOK ==
    ASSUME gridZoom \in Nat, gridZoom > 0,
           NEW g, GridOK(g, gridZoom), Listed(g), NEW t, GridOK(t, gridZoom),
           NEW r, r = RestoredGrid(g, t)
    PROVE  GridOK(r, gridZoom) /\ Listed(r)
<1> DEFINE bare == WithoutData(g)
           list == Widened(bare, t.kind, t.count, gridZoom)
           n == Len(list.widths)
           W(i) == IF i <= Len(t.widths) /\ t.widths[i] > 0 THEN t.widths[i]
                   ELSE list.widths[i]
           C(i) == IF i <= Len(t.chosen) THEN [t.chosen[i] EXCEPT !.moved = TRUE]
                   ELSE list.chosen[i]
           widths == [i \in DOMAIN list.widths |-> W(i)]
           chosen == [i \in DOMAIN list.chosen |-> C(i)]
<1>1. /\ GridOK(bare, gridZoom) /\ Listed(bare)
      /\ bare.kind = "none" /\ bare.count = 0 /\ Len(bare.widths) = 1
  BY WithoutDataIs
<1>2. /\ t \in Grids /\ t.kind \in Kinds \cup {"none"} /\ t.count \in Nat
      /\ t.kind = "none" => t.count = 0
      /\ Len(t.widths) <= t.count + 1 /\ Len(t.widths) \in Nat
      /\ Len(t.chosen) = Len(t.widths) /\ Len(t.widths) <= Len(t.bases)
      /\ Len(t.bases) \in Nat
      /\ \A i \in 1 .. Len(t.widths) :
            t.widths[i] \in Nat /\ t.chosen[i] \in Wishes /\ t.bases[i] \in Bases
  BY GridParts DEF GridOK, SizesOK
<1>3. r = [list EXCEPT !.widths = widths, !.chosen = chosen]
  BY DEF RestoredGrid
<1> HIDE DEF bare
<1>4. /\ GridOK(list, gridZoom) /\ Listed(list)
      /\ list.kind = t.kind /\ list.count >= t.count
      /\ \A i \in 2 .. n : list.bases[i] = NewBasis(DataColumnWidth(t.kind), gridZoom)
  <2> HIDE DEF n, list
  <2>1. list = Widened(bare, t.kind, t.count, gridZoom) /\ bare.kind \in {"none", t.kind}
    BY <1>1 DEF list
  <2>2. /\ GridOK(list, gridZoom) /\ Listed(list)
        /\ Widens(list, bare, t.kind, t.count, gridZoom)
    <3>1. /\ GridOK(bare, gridZoom) /\ Listed(bare)
          /\ t.kind \in Kinds \cup {"none"} /\ t.count \in Nat
          /\ t.kind = "none" => t.count = 0
      BY <1>1, <1>2
    <3> QED
      BY <2>1, <3>1, WidenedIs
  <2>3. Len(bare.widths) + 1 = 2
    BY <1>1
  <2> QED
    BY <2>2, <2>3, Zenon DEF n, Widens
<1> HIDE DEF list
<1>5. /\ list \in Grids /\ n \in Nat /\ n = list.count + 1
      /\ list.count \in Nat
      /\ Len(list.chosen) = n /\ n <= Len(list.bases) /\ Len(list.bases) \in Nat
      /\ DOMAIN list.widths = 1 .. n /\ DOMAIN list.chosen = 1 .. n
      /\ \A i \in 1 .. n :
            list.widths[i] \in Nat /\ list.chosen[i] \in Wishes /\ list.bases[i] \in Bases
  BY <1>4, GridParts DEF GridOK, SizesOK, Listed
<1> HIDE DEF n
<1>6. ASSUME NEW i \in 1 .. n PROVE W(i) \in Nat /\ C(i) \in Wishes
  <2>1. CASE i <= Len(t.widths)
    <3>1. t.widths[i] \in Nat /\ t.chosen[i] \in Wishes
      BY <2>1, <1>2, <1>5
    <3>2. [t.chosen[i] EXCEPT !.moved = TRUE] \in Wishes
      BY <3>1 DEF Wishes
    <3> QED
      BY <2>1, <3>1, <3>2, <1>2, <1>5
  <2>2. CASE ~ (i <= Len(t.widths))
    BY <2>2, <1>2, <1>5
  <2> QED
    BY <2>1, <2>2
<1>7. /\ widths \in [1 .. n -> Nat] /\ chosen \in [1 .. n -> Wishes]
      /\ \A i \in 1 .. n : widths[i] = W(i) /\ chosen[i] = C(i)
  <2> HIDE DEF W, C
  <2> QED
    BY <1>5, <1>6
<1> HIDE DEF widths, chosen
<1>8. /\ widths \in Seq(Nat) /\ Len(widths) = n
      /\ chosen \in Seq(Wishes) /\ Len(chosen) = n
  BY <1>5, <1>7, FunctionIsSequence
<1>9. /\ r \in Grids /\ r.kind = t.kind /\ r.count = list.count
      /\ r.bases = list.bases /\ r.widths = widths /\ r.chosen = chosen
  <2>1. list = [kind |-> list.kind, count |-> list.count, widths |-> list.widths,
                bases |-> list.bases, chosen |-> list.chosen]
    BY <1>5 DEF Grids
  <2>2. r = [kind |-> list.kind, count |-> list.count, widths |-> widths,
             bases |-> list.bases, chosen |-> chosen]
    BY <1>3, <2>1
  <2> QED
    BY <2>2, <1>4, <1>5, <1>8, GridParts DEF Grids
<1>12. Len(r.widths) = n /\ Len(r.chosen) = n /\ Len(r.bases) = Len(list.bases)
  BY <1>8, <1>9, Zenon
<1>10. SizesOK(r) /\ Listed(r)
  <2>1. list.kind = "none" => list.count = 0
    BY <1>4 DEF GridOK, SizesOK
  <2> QED
    BY <2>1, <1>2, <1>4, <1>5, <1>9, <1>12 DEF SizesOK, Listed
<1>11. ASSUME NEW i \in 1 .. n PROVE ColumnOK(r, i, gridZoom)
  <2>1. ColumnOK(list, i, gridZoom)
    BY <1>4 DEF GridOK, n
  <2>2. CASE ~ (i <= Len(t.widths))
    <3>1. W(i) = list.widths[i] /\ C(i) = list.chosen[i]
      BY <2>2, <1>2
    <3> HIDE DEF W, C
    <3> QED
      BY <2>1, <3>1, <1>4, <1>7, <1>9 DEF ColumnOK
  <2>3. CASE i <= Len(t.widths)
    <3>1. i \in 1 .. Len(t.widths) /\ t.chosen[i] \in Wishes /\ t.bases[i] \in Bases
          /\ t.widths[i] \in Nat
      BY <2>3, <1>2, <1>5
    <3>2. C(i) = [t.chosen[i] EXCEPT !.moved = TRUE]
      BY <2>3, <1>2
    <3>3. /\ C(i).moved /\ C(i).width = t.chosen[i].width /\ C(i).zoom = t.chosen[i].zoom
      BY <3>1, <3>2 DEF Wishes
    <3>4. SUFFICES ASSUME Exact(C(i), i, t.kind)
                   PROVE  Tracks(W(i), list.bases[i], C(i), gridZoom)
      <4> HIDE DEF W, C
      <4> QED
        BY <2>1, <1>7, <1>9 DEF ColumnOK
    <3> DEFINE design == DataColumnWidth(t.kind)
    <3>5. /\ i > 1 /\ C(i).width = design /\ C(i).zoom = DefaultZoom
      BY <3>3, <3>4 DEF Exact
    <3>6. t.kind \in Kinds
      BY <1>2, <2>3, <3>5, <1>5
    <3>7. design \in Nat /\ design > 0
      BY <3>6, DesignIsWidth
    <3> HIDE DEF C
    <3>8. Exact(t.chosen[i], i, t.kind)
      BY <3>3, <3>5 DEF Exact
    <3>9. Fresh(t.bases[i], gridZoom) /\ Tracks(t.widths[i], t.bases[i], t.chosen[i], gridZoom)
      BY <3>1, <3>8 DEF GridOK, ColumnOK
    <3> HIDE DEF design
    <3>10. AtLeastOne(t.widths[i]) = ScaleWidth(design, DefaultZoom, gridZoom)
      <4>1. AtLeastOne(t.widths[i])
              = ScaleWidth(t.chosen[i].width, t.chosen[i].zoom, gridZoom)
        BY <3>1, <3>9, TrackedIsAsChosen
      <4> QED
        BY <3>3, <3>5, <4>1, Zenon
    <3>11. t.widths[i] > 0
      <4>1. CASE t.widths[i] = t.bases[i].applied
        <5>1. t.bases[i].width \in Nat /\ t.bases[i].zoom \in Nat /\ t.bases[i].zoom > 0
          BY <3>1 DEF Bases
        <5>2. ScaleWidth(t.bases[i].width, t.bases[i].zoom, gridZoom) >= 1
          BY <5>1, ScaledIsWidth
        <5>3. t.widths[i] = ScaleWidth(t.bases[i].width, t.bases[i].zoom, gridZoom)
          BY <4>1, <3>9, Zenon DEF Fresh
        <5> QED
          BY <3>1, <5>2, <5>3
      <4>2. CASE t.widths[i] # t.bases[i].applied
        BY <4>2, <3>3, <3>5, <3>7, <3>9 DEF Tracks
      <4> QED
        BY <4>1, <4>2
    <3>12. W(i) = t.widths[i]
      BY <2>3, <3>11
    <3>13. i \in 2 .. n
      BY <3>5, <1>5
    <3>14. list.bases[i] = NewBasis(design, gridZoom)
      BY <3>13, <1>4 DEF design
    <3>15. AtLeastOne(t.widths[i]) = t.widths[i]
      BY <3>1, <3>11 DEF AtLeastOne
    <3>16. t.widths[i] = NewBasis(design, gridZoom).applied
      BY <3>7, <3>10, <3>15, OpensAsScaled DEF NewBasis
    <3> HIDE DEF W
    <3> QED
      BY <3>5, <3>12, <3>14, <3>16 DEF Tracks, NewBasis
  <2> QED
    BY <2>2, <2>3
<1> QED
  BY <1>8, <1>9, <1>10, <1>11 DEF GridOK

-----------------------------------------------------------------------------
(* Levels: every step and every saved value leads to one.                    *)

LEMMA LeastIsThere ==
    ASSUME NEW S, S \subseteq Nat, S # {}
    PROVE  Min(S) \in S /\ \A y \in S : Min(S) <= y
<1>1. PICK k \in S : \A j \in S : ~ (<<j, k>> \in OpToRel(<, Nat))
  BY WFMin, NatLessThanWellFounded, Zenon
<1>2. \A j \in S : ~ (j < k)
  BY <1>1 DEF OpToRel
<1>3. \E x \in S : \A y \in S : x <= y
  BY <1>2
<1> QED
  BY <1>3 DEF Min

LEMMA GreatestIsThere ==
    ASSUME NEW S, S \subseteq Nat, S # {}, NEW c \in Nat, \A x \in S : x <= c
    PROVE  Max(S) \in S
<1> DEFINE D == {c - x : x \in S}
<1>1. D \subseteq Nat /\ D # {}
  <2>1. \A x \in S : c - x \in Nat
    <3> TAKE x \in S
    <3>1. x \in Nat /\ x <= c
      OBVIOUS
    <3> QED
      BY <3>1
  <2> QED
    BY <2>1
<1>2. PICK k \in D : \A y \in D : k <= y
  BY <1>1, LeastIsThere
<1>3. PICK x \in S : k = c - x
  OBVIOUS
<1>4. \A y \in S : x >= y
  <2> TAKE y \in S
  <2>1. c - y \in D
    OBVIOUS
  <2>2. c - x <= c - y
    BY <1>2, <1>3, <2>1
  <2> QED
    BY <2>2
<1> QED
  BY <1>4 DEF Max

LEMMA StepIsLevel ==
    ASSUME NEW current \in ZoomLevels, NEW direction \in Int
    PROVE  StepZoom(current, direction) \in ZoomLevels
<1> DEFINE above == {level \in ZoomLevels : level > current}
           below == {level \in ZoomLevels : level < current}
<1>1. ZoomLevels \subseteq Nat /\ DefaultZoom \in ZoomLevels /\ current \in Nat
  BY ZoomAssumption
<1>2. above # {} => Min(above) \in ZoomLevels
  <2>1. above \subseteq Nat
    BY <1>1
  <2> QED
    BY <2>1, LeastIsThere
<1>3. above = {} => Highest \in ZoomLevels
  <2> SUFFICES ASSUME above = {} PROVE Highest \in ZoomLevels
    OBVIOUS
  <2>1. \A x \in ZoomLevels : x <= current
    BY <1>1
  <2> QED
    BY <1>1, <2>1, GreatestIsThere DEF Highest
<1>4. below # {} => Max(below) \in ZoomLevels
  <2> SUFFICES ASSUME below # {} PROVE Max(below) \in ZoomLevels
    OBVIOUS
  <2>1. below \subseteq Nat /\ \A x \in below : x <= current
    <3>1. \A x \in below : x \in Nat /\ x < current
      BY <1>1
    <3> HIDE DEF below
    <3> QED
      BY <1>1, <3>1
  <2> HIDE DEF below
  <2>2. Max(below) \in below
    BY <1>1, <2>1, GreatestIsThere
  <2> QED
    BY <2>2 DEF below
<1>5. below = {} => Lowest \in ZoomLevels
  BY <1>1, LeastIsThere DEF Lowest
<1>6. CASE direction > 0
  <2>1. StepZoom(current, direction) = IF above = {} THEN Highest ELSE Min(above)
    BY <1>6 DEF StepZoom
  <2> QED
    BY <1>2, <1>3, <2>1, Zenon
<1>7. CASE direction < 0
  <2>1. StepZoom(current, direction) = IF below = {} THEN Lowest ELSE Max(below)
    BY <1>7 DEF StepZoom
  <2> QED
    BY <1>4, <1>5, <2>1, Zenon
<1>8. CASE direction = 0
  BY <1>8, <1>1 DEF StepZoom
<1> QED
  BY <1>6, <1>7, <1>8

LEMMA NormalIsLevel ==
    ASSUME NEW value \in Int PROVE NormalizeZoom(value) \in ZoomLevels
<1>1. ZoomLevels \subseteq Nat /\ DefaultZoom \in ZoomLevels
  BY ZoomAssumption
<1> DEFINE gaps == {Apart(level, value) : level \in ZoomLevels}
           near == Min(gaps)
           nearest == {level \in ZoomLevels : Apart(level, value) = near}
<1>2. gaps \subseteq Nat /\ gaps # {}
  <2>1. \A level \in Nat : Apart(level, value) \in Nat
    BY DEF Apart
  <2> QED
    BY <1>1, <2>1
<1>3. near \in gaps
  BY <1>2, LeastIsThere
<1>4. nearest # {} /\ nearest \subseteq Nat
  BY <1>1, <1>3
<1>5. Min(nearest) \in nearest
  BY <1>4, LeastIsThere
<1>6. NormalizeZoom(value) \in {DefaultZoom, Min(nearest)}
  BY DEF NormalizeZoom
<1> QED
  BY <1>1, <1>5, <1>6

\* Values that one step after another leads through, from a.
Walks(f, n, a, step) ==
    /\ f = [k \in 0 .. n |-> f[k]] /\ f[0] = a
    /\ \A k \in 1 .. n : f[k] = step[<<k, f[k - 1]>>]

LEMMA WalkExists ==
    ASSUME NEW a, NEW step
    PROVE  \A n \in Nat : \E f : Walks(f, n, a, step)
<1> DEFINE N == {n \in Nat : \E f : Walks(f, n, a, step)}
<1>1. 0 \in N
  <2> DEFINE f == [k \in 0 .. 0 |-> a]
  <2>1. Walks(f, 0, a, step)
    BY DEF Walks
  <2> QED
    BY <2>1
<1>2. ASSUME NEW n \in Nat, n \in N PROVE n + 1 \in N
  <2>1. PICK f : Walks(f, n, a, step)
    BY <1>2
  <2> DEFINE last == step[<<n + 1, f[n]>>]
  <2> HIDE DEF last
  <2> DEFINE g == [k \in 0 .. n + 1 |-> IF k = n + 1 THEN last ELSE f[k]]
  <2>2. g = [k \in 0 .. n + 1 |-> g[k]] /\ g[0] = f[0] /\ g[n + 1] = last
    OBVIOUS
  <2>3. \A k \in 0 .. n : g[k] = f[k]
    OBVIOUS
  <2> HIDE DEF g
  <2>4. ASSUME NEW k \in 1 .. n + 1 PROVE g[k] = step[<<k, g[k - 1]>>]
    <3>1. CASE k = n + 1
      <4>1. k - 1 = n /\ n \in 0 .. n
        BY <3>1
      <4>2. g[k - 1] = f[n]
        BY <4>1, <2>3
      <4>3. g[k] = last
        BY <3>1, <2>2
      <4> QED
        BY <3>1, <4>2, <4>3, Zenon DEF last
    <3>2. CASE k # n + 1
      <4>1. k \in 1 .. n /\ k - 1 \in 0 .. n /\ k \in 0 .. n
        BY <3>2
      <4> QED
        BY <4>1, <2>1, <2>3 DEF Walks
    <3> QED
      BY <3>1, <3>2
  <2>5. Walks(g, n + 1, a, step)
    BY <2>1, <2>2, <2>4 DEF Walks
  <2> QED
    BY <2>5
<1> HIDE DEF N
<1>3. Nat \subseteq N
  BY <1>1, <1>2, NumbersByInduction
<1> QED
  BY <1>3 DEF N

LEMMA WalkStays ==
    ASSUME NEW S, NEW n \in Nat, NEW f, f[0] \in S,
           \A k \in 1 .. n : f[k - 1] \in S => f[k] \in S
    PROVE  f[n] \in S
<1> DEFINE N == {m \in Nat : m <= n => f[m] \in S}
<1>1. 0 \in N
  OBVIOUS
<1>2. ASSUME NEW m \in Nat, m \in N PROVE m + 1 \in N
  <2> SUFFICES ASSUME m + 1 <= n PROVE f[m + 1] \in S
    OBVIOUS
  <2>1. m + 1 \in 1 .. n /\ (m + 1) - 1 = m /\ f[m] \in S
    BY <1>2
  <2> QED
    BY <2>1
<1> HIDE DEF N
<1>3. Nat \subseteq N
  BY <1>1, <1>2, NumbersByInduction
<1> QED
  BY <1>3 DEF N

LEMMA NotchesLeadToLevel ==
    ASSUME NEW current \in ZoomLevels, NEW notches \in Int
    PROVE  ZoomAfterNotches(current, notches) \in ZoomLevels
<1> DEFINE n == Apart(notches, 0)
           Eq(f) == f = [k \in 0 .. n |-> IF k = 0 THEN current
                                        ELSE StepZoom(f[k - 1], notches)]
           after == CHOOSE f : Eq(f)
           step == [p \in (1 .. n) \X ZoomLevels |-> StepZoom(p[2], notches)]
<1>1. ZoomAfterNotches(current, notches) = after[n]
  BY DEF ZoomAfterNotches
<1>2. n \in Nat
  BY DEF Apart
<1> HIDE DEF n
<1>3. \A k \in 1 .. n, c \in ZoomLevels :
          step[<<k, c>>] = StepZoom(c, notches) /\ step[<<k, c>>] \in ZoomLevels
  BY StepIsLevel
<1> HIDE DEF step
<1>4. PICK f : Walks(f, n, current, step)
  BY <1>2, WalkExists
<1>5. ASSUME NEW m \in 0 .. n PROVE f[m] \in ZoomLevels
  <2>1. ASSUME NEW k \in 1 .. m, f[k - 1] \in ZoomLevels PROVE f[k] \in ZoomLevels
    <3>1. k \in 1 .. n
      BY <1>2
    <3>2. f[k] = step[<<k, f[k - 1]>>]
      BY <1>4, <3>1 DEF Walks
    <3> QED
      BY <1>3, <2>1, <3>1, <3>2
  <2>2. m \in Nat /\ f[0] \in ZoomLevels
    BY <1>2, <1>4 DEF Walks
  <2> QED
    BY <2>1, <2>2, WalkStays
<1>6. Eq(f)
  <2>1. ASSUME NEW k \in 0 .. n
        PROVE  f[k] = IF k = 0 THEN current ELSE StepZoom(f[k - 1], notches)
    <3>1. CASE k = 0
      BY <3>1, <1>4 DEF Walks
    <3>2. CASE k # 0
      <4>1. k \in 1 .. n /\ k - 1 \in 0 .. n
        BY <3>2, <1>2
      <4> QED
        BY <3>2, <4>1, <1>3, <1>4, <1>5 DEF Walks
    <3> QED
      BY <3>1, <3>2
  <2>2. f = [k \in 0 .. n |-> f[k]]
    BY <1>4 DEF Walks
  <2> QED
    BY <2>1, <2>2
<1>7. Eq(after)
  BY <1>6
<1> HIDE DEF after
<1>8. after[0] = current
  BY <1>2, <1>7
<1>9. ASSUME NEW k \in 1 .. n, after[k - 1] \in ZoomLevels PROVE after[k] \in ZoomLevels
  <2>1. k \in 0 .. n /\ k # 0
    BY <1>2
  <2>2. after[k] = StepZoom(after[k - 1], notches)
    BY <1>7, <2>1
  <2> QED
    BY <1>9, <2>2, StepIsLevel
<1>10. after[n] \in ZoomLevels
  <2> HIDE DEF Eq
  <2> QED
    BY <1>2, <1>8, <1>9, WalkStays
<1> QED
  BY <1>1, <1>10

-----------------------------------------------------------------------------
(* A burst of the wheel, and the steps of the window.                        *)

Messages == [delta : Int, zooms : BOOLEAN]
Turns == [left : Int, target : ZoomLevels, notches : Int]

LEMMA NotchesAreWhole ==
    ASSUME NEW moved \in Int PROVE WholeNotches(moved) \in Int /\ LeftOver(moved) \in Int
<1>1. Notch \in Nat \ {0}
  BY ZoomAssumption
<1>2. WholeNotches(moved) \in Int
  BY <1>1 DEF WholeNotches
<1> QED
  BY <1>1, <1>2 DEF LeftOver

LEMMA BurstIsWithin ==
    ASSUME wheel \in Seq(Messages) PROVE BurstLength \in 0 .. Len(wheel)
<1> DEFINE I == {i \in 1 .. Len(wheel) : ~ wheel[i].zooms}
<1>1. Burst = IF I # {} THEN Min(I) ELSE 0
  BY DEF Burst, SelectInSeq
<1>2. Len(wheel) \in Nat /\ I \subseteq Nat
  OBVIOUS
<1>3. CASE I # {}
  <2>1. Min(I) \in I
    BY <1>2, <1>3, LeastIsThere
  <2> QED
    BY <1>1, <1>2, <1>3, <2>1 DEF BurstLength
<1>4. CASE I = {}
  BY <1>1, <1>2, <1>4 DEF BurstLength
<1> QED
  BY <1>3, <1>4

LEMMA BurstReachesLevel ==
    ASSUME wheel \in Seq(Messages), zoomWheel \in Int, gridZoom \in ZoomLevels
    PROVE  Reached \in Turns
<1> DEFINE n == BurstLength
           first == [left |-> zoomWheel, target |-> gridZoom, notches |-> 0]
           next(before, delta, one) ==
              [left |-> LeftOver(before.left + delta),
               target |-> ZoomAfterNotches(before.target, WholeNotches(before.left + delta)),
               notches |-> before.notches
                           + IF one THEN WholeNotches(before.left + delta)
                             ELSE Apart(WholeNotches(before.left + delta), 0)]
           Eq(f) == f = [k \in 0 .. n |-> IF k = 0 THEN first
                                        ELSE next(f[k - 1], wheel[k].delta, k = 1)]
           after == CHOOSE f : Eq(f)
           step == [p \in (1 .. n) \X Turns |-> next(p[2], wheel[p[1]].delta, p[1] = 1)]
<1>1. Reached = after[n]
  BY DEF Reached
<1>2. n \in Nat /\ \A k \in 1 .. n : wheel[k].delta \in Int
  <2>1. n \in 0 .. Len(wheel) /\ Len(wheel) \in Nat
    BY BurstIsWithin
  <2> HIDE DEF n
  <2>2. \A k \in 1 .. n : wheel[k] \in Messages
    BY <2>1
  <2> QED
    BY <2>1, <2>2 DEF Messages
<1> HIDE DEF n
<1>3. ASSUME NEW t \in Turns, NEW d \in Int, NEW one \in BOOLEAN
      PROVE  next(t, d, one) \in Turns
  <2>1. t.left \in Int /\ t.target \in ZoomLevels /\ t.notches \in Int
    BY DEF Turns
  <2> DEFINE moved == t.left + d
             whole == WholeNotches(moved)
  <2>2. moved \in Int
    BY <2>1
  <2> HIDE DEF moved
  <2>3. whole \in Int /\ LeftOver(moved) \in Int
    BY <2>2, NotchesAreWhole
  <2> HIDE DEF whole
  <2>4. ZoomAfterNotches(t.target, whole) \in ZoomLevels
    BY <2>1, <2>3, NotchesLeadToLevel
  <2>5. t.notches + (IF one THEN whole ELSE Apart(whole, 0)) \in Int
    BY <2>1, <2>3 DEF Apart
  <2>6. next(t, d, one) =
          [left |-> LeftOver(moved), target |-> ZoomAfterNotches(t.target, whole),
           notches |-> t.notches + IF one THEN whole ELSE Apart(whole, 0)]
    BY DEF moved, whole
  <2> HIDE DEF next
  <2> QED
    BY <2>3, <2>4, <2>5, <2>6 DEF Turns
<1>4. first \in Turns
  BY DEF Turns
<1> HIDE DEF next, first
<1>5. \A k \in 1 .. n, t \in Turns :
          /\ step[<<k, t>>] = next(t, wheel[k].delta, k = 1)
          /\ next(t, wheel[k].delta, k = 1) \in Turns
  <2> TAKE k \in 1 .. n, t \in Turns
  <2>1. next(t, wheel[k].delta, k = 1) \in Turns
    BY <1>2, <1>3
  <2>2. <<k, t>> \in (1 .. n) \X Turns
    OBVIOUS
  <2> QED
    BY <2>1, <2>2
<1> HIDE DEF step
<1>6. PICK f : Walks(f, n, first, step)
  BY <1>2, WalkExists
<1>7. ASSUME NEW m \in 0 .. n PROVE f[m] \in Turns
  <2>1. ASSUME NEW k \in 1 .. m, f[k - 1] \in Turns PROVE f[k] \in Turns
    <3>1. k \in 1 .. n
      BY <1>2
    <3>2. f[k] = step[<<k, f[k - 1]>>]
      BY <1>6, <3>1 DEF Walks
    <3> QED
      BY <1>5, <2>1, <3>1, <3>2
  <2>2. m \in Nat /\ f[0] \in Turns
    BY <1>2, <1>4, <1>6 DEF Walks
  <2> QED
    BY <2>1, <2>2, WalkStays
<1>8. Eq(f)
  <2>1. ASSUME NEW k \in 0 .. n
        PROVE  f[k] = IF k = 0 THEN first ELSE next(f[k - 1], wheel[k].delta, k = 1)
    <3>1. CASE k = 0
      BY <3>1, <1>6 DEF Walks
    <3>2. CASE k # 0
      <4>1. k \in 1 .. n /\ k - 1 \in 0 .. n
        BY <3>2, <1>2
      <4>2. f[k] = step[<<k, f[k - 1]>>] /\ f[k - 1] \in Turns
        BY <1>6, <1>7, <4>1 DEF Walks
      <4>3. f[k] = next(f[k - 1], wheel[k].delta, k = 1)
        BY <1>5, <4>1, <4>2
      <4> QED
        BY <3>2, <4>3
    <3> QED
      BY <3>1, <3>2
  <2>2. f = [k \in 0 .. n |-> f[k]]
    BY <1>6 DEF Walks
  <2> QED
    BY <2>1, <2>2
<1>9. Eq(after)
  BY <1>8
<1> HIDE DEF after
<1>10. after[0] = first
  BY <1>2, <1>9
<1>11. ASSUME NEW k \in 1 .. n, after[k - 1] \in Turns PROVE after[k] \in Turns
  <2>1. k \in 0 .. n /\ k # 0
    BY <1>2
  <2>2. after[k] = next(after[k - 1], wheel[k].delta, k = 1)
    BY <1>9, <2>1
  <2> QED
    BY <1>2, <1>3, <1>11, <2>2
<1>12. after[n] \in Turns
  <2> HIDE DEF Eq
  <2> QED
    BY <1>2, <1>4, <1>10, <1>11, WalkStays
<1> QED
  BY <1>1, <1>12

\* A change of zoom, or none, leaves both tabs with what was chosen in them.
LEMMA SettingZoomIsOK ==
    ASSUME WidthsIInv, NEW zoom \in Int, SetGridZoom(zoom)
    PROVE  /\ gridZoom' \in ZoomLevels
           /\ GridOK(grid', gridZoom') /\ Listed(grid') /\ GridOK(kept', gridZoom')
<1>1. CASE NormalizeZoom(zoom) = gridZoom
  BY <1>1 DEF SetGridZoom, WidthsIInv
<1>2. CASE NormalizeZoom(zoom) # gridZoom
  <2>1. /\ gridZoom' = NormalizeZoom(zoom)
        /\ grid' = Rescaled(grid, gridZoom, gridZoom')
        /\ kept' = Rescaled(kept, gridZoom, gridZoom')
    BY <1>2 DEF SetGridZoom
  <2>2. gridZoom' \in ZoomLevels
    BY <2>1, NormalIsLevel
  <2>3. /\ gridZoom \in Nat /\ gridZoom > 0 /\ gridZoom' \in Nat /\ gridZoom' > 0
    BY <2>2, ZoomAssumption DEF WidthsIInv
  <2>4. GridOK(Rescaled(grid, gridZoom, gridZoom'), gridZoom')
        /\ Listed(Rescaled(grid, gridZoom, gridZoom'))
    BY <2>3, RescaledIsOK DEF WidthsIInv
  <2>5. GridOK(Rescaled(kept, gridZoom, gridZoom'), gridZoom')
    BY <2>3, RescaledIsOK DEF WidthsIInv
  <2> QED
    BY <2>1, <2>2, <2>4, <2>5
<1> QED
  BY <1>1, <1>2

\* The window starts with the columns of an empty document, at the saved zoom.
LEMMA FirstGridIsOK ==
    ASSUME NEW z \in Nat, z > 0,
           NEW r, r = Widened(WithColumns(NoGrid, 1, RowColumnWidth, z), "Preview", 1, z)
    PROVE  GridOK(r, z) /\ Listed(r)
<1> DEFINE g == WithColumns(NoGrid, 1, RowColumnWidth, z)
<1>1. /\ NoGrid \in Grids /\ NoGrid.kind = "none" /\ NoGrid.count = 0
      /\ Len(NoGrid.widths) = 0 /\ Len(NoGrid.chosen) = 0 /\ Len(NoGrid.bases) = 0
  BY DEF NoGrid, Grids
<1>2. RowColumnWidth \in Nat
  BY DEF RowColumnWidth
<1>3. /\ g \in Grids /\ g.kind = "none" /\ g.count = 0
      /\ Len(g.widths) = 1 /\ Len(g.chosen) = 1 /\ Len(g.bases) >= 1
      /\ \A i \in 1 .. 1 : /\ g.bases[i] = NewBasis(RowColumnWidth, z)
                          /\ g.widths[i] = NewBasis(RowColumnWidth, z).applied
                          /\ g.chosen[i] = Opened(RowColumnWidth)
  <2>1. Gains(g, NoGrid, 1, RowColumnWidth, z)
    BY <1>1, <1>2, WithColumnsIs
  <2>2. Len(NoGrid.widths) + 1 = 1
    BY <1>1
  <2> HIDE DEF g
  <2> QED
    BY <1>1, <2>1, <2>2 DEF Gains
<1> HIDE DEF g
<1>4. SizesOK(g) /\ Listed(g)
  BY <1>3 DEF SizesOK, Listed
<1>5. ASSUME NEW i \in 1 .. 1 PROVE ColumnOK(g, i, z)
  BY <1>2, <1>3, NewBasisIsFresh DEF ColumnOK
<1>6. GridOK(g, z)
  BY <1>3, <1>4, <1>5 DEF GridOK
<1>7. r = Widened(g, "Preview", 1, z) /\ "Preview" \in Kinds
  BY DEF g, Kinds
<1> QED
  BY <1>3, <1>4, <1>6, <1>7, WidenedIs

LEMMA WidthsStart == ZoomInit => WidthsIInv
<1> SUFFICES ASSUME ZoomInit PROVE WidthsIInv
  OBVIOUS
<1>1. PICK saved \in SavedZooms : gridZoom = NormalizeZoom(saved)
  BY DEF ZoomInit
<1>2. gridZoom \in ZoomLevels /\ gridZoom \in Nat /\ gridZoom > 0
  <2>1. saved \in Int
    BY ZoomAssumption
  <2>2. gridZoom \in ZoomLevels
    BY <1>1, <2>1, NormalIsLevel
  <2> QED
    BY <2>2, ZoomAssumption
<1>3. GridOK(grid, gridZoom) /\ Listed(grid)
  BY <1>2, FirstGridIsOK DEF ZoomInit
<1>4. GridOK(NoGrid, gridZoom)
  <2>1. NoGrid \in Grids /\ SizesOK(NoGrid) /\ Len(NoGrid.widths) = 0
    BY DEF NoGrid, Grids, SizesOK
  <2> QED
    BY <2>1 DEF GridOK
<1>5. zoomWheel \in Int /\ wheel \in Seq(Messages)
  BY DEF ZoomInit
<1> QED
  BY <1>2, <1>3, <1>4, <1>5 DEF WidthsIInv, ZoomInit, Messages

\* A column that the user drags.
LEMMA ResizingIsOK ==
    ASSUME WidthsIInv, NEW i \in Nat, NEW width \in Nat, ResizeColumn(i, width)
    PROVE  GridOK(grid', gridZoom) /\ Listed(grid')
<1> DEFINE n == Len(grid.widths)
           c == ChosenAt(grid.bases[i], width)
           widths == [grid.widths EXCEPT ![i] = width]
           chosen == [grid.chosen EXCEPT ![i] = c]
           r == grid'
<1>1. /\ grid \in Grids /\ SizesOK(grid) /\ n \in Nat /\ grid.count \in Nat
      /\ Len(grid.chosen) = n /\ n <= Len(grid.bases) /\ Len(grid.bases) \in Nat
      /\ grid.widths \in Seq(Nat) /\ grid.chosen \in Seq(Wishes)
      /\ DOMAIN grid.widths = 1 .. n /\ DOMAIN grid.chosen = 1 .. n
  BY GridParts DEF WidthsIInv, GridOK, SizesOK
<1>2. i \in 1 .. n /\ grid.bases[i] \in Bases
  <2>1. i \in 1 .. n
    BY <1>1 DEF ResizeColumn
  <2>2. i \in 1 .. Len(grid.bases)
    BY <1>1, <2>1
  <2> QED
    BY <1>1, <2>1, <2>2, GridParts
<1>3. gridZoom \in Nat \ {0}
  BY ZoomAssumption DEF WidthsIInv
<1>4. c \in Wishes
  BY <1>2, <1>3 DEF ChosenAt, Bases, Wishes
<1>5. Tracks(width, grid.bases[i], c, gridZoom)
  BY DEF Tracks, ChosenAt
<1> HIDE DEF c
<1>6. r = [grid EXCEPT !.widths = widths, !.chosen = chosen]
  <2>1. r = [grid EXCEPT !.widths[i] = width, !.chosen[i] = c]
    BY DEF ResizeColumn, c
  <2> QED
    BY <1>1, <2>1 DEF Grids
<1>7. /\ widths \in Seq(Nat) /\ Len(widths) = n
      /\ chosen \in Seq(Wishes) /\ Len(chosen) = n
      /\ widths[i] = width /\ chosen[i] = c
      /\ \A j \in 1 .. n : j # i => widths[j] = grid.widths[j] /\ chosen[j] = grid.chosen[j]
  BY <1>1, <1>2, <1>4
<1> HIDE DEF widths, chosen
<1>8. /\ r \in Grids /\ r.kind = grid.kind /\ r.count = grid.count
      /\ r.bases = grid.bases /\ r.widths = widths /\ r.chosen = chosen
  <2>1. grid = [kind |-> grid.kind, count |-> grid.count, widths |-> grid.widths,
                bases |-> grid.bases, chosen |-> grid.chosen]
    BY <1>1 DEF Grids
  <2>2. r = [kind |-> grid.kind, count |-> grid.count, widths |-> widths,
             bases |-> grid.bases, chosen |-> chosen]
    BY <1>6, <2>1
  <2>3. /\ grid.kind \in Kinds \cup {"none"} /\ grid.count \in Nat
        /\ grid.bases \in Seq(Bases)
    BY <1>1, GridParts
  <2> QED
    BY <2>2, <2>3, <1>7 DEF Grids
<1> HIDE DEF r
<1>9. Len(r.widths) = n /\ Len(r.chosen) = n /\ Len(r.bases) = Len(grid.bases)
  BY <1>7, <1>8, Zenon
<1>10. SizesOK(r) /\ Listed(r)
  BY <1>1, <1>8, <1>9 DEF SizesOK, Listed, WidthsIInv
<1>11. ASSUME NEW j \in 1 .. n PROVE ColumnOK(r, j, gridZoom)
  <2>1. ColumnOK(grid, j, gridZoom)
    BY DEF WidthsIInv, GridOK
  <2>2. CASE j = i
    <3>1. Tracks(r.widths[i], r.bases[i], r.chosen[i], gridZoom)
      BY <1>5, <1>7, <1>8
    <3> QED
      BY <2>1, <2>2, <3>1, <1>8 DEF ColumnOK
  <2>3. CASE j # i
    BY <2>1, <2>3, <1>7, <1>8 DEF ColumnOK
  <2> QED
    BY <2>2, <2>3
<1>12. GridOK(r, gridZoom)
  BY <1>8, <1>9, <1>10, <1>11 DEF GridOK
<1> QED
  BY <1>10, <1>12 DEF r

\* A worker reports columns to a tab that is not shown.
LEMMA GrowingIsOK ==
    ASSUME NEW z, NEW g, GridOK(g, z), NEW layout \in [kind : Kinds, count : Nat],
           Fits(g, layout),
           NEW r, r = [g EXCEPT !.kind = layout.kind, !.count = Max({@, layout.count})]
    PROVE  GridOK(r, z)
<1> DEFINE m == Max({g.count, layout.count})
<1>1. g \in Grids /\ SizesOK(g) /\ g.count \in Nat /\ Len(g.widths) \in Nat
  BY GridParts DEF GridOK
<1>2. layout.kind \in Kinds /\ layout.count \in Nat
  OBVIOUS
<1>3. m \in Nat /\ m >= g.count
  BY <1>1, <1>2, LargerOfTwo
<1>4. r = [g EXCEPT !.kind = layout.kind, !.count = m]
  BY <1>1 DEF Grids
<1> HIDE DEF m
<1>5. /\ r \in Grids /\ r.kind = layout.kind /\ r.count = m
      /\ r.bases = g.bases /\ r.widths = g.widths /\ r.chosen = g.chosen
  BY <1>1, <1>2, <1>3, <1>4 DEF Grids
<1>6. SizesOK(r)
  BY <1>1, <1>2, <1>3, <1>5 DEF SizesOK, Kinds
<1>7. ASSUME NEW i \in 1 .. Len(r.widths) PROVE ColumnOK(r, i, z)
  <2>1. ColumnOK(g, i, z)
    BY <1>5 DEF GridOK
  <2>2. i > 1 => g.kind = layout.kind
    <3>1. Len(g.widths) <= g.count + 1 /\ (g.kind = "none" => g.count = 0)
      BY <1>1 DEF SizesOK
    <3> QED
      BY <1>1, <1>5, <3>1 DEF Fits
  <2>3. Exact(r.chosen[i], i, r.kind) => Exact(g.chosen[i], i, g.kind)
    BY <2>2, <1>5 DEF Exact
  <2> QED
    BY <2>1, <2>3, <1>5 DEF ColumnOK
<1> QED
  BY <1>5, <1>6, <1>7 DEF GridOK

LEMMA RestIsSequence ==
    ASSUME NEW S, NEW s \in Seq(S), NEW m \in 1 .. Len(s) + 1
    PROVE  SubSeq(s, m, Len(s)) \in Seq(S)
<1> DEFINE n == Len(s)
           k == n - m + 1
           rest == [i \in 1 .. k |-> s[i + m - 1]]
<1>1. n \in Nat /\ k \in Nat
  OBVIOUS
<1>2. ASSUME NEW i \in 1 .. k PROVE s[i + m - 1] \in S
  <2>1. i + m - 1 \in 1 .. Len(s)
    BY <1>1
  <2> QED
    BY <2>1
<1>3. rest \in [1 .. k -> S]
  BY <1>2
<1>4. SubSeq(s, m, n) = rest
  BY <1>1
<1> QED
  BY <1>1, <1>3, <1>4, FunctionIsSequence

\* Every step of the window keeps the invariant: a change of zoom, a message of the
\* wheel, a column dragged or reported, a tab opened, shown or closed.
LEMMA WidthsStep == WidthsIInv /\ [ZoomNext]_zoomVars => WidthsIInv'
<1> SUFFICES ASSUME WidthsIInv, [ZoomNext]_zoomVars PROVE WidthsIInv'
  OBVIOUS
<1>0. /\ gridZoom \in ZoomLevels /\ gridZoom \in Nat /\ gridZoom > 0
      /\ GridOK(grid, gridZoom) /\ Listed(grid) /\ GridOK(kept, gridZoom)
      /\ zoomWheel \in Int /\ wheel \in Seq(Messages)
  BY ZoomAssumption DEF WidthsIInv, Messages
<1>1. ASSUME NEW direction \in {-1, 0, 1}, ZoomGrid(direction) PROVE WidthsIInv'
  <2>1. StepZoom(gridZoom, direction) \in Int
    <3>1. StepZoom(gridZoom, direction) \in ZoomLevels
      BY <1>0, StepIsLevel
    <3>2. ZoomLevels \subseteq Int
      BY ZoomAssumption
    <3> DEFINE level == StepZoom(gridZoom, direction)
    <3> HIDE DEF level
    <3>3. level \in Int
      BY <3>1, <3>2 DEF level
    <3> QED
      BY <3>3 DEF level
  <2>2. /\ gridZoom' \in ZoomLevels
        /\ GridOK(grid', gridZoom') /\ Listed(grid') /\ GridOK(kept', gridZoom')
    BY <1>1, <2>1, SettingZoomIsOK DEF ZoomGrid
  <2> QED
    BY <1>0, <1>1, <2>2 DEF ZoomGrid, WidthsIInv, Messages
<1>2. ASSUME NEW delta \in WheelDeltas, NEW zooms \in BOOLEAN, WheelMoves(delta, zooms)
      PROVE  WidthsIInv'
  <2>1. [delta |-> delta, zooms |-> zooms] \in Messages
    BY ZoomAssumption DEF Messages
  <2>2. wheel' \in Seq(Messages)
    BY <1>0, <1>2, <2>1 DEF WheelMoves
  <2> QED
    BY <1>0, <1>2, <2>2 DEF WheelMoves, WidthsIInv, Messages
<1>3. CASE ZoomByWheel
  <2>1. /\ Reached.left \in Int /\ Reached.target \in Int
    <3>1. Reached \in Turns
      BY <1>0, BurstReachesLevel
    <3>2. Reached.left \in Int /\ Reached.target \in ZoomLevels
      BY <3>1 DEF Turns
    <3>3. ZoomLevels \subseteq Int
      BY ZoomAssumption
    <3> QED
      BY <3>2, <3>3
  <2>2. /\ gridZoom' \in ZoomLevels
        /\ GridOK(grid', gridZoom') /\ Listed(grid') /\ GridOK(kept', gridZoom')
    <3>1. CASE Reached.notches = 0
      BY <1>0, <1>3, <3>1 DEF ZoomByWheel
    <3>2. CASE Reached.notches # 0
      <4>1. SetGridZoom(Reached.target)
        BY <1>3, <3>2 DEF ZoomByWheel
      <4> QED
        BY <2>1, <4>1, SettingZoomIsOK
    <3> QED
      BY <3>1, <3>2
  <2>3. wheel' \in Seq(Messages)
    <3>1. wheel' = SubSeq(wheel, BurstLength + 1, Len(wheel))
      BY <1>3 DEF ZoomByWheel
    <3>2. BurstLength \in 0 .. Len(wheel) /\ Len(wheel) \in Nat
      BY <1>0, BurstIsWithin
    <3>3. BurstLength + 1 \in 1 .. Len(wheel) + 1
      BY <3>2
    <3> QED
      BY <1>0, <3>1, <3>3, RestIsSequence, Zenon
  <2>4. zoomWheel' \in Int
    BY <1>3, <2>1 DEF ZoomByWheel
  <2> QED
    BY <2>2, <2>3, <2>4 DEF WidthsIInv, Messages
<1>4. CASE ScrollByWheel
  <2>1. wheel' \in Seq(Messages)
    BY <1>0, <1>4 DEF ScrollByWheel
  <2> QED
    BY <1>0, <1>4, <2>1 DEF ScrollByWheel, WidthsIInv, Messages
<1>5. ASSUME NEW width \in UserWidths, NEW i \in 1 .. 4, ResizeColumn(i, width)
      PROVE  WidthsIInv'
  <2>1. GridOK(grid', gridZoom) /\ Listed(grid')
    BY <1>5, ResizingIsOK, ZoomAssumption
  <2> QED
    BY <1>0, <1>5, <2>1 DEF ResizeColumn, WidthsIInv, Messages
<1>6. ASSUME NEW layout \in Layouts, ReportShown(layout) PROVE WidthsIInv'
  <2>1. layout.kind \in Kinds /\ layout.count \in Nat
    BY ZoomAssumption DEF Kinds
  <2>2. grid.kind \in {"none", layout.kind} /\ layout.kind # "none"
    BY <1>6, <2>1 DEF ReportShown, Fits, Kinds
  <2>3. grid' = Widened(grid, layout.kind, layout.count, gridZoom)
    BY <1>6 DEF ReportShown
  <2> DEFINE kind == layout.kind
             count == layout.count
  <2> HIDE DEF kind, count
  <2>4. GridOK(grid', gridZoom) /\ Listed(grid')
    <3>1. kind \in Kinds \cup {"none"} /\ kind # "none" /\ count \in Nat
          /\ grid.kind \in {"none", kind}
      BY <2>1, <2>2 DEF kind, count
    <3>2. ASSUME NEW r, r = Widened(grid, kind, count, gridZoom)
          PROVE  GridOK(r, gridZoom) /\ Listed(r)
      BY <1>0, <3>1, <3>2, WidenedIs
    <3> QED
      BY <2>3, <3>2 DEF kind, count
  <2> QED
    BY <1>0, <1>6, <2>4 DEF ReportShown, WidthsIInv, Messages
<1>7. ASSUME NEW layout \in Layouts, ReportKept(layout) PROVE WidthsIInv'
  <2>1. layout \in [kind : Kinds, count : Nat]
    BY ZoomAssumption DEF Kinds
  <2>2. GridOK(kept', gridZoom)
    BY <1>0, <1>7, <2>1, GrowingIsOK DEF ReportKept
  <2> QED
    BY <1>0, <1>7, <2>2 DEF ReportKept, WidthsIInv, Messages
<1>8. ASSUME NEW flag \in BOOLEAN, OpenGrid(flag) PROVE WidthsIInv'
  <2>1. GridOK(grid', gridZoom) /\ Listed(grid')
    BY <1>0, <1>8, WithoutDataIs DEF OpenGrid
  <2>2. GridOK(kept', gridZoom)
    BY <1>0, <1>8 DEF OpenGrid
  <2> QED
    BY <1>0, <1>8, <2>1, <2>2 DEF OpenGrid, WidthsIInv, Messages
<1>9. ASSUME NEW flag \in BOOLEAN, ShowKept(flag) PROVE WidthsIInv'
  <2>1. GridOK(grid', gridZoom) /\ Listed(grid')
    BY <1>0, <1>9, RestoredIsOK DEF ShowKept
  <2>2. GridOK(kept', gridZoom)
    <3>1. GridOK(NoGrid, gridZoom)
      <4>1. NoGrid \in Grids /\ SizesOK(NoGrid) /\ Len(NoGrid.widths) = 0
        BY DEF NoGrid, Grids, SizesOK
      <4> QED
        BY <4>1 DEF GridOK
    <3>2. kept' = NoGrid \/ kept' = grid
      BY <1>9 DEF ShowKept
    <3> QED
      BY <1>0, <3>1, <3>2
  <2> QED
    BY <1>0, <1>9, <2>1, <2>2 DEF ShowKept, WidthsIInv, Messages
<1>10. CASE UNCHANGED zoomVars
  BY <1>0, <1>10 DEF zoomVars, WidthsIInv, Messages
<1> QED
  BY <1>1, <1>2, <1>3, <1>4, <1>5, <1>6, <1>7, <1>8, <1>9, <1>10 DEF ZoomNext

\* The invariant says of each exact column what the property does.
LEMMA WidthsIInvIsEnough == WidthsIInv => WidthsFollowTheZoom
<1> SUFFICES ASSUME WidthsIInv, NEW g \in {grid, kept}, NEW i \in DOMAIN g.widths,
                    Untouched(g, i) \/ ~ g.chosen[i].moved
             PROVE  AsChosen(g, i)
  BY DEF WidthsFollowTheZoom
<1>1. /\ gridZoom \in Nat /\ gridZoom > 0 /\ GridOK(g, gridZoom)
  BY ZoomAssumption DEF WidthsIInv
<1>2. /\ g \in Grids /\ Len(g.widths) \in Nat /\ Len(g.bases) \in Nat
      /\ g.widths \in Seq(Nat)
      /\ Len(g.chosen) = Len(g.widths) /\ Len(g.widths) <= Len(g.bases)
  BY <1>1, GridParts DEF GridOK, SizesOK
<1>3. i \in 1 .. Len(g.widths) /\ i \in 1 .. Len(g.bases) /\ i \in 1 .. Len(g.chosen)
  BY <1>2
<1>4. g.widths[i] \in Nat /\ g.bases[i] \in Bases /\ g.chosen[i] \in Wishes
  BY <1>2, <1>3, GridParts
<1>5. Exact(g.chosen[i], i, g.kind)
  BY DEF Exact, Untouched
<1>6. /\ Fresh(g.bases[i], gridZoom)
      /\ Tracks(g.widths[i], g.bases[i], g.chosen[i], gridZoom)
  BY <1>1, <1>3, <1>5 DEF GridOK, ColumnOK
<1> QED
  BY <1>1, <1>4, <1>6, TrackedIsAsChosen DEF AsChosen

\* However the rows are zoomed, columns dragged and reported, and tabs opened, shown
\* and closed, at any levels, a column that nobody resized is as wide as one that
\* opens, and one that was resized follows the width it was given until its tab is
\* left (zoom.rs:78, ColumnZoom).
THEOREM ColumnsFollowTheZoom == ZoomSpec => []WidthsFollowTheZoom
<1>1. ZoomSpec => []WidthsIInv
  BY WidthsStart, WidthsStep, PTL DEF ZoomSpec
<1> QED
  BY <1>1, WidthsIInvIsEnough, PTL

=============================================================================
