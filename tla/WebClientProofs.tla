--------------------------- MODULE WebClientProofs ---------------------------
(***************************************************************************)
(* The properties of WebClient, for any number of rows, loads, writes,     *)
(* firms, lines and invoices.                                              *)
(***************************************************************************)
EXTENDS WebClientInductive, FiniteSetTheorems, WellFoundedInduction, TLAPS

-----------------------------------------------------------------------------
(* Numbers and pages *)

LEMMA LeastNat ==
  ASSUME NEW T, T \subseteq Nat, T # {}
  PROVE  \E n \in T : \A m \in T : n <= m
<1> DEFINE R == OpToRel(<, Nat)
<1>1. \A m, n \in Nat : m < n => <<m, n>> \in R
  BY DEF OpToRel
<1>2. IsWellFoundedOn(R, Nat)
  BY NatLessThanWellFounded
<1> HIDE DEF R
<1>3. PICK n \in T : \A m \in T : ~(<<m, n>> \in R)
  BY <1>2, WFMin
<1>4. \A m \in T : ~(m < n)
  BY <1>1, <1>3
<1>5. QED
  BY <1>4

LEMMA MaxOfTwo ==
  ASSUME NEW a \in Int, NEW b \in Int
  PROVE  Max({a, b}) = IF a >= b THEN a ELSE b
<1>1. CASE a >= b
  BY <1>1 DEF Max
<1>2. CASE ~(a >= b)
  BY <1>2 DEF Max
<1>3. QED
  BY <1>1, <1>2

LEMMA MinOfTwo ==
  ASSUME NEW a \in Int, NEW b \in Int
  PROVE  Min({a, b}) = IF a <= b THEN a ELSE b
<1>1. CASE a <= b
  BY <1>1 DEF Min
<1>2. CASE ~(a <= b)
  BY <1>2 DEF Min
<1>3. QED
  BY <1>1, <1>2

(* The last page is the first one, or there is a row before it.            *)
LEMMA LastPage ==
  ASSUME NEW n \in Nat, NEW size \in {1, 2}, NEW p, p = PageCount(n, size)
  PROVE  /\ p \in Nat \ {0}
         /\ p = 1 \/ (p - 1) * size < n
         /\ p = 1 \/ p <= n
         /\ n <= p * size
<1>1. CASE size = 1
  <2>1. n + size - 1 \in Int /\ (n + size - 1) \div size = n
    BY <1>1
  <2>2. p = IF 1 >= n THEN 1 ELSE n
    BY <2>1, MaxOfTwo DEF PageCount
  <2>3. QED
    BY <1>1, <2>2
<1>2. CASE size = 2
  <2> DEFINE q == (n + 1) \div 2
  <2>1. q \in Int /\ 2 * q <= n + 1 /\ n <= 2 * q
    OBVIOUS
  <2>2. p = Max({1, q})
    BY <1>2 DEF PageCount
  <2> HIDE DEF q
  <2>3. p = IF 1 >= q THEN 1 ELSE q
    BY <2>1, <2>2, MaxOfTwo
  <2>4. QED
    BY <1>2, <2>1, <2>3
<1>3. QED
  BY <1>1, <1>2

LEMMA ListedFinite ==
  ASSUME NEW rows
  PROVE  LET n == Cardinality({r \in Rows : rows[r] # Gone})
         IN  n \in Nat /\ n <= Size
<1> DEFINE S == {r \in Rows : rows[r] # Gone}
<1>1. Size \in Nat /\ 1 \in Int /\ Size \in Int
  BY ListPageConstants DEF ListPageConstants
<1>2. IsFiniteSet(Rows) /\ Cardinality(Rows) = Size
  BY <1>1, FS_Interval DEF Rows
<1>3. S \in SUBSET Rows
  OBVIOUS
<1> HIDE DEF S
<1>4. IsFiniteSet(S) /\ Cardinality(S) <= Size
  BY <1>2, <1>3, FS_Subset
<1>5. Cardinality(S) \in Nat
  BY <1>4, FS_CardinalityType
<1>6. QED
  BY <1>4, <1>5 DEF S

(* The ranks of the elements of a set of rows are the numbers up to its    *)
(* size.                                                                   *)
LEMMA RankTaken ==
  ASSUME NEW S \in SUBSET Rows, NEW k \in 1 .. Cardinality(S)
  PROVE  \E r \in S : Cardinality({s \in S : s <= r}) = k
<1> DEFINE below(n) == {s \in S : s <= n}
           T == {n \in Nat : Cardinality(below(n)) >= k}
<1>1. Size \in Nat /\ IsFiniteSet(S) /\ \A s \in S : s \in Nat /\ 1 <= s /\ s <= Size
  <2>1. Size \in Nat /\ IsFiniteSet(Rows)
    BY ListPageConstants, FS_Interval DEF ListPageConstants, Rows
  <2>2. IsFiniteSet(S)
    BY <2>1, FS_Subset
  <2>3. ASSUME NEW s \in S PROVE s \in Nat /\ 1 <= s /\ s <= Size
    <3>1. s \in 1 .. Size
      BY DEF Rows
    <3>2. QED
      BY <2>1, <3>1
  <2>4. QED
    BY <2>1, <2>2, <2>3
<1>2. Cardinality(S) \in Nat /\ k \in Nat /\ 1 <= k /\ k <= Cardinality(S)
  BY <1>1, FS_CardinalityType
<1>3. \A n \in Nat : IsFiniteSet(below(n)) /\ Cardinality(below(n)) \in Nat
  BY <1>1, FS_Subset, FS_CardinalityType
<1>4. Size \in T
  <2>1. below(Size) = S
    BY <1>1
  <2>2. QED
    BY <1>1, <1>2, <2>1
<1>5. PICK n \in T : \A m \in T : n <= m
  BY <1>4, LeastNat
<1>6. n \in Nat /\ Cardinality(below(n)) >= k
  OBVIOUS
<1>7. n # 0
  <2>1. below(0) = {}
    BY <1>1
  <2>2. Cardinality(below(0)) = 0
    BY <2>1, FS_EmptySet
  <2>3. QED
    BY <1>2, <1>6, <2>2
<1>8. n - 1 \in Nat /\ n - 1 \notin T
  BY <1>5, <1>6, <1>7
<1>9. Cardinality(below(n - 1)) < k
  BY <1>2, <1>3, <1>8
<1>10. CASE n \in S
  <2>0. /\ \A s \in S : s <= n <=> s <= n - 1 \/ s = n
        /\ ~(n <= n - 1) /\ n <= n
    BY <1>1, <1>6
  <2>1. below(n) = below(n - 1) \cup {n} /\ n \notin below(n - 1)
    BY <1>10, <2>0
  <2>2. Cardinality(below(n)) = Cardinality(below(n - 1)) + 1
    BY <1>3, <1>8, <2>1, FS_AddElement
  <2>3. Cardinality(below(n)) = k
    BY <1>2, <1>3, <1>6, <1>8, <1>9, <2>2
  <2>4. QED
    BY <1>10, <2>3
<1>11. CASE n \notin S
  <2>0. \A s \in S : s <= n <=> s <= n - 1
    BY <1>1, <1>6, <1>11
  <2>1. below(n) = below(n - 1)
    BY <2>0
  <2>2. QED
    BY <1>2, <1>3, <1>6, <1>8, <1>9, <2>1
<1>12. QED
  BY <1>10, <1>11

(* On a page that exists there is a row.                                   *)
LEMMA PageNotEmpty ==
  ASSUME PageShape, PageExists, Listed # {}
  PROVE  PageItems # {}
<1> DEFINE n == Cardinality(Listed)
           p == PageCount(n, list.size)
           k == (list.page - 1) * list.size + 1
<1>1. list.size \in {1, 2} /\ list.page \in Nat \ {0} /\ list.page <= p
  BY DEF PageShape, ListStates, PageExists
<1>2. IsFiniteSet(Listed) /\ Listed \in SUBSET Rows
  <2>1. IsFiniteSet(Rows)
    BY ListPageConstants, FS_Interval DEF ListPageConstants, Rows
  <2>2. QED
    BY <2>1, FS_Subset DEF Listed
<1>3. n \in Nat /\ n # 0
  BY <1>2, FS_CardinalityType, FS_EmptySet
<1>4. p \in Nat \ {0} /\ (p = 1 \/ (p - 1) * list.size < n)
  BY <1>1, <1>3, LastPage
<1> HIDE DEF n, p
<1>5. k \in Nat /\ 1 <= k /\ k <= n /\ (list.page - 1) * list.size < k /\ k <= list.page * list.size
  <2>1. CASE list.size = 1
    BY <1>1, <1>3, <1>4, <2>1
  <2>2. CASE list.size = 2
    BY <1>1, <1>3, <1>4, <2>2
  <2>3. QED
    BY <1>1, <2>1, <2>2
<1> HIDE DEF k
<1>6. PICK r \in Listed : Cardinality({s \in Listed : s <= r}) = k
  <2>1. k \in 1 .. Cardinality(Listed)
    BY <1>3, <1>5 DEF n
  <2>2. QED
    BY <1>2, <2>1, RankTaken
<1>7. CASE ~Page.hook
  BY <1>7 DEF PageItems
<1>8. CASE Page.hook
  <2>1. r \in PageItems
    BY <1>5, <1>6, <1>8 DEF PageItems
  <2>2. QED
    BY <2>1
<1>9. QED
  BY <1>7, <1>8

(* The tab may leave rows out, and then there are fewer of them.           *)
LEMMA FilteredCounted ==
  /\ Filtered \subseteq Listed
  /\ Cardinality(Filtered) \in Nat /\ Cardinality(Filtered) <= Cardinality(Listed)
<1>1. Filtered \subseteq Listed
  BY DEF Filtered
<1>2. IsFiniteSet(Listed)
  <2>1. IsFiniteSet(Rows)
    BY ListPageConstants, FS_Interval DEF ListPageConstants, Rows
  <2>2. QED
    BY <2>1, FS_Subset DEF Listed
<1>3. QED
  BY <1>1, <1>2, FS_Subset, FS_CardinalityType

LEMMA TableNotEmpty == PageShape /\ PageExists => PageShowsRows
<1> SUFFICES ASSUME PageShape, PageExists, TableShown,
                    Page.tabs => list.tab = "followups"
             PROVE  RowsShown # {}
  BY DEF PageShowsRows
<1>1. Filtered = Listed
  BY DEF Filtered, Kept
<1>2. PageItems # {} /\ PageItems \subseteq Listed
  BY <1>1, PageNotEmpty DEF TableShown, PageItems
<1>3. RowsShown = PageItems
  BY <1>1, <1>2 DEF TableShown, RowsShown
<1>4. QED
  BY <1>2, <1>3

(* Fewer rows do not make more pages.                                      *)
LEMMA FewerPages ==
  ASSUME list.size \in {1, 2}
  PROVE  /\ PageCount(Cardinality(Filtered), list.size) \in Nat \ {0}
         /\ PageCount(Cardinality(Filtered), list.size)
              <= PageCount(Cardinality(Listed), list.size)
<1>1. PICK m, n : m = Cardinality(Filtered) /\ n = Cardinality(Listed)
  OBVIOUS
<1>2. m \in Nat /\ n \in Nat /\ m <= n
  BY <1>1, FilteredCounted, ListedFinite DEF Listed
<1> DEFINE p == PageCount(m, list.size)
           q == PageCount(n, list.size)
<1>3. p \in Nat \ {0} /\ q \in Nat \ {0} /\ (p = 1 \/ (p - 1) * list.size < m)
  BY <1>2, LastPage
<1>4. n <= q * list.size
  BY <1>2, LastPage
<1> HIDE DEF p, q
<1>5. p <= q
  <2>1. CASE list.size = 1
    BY <1>2, <1>3, <1>4, <2>1
  <2>2. CASE list.size = 2
    BY <1>2, <1>3, <1>4, <2>2
  <2>3. QED
    BY <2>1, <2>2
<1>6. QED
  BY <1>1, <1>3, <1>5 DEF p, q

-----------------------------------------------------------------------------
(* The requests under way *)

LEMMA WritesCounted ==
  ASSUME PageShape
  PROVE  /\ IsFiniteSet(Writes) /\ Cardinality(Writes) \in Nat
         /\ IsFiniteSet(SentWrites) /\ Cardinality(SentWrites) \in Nat
<1>1. IsFiniteSet(calls) /\ Writes \in SUBSET calls /\ SentWrites \in SUBSET calls
  BY DEF PageShape, Writes, SentWrites
<1>2. QED
  BY <1>1, FS_Subset, FS_CardinalityType

(* Of what is left for writes nothing is lost by the choice of a tab.      *)
LEMMA WritableBound ==
  ASSUME PageShape, Writable
  PROVE  clock + Cardinality(SentWrites) < MaxWrites
<1>1. clock \in Nat /\ MaxWrites \in Nat
  BY ListPageConstants DEF ListPageConstants, PageShape
<1>2. Cardinality(SentWrites) \in Nat
  BY WritesCounted
<1>3. PICK t \in {0, 1} : clock + Cardinality(SentWrites) + t < MaxWrites
  BY DEF Writable, SentWrites
<1>4. QED
  BY <1>1, <1>2, <1>3

LEMMA CallTyped ==
  ASSUME PageShape, NEW c \in calls
  PROVE  /\ c.kind \in {"load", "save", "remove", "toggle"}
         /\ c.kind = "load" => c \in LoadCalls
         /\ c.kind # "load" => c \in WriteCalls
         /\ c.at \in Nat /\ c.state \in {"sent", "done"}
<1>1. c \in LoadCalls \/ c \in WriteCalls
  BY DEF PageShape
<1>2. QED
  BY <1>1 DEF LoadCalls, WriteCalls

LEMMA SizePositive == Size \in Nat \ {0} /\ 0 \notin Rows /\ 1 \in Rows /\ Rows \subseteq Nat
  BY ListPageConstants DEF ListPageConstants, Rows

LEMMA NewLoadTyped ==
  ASSUME NEW id \in Nat, NEW q \in Texts
  PROVE  /\ LoadOf(id, q) \in LoadCalls
         /\ LoadOf(id, q).kind = "load" /\ LoadOf(id, q).id = id
         /\ LoadOf(id, q).state = "sent" /\ LoadOf(id, q).at = 0
  BY DEF LoadOf, LoadCalls, NoRows, Snapshot, Values

LEMMA NewWriteTyped ==
  ASSUME PageShape, NEW kind \in {"save", "remove", "toggle"}, NEW r \in Rows \cup {0}
  PROVE  /\ WriteOf(kind, r) \in WriteCalls
         /\ WriteOf(kind, r).kind = kind /\ WriteOf(kind, r).state = "sent"
         /\ WriteOf(kind, r).at = 0
  BY DEF PageShape, FormStates, ListStates, WriteOf, WriteCalls

LEMMA MountedTyped ==
  /\ Mounted \in ListStates /\ ClosedForm \in FormStates /\ NotAsking \in AskStates
  /\ NoRows \in Snapshot
  BY DEF Mounted, ListStates, ClosedForm, FormStates, NotAsking, AskStates, NoWrite, NoRows,
         Snapshot, Texts, Values, TabNames

LEMMA PagesCounted ==
  ASSUME NEW rows, NEW size \in {1, 2}
  PROVE  PageCount(Cardinality({r \in Rows : rows[r] # Gone}), size) \in Nat \ {0}
<1>1. Cardinality({r \in Rows : rows[r] # Gone}) \in Nat
  BY ListedFinite
<1>2. QED
  BY <1>1, LastPage

(* reload puts the current page back within the list it has read.          *)
LEMMA ReclaimedExists ==
  ASSUME PageShape, NEW rows
  PROVE  /\ Reclaimed(rows) \in Nat \ {0}
         /\ Reclaimed(rows) <= PageCount(Cardinality({r \in Rows : rows[r] # Gone}), list.size)
<1>1. list.page \in Nat \ {0} /\ list.size \in {1, 2}
  BY DEF PageShape, ListStates
<1>2. PICK p : p = PageCount(Cardinality({r \in Rows : rows[r] # Gone}), list.size)
  OBVIOUS
<1>3. p \in Nat \ {0}
  BY <1>1, <1>2, PagesCounted
<1>4. Reclaimed(rows) = IF list.page <= p THEN list.page ELSE p
  BY <1>1, <1>2, <1>3, MinOfTwo DEF Reclaimed
<1>5. QED
  BY <1>1, <1>2, <1>3, <1>4

LEMMA CallAdded ==
  ASSUME PageShape, NEW S \in SUBSET calls, NEW d \in LoadCalls \cup WriteCalls, calls' = S \cup {d}
  PROVE  IsFiniteSet(calls') /\ calls' \subseteq LoadCalls \cup WriteCalls
<1>1. IsFiniteSet(S)
  BY FS_Subset DEF PageShape
<1>2. QED
  BY <1>1, FS_AddElement DEF PageShape

LEMMA CallsLeft ==
  ASSUME PageShape, NEW S \in SUBSET calls, calls' = S
  PROVE  IsFiniteSet(calls') /\ calls' \subseteq LoadCalls \cup WriteCalls
<1>1. IsFiniteSet(S)
  BY FS_Subset DEF PageShape
<1>2. QED
  BY <1>1 DEF PageShape

LEMMA AcknowledgedTyped ==
  ASSUME PageShape, NEW c \in calls, c.kind # "load"
  PROVE  Acknowledged(c) \in ListStates
<1>1. c \in WriteCalls /\ list \in ListStates
  BY CallTyped DEF PageShape
<1>2. ASSUME NEW w \in [row: Rows \cup {0}, value: Values, shown: Values, at: Nat]
      PROVE  [list EXCEPT !.latest = @ + 1, !.wrote = w] \in ListStates
  <2>1. list.latest + 1 \in Nat \ {0}
    BY <1>1 DEF ListStates
  <2>2. \A n \in Nat \ {0} : [list EXCEPT !.latest = n, !.wrote = w] \in ListStates
    BY <1>1, Zenon DEF ListStates
  <2>3. QED
    BY <2>1, <2>2
<1>3. [row |-> IF c.kind = "save" THEN c.row ELSE 0, value |-> c.value, shown |-> c.shown, at |-> c.at]
        \in [row: Rows \cup {0}, value: Values, shown: Values, at: Nat]
  BY <1>1 DEF WriteCalls
<1>4. list.wrote \in [row: Rows \cup {0}, value: Values, shown: Values, at: Nat]
  BY <1>1 DEF ListStates
<1>5. QED
  BY <1>2, <1>3, <1>4 DEF Acknowledged

(* An acknowledged write leaves, and the reload it calls for is sent.      *)
LEMMA AcknowledgedShape ==
  ASSUME PageShape, NEW c \in calls, c.kind # "load",
         list' = Acknowledged(c), Reload(c.q, calls \ {c}),
         UNCHANGED <<shows, table, clock>>, form' \in FormStates, asks' \in AskStates
  PROVE  PageShape'
<1>1. c.q \in Texts /\ list.latest + 1 \in Nat
  BY CallTyped DEF WriteCalls, PageShape, ListStates
<1>2. LoadOf(list.latest + 1, c.q) \in LoadCalls
  BY <1>1, NewLoadTyped
<1>3. IsFiniteSet(calls') /\ calls' \subseteq LoadCalls \cup WriteCalls
  BY <1>2, CallAdded DEF Reload
<1>4. list' \in ListStates
  BY AcknowledgedTyped
<1>5. QED
  BY <1>3, <1>4 DEF PageShape

(* Served writes keep their type.                                          *)
LEMMA CarriedTyped ==
  ASSUME PageShape, NEW c \in calls, c.kind # "load", NEW r \in Rows \cup {0}, NEW at \in Nat,
         calls' = Carried(c, r, at)
  PROVE  IsFiniteSet(calls') /\ calls' \subseteq LoadCalls \cup WriteCalls
<1>1. [c EXCEPT !.state = "done", !.row = r, !.at = at] \in WriteCalls
  BY CallTyped DEF WriteCalls
<1>2. QED
  BY <1>1, CallAdded DEF Carried

(* Whatever a field can hold is one of the values that are told apart. *)
LEMMA StorableIsValue ==
  ASSUME NEW p
  PROVE  /\ Storable(p) \subseteq Values
         /\ [Rows -> Storable(p) \cup {Gone}] \subseteq Snapshot
<1>1. Storable(p) \subseteq Values
  BY DEF Storable, Values
<1>2. QED
  BY <1>1 DEF Snapshot

LEMMA OpenedTyped ==
  ASSUME PageShape, NEW r \in Rows \cup {0}, r = 0 \/ list.items[r] # Gone
  PROVE  OpenedFor(r) \in FormStates /\ OpenedFor(r).saving = form.saving
<1>1. list.items \in Snapshot /\ form \in FormStates
  BY DEF PageShape, ListStates
<1>2. /\ (IF r = 0 THEN "" ELSE list.items[r]) \in Values
      /\ (IF r = 0 THEN FirstValue ELSE list.items[r]) \in Values
  BY <1>1 DEF Snapshot, Values, FirstValue
<1>3. PICK v \in Values, w \in Values : /\ v = IF r = 0 THEN FirstValue ELSE list.items[r]
                                       /\ w = IF r = 0 THEN "" ELSE list.items[r]
  BY <1>2
<1> DEFINE opened == [form EXCEPT !.open = TRUE, !.row = r, !.value = v, !.shown = w]
<1>4. opened \in FormStates
  BY <1>1 DEF FormStates
<1>5. opened.saving = form.saving
  BY <1>1 DEF FormStates
<1>6. OpenedFor(r) = opened
  BY <1>3 DEF OpenedFor
<1> HIDE DEF opened
<1>7. QED
  BY <1>4, <1>5, <1>6

-----------------------------------------------------------------------------
(* The shapes *)

LEMMA UserKeepsShape == PageShape /\ UserOnPage => PageShape'
<1> SUFFICES ASSUME PageShape, UserOnPage PROVE PageShape'
  OBVIOUS
<1> USE DEF PageShape
<1>1. CASE Type
  BY <1>1 DEF Type, ListStates
<1>c. CASE ChooseTab
  BY <1>c DEF ChooseTab, ListStates
<1>2. CASE TurnPage
  <2>1. list.page \in Nat \ {0}
    BY DEF ListStates
  <2>2. PICK p : p \in Nat \ {0} /\ list' = [list EXCEPT !.page = p]
    BY <1>2, <2>1 DEF TurnPage
  <2>3. p \in Nat \ {0}
    BY <2>2
  <2>4. list' \in ListStates
    BY <2>2, <2>3 DEF ListStates
  <2>5. QED
    BY <1>2, <2>4 DEF TurnPage
<1>3. CASE ResizePage
  <2>1. PICK size \in {1, 2} : list' = [list EXCEPT !.size = size, !.page = 1]
    BY <1>3 DEF ResizePage
  <2>2. [list EXCEPT !.size = size] \in ListStates
    BY DEF ListStates
  <2>3. PICK resized \in ListStates : resized = [list EXCEPT !.size = size]
    BY <2>2
  <2>4. list' = [resized EXCEPT !.page = 1]
    BY <2>1, <2>3 DEF ListStates
  <2>5. list' \in ListStates
    BY <2>4 DEF ListStates
  <2>6. QED
    BY <1>3, <2>5 DEF ResizePage
<1>4. CASE Create
  BY <1>4, OpenedTyped DEF Create
<1>5. CASE Fill
  BY <1>5 DEF Fill, FormStates
<1>6. CASE Cancel
  <2>1. Closed \in FormStates
    BY DEF FormStates, Closed, ClosedForm, Values
  <2>2. QED
    BY <1>6, <2>1 DEF Cancel
<1>7. CASE Submit
  <2>1. form.row \in Rows \cup {0}
    BY DEF FormStates
  <2>2. WriteOf("save", form.row) \in WriteCalls
    BY <2>1, NewWriteTyped
  <2>3. form' \in FormStates
    BY <1>7 DEF Submit, FormStates
  <2>4. IsFiniteSet(calls') /\ calls' \subseteq LoadCalls \cup WriteCalls
    BY <1>7, <2>2, CallAdded DEF Submit
  <2>5. QED
    BY <1>7, <2>3, <2>4 DEF Submit
<1>8. CASE Dismiss
  BY <1>8, MountedTyped DEF Dismiss
<1>9. CASE Confirm
  <2>1. asks.row \in Rows \cup {0}
    BY DEF AskStates
  <2>2. WriteOf("remove", asks.row) \in WriteCalls
    BY <2>1, NewWriteTyped
  <2>3. asks' \in AskStates
    BY <1>9 DEF Confirm, AskStates
  <2>4. IsFiniteSet(calls') /\ calls' \subseteq LoadCalls \cup WriteCalls
    BY <1>9, <2>2, CallAdded DEF Confirm
  <2>5. QED
    BY <1>9, <2>3, <2>4 DEF Confirm
<1>10. ASSUME NEW r \in Rows, Edit(r) PROVE PageShape'
  <2>1. list.items[r] # Gone
    BY <1>10 DEF Edit, RowsShown, PageItems, Listed
  <2>2. QED
    BY <1>10, <2>1, OpenedTyped DEF Edit
<1>11. ASSUME NEW r \in Rows, AskRemove(r) PROVE PageShape'
  <2>1. [NotAsking EXCEPT !.row = r, !.phase = "asking"] \in AskStates
    BY DEF NotAsking, AskStates
  <2>2. QED
    BY <1>11, <2>1 DEF AskRemove
<1>12. ASSUME NEW r \in Rows, ToggleFavorite(r) PROVE PageShape'
  <2>1. WriteOf("toggle", r) \in WriteCalls
    BY NewWriteTyped
  <2>2. IsFiniteSet(calls') /\ calls' \subseteq LoadCalls \cup WriteCalls
    BY <1>12, <2>1, CallAdded DEF ToggleFavorite
  <2>3. QED
    BY <1>12, <2>2 DEF ToggleFavorite
<1>13. QED
  BY <1>1, <1>c, <1>2, <1>3, <1>4, <1>5, <1>6, <1>7, <1>8, <1>9, <1>10, <1>11, <1>12
     DEF UserOnPage

LEMMA DebouncedKeepsShape == PageShape /\ Debounced => PageShape'
<1> SUFFICES ASSUME PageShape, Debounced PROVE PageShape'
  OBVIOUS
<1>1. list.search \in Texts /\ list.latest + 1 \in Nat \ {0} /\ 1 \in Nat \ {0}
  BY DEF PageShape, ListStates
<1>2. LoadOf(list.latest + 1, list.search) \in LoadCalls
  BY <1>1, NewLoadTyped
<1>3. IsFiniteSet(calls') /\ calls' \subseteq LoadCalls \cup WriteCalls
  BY <1>2, CallAdded DEF Debounced, Reload
<1>4. PICK n : n = list.latest + 1
  OBVIOUS
<1>5. list' \in ListStates
  <2>1. list' = [list EXCEPT !.debounced = list.search, !.page = 1, !.latest = n]
    BY <1>4 DEF Debounced
  <2>2. QED
    BY <1>1, <1>4, <2>1 DEF PageShape, ListStates
<1>6. QED
  BY <1>3, <1>5 DEF PageShape, Debounced

LEMMA ServerKeepsShape ==
  ASSUME PageShape, NEW c \in calls, Serve(c)
  PROVE  PageShape'
<1>1. CASE ServeLoad(c)
  <2>1. c \in LoadCalls
    BY <1>1, CallTyped DEF ServeLoad
  <2>2. Search(c.q) \in Snapshot
    BY DEF Search, Snapshot, PageShape
  <2>3. [c EXCEPT !.state = "done", !.at = clock, !.rows = Search(c.q)] \in LoadCalls
    BY <2>1, <2>2 DEF LoadCalls, PageShape
  <2>4. IsFiniteSet(calls') /\ calls' \subseteq LoadCalls \cup WriteCalls
    BY <1>1, <2>3, CallAdded DEF ServeLoad
  <2>5. QED
    BY <1>1, <2>4 DEF ServeLoad, PageShape
<1>2. CASE ServeSave(c)
  <2>0. c.kind = "save"
    BY <1>2, Zenon DEF ServeSave
  <2>1. c.kind # "load" /\ c \in WriteCalls /\ clock + 1 \in Nat
    BY <2>0, CallTyped DEF PageShape
  <2>2. PICK r \in Rows :
          /\ IF c.row = 0 THEN table[r] = Gone ELSE r = c.row /\ table[r] # Gone
          /\ table' = [table EXCEPT ![r] = Column(Field, c.value, c.shown, IF c.row = 0 THEN "" ELSE @)]
          /\ calls' = Carried(c, r, clock')
    BY <1>2 DEF ServeSave
  <2>3. (IF c.row = 0 THEN "" ELSE table[r]) \in Values
    BY <2>2 DEF PageShape, Snapshot, Values
  <2>4. Column(Field, c.value, c.shown, IF c.row = 0 THEN "" ELSE table[r]) \in Values
    BY <2>1, <2>3 DEF Column, WriteCalls
  <2>5. table' \in Snapshot
    BY <2>2, <2>4 DEF PageShape, Snapshot
  <2>6. clock' \in Nat
    BY <1>2, <2>1 DEF ServeSave
  <2>7. IsFiniteSet(calls') /\ calls' \subseteq LoadCalls \cup WriteCalls
    BY <2>1, <2>2, <2>6, CarriedTyped
  <2>8. QED
    BY <1>2, <2>5, <2>6, <2>7 DEF ServeSave, PageShape
<1>3. CASE ServeRemove(c)
  <2>1. c.kind # "load" /\ clock + 1 \in Nat
    BY <1>3 DEF ServeRemove, PageShape
  <2>2. c.row \in Rows \cup {0} /\ clock' \in Nat
    BY <1>3, <2>1, CallTyped DEF ServeRemove, WriteCalls
  <2>3. IsFiniteSet(calls') /\ calls' \subseteq LoadCalls \cup WriteCalls
    BY <1>3, <2>1, <2>2, CarriedTyped DEF ServeRemove
  <2>4. table' \in Snapshot
    BY <1>3 DEF ServeRemove, PageShape, Snapshot
  <2>5. QED
    BY <1>3, <2>2, <2>3, <2>4 DEF ServeRemove, PageShape
<1>4. CASE ServeToggle(c)
  <2>1. c.kind # "load" /\ clock + 1 \in Nat
    BY <1>4 DEF ServeToggle, PageShape
  <2>2. c.row \in Rows \cup {0} /\ clock' \in Nat
    BY <1>4, <2>1, CallTyped DEF ServeToggle, WriteCalls
  <2>3. IsFiniteSet(calls') /\ calls' \subseteq LoadCalls \cup WriteCalls
    BY <1>4, <2>1, <2>2, CarriedTyped DEF ServeToggle
  <2>4. QED
    BY <1>4, <2>2, <2>3 DEF ServeToggle, PageShape
<1>5. QED
  BY <1>1, <1>2, <1>3, <1>4 DEF Serve

LEMMA OthersKeepShape == PageShape /\ OthersWrite => PageShape'
<1> SUFFICES ASSUME PageShape, OthersWrite PROVE PageShape'
  OBVIOUS
<1>1. PICK r \in Rows, v \in Values \cup {Gone} : table' = [table EXCEPT ![r] = v]
  BY StorableIsValue DEF OthersWrite
<1>2. table' \in Snapshot
  BY <1>1 DEF PageShape, Snapshot
<1>3. clock' \in Nat
  BY DEF OthersWrite, PageShape
<1>4. QED
  BY <1>2, <1>3 DEF OthersWrite, PageShape

LEMMA AnswerKeepsShape ==
  ASSUME PageShape, NEW c \in calls, Answer(c)
  PROVE  PageShape'
<1> USE DEF PageShape
<1>1. ASSUME NEW ok \in BOOLEAN, Loaded(c, ok) PROVE PageShape'
  <2>1. c \in LoadCalls
    BY <1>1, CallTyped DEF Loaded
  <2>2. Reclaimed(c.rows) \in Nat \ {0}
    BY ReclaimedExists
  <2>3. PICK p \in Nat \ {0} : p = Reclaimed(c.rows)
    BY <2>2
  <2>4. [list EXCEPT !.loaded = TRUE, !.items = c.rows, !.at = c.at, !.error = FALSE, !.page = p]
          \in ListStates
    BY <2>1 DEF LoadCalls, ListStates
  <2>5. [list EXCEPT !.error = TRUE] \in ListStates
    BY DEF ListStates
  <2>6. list' \in ListStates
    BY <1>1, <2>3, <2>4, <2>5 DEF Loaded
  <2>7. asks' \in AskStates
    BY <1>1, MountedTyped DEF Loaded
  <2>8. IsFiniteSet(calls') /\ calls' \subseteq LoadCalls \cup WriteCalls
    BY <1>1, CallsLeft DEF Loaded
  <2>9. QED
    BY <1>1, <2>6, <2>7, <2>8 DEF Loaded
<1>2. CASE Saved(c)
  <2>1. c.kind # "load" /\ form' \in FormStates /\ asks' \in AskStates
    BY <1>2, MountedTyped DEF Saved
  <2>2. QED
    BY <1>2, <2>1, AcknowledgedShape DEF Saved
<1>3. CASE Removed(c)
  <2>1. list.latest + 1 \in Nat
    BY DEF ListStates
  <2>2. PICK n \in Nat : n = list.latest + 1
    BY <2>1
  <2>3. [asks EXCEPT !.phase = "reloading", !.load = n] \in AskStates
    BY DEF AskStates
  <2>4. c.kind # "load" /\ form' \in FormStates /\ asks' \in AskStates
    BY <1>3, <2>2, <2>3 DEF Removed
  <2>5. QED
    BY <1>3, <2>4, AcknowledgedShape DEF Removed
<1>4. CASE Toggled(c)
  <2>1. c.kind # "load" /\ form' \in FormStates /\ asks' \in AskStates
    BY <1>4 DEF Toggled
  <2>2. QED
    BY <1>4, <2>1, AcknowledgedShape DEF Toggled
<1>5. CASE SaveFailed(c)
  <2>1. form' \in FormStates
    BY <1>5 DEF SaveFailed, FormStates
  <2>2. IsFiniteSet(calls') /\ calls' \subseteq LoadCalls \cup WriteCalls
    BY <1>5, CallsLeft DEF SaveFailed
  <2>3. QED
    BY <1>5, <2>1, <2>2 DEF SaveFailed
<1>6. CASE RemoveFailed(c)
  <2>1. asks' \in AskStates
    BY <1>6 DEF RemoveFailed, AskStates
  <2>2. IsFiniteSet(calls') /\ calls' \subseteq LoadCalls \cup WriteCalls
    BY <1>6, CallsLeft DEF RemoveFailed
  <2>3. QED
    BY <1>6, <2>1, <2>2 DEF RemoveFailed
<1>7. CASE ToggleFailed(c)
  <2>1. IsFiniteSet(calls') /\ calls' \subseteq LoadCalls \cup WriteCalls
    BY <1>7, CallsLeft DEF ToggleFailed
  <2>2. QED
    BY <1>7, <2>1 DEF ToggleFailed
<1>8. QED
  BY <1>1, <1>2, <1>3, <1>4, <1>5, <1>6, <1>7 DEF Answer

LEMMA PageKeepsShape == PageShape /\ PageNext => PageShape'
BY UserKeepsShape, DebouncedKeepsShape, OthersKeepShape, ServerKeepsShape, AnswerKeepsShape
DEF PageNext

-----------------------------------------------------------------------------
(* The kinds of step *)

(* The user looks around, types, or opens and closes a dialog.             *)
ViewChanges ==
  /\ UNCHANGED <<shows, table, clock, calls>>
  /\ list'.items = list.items /\ list'.at = list.at /\ list'.error = list.error
  /\ list'.wrote = list.wrote /\ list'.latest = list.latest
  /\ form'.saving = form.saving
  /\ list'.search # list'.debounced => list.latest + Cardinality(Writes) < MaxLoads
  /\ PageExists'

(* The write c is sent.                                                    *)
WriteSent(c) ==
  /\ c \in WriteCalls /\ c.state = "sent" /\ c.at = 0
  /\ calls' = calls \cup {c}
  /\ Spare
  /\ IF c.kind = "save" THEN ~form.saving /\ form'.saving ELSE form' = form
  /\ UNCHANGED <<shows, table, clock, list>>

(* The answer to the write c arrives, and it is not, or it is, a success.  *)
WriteRefused(c) ==
  /\ c \in calls /\ c.kind # "load"
  /\ calls' = calls \ {c}
  /\ c.kind # "save" => form' = form
  /\ UNCHANGED <<shows, table, clock, list>>

WriteAnswered(c) ==
  /\ c \in calls /\ c.kind # "load" /\ c.state = "done"
  /\ list' = Acknowledged(c)
  /\ Reload(c.q, calls \ {c})
  /\ c.kind # "save" => form' = form
  /\ UNCHANGED <<shows, table, clock>>

(* The server carries out the write c, which becomes d.                    *)
WriteServed(c, d) ==
  /\ c \in calls /\ c.kind # "load" /\ c.state = "sent"
  /\ d.kind = c.kind /\ d.state = "done" /\ d.at = clock + 1
  /\ calls' = (calls \ {c}) \cup {d}
  /\ clock' = clock + 1
  /\ d.kind = "save" => Stored(d)'
  /\ UNCHANGED <<shows, list, form>>

LEMMA ViewKeepsInv ==
  ASSUME PageInv, PageShape', ViewChanges
  PROVE  PageInv'
<1> USE DEF PageInv, ViewChanges
<1>1. /\ Writes' = Writes /\ SentWrites' = SentWrites /\ Loads' = Loads /\ Saves' = Saves
      /\ \A c : Newest(c)' = Newest(c)
      /\ Page' = Page /\ Field' = Field
  BY DEF Writes, SentWrites, Loads, Saves, Newest, Page, Field
<1>2. PageBounds'
  BY <1>1 DEF PageBounds
<1>3. NothingAhead'
  BY DEF NothingAhead
<1>4. LoadsNumbered'
  BY <1>1 DEF LoadsNumbered
<1>5. NewestIsNewer'
  BY <1>1 DEF NewestIsNewer
<1>6. NewestAwaited'
  BY <1>1 DEF NewestAwaited
<1>7. UpToDate'
  BY <1>1 DEF UpToDate, Agrees, Stored
<1>8. SaveIsKnown'
  BY <1>1 DEF SaveIsKnown
<1>9. QED
  BY <1>2, <1>3, <1>4, <1>5, <1>6, <1>7, <1>8

LEMMA SendingKeepsInv ==
  ASSUME PageInv, PageShape', NEW c, WriteSent(c)
  PROVE  PageInv'
<1> USE DEF PageInv, WriteSent
<1>0. c.kind \in {"save", "remove", "toggle"} /\ PageShape /\ clock \in Nat
  BY DEF WriteCalls, PageShape
<1>1. /\ Writes' = Writes \cup {c} /\ SentWrites' = SentWrites \cup {c}
      /\ Loads' = Loads /\ Saves' \subseteq Saves \cup {c}
      /\ c.kind # "save" => Saves' = Saves
  BY <1>0 DEF Writes, SentWrites, Loads, Saves
<1>2. Page' = Page /\ Field' = Field /\ \A d : Newest(d)' = Newest(d)
  BY DEF Newest, Page, Field
<1>3. PageBounds'
  <2>1. /\ IsFiniteSet(Writes) /\ Cardinality(Writes) \in Nat
        /\ IsFiniteSet(SentWrites) /\ Cardinality(SentWrites) \in Nat
    BY <1>0, WritesCounted
  <2>2. /\ Cardinality(Writes') = Cardinality(Writes) \/ Cardinality(Writes') = Cardinality(Writes) + 1
        /\ Cardinality(SentWrites') = Cardinality(SentWrites)
           \/ Cardinality(SentWrites') = Cardinality(SentWrites) + 1
    BY <1>1, <2>1, FS_AddElement
  <2>3. SentWrites = {d \in Writes : d.state = "sent"}
    BY DEF SentWrites
  <2>4. list.latest \in Nat /\ MaxWrites \in Nat /\ MaxLoads \in Nat /\ clock \in Nat
    BY <1>0, ListPageConstants DEF PageShape, ListStates, ListPageConstants
  <2>5. list.latest + Cardinality(Writes) + (IF list.search # list.debounced THEN 1 ELSE 0) < MaxLoads
        /\ clock + Cardinality(SentWrites) < MaxWrites
    BY <2>3, WritableBound DEF Spare, PageInv
  <2>6. QED
    BY <2>1, <2>2, <2>4, <2>5 DEF PageBounds
<1>4. NothingAhead'
  BY <1>0 DEF NothingAhead
<1>5. LoadsNumbered'
  BY <1>1 DEF LoadsNumbered
<1>6. NewestIsNewer'
  BY <1>0, <1>2 DEF NewestIsNewer, Newest
<1>7. NewestAwaited'
  BY <1>2 DEF NewestAwaited
<1>8. UpToDate'
  BY <1>1, <1>2 DEF UpToDate, Agrees, Stored
<1>9. SaveIsKnown'
  <2>1. CASE c.kind = "save"
    <3>1. Saves = {}
      BY <2>1 DEF SaveIsKnown
    <3>2. QED
      BY <1>1, <2>1, <3>1 DEF SaveIsKnown
  <2>2. CASE c.kind # "save"
    BY <1>1, <2>2 DEF SaveIsKnown
  <2>3. QED
    BY <2>1, <2>2
<1>10. PageExists'
  BY DEF PageExists, Listed
<1>11. QED
  BY <1>3, <1>4, <1>5, <1>6, <1>7, <1>8, <1>9, <1>10

LEMMA BoundsTyped ==
  ASSUME PageShape
  PROVE  list.latest \in Nat /\ MaxWrites \in Nat /\ MaxLoads \in Nat /\ clock \in Nat
         /\ list.at \in Nat /\ list.wrote.at \in Nat
BY ListPageConstants DEF PageShape, ListStates, ListPageConstants

LEMMA RefusedKeepsInv ==
  ASSUME PageInv, PageShape', NEW c, WriteRefused(c)
  PROVE  PageInv'
<1> USE DEF PageInv, WriteRefused
<1>1. /\ Writes' \in SUBSET Writes /\ SentWrites' \in SUBSET SentWrites
      /\ Loads' = Loads /\ Saves' = Saves \ {c}
      /\ c.kind = "save" => c \in Saves
  BY DEF Writes, SentWrites, Loads, Saves
<1>2. Page' = Page /\ Field' = Field /\ \A d : Newest(d)' = Newest(d)
  BY DEF Newest, Page, Field
<1>3. PageBounds'
  <2>1. /\ IsFiniteSet(Writes) /\ Cardinality(Writes) \in Nat
        /\ IsFiniteSet(SentWrites) /\ Cardinality(SentWrites) \in Nat
        /\ Cardinality(Writes') \in Nat /\ Cardinality(SentWrites') \in Nat
    BY WritesCounted, <1>1, FS_Subset, FS_CardinalityType
  <2>2. Cardinality(Writes') <= Cardinality(Writes) /\ Cardinality(SentWrites') <= Cardinality(SentWrites)
    BY <1>1, <2>1, FS_Subset
  <2>3. QED
    BY <2>1, <2>2, BoundsTyped DEF PageBounds
<1>4. NothingAhead'
  BY DEF NothingAhead
<1>5. LoadsNumbered'
  BY <1>1 DEF LoadsNumbered
<1>6. NewestIsNewer'
  BY <1>2 DEF NewestIsNewer, Newest
<1>7. NewestAwaited'
  BY <1>2 DEF NewestAwaited, Newest
<1>8. UpToDate'
  BY <1>1, <1>2 DEF UpToDate, Agrees, Stored
<1>9. SaveIsKnown'
  <2>1. CASE c.kind = "save"
    <3>1. Saves' = {}
      BY <1>1, <2>1 DEF SaveIsKnown
    <3>2. QED
      BY <3>1 DEF SaveIsKnown
  <2>2. CASE c.kind # "save"
    BY <1>1, <2>2 DEF SaveIsKnown
  <2>3. QED
    BY <2>1, <2>2
<1>10. PageExists'
  BY DEF PageExists, Listed
<1>11. QED
  BY <1>3, <1>4, <1>5, <1>6, <1>7, <1>8, <1>9, <1>10

LEMMA AnsweredKeepsInv ==
  ASSUME PageInv, PageShape', NEW c, WriteAnswered(c)
  PROVE  PageInv'
<1> USE DEF PageInv, WriteAnswered
<1>0. /\ c \in WriteCalls /\ list \in ListStates /\ c.q \in Texts /\ c.at \in Nat
      /\ list.latest + 1 \in Nat
  BY CallTyped DEF PageShape, ListStates, WriteCalls
<1> DEFINE new == LoadOf(list.latest + 1, c.q)
<1>1. new.kind = "load" /\ new.id = list.latest + 1 /\ new.state = "sent" /\ new.at = 0
  BY <1>0, NewLoadTyped
<1>2. calls' = (calls \ {c}) \cup {new}
  BY DEF Reload
<1> HIDE DEF new
<1>3. /\ list'.items = list.items /\ list'.at = list.at /\ list'.error = list.error
      /\ list'.page = list.page /\ list'.size = list.size
      /\ list'.search = list.search /\ list'.debounced = list.debounced
      /\ list'.latest = list.latest + 1
      /\ list'.wrote = IF c.at < list.wrote.at THEN list.wrote
                       ELSE [row |-> IF c.kind = "save" THEN c.row ELSE 0,
                             value |-> c.value, shown |-> c.shown, at |-> c.at]
  BY <1>0 DEF Acknowledged, ListStates
<1>4. /\ Writes' = Writes \ {c} /\ c \in Writes /\ SentWrites' = SentWrites
      /\ Loads' = Loads \cup {new} /\ Saves' = Saves \ {c}
      /\ c.kind = "save" => c \in Saves
  BY <1>1, <1>2 DEF Writes, SentWrites, Loads, Saves
<1>5. Page' = Page /\ Field' = Field
  BY DEF Page, Field
<1>6. PageBounds'
  <2>1. /\ IsFiniteSet(Writes) /\ Cardinality(Writes) \in Nat
        /\ IsFiniteSet(SentWrites) /\ Cardinality(SentWrites) \in Nat
    BY WritesCounted
  <2>2. Cardinality(Writes') = Cardinality(Writes) - 1
    BY <1>4, <2>1, FS_RemoveElement
  <2>3. QED
    BY <1>3, <1>4, <2>1, <2>2, BoundsTyped DEF PageBounds
<1>7. NothingAhead'
  BY <1>0, <1>1, <1>2, <1>3, BoundsTyped DEF NothingAhead
<1>8. LoadsNumbered'
  <2>1. \A d \in Loads : d.id \in Nat
    BY CallTyped DEF Loads, LoadCalls
  <2>2. QED
    BY <1>1, <1>3, <1>4, <2>1, BoundsTyped DEF LoadsNumbered
<1>9. NewestIsNewer'
  <2>1. ASSUME NEW d \in calls', Newest(d)' PROVE d = new
    <3>1. d \in Loads' /\ d.id = list.latest + 1
      BY <1>3, <2>1 DEF Newest, Loads
    <3>2. ASSUME d \in Loads PROVE FALSE
      <4>1. d.id <= list.latest
        BY <3>2 DEF LoadsNumbered
      <4>2. QED
        BY <3>1, <4>1, BoundsTyped
    <3>3. QED
      BY <1>4, <3>1, <3>2
  <2>2. QED
    BY <1>1, <2>1 DEF NewestIsNewer
<1>10. NewestAwaited'
  BY <1>1, <1>2, <1>3 DEF NewestAwaited, Newest
<1>11. UpToDate'
  <2>1. (list.wrote.at = clock => Stored(list.wrote))'
    <3>1. CASE c.at < list.wrote.at
      <4>1. list'.wrote = list.wrote
        BY <1>3, <3>1
      <4>2. QED
        BY <1>5, <4>1 DEF UpToDate, Stored
    <3>2. CASE ~(c.at < list.wrote.at)
      <4>1. /\ list'.wrote.row = (IF c.kind = "save" THEN c.row ELSE 0)
            /\ list'.wrote.value = c.value /\ list'.wrote.shown = c.shown /\ list'.wrote.at = c.at
        BY <1>3, <3>2
      <4>2. QED
        BY <1>4, <1>5, <4>1, SizePositive DEF UpToDate, Stored
    <3>3. QED
      BY <3>1, <3>2
  <2>2. QED
    BY <1>1, <1>3, <1>4, <1>5, <2>1 DEF UpToDate, Agrees, Stored
<1>12. SaveIsKnown'
  <2>1. CASE c.kind = "save"
    <3>1. Saves' = {}
      BY <1>4, <2>1 DEF SaveIsKnown
    <3>2. QED
      BY <3>1 DEF SaveIsKnown
  <2>2. CASE c.kind # "save"
    BY <1>4, <2>2 DEF SaveIsKnown
  <2>3. QED
    BY <2>1, <2>2
<1>13. PageExists'
  BY <1>3 DEF PageExists, Listed
<1>14. QED
  BY <1>6, <1>7, <1>8, <1>9, <1>10, <1>11, <1>12, <1>13

LEMMA ServedKeepsInv ==
  ASSUME PageInv, PageShape', NEW c, NEW d, WriteServed(c, d)
  PROVE  PageInv'
<1> USE DEF PageInv, WriteServed
<1>0. d.kind \in {"save", "remove", "toggle"} /\ d \in calls'
  BY CallTyped
<1>1. /\ Writes' = (Writes \ {c}) \cup {d} /\ c \in Writes
      /\ SentWrites' = SentWrites \ {c} /\ c \in SentWrites
      /\ Loads' = Loads /\ Saves' \subseteq (Saves \ {c}) \cup {d}
      /\ d.kind = "save" => c \in Saves
      /\ d.kind # "save" => Saves' = Saves
  BY <1>0 DEF Writes, SentWrites, Loads, Saves
<1>2. Page' = Page /\ Field' = Field /\ \A e : Newest(e)' = Newest(e)
  BY DEF Newest, Page, Field
<1>3. PageBounds'
  <2>1. /\ IsFiniteSet(Writes) /\ Cardinality(Writes) \in Nat
        /\ IsFiniteSet(SentWrites) /\ Cardinality(SentWrites) \in Nat
        /\ IsFiniteSet(Writes \ {c})
    BY WritesCounted, FS_RemoveElement
  <2>2. Cardinality(SentWrites') = Cardinality(SentWrites) - 1
    BY <1>1, <2>1, FS_RemoveElement
  <2>3. Cardinality(Writes \ {c}) = Cardinality(Writes) - 1
    BY <1>1, <2>1, FS_RemoveElement
  <2>4. Cardinality(Writes') = Cardinality(Writes) - 1 \/ Cardinality(Writes') = Cardinality(Writes)
    <3>1. Cardinality((Writes \ {c}) \cup {d})
            = IF d \in Writes \ {c} THEN Cardinality(Writes \ {c}) ELSE Cardinality(Writes \ {c}) + 1
      BY <2>1, FS_AddElement
    <3>2. QED
      BY <1>1, <2>1, <2>3, <3>1
  <2>5. QED
    BY <2>1, <2>2, <2>4, BoundsTyped DEF PageBounds
<1>4. NothingAhead'
  <2>1. \A e \in calls : e.at \in Nat
    BY CallTyped
  <2>2. QED
    BY <2>1, BoundsTyped DEF NothingAhead
<1>5. LoadsNumbered'
  BY <1>1 DEF LoadsNumbered
<1>6. NewestIsNewer'
  BY <1>0, <1>2 DEF NewestIsNewer, Newest
<1>7. NewestAwaited'
  BY <1>2 DEF NewestAwaited, Newest
<1>8. UpToDate'
  <2>1. list.at # clock' /\ list.wrote.at # clock'
    BY BoundsTyped DEF NothingAhead
  <2>2. \A e \in calls : e.at # clock'
    <3>1. \A e \in calls : e.at \in Nat /\ e.at <= clock
      BY CallTyped DEF NothingAhead
    <3>2. QED
      BY <3>1, BoundsTyped
  <2>3. \A e \in Saves' : e.at = clock' => e = d /\ d.kind = "save"
    BY <1>1, <2>2 DEF Saves
  <2>4. \A e \in Loads' : e.at # clock'
    BY <1>1, <2>2 DEF Loads
  <2>5. QED
    BY <2>1, <2>3, <2>4 DEF UpToDate
<1>9. SaveIsKnown'
  <2>1. CASE d.kind = "save"
    <3>1. Saves' \subseteq {d} /\ Saves # {}
      BY <1>1, <2>1 DEF SaveIsKnown
    <3>2. QED
      BY <3>1 DEF SaveIsKnown
  <2>2. CASE d.kind # "save"
    BY <1>1, <2>2 DEF SaveIsKnown
  <2>3. QED
    BY <2>1, <2>2
<1>10. PageExists'
  BY DEF PageExists, Listed
<1>11. QED
  BY <1>3, <1>4, <1>5, <1>6, <1>7, <1>8, <1>9, <1>10

LEMMA OthersKeepInv ==
  ASSUME PageInv, PageShape', OthersWrite
  PROVE  PageInv'
<1> USE DEF PageInv
<1>0. /\ UNCHANGED <<shows, list, form, asks, calls>> /\ clock' = clock + 1
      /\ clock + Cardinality(SentWrites) < MaxWrites
  BY WritableBound DEF OthersWrite, PageInv
<1>1. /\ Writes' = Writes /\ SentWrites' = SentWrites /\ Loads' = Loads /\ Saves' = Saves
      /\ Page' = Page /\ Field' = Field /\ \A e : Newest(e)' = Newest(e)
  BY <1>0 DEF Writes, SentWrites, Loads, Saves, Newest, Page, Field
<1>2. \A e \in calls : e.at \in Nat /\ e.at <= clock
  BY CallTyped DEF NothingAhead
<1>3. PageBounds'
  <2>1. Cardinality(SentWrites) \in Nat /\ clock + Cardinality(SentWrites) < MaxWrites
    BY <1>0, WritesCounted DEF SentWrites
  <2>2. QED
    BY <1>0, <1>1, <2>1, BoundsTyped DEF PageBounds
<1>4. NothingAhead'
  BY <1>0, <1>2, BoundsTyped DEF NothingAhead
<1>5. LoadsNumbered' /\ NewestIsNewer' /\ NewestAwaited' /\ SaveIsKnown'
  BY <1>0, <1>1 DEF LoadsNumbered, NewestIsNewer, NewestAwaited, SaveIsKnown
<1>6. UpToDate'
  <2>1. list.at # clock' /\ list.wrote.at # clock'
    BY <1>0, BoundsTyped DEF NothingAhead
  <2>2. \A e \in calls : e.at # clock'
    BY <1>0, <1>2, BoundsTyped
  <2>3. QED
    BY <1>0, <1>1, <2>1, <2>2 DEF UpToDate, Loads, Saves
<1>7. PageExists'
  BY <1>0 DEF PageExists, Listed
<1>8. QED
  BY <1>3, <1>4, <1>5, <1>6, <1>7

LEMMA ServedLoadKeepsInv ==
  ASSUME PageInv, PageShape', NEW c, ServeLoad(c)
  PROVE  PageInv'
<1> USE DEF PageInv
<1>0. /\ c \in calls /\ c.kind = "load" /\ c.state = "sent"
      /\ UNCHANGED <<shows, table, clock, list, form, asks>>
  BY DEF ServeLoad
<1>1. PICK d : /\ calls' = (calls \ {c}) \cup {d}
               /\ d.kind = "load" /\ d.id = c.id /\ d.state = "done" /\ d.at = clock
               /\ d.rows = Search(c.q)
  <2>1. c \in LoadCalls
    BY <1>0, CallTyped
  <2>2. PICK d : d = [c EXCEPT !.state = "done", !.at = clock, !.rows = Search(c.q)]
    OBVIOUS
  <2>3. d.kind = "load" /\ d.id = c.id /\ d.state = "done" /\ d.at = clock /\ d.rows = Search(c.q)
    BY <2>1, <2>2 DEF LoadCalls
  <2>4. QED
    BY <2>2, <2>3 DEF ServeLoad
<1>2. /\ Writes' = Writes /\ SentWrites' = SentWrites /\ Loads' = (Loads \ {c}) \cup {d}
      /\ Saves' = Saves /\ c \in Loads
      /\ Page' = Page /\ Field' = Field /\ \A e : Newest(e)' = Newest(e)
  BY <1>0, <1>1 DEF Writes, SentWrites, Loads, Saves, Newest, Page, Field
<1>3. PageBounds' /\ SaveIsKnown'
  BY <1>0, <1>2 DEF PageBounds, SaveIsKnown
<1>4. NothingAhead'
  BY <1>0, <1>1, BoundsTyped DEF NothingAhead
<1>5. LoadsNumbered'
  BY <1>0, <1>1, <1>2 DEF LoadsNumbered
<1>6. NewestIsNewer'
  BY <1>0, <1>1, <1>2 DEF NewestIsNewer, NothingAhead
<1>7. NewestAwaited'
  BY <1>0, <1>1, <1>2 DEF NewestAwaited, Newest
<1>8. UpToDate'
  <2>1. Agrees(d.rows)
    BY <1>1 DEF Agrees, Search
  <2>2. QED
    BY <1>0, <1>1, <1>2, <2>1 DEF UpToDate, Agrees, Stored
<1>9. PageExists'
  BY <1>0 DEF PageExists, Listed
<1>10. QED
  BY <1>3, <1>4, <1>5, <1>6, <1>7, <1>8, <1>9

LEMMA LoadedKeepsInv ==
  ASSUME PageInv, PageShape', NEW c, NEW ok \in BOOLEAN, Loaded(c, ok)
  PROVE  PageInv'
<1> USE DEF PageInv
<1>0. /\ c \in calls /\ c.kind = "load" /\ (ok => c.state = "done")
      /\ calls' = calls \ {c} /\ UNCHANGED <<shows, table, clock, form>>
  BY DEF Loaded
<1>1. /\ Writes' = Writes /\ SentWrites' = SentWrites /\ Loads' = Loads \ {c}
      /\ Saves' = Saves /\ c \in Loads /\ Page' = Page /\ Field' = Field
  BY <1>0 DEF Writes, SentWrites, Loads, Saves, Page, Field
<1>2. /\ list'.search = list.search /\ list'.debounced = list.debounced
      /\ list'.latest = list.latest /\ list'.wrote = list.wrote
  BY DEF Loaded, PageShape, ListStates
<1>3. \/ list' = list /\ Stale(c)
      \/ /\ ~Stale(c) /\ ~ok /\ list'.items = list.items /\ list'.at = list.at
         /\ list'.error /\ list'.page = list.page /\ list'.size = list.size
      \/ /\ ~Stale(c) /\ ok /\ list'.items = c.rows /\ list'.at = c.at
         /\ list'.page = Reclaimed(c.rows) /\ list'.size = list.size
  BY DEF Loaded, PageShape, ListStates
<1>4. \A e : Newest(e)' = Newest(e)
  BY <1>2 DEF Newest
<1>5. PageBounds' /\ SaveIsKnown'
  BY <1>0, <1>1, <1>2 DEF PageBounds, SaveIsKnown
<1>6. NothingAhead'
  BY <1>0, <1>2, <1>3 DEF NothingAhead
<1>7. LoadsNumbered'
  BY <1>1, <1>2 DEF LoadsNumbered
<1>8. NewestIsNewer'
  <2> SUFFICES ASSUME NEW e \in calls', Newest(e), e.state = "done"
               PROVE  e.at >= list.wrote.at /\ (Page.hook => e.at >= list'.at)
    BY <1>1, <1>2, <1>4 DEF NewestIsNewer
  <2>1. e.at >= list.wrote.at /\ (Page.hook => e.at >= list.at)
    BY <1>0 DEF NewestIsNewer
  <2>2. CASE Page.hook
    <3>1. e # c /\ e \in Loads /\ e.id = list.latest
      BY <1>0 DEF Newest, Loads
    <3>2. c.id # list.latest
      BY <1>1, <3>1 DEF LoadsNumbered
    <3>3. Stale(c)
      BY <2>2, <3>2 DEF Stale
    <3>4. QED
      BY <1>3, <2>1, <3>3
  <2>3. QED
    BY <2>1, <2>2
<1>9. NewestAwaited'
  <2> SUFFICES ASSUME Page.hook
               PROVE  \/ \E e \in calls' : Newest(e)
                      \/ list'.error
                      \/ list'.at >= list.wrote.at
    BY <1>1, <1>2, <1>4 DEF NewestAwaited
  <2>1. CASE Stale(c)
    <3>1. ~Newest(c) /\ list' = list
      BY <1>3, <2>1 DEF Newest, Stale
    <3>2. QED
      BY <1>0, <3>1 DEF NewestAwaited
  <2>2. CASE ~Stale(c) /\ ok
    <3>1. Newest(c)
      BY <1>0, <2>2 DEF Newest, Stale
    <3>2. QED
      BY <1>0, <1>3, <2>2, <3>1 DEF NewestIsNewer
  <2>3. CASE ~Stale(c) /\ ~ok
    BY <1>3, <2>3
  <2>4. QED
    BY <2>1, <2>2, <2>3
<1>10. UpToDate'
  <2>1. list'.at = clock => Agrees(list'.items)
    BY <1>0, <1>1, <1>3 DEF UpToDate
  <2>2. QED
    BY <1>0, <1>1, <1>2, <2>1 DEF UpToDate, Agrees, Stored
<1>11. PageExists'
  <2>1. CASE list'.items = list.items /\ list'.page = list.page /\ list'.size = list.size
    BY <2>1 DEF PageExists, Listed
  <2>2. CASE list'.items = c.rows /\ list'.page = Reclaimed(c.rows) /\ list'.size = list.size
    BY <2>2, ReclaimedExists DEF PageExists, Listed
  <2>3. QED
    BY <1>3, <2>1, <2>2
<1>12. QED
  BY <1>5, <1>6, <1>7, <1>8, <1>9, <1>10, <1>11

LEMMA DebouncedKeepsInv ==
  ASSUME PageInv, PageShape', Debounced
  PROVE  PageInv'
<1> USE DEF PageInv
<1>0. /\ list.search # list.debounced /\ list.search \in Texts /\ list.latest + 1 \in Nat
      /\ UNCHANGED <<shows, table, clock, form, asks>>
  BY DEF Debounced, PageShape, ListStates
<1>1. PICK new : /\ new.kind = "load" /\ new.id = list.latest + 1 /\ new.state = "sent"
                 /\ new.at = 0 /\ calls' = calls \cup {new}
  BY <1>0, NewLoadTyped DEF Debounced, Reload
<1>2. /\ list'.items = list.items /\ list'.at = list.at /\ list'.error = list.error
      /\ list'.page = 1 /\ list'.size = list.size
      /\ list'.search = list.search /\ list'.debounced = list.search
      /\ list'.latest = list.latest + 1 /\ list'.wrote = list.wrote
  BY DEF Debounced, PageShape, ListStates
<1>3. /\ Writes' = Writes /\ SentWrites' = SentWrites /\ Loads' = Loads \cup {new}
      /\ Saves' = Saves /\ Page' = Page /\ Field' = Field
  BY <1>0, <1>1 DEF Writes, SentWrites, Loads, Saves, Page, Field
<1>4. PageBounds'
  <2>1. Cardinality(Writes) \in Nat
    BY WritesCounted
  <2>2. QED
    BY <1>0, <1>2, <1>3, <2>1, BoundsTyped DEF PageBounds
<1>5. NothingAhead'
  BY <1>0, <1>1, <1>2, BoundsTyped DEF NothingAhead
<1>6. LoadsNumbered'
  <2>1. \A d \in Loads : d.id \in Nat
    BY CallTyped DEF Loads, LoadCalls
  <2>2. QED
    BY <1>1, <1>2, <1>3, <2>1, BoundsTyped DEF LoadsNumbered
<1>7. NewestIsNewer'
  <2>1. ASSUME NEW d \in calls', Newest(d)' PROVE d = new
    <3>1. d \in Loads' /\ d.id = list.latest + 1
      BY <1>2, <2>1 DEF Newest, Loads
    <3>2. ASSUME d \in Loads PROVE FALSE
      <4>1. d.id <= list.latest
        BY <3>2 DEF LoadsNumbered
      <4>2. QED
        BY <3>1, <4>1, BoundsTyped
    <3>3. QED
      BY <1>3, <3>1, <3>2
  <2>2. QED
    BY <1>1, <2>1 DEF NewestIsNewer
<1>8. NewestAwaited'
  BY <1>1, <1>2 DEF NewestAwaited, Newest
<1>9. UpToDate'
  BY <1>0, <1>1, <1>2, <1>3 DEF UpToDate, Agrees, Stored
<1>10. SaveIsKnown'
  BY <1>0, <1>3 DEF SaveIsKnown
<1>11. PageExists'
  <2>1. list.size \in {1, 2}
    BY DEF PageShape, ListStates
  <2>2. PageCount(Cardinality(Listed), list.size) \in Nat \ {0}
    BY <2>1, PagesCounted DEF Listed
  <2>3. QED
    BY <1>2, <2>2 DEF PageExists, Listed
<1>12. QED
  BY <1>4, <1>5, <1>6, <1>7, <1>8, <1>9, <1>10, <1>11

-----------------------------------------------------------------------------
(* Every step of a page is of one of these kinds *)

LEMMA SameListView ==
  ASSUME PageInv, UNCHANGED <<shows, table, clock, list, calls>>, form'.saving = form.saving
  PROVE  ViewChanges
<1>1. list.search # list.debounced => list.latest + Cardinality(Writes) < MaxLoads
  BY DEF PageInv, PageBounds
<1>2. PageExists'
  BY DEF PageInv, PageExists, Listed
<1>3. QED
  BY <1>1, <1>2 DEF ViewChanges

LEMMA UserKeepsInv ==
  ASSUME PageInv, UserOnPage
  PROVE  PageInv'
<1>0. PageShape /\ PageShape'
  BY UserKeepsShape DEF PageInv
<1>s. form \in FormStates /\ list \in ListStates /\ form.row \in Rows \cup {0}
      /\ asks.row \in Rows \cup {0}
  BY <1>0 DEF PageShape, FormStates, AskStates
<1>p. PageCount(Cardinality(Listed), list.size) \in Nat \ {0}
  BY <1>s, PagesCounted DEF Listed, ListStates
<1>1. CASE Type
  <2>1. PICK q \in Texts : list' = [list EXCEPT !.search = q]
    BY <1>1 DEF Type
  <2>2. /\ list'.items = list.items /\ list'.at = list.at /\ list'.error = list.error
        /\ list'.wrote = list.wrote /\ list'.latest = list.latest
        /\ list'.page = list.page /\ list'.size = list.size
    BY <1>s, <2>1 DEF ListStates
  <2>3. list.latest + Cardinality(Writes) < MaxLoads
    <3>1. CASE Spare
      <4>1. Cardinality(Writes) \in Nat
        BY <1>0, WritesCounted
      <4>2. QED
        BY <1>0, <3>1, <4>1, BoundsTyped DEF Spare
    <3>2. CASE list.search # list.debounced
      BY <3>2 DEF PageInv, PageBounds
    <3>3. QED
      BY <1>1, <3>1, <3>2 DEF Type
  <2>4. PageExists'
    BY <2>2 DEF PageInv, PageExists, Listed
  <2>5. ViewChanges
    BY <1>1, <2>2, <2>3, <2>4 DEF Type, ViewChanges
  <2>6. QED
    BY <1>0, <2>5, ViewKeepsInv
<1>c. CASE ChooseTab
  <2>1. PICK t \in TabNames : list' = [list EXCEPT !.tab = t]
    BY <1>c DEF ChooseTab
  <2>2. /\ list'.items = list.items /\ list'.at = list.at /\ list'.error = list.error
        /\ list'.wrote = list.wrote /\ list'.latest = list.latest
        /\ list'.page = list.page /\ list'.size = list.size
        /\ list'.search = list.search /\ list'.debounced = list.debounced
    BY <1>s, <2>1 DEF ListStates
  <2>3. PageExists'
    BY <2>2 DEF PageInv, PageExists, Listed
  <2>4. ViewChanges
    BY <1>c, <2>2, <2>3 DEF ChooseTab, ViewChanges, PageInv, PageBounds
  <2>5. QED
    BY <1>0, <2>4, ViewKeepsInv
<1>2. CASE TurnPage
  <2>1. PICK p \in 1 .. PageCount(Cardinality(Listed), list.size) : list' = [list EXCEPT !.page = p]
    <3>1. list.page \in Nat \ {0} /\ list.page <= PageCount(Cardinality(Listed), list.size)
      BY <1>s DEF ListStates, PageInv, PageExists
    <3>2. CASE list.page > 1 /\ list' = [list EXCEPT !.page = list.page - 1]
      BY <1>p, <3>1, <3>2
    <3>3. CASE /\ list.page < PageCount(Cardinality(Filtered), list.size)
               /\ list' = [list EXCEPT !.page = list.page + 1]
      <4>1. /\ PageCount(Cardinality(Filtered), list.size) \in Nat
            /\ PageCount(Cardinality(Filtered), list.size) <= PageCount(Cardinality(Listed), list.size)
        BY <1>s, FewerPages DEF ListStates
      <4>2. QED
        BY <1>p, <3>1, <3>3, <4>1
    <3>4. QED
      BY <1>2, <3>2, <3>3 DEF TurnPage
  <2>2. /\ list'.items = list.items /\ list'.at = list.at /\ list'.error = list.error
        /\ list'.wrote = list.wrote /\ list'.latest = list.latest
        /\ list'.page = p /\ list'.size = list.size
        /\ list'.search = list.search /\ list'.debounced = list.debounced
    BY <1>s, <2>1 DEF ListStates
  <2>3. p <= PageCount(Cardinality(Listed), list.size)
    BY <1>p
  <2>4. PageExists'
    BY <2>2, <2>3 DEF PageExists, Listed
  <2>5. ViewChanges
    BY <1>2, <2>2, <2>4 DEF TurnPage, ViewChanges, PageInv, PageBounds
  <2>6. QED
    BY <1>0, <2>5, ViewKeepsInv
<1>3. CASE ResizePage
  <2>1. PICK size \in {1, 2} : list' = [list EXCEPT !.size = size, !.page = 1]
    BY <1>3 DEF ResizePage
  <2>2. /\ list'.items = list.items /\ list'.at = list.at /\ list'.error = list.error
        /\ list'.wrote = list.wrote /\ list'.latest = list.latest
        /\ list'.page = 1 /\ list'.size = size
        /\ list'.search = list.search /\ list'.debounced = list.debounced
    BY <1>s, <2>1 DEF ListStates
  <2>3. PageCount(Cardinality(Listed), size) \in Nat \ {0}
    BY PagesCounted DEF Listed
  <2>4. PageExists'
    BY <2>2, <2>3 DEF PageExists, Listed
  <2>5. ViewChanges
    BY <1>3, <2>2, <2>4 DEF ResizePage, ViewChanges, PageInv, PageBounds
  <2>6. QED
    BY <1>0, <2>5, ViewKeepsInv
<1>4. CASE Create
  <2>1. form'.saving = form.saving
    BY <1>0, <1>4, OpenedTyped DEF Create
  <2>2. QED
    BY <1>0, <1>4, <2>1, SameListView, ViewKeepsInv DEF Create
<1>5. CASE Fill
  <2>1. form'.saving = form.saving
    BY <1>s, <1>5 DEF Fill, FormStates
  <2>2. QED
    BY <1>0, <1>5, <2>1, SameListView, ViewKeepsInv DEF Fill
<1>6. CASE Cancel
  <2>1. form'.saving = form.saving
    BY <1>6 DEF Cancel, Closed, ClosedForm
  <2>2. QED
    BY <1>0, <1>6, <2>1, SameListView, ViewKeepsInv DEF Cancel
<1>7. CASE Submit
  <2> DEFINE c == WriteOf("save", form.row)
  <2>1. c \in WriteCalls /\ c.kind = "save" /\ c.state = "sent" /\ c.at = 0
    BY <1>0, <1>s, NewWriteTyped
  <2>2. form'.saving
    BY <1>s, <1>7 DEF Submit, FormStates
  <2>3. WriteSent(c)
    BY <1>7, <2>1, <2>2 DEF Submit, WriteSent
  <2>4. QED
    BY <1>0, <2>3, SendingKeepsInv
<1>8. CASE Dismiss
  BY <1>0, <1>8, SameListView, ViewKeepsInv DEF Dismiss
<1>9. CASE Confirm
  <2> DEFINE c == WriteOf("remove", asks.row)
  <2>1. c \in WriteCalls /\ c.kind = "remove" /\ c.state = "sent" /\ c.at = 0
    BY <1>0, <1>s, NewWriteTyped
  <2>2. WriteSent(c)
    BY <1>9, <2>1 DEF Confirm, WriteSent
  <2>3. QED
    BY <1>0, <2>2, SendingKeepsInv
<1>10. ASSUME NEW r \in Rows, Edit(r) PROVE PageInv'
  <2>1. list.items[r] # Gone
    BY <1>10 DEF Edit, RowsShown, PageItems, Listed
  <2>2. form'.saving = form.saving
    BY <1>0, <1>10, <2>1, OpenedTyped DEF Edit
  <2>3. QED
    BY <1>0, <1>10, <2>2, SameListView, ViewKeepsInv DEF Edit
<1>11. ASSUME NEW r \in Rows, AskRemove(r) PROVE PageInv'
  BY <1>0, <1>11, SameListView, ViewKeepsInv DEF AskRemove
<1>12. ASSUME NEW r \in Rows, ToggleFavorite(r) PROVE PageInv'
  <2> DEFINE c == WriteOf("toggle", r)
  <2>1. c \in WriteCalls /\ c.kind = "toggle" /\ c.state = "sent" /\ c.at = 0
    BY <1>0, NewWriteTyped
  <2>2. WriteSent(c)
    BY <1>12, <2>1 DEF ToggleFavorite, WriteSent
  <2>3. QED
    BY <1>0, <2>2, SendingKeepsInv
<1>13. QED
  BY <1>1, <1>c, <1>2, <1>3, <1>4, <1>5, <1>6, <1>7, <1>8, <1>9, <1>10, <1>11, <1>12
     DEF UserOnPage

(* What a form sends for the observed field is what its row then holds.    *)
LEMMA SaveStores ==
  ASSUME PageShape, NEW c \in calls, ServeSave(c)
  PROVE  \E d : WriteServed(c, d)
<1>0. c.kind = "save" /\ c.state = "sent" /\ c \in WriteCalls
  <2>1. c.kind = "save" /\ c.state = "sent"
    BY Zenon DEF ServeSave
  <2>2. QED
    BY <2>1, CallTyped
<1>1. PICK r \in Rows :
        /\ table' = [table EXCEPT ![r] = Column(Field, c.value, c.shown, IF c.row = 0 THEN "" ELSE @)]
        /\ calls' = Carried(c, r, clock')
  BY DEF ServeSave
<1>2. clock' = clock + 1 /\ UNCHANGED <<shows, list, form, asks>>
  BY Zenon DEF ServeSave
<1>3. PICK d : d = [c EXCEPT !.state = "done", !.row = r, !.at = clock']
  OBVIOUS
<1>4. /\ d.kind = "save" /\ d.state = "done" /\ d.at = clock + 1 /\ d.row = r
      /\ d.value = c.value /\ d.shown = c.shown
  BY <1>0, <1>2, <1>3 DEF WriteCalls
<1>5. Stored(d)'
  <2> SUFFICES ASSUME Field # "omitted", c.value # c.shown PROVE table'[r] = c.value
    BY <1>2, <1>4 DEF Stored, Field, Page
  <2>1. Column(Field, c.value, c.shown, IF c.row = 0 THEN "" ELSE table[r]) = c.value
    BY DEF Column
  <2>2. QED
    BY <1>1, <2>1 DEF PageShape, Snapshot
<1>6. WriteServed(c, d)
  BY <1>0, <1>1, <1>2, <1>3, <1>4, <1>5 DEF WriteServed, Carried
<1>7. QED
  BY <1>6

LEMMA ServerKeepsInv ==
  ASSUME PageInv, NEW c \in calls, Serve(c)
  PROVE  PageInv'
<1>0. PageShape /\ PageShape'
  BY ServerKeepsShape DEF PageInv
<1>1. CASE ServeLoad(c)
  BY <1>0, <1>1, ServedLoadKeepsInv
<1>2. CASE ServeSave(c)
  BY <1>0, <1>2, SaveStores, ServedKeepsInv
<1>3. ASSUME ServeRemove(c) \/ ServeToggle(c) PROVE PageInv'
  <2>1. /\ c.kind \in {"remove", "toggle"} /\ c.state = "sent" /\ clock' = clock + 1
        /\ calls' = Carried(c, c.row, clock') /\ UNCHANGED <<shows, list, form>>
    BY <1>3 DEF ServeRemove, ServeToggle
  <2>2. c \in WriteCalls
    BY <1>0, <2>1, CallTyped
  <2>3. PICK d : d = [c EXCEPT !.state = "done", !.row = c.row, !.at = clock']
    OBVIOUS
  <2>4. d.kind = c.kind /\ d.state = "done" /\ d.at = clock + 1
    BY <2>1, <2>2, <2>3 DEF WriteCalls
  <2>5. WriteServed(c, d)
    BY <2>1, <2>3, <2>4 DEF WriteServed, Carried
  <2>6. QED
    BY <1>0, <2>5, ServedKeepsInv
<1>4. QED
  BY <1>1, <1>2, <1>3 DEF Serve

LEMMA AnswerKeepsInv ==
  ASSUME PageInv, NEW c \in calls, Answer(c)
  PROVE  PageInv'
<1>0. PageShape /\ PageShape'
  BY AnswerKeepsShape DEF PageInv
<1>1. ASSUME NEW ok \in BOOLEAN, Loaded(c, ok) PROVE PageInv'
  BY <1>0, <1>1, LoadedKeepsInv
<1>2. CASE Saved(c) \/ Removed(c) \/ Toggled(c)
  <2>1. WriteAnswered(c)
    BY <1>2 DEF Saved, Removed, Toggled, WriteAnswered
  <2>2. QED
    BY <1>0, <2>1, AnsweredKeepsInv
<1>3. CASE SaveFailed(c) \/ RemoveFailed(c) \/ ToggleFailed(c)
  <2>1. WriteRefused(c)
    BY <1>3 DEF SaveFailed, RemoveFailed, ToggleFailed, WriteRefused
  <2>2. QED
    BY <1>0, <2>1, RefusedKeepsInv
<1>4. QED
  BY <1>1, <1>2, <1>3 DEF Answer

LEMMA PageKeepsInv == PageInv /\ PageNext => PageInv'
<1> SUFFICES ASSUME PageInv, PageNext PROVE PageInv'
  OBVIOUS
<1>0. PageShape'
  BY PageKeepsShape DEF PageInv
<1>1. QED
  BY <1>0, UserKeepsInv, DebouncedKeepsInv, OthersKeepInv, ServerKeepsInv, AnswerKeepsInv DEF PageNext

-----------------------------------------------------------------------------
(* A page that is mounted, or no page *)

Fresh ==
  /\ shows \in Observed \cup {Landing}
  /\ table \in Snapshot /\ clock = 0
  /\ list = Mounted /\ form = ClosedForm /\ asks = NotAsking
  /\ calls \subseteq {LoadOf(1, "")}

LEMMA FreshInv == Fresh => PageInv
<1> SUFFICES ASSUME Fresh PROVE PageInv
  OBVIOUS
<1> DEFINE first == LoadOf(1, "")
<1>0. calls \subseteq {first} /\ clock = 0 /\ list = Mounted
  BY DEF Fresh
<1>a. first \in LoadCalls /\ first.kind = "load" /\ first.id = 1 /\ first.state = "sent" /\ first.at = 0
  <2>1. "" \in Texts /\ 1 \in Nat
    BY DEF Texts
  <2>2. QED
    BY <2>1, NewLoadTyped
<1> HIDE DEF first
<1>1. \A c \in calls : c \in LoadCalls /\ c.kind = "load" /\ c.id = 1 /\ c.state = "sent" /\ c.at = 0
  BY <1>0, <1>a
<1>2. Writes = {} /\ SentWrites = {} /\ Saves = {}
  BY <1>1 DEF Writes, SentWrites, Saves
<1>3. PageShape
  <2>1. IsFiniteSet({first})
    BY FS_Singleton
  <2>2. IsFiniteSet(calls)
    BY <1>0, <2>1, FS_Subset
  <2>3. QED
    BY <1>1, <2>2, MountedTyped DEF PageShape, Fresh
<1>4. /\ list.search = list.debounced /\ list.at = 0 /\ list.latest = 1 /\ list.page = 1
      /\ list.size = 1 /\ list.items = NoRows /\ list.wrote.at = 0 /\ list.wrote.row = 0
  BY <1>0 DEF Mounted, NoWrite
<1>5. PageBounds
  BY <1>0, <1>2, <1>4, FS_EmptySet, ListPageConstants DEF PageBounds, ListPageConstants
<1>6. NothingAhead /\ NewestIsNewer /\ NewestAwaited /\ SaveIsKnown
  BY <1>0, <1>1, <1>2, <1>4 DEF NothingAhead, NewestIsNewer, NewestAwaited, SaveIsKnown
<1>7. LoadsNumbered
  BY <1>0, <1>1, <1>4 DEF LoadsNumbered, Loads
<1>8. UpToDate
  <2>1. Agrees(list.items)
    BY <1>4 DEF Agrees, NoRows
  <2>2. Stored(list.wrote)
    BY <1>4, SizePositive DEF Stored
  <2>3. QED
    BY <1>0, <1>1, <1>2, <2>1, <2>2 DEF UpToDate, Loads
<1>9. PageExists
  <2>1. PageCount(Cardinality(Listed), 1) \in Nat \ {0}
    BY PagesCounted DEF Listed
  <2>2. QED
    BY <1>4, <2>1 DEF PageExists
<1>10. QED
  BY <1>3, <1>5, <1>6, <1>7, <1>8, <1>9 DEF PageInv

LEMMA FreshInvNext == Fresh' => PageInv'
BY FreshInv, PTL

LEMMA MountIsFresh ==
  /\ MountList(Landing) => Fresh'
  /\ UnmountList => Fresh'
BY MountedTyped, StorableIsValue DEF MountList, UnmountList, Fresh

LEMMA SamePageKeepsInv == PageInv /\ UNCHANGED pageVars => PageInv'
<1> SUFFICES ASSUME PageInv, UNCHANGED pageVars PROVE PageInv'
  OBVIOUS
<1>1. PageShape' /\ ViewChanges
  BY SameListView DEF PageInv, PageShape, pageVars
<1>2. QED
  BY <1>1, ViewKeepsInv

-----------------------------------------------------------------------------
(* The page of a new invoice *)

LEMMA OrderTyped ==
  ASSUME FormShape, NEW o \in orders
  PROVE  /\ o.kind \in {"create", "issue", "quick"} /\ o.state \in {"sent", "done"}
         /\ o.kind # "quick" => o.of \in Invoices
BY DEF FormShape, OrderStates

LEMMA InvoicesNotZero == 0 \notin Invoices /\ 1 \in 1 .. MaxLines
BY NewInvoiceConstants DEF NewInvoiceConstants, Invoices

LEMMA InvoiceMountedInv == InvoiceMounted => InvoiceInv'
<1> SUFFICES ASSUME InvoiceMounted PROVE InvoiceInv'
  OBVIOUS
<1>1. BlankInvoice \in InvoiceStates
  BY InvoicesNotZero DEF BlankInvoice, InvoiceStates
<1>2. FormShape'
  BY <1>1 DEF InvoiceMounted, FormShape
<1>3. DraftInv'
  BY DEF InvoiceMounted, DraftInv, Creations, BlankInvoice
<1>4. QED
  BY <1>2, <1>3 DEF InvoiceInv

(* The creations and issues under way stay when the form goes.             *)
LEMMA FormLeftKeeps ==
  ASSUME FormShape, NEW rest \in SUBSET orders, FormLeft(rest)
  PROVE  /\ orders' \subseteq OrderStates
         /\ \A o \in orders' : o.kind # "quick" => o \in rest
         /\ \A o \in orders' : o.kind # "quick" => o.of \in Invoices
<1>1. ASSUME NEW p \in orders'
      PROVE  p \in OrderStates /\ (p.kind # "quick" => p \in rest)
  <2>1. PICK o \in rest : p = IF o.kind = "quick" THEN [o EXCEPT !.live = FALSE] ELSE o
    BY DEF FormLeft
  <2>2. o \in OrderStates
    BY DEF FormShape
  <2>3. [o EXCEPT !.live = FALSE] \in OrderStates /\ [o EXCEPT !.live = FALSE].kind = o.kind
    BY <2>2 DEF OrderStates
  <2>4. QED
    BY <2>1, <2>2, <2>3
<1>2. QED
  BY <1>1 DEF FormShape

LEMMA CarriedOutKeeps ==
  ASSUME FormShape, NEW o \in orders, o.kind # "quick", orders' = CarriedOut(o)
  PROVE  \E p : /\ orders' = (orders \ {o}) \cup {p}
                /\ p.kind = o.kind /\ p.state = "done"
                /\ orders' \subseteq OrderStates
                /\ \A q \in orders' : q.kind # "quick" => q.of \in Invoices
<1>1. o \in OrderStates /\ o.of \in Invoices
  BY DEF FormShape
<1>2. PICK p : p = [o EXCEPT !.state = "done"]
  OBVIOUS
<1>3. p \in OrderStates /\ p.kind = o.kind /\ p.state = "done" /\ p.of = o.of
  BY <1>1, <1>2 DEF OrderStates
<1>4. orders' = (orders \ {o}) \cup {p}
  BY <1>2 DEF CarriedOut
<1>5. orders' \subseteq OrderStates /\ \A q \in orders' : q.kind # "quick" => q.of \in Invoices
  BY <1>1, <1>3, <1>4 DEF FormShape
<1>6. QED
  BY <1>3, <1>4, <1>5

(* The kinds of step: a creation that is under way is added, carried out,  *)
(* or answered; the others leave the creations as they are.                *)
LEMMA SameCreations ==
  ASSUME InvoiceInv, FormShape', Creations' = Creations,
         invoice'.submitting = invoice.submitting, lost' = lost,
         invoice'.drafts = invoice.drafts,
         invoice'.shown = 0 => invoice.shown = 0
  PROVE  InvoiceInv'
BY DEF InvoiceInv, DraftInv

LEMMA UserKeepsInvoice ==
  ASSUME InvoiceInv, UserOnInvoice
  PROVE  InvoiceInv'
<1> USE DEF InvoiceInv
<1>0. /\ FormShape /\ invoice \in InvoiceStates /\ lost \in Nat /\ orders \subseteq OrderStates
      /\ \A o \in orders : o.kind # "quick" => o.of \in Invoices
  BY DEF FormShape
<1>1. CASE ChangeLines
  <2>1. PICK n \in 1 .. MaxLines : invoice' = [invoice EXCEPT !.lines = n]
    BY <1>1 DEF ChangeLines
  <2>2. /\ invoice' \in InvoiceStates /\ invoice'.submitting = invoice.submitting
        /\ invoice'.drafts = invoice.drafts /\ invoice'.shown = invoice.shown
    BY <1>0, <2>1 DEF InvoiceStates
  <2>3. UNCHANGED <<orders, lost>>
    BY <1>1 DEF ChangeLines
  <2>4. FormShape' /\ Creations' = Creations
    BY <1>0, <2>2, <2>3 DEF FormShape, Creations
  <2>5. QED
    BY <2>2, <2>3, <2>4, SameCreations
<1>2. CASE SubmitInvoice
  <2>1. /\ invoice.shown = 0 /\ ~invoice.submitting /\ lost' = lost
        /\ invoice' = [invoice EXCEPT !.submitting = TRUE]
    BY <1>2 DEF SubmitInvoice, OnForm
  <2>2. PICK i \in Invoices : orders' = orders \cup {Order("create", i)}
    BY <1>2 DEF SubmitInvoice
  <2>3. PICK o : o = Order("create", i)
    OBVIOUS
  <2>4. o \in OrderStates /\ o.kind = "create" /\ o.state = "sent" /\ o.of = i
    BY <2>3 DEF Order, OrderStates
  <2>5. /\ invoice' \in InvoiceStates /\ invoice'.submitting
        /\ invoice'.drafts = invoice.drafts /\ invoice'.shown = 0
    BY <1>0, <2>1 DEF InvoiceStates
  <2>6. FormShape'
    BY <1>0, <2>1, <2>2, <2>3, <2>4, <2>5 DEF FormShape
  <2>7. Creations' = {o}
    BY <2>1, <2>2, <2>3, <2>4 DEF Creations, DraftInv
  <2>8. invoice.drafts <= lost /\ invoice.drafts <= lost + 1
    BY <2>1 DEF DraftInv
  <2>9. DraftInv'
    BY <2>1, <2>5, <2>7, <2>8 DEF DraftInv
  <2>10. QED
    BY <2>6, <2>9
<1>3. CASE IssueInvoice
  <2>1. /\ invoice.shown # 0 /\ lost' = lost /\ invoice' = [invoice EXCEPT !.issuing = TRUE]
        /\ orders' = orders \cup {Order("issue", invoice.shown)}
    BY <1>3 DEF IssueInvoice
  <2>2. PICK i \in Invoices : i = invoice.shown
    BY <1>0, <2>1 DEF InvoiceStates
  <2>3. PICK o : o = Order("issue", i)
    OBVIOUS
  <2>4. o \in OrderStates /\ o.kind = "issue" /\ o.of = i
    BY <2>3 DEF Order, OrderStates
  <2>5. /\ invoice' \in InvoiceStates /\ invoice'.submitting = invoice.submitting
        /\ invoice'.drafts = invoice.drafts /\ invoice'.shown = invoice.shown
    BY <1>0, <2>1 DEF InvoiceStates
  <2>6. FormShape'
    BY <1>0, <2>1, <2>2, <2>3, <2>4, <2>5 DEF FormShape
  <2>7. Creations' = Creations
    BY <2>1, <2>2, <2>3, <2>4 DEF Creations
  <2>8. QED
    BY <2>1, <2>5, <2>6, <2>7, SameCreations
<1>4. CASE StartOver
  <2>1. /\ lost' = 0 /\ orders' = orders
        /\ invoice' = [invoice EXCEPT !.shown = 0, !.status = "none", !.lines = 1, !.drafts = 0]
    BY <1>4 DEF StartOver
  <2>2. /\ invoice' \in InvoiceStates /\ invoice'.submitting = invoice.submitting
        /\ invoice'.drafts = 0
    <3>1. \A n \in 1 .. MaxLines, m \in Nat, z \in Invoices \cup {0} :
            [invoice EXCEPT !.shown = z, !.status = "none", !.lines = n, !.drafts = m] \in InvoiceStates
      BY <1>0, Zenon DEF InvoiceStates
    <3>2. invoice' \in InvoiceStates
      BY <2>1, <3>1, InvoicesNotZero
    <3>3. QED
      BY <1>0, <2>1, <3>2 DEF InvoiceStates
  <2>3. FormShape'
    BY <1>0, <2>1, <2>2 DEF FormShape
  <2>4. Creations' = Creations
    BY <2>1 DEF Creations
  <2>5. DraftInv'
    BY <2>1, <2>2, <2>4 DEF DraftInv
  <2>6. QED
    BY <2>3, <2>5
<1>5. ASSUME NEW k \in Pickers, OpenOrCancel(k) \/ Choose(k) PROVE InvoiceInv'
  <2>1. UNCHANGED <<invoice, orders, lost>>
    BY <1>5 DEF OpenOrCancel, Choose
  <2>2. FormShape' /\ Creations' = Creations
    BY <1>0, <2>1 DEF FormShape, Creations
  <2>3. QED
    BY <2>1, <2>2, SameCreations
<1>6. ASSUME NEW k \in Pickers, QuickCreate(k) PROVE InvoiceInv'
  <2>1. UNCHANGED <<invoice, lost>> /\ orders' = orders \cup {QuickOrder(k)}
    BY <1>6 DEF QuickCreate
  <2>2. PICK o : o = QuickOrder(k)
    OBVIOUS
  <2>3. o \in OrderStates /\ o.kind = "quick"
    BY <2>2 DEF QuickOrder, Order, OrderStates
  <2>4. FormShape'
    BY <1>0, <2>1, <2>2, <2>3 DEF FormShape
  <2>5. Creations' = Creations
    BY <2>1, <2>2, <2>3 DEF Creations
  <2>6. QED
    BY <2>1, <2>4, <2>5, SameCreations
<1>7. QED
  BY <1>1, <1>2, <1>3, <1>4, <1>5, <1>6 DEF UserOnInvoice

LEMMA OrderKeepsInvoice ==
  ASSUME InvoiceInv, NEW o \in orders,
         \/ ServeCreate(o) \/ InvoiceCreated(o) \/ CreateFailed(o)
         \/ ServeIssue(o) \/ InvoiceIssued(o) \/ IssueFailed(o)
         \/ QuickCreated(o) \/ QuickFailed(o)
  PROVE  InvoiceInv'
<1> USE DEF InvoiceInv
<1>0. /\ FormShape /\ invoice \in InvoiceStates /\ lost \in Nat /\ orders \subseteq OrderStates
      /\ \A p \in orders : p.kind # "quick" => p.of \in Invoices
      /\ invoice.drafts \in Nat
  BY DEF FormShape, InvoiceStates
<1>c. o.kind = "create" => Creations = {o} /\ invoice.submitting
  BY DEF DraftInv, Creations
<1>1. CASE ServeCreate(o)
  <2>1. /\ o.kind = "create" /\ o.state = "sent" /\ orders' = CarriedOut(o)
        /\ invoice' = [invoice EXCEPT !.drafts = @ + 1] /\ lost' = lost
    BY <1>1 DEF ServeCreate
  <2>2. PICK p : /\ orders' = (orders \ {o}) \cup {p} /\ p.kind = o.kind /\ p.state = "done"
                 /\ orders' \subseteq OrderStates
                 /\ \A q \in orders' : q.kind # "quick" => q.of \in Invoices
    BY <1>0, <2>1, CarriedOutKeeps
  <2>3. PICK n \in Nat : n = invoice.drafts + 1
    BY <1>0
  <2>4. /\ invoice' \in InvoiceStates /\ invoice'.submitting = invoice.submitting
        /\ invoice'.drafts = n /\ invoice'.shown = invoice.shown
    BY <1>0, <2>1, <2>3 DEF InvoiceStates
  <2>5. Creations' = {p}
    BY <1>c, <2>1, <2>2 DEF Creations
  <2>6. n <= lost + 1
    BY <1>0, <1>c, <2>1, <2>3 DEF DraftInv
  <2>7. FormShape'
    BY <1>0, <2>1, <2>2, <2>4 DEF FormShape
  <2>8. DraftInv'
    BY <1>c, <2>1, <2>2, <2>4, <2>5, <2>6 DEF DraftInv
  <2>9. QED
    BY <2>7, <2>8
<1>2. CASE InvoiceCreated(o)
  <2>1. /\ o.kind = "create" /\ o.state = "done" /\ FormLeft(orders \ {o}) /\ lost' = lost
        /\ invoice' = [invoice EXCEPT !.shown = o.of, !.status = "draft", !.submitting = FALSE]
    BY <1>2 DEF InvoiceCreated
  <2>2. /\ orders' \subseteq OrderStates
        /\ \A q \in orders' : q.kind # "quick" => q \in orders \ {o} /\ q.of \in Invoices
    BY <1>0, <2>1, FormLeftKeeps
  <2>3. o.of \in Invoices /\ o.of # 0
    BY <1>0, <2>1, InvoicesNotZero
  <2>4. /\ invoice' \in InvoiceStates
        /\ invoice'.drafts = invoice.drafts /\ invoice'.shown = o.of
    BY <1>0, <2>1, <2>3 DEF InvoiceStates
  <2>5. Creations' = {}
    BY <1>c, <2>1, <2>2 DEF Creations
  <2>6. FormShape'
    BY <1>0, <2>1, <2>2, <2>4 DEF FormShape
  <2>7. DraftInv'
    BY <2>1, <2>3, <2>4, <2>5 DEF DraftInv
  <2>8. QED
    BY <2>6, <2>7
<1>3. CASE CreateFailed(o)
  <2>1. /\ o.kind = "create" /\ orders' = orders \ {o}
        /\ invoice' = [invoice EXCEPT !.submitting = FALSE]
        /\ lost' = lost + (IF o.state = "done" THEN 1 ELSE 0)
    BY <1>3 DEF CreateFailed
  <2>2. invoice' \in InvoiceStates /\ invoice'.drafts = invoice.drafts
    BY <1>0, <2>1 DEF InvoiceStates
  <2>3. Creations' = {}
    BY <1>c, <2>1 DEF Creations
  <2>4. lost' \in Nat /\ invoice.drafts <= lost'
    <3>1. CASE o.state = "done"
      BY <1>0, <2>1, <3>1 DEF DraftInv
    <3>2. CASE o.state # "done"
      <4>1. o.state = "sent" /\ o \in Creations
        BY <1>0, <1>c, <2>1, <3>2, OrderTyped
      <4>2. QED
        BY <1>0, <2>1, <3>2, <4>1 DEF DraftInv
    <3>3. QED
      BY <3>1, <3>2
  <2>5. FormShape'
    BY <1>0, <2>1, <2>2, <2>4 DEF FormShape
  <2>6. DraftInv'
    BY <1>0, <2>2, <2>3, <2>4 DEF DraftInv
  <2>7. QED
    BY <2>5, <2>6
<1>4. CASE ServeIssue(o)
  <2>1. o.kind = "issue" /\ orders' = CarriedOut(o) /\ UNCHANGED <<invoice, lost>>
    BY <1>4 DEF ServeIssue
  <2>2. PICK p : /\ orders' = (orders \ {o}) \cup {p} /\ p.kind = o.kind
                 /\ orders' \subseteq OrderStates
                 /\ \A q \in orders' : q.kind # "quick" => q.of \in Invoices
    BY <1>0, <2>1, CarriedOutKeeps
  <2>3. FormShape' /\ Creations' = Creations
    BY <1>0, <2>1, <2>2 DEF FormShape, Creations
  <2>4. QED
    BY <2>1, <2>3, SameCreations
<1>5. CASE InvoiceIssued(o)
  <2>1. /\ o.kind = "issue" /\ FormLeft(orders \ {o}) /\ lost' = lost
        /\ invoice' = [invoice EXCEPT !.shown = o.of, !.status = "issued", !.issuing = FALSE]
    BY <1>5 DEF InvoiceIssued
  <2>2. /\ orders' \subseteq OrderStates
        /\ \A q \in orders' : q.kind # "quick" => q \in orders \ {o} /\ q.of \in Invoices
    BY <1>0, <2>1, FormLeftKeeps
  <2>3. o.of \in Invoices /\ o.of # 0
    BY <1>0, <2>1, InvoicesNotZero
  <2>4. /\ invoice' \in InvoiceStates /\ invoice'.submitting = invoice.submitting
        /\ invoice'.drafts = invoice.drafts /\ invoice'.shown = o.of
    BY <1>0, <2>1, <2>3 DEF InvoiceStates
  <2>5. Creations' \subseteq Creations
    BY <2>2 DEF Creations
  <2>6. FormShape'
    BY <1>0, <2>1, <2>2, <2>4 DEF FormShape
  <2>7. DraftInv'
    BY <2>1, <2>3, <2>4, <2>5 DEF DraftInv
  <2>8. QED
    BY <2>6, <2>7
<1>6. CASE IssueFailed(o)
  <2>1. /\ o.kind = "issue" /\ orders' = orders \ {o} /\ lost' = lost
        /\ invoice' = [invoice EXCEPT !.issuing = FALSE]
    BY <1>6 DEF IssueFailed
  <2>2. /\ invoice' \in InvoiceStates /\ invoice'.submitting = invoice.submitting
        /\ invoice'.drafts = invoice.drafts /\ invoice'.shown = invoice.shown
    BY <1>0, <2>1 DEF InvoiceStates
  <2>3. FormShape' /\ Creations' = Creations
    BY <1>0, <2>1, <2>2 DEF FormShape, Creations
  <2>4. QED
    BY <2>1, <2>2, <2>3, SameCreations
<1>7. CASE QuickCreated(o) \/ QuickFailed(o)
  <2>1. o.kind = "quick" /\ orders' = orders \ {o} /\ UNCHANGED <<invoice, lost>>
    BY <1>7 DEF QuickCreated, QuickFailed
  <2>2. FormShape' /\ Creations' = Creations
    BY <1>0, <2>1 DEF FormShape, Creations
  <2>3. QED
    BY <2>1, <2>2, SameCreations
<1>8. QED
  BY <1>1, <1>2, <1>3, <1>4, <1>5, <1>6, <1>7

LEMMA InvoiceKeepsInv == InvoiceInv /\ InvoiceNext => InvoiceInv'
<1> SUFFICES ASSUME InvoiceInv, InvoiceNext PROVE InvoiceInv'
  OBVIOUS
<1>1. CASE ListsLoaded \/ ListsFailed
  <2>1. PICK l \in {"ready", "failed"} : invoice' = [invoice EXCEPT !.lists = l]
    BY <1>1 DEF ListsLoaded, ListsFailed
  <2>2. UNCHANGED <<orders, lost>>
    BY <1>1 DEF ListsLoaded, ListsFailed
  <2>3. invoice \in InvoiceStates
    BY DEF InvoiceInv, FormShape
  <2>4. /\ invoice' \in InvoiceStates /\ invoice'.submitting = invoice.submitting
        /\ invoice'.drafts = invoice.drafts /\ invoice'.shown = invoice.shown
    BY <2>1, <2>3 DEF InvoiceStates
  <2>5. FormShape' /\ Creations' = Creations
    BY <2>2, <2>4 DEF InvoiceInv, FormShape, Creations
  <2>6. QED
    BY <2>2, <2>4, <2>5, SameCreations
<1>2. QED
  BY <1>1, UserKeepsInvoice, OrderKeepsInvoice DEF InvoiceNext

LEMMA SameInvoiceKeepsInv == InvoiceInv /\ UNCHANGED invoiceVars => InvoiceInv'
<1> SUFFICES ASSUME InvoiceInv, UNCHANGED invoiceVars PROVE InvoiceInv'
  OBVIOUS
<1>1. UNCHANGED <<invoice, orders, lost>>
  BY DEF invoiceVars
<1>2. FormShape' /\ Creations' = Creations
  BY <1>1 DEF InvoiceInv, FormShape, Creations
<1>3. QED
  BY <1>1, <1>2, SameCreations

-----------------------------------------------------------------------------
(* The session, and the client as a whole *)

LEMMA SessionKeepsInv == SessionInv /\ Next => SessionInv'
<1> SUFFICES ASSUME SessionInv, Next PROVE SessionInv'
  OBVIOUS
<1> USE DEF SessionInv
<1>1. CASE Login
  BY <1>1 DEF Login
<1>2. CASE LoggedIn
  BY <1>2 DEF LoggedIn
<1>3. CASE LoginFailed
  BY <1>3 DEF LoginFailed
<1>4. CASE Logout
  BY <1>4 DEF Logout
<1>5. CASE Named
  BY <1>5 DEF Named
<1>6. CASE NotNamed
  BY <1>6 DEF NotNamed
<1>7. CASE OtherTab
  BY <1>7 DEF OtherTab, OnLanding
<1>8. CASE LoadApplication
  BY <1>8 DEF LoadApplication, OnLanding
<1>9. CASE GoToNewInvoice \/ GoToInvoices
  BY <1>9 DEF GoToNewInvoice, GoToInvoices, OnLanding, session
<1>10. CASE StepOfList \/ StepOfNewInvoice
  BY <1>10 DEF StepOfList, StepOfNewInvoice, session
<1>11. QED
  BY <1>1, <1>2, <1>3, <1>4, <1>5, <1>6, <1>7, <1>8, <1>9, <1>10 DEF Next

LEMMA InitialInv == Init => WebInv
<1> SUFFICES ASSUME Init PROVE WebInv
  OBVIOUS
<1>1. PageInv
  <2>1. Fresh
    BY StorableIsValue DEF Init, PageInit, Fresh
  <2>2. QED
    BY <2>1, FreshInv
<1>2. SessionInv
  BY DEF Init, SessionInv
<1>3. InvoiceInv
  <2>1. BlankInvoice \in InvoiceStates
    BY InvoicesNotZero DEF BlankInvoice, InvoiceStates
  <2>2. FormShape
    BY <2>1 DEF Init, FormShape
  <2>3. DraftInv
    BY DEF Init, DraftInv, Creations, BlankInvoice
  <2>4. QED
    BY <2>2, <2>3 DEF InvoiceInv
<1>4. QED
  BY <1>1, <1>2, <1>3 DEF WebInv

LEMMA NextKeepsInv == WebInv /\ [Next]_vars => WebInv'
<1> SUFFICES ASSUME WebInv, [Next]_vars PROVE WebInv'
  OBVIOUS
<1>0. PageInv /\ SessionInv /\ InvoiceInv
  BY DEF WebInv
<1>1. CASE UNCHANGED vars
  <2>1. UNCHANGED pageVars /\ UNCHANGED invoiceVars /\ UNCHANGED <<route, session>>
    BY <1>1 DEF vars
  <2>2. SessionInv'
    BY <1>0, <2>1 DEF SessionInv, session
  <2>3. QED
    BY <1>0, <2>1, <2>2, SamePageKeepsInv, SameInvoiceKeepsInv DEF WebInv
<1>2. CASE Next
  <2>1. SessionInv'
    BY <1>0, <1>2, SessionKeepsInv
  <2>2. PageInv'
    <3>1. UNCHANGED pageVars \/ MountList(Landing) \/ UnmountList \/ PageNext
      BY <1>2 DEF Next, Login, LoggedIn, LoginFailed, Logout, Named, NotNamed, OtherTab,
         LoadApplication, GoToNewInvoice, GoToInvoices, StepOfList, StepOfNewInvoice
    <3>2. QED
      BY <1>0, <3>1, SamePageKeepsInv, MountIsFresh, FreshInvNext, PageKeepsInv
  <2>3. InvoiceInv'
    <3>1. UNCHANGED invoiceVars \/ InvoiceMounted \/ InvoiceNext
      BY <1>2 DEF Next, Login, LoggedIn, LoginFailed, Logout, Named, NotNamed, OtherTab,
         LoadApplication, GoToNewInvoice, GoToInvoices, StepOfList, StepOfNewInvoice
    <3>2. QED
      BY <1>0, <3>1, SameInvoiceKeepsInv, InvoiceMountedInv, InvoiceKeepsInv
  <2>4. QED
    BY <2>1, <2>2, <2>3 DEF WebInv
<1>3. QED
  BY <1>1, <1>2

(* Whatever the order of the answers: what is under way carries the bounds *)
(* and the ages that the list of a page depends on, a form knows its save, *)
(* and an undisturbed tab is of one firm.                                  *)
THEOREM WebClientInvariant == Spec => []WebInv
<1>1. Init => WebInv
  BY InitialInv
<1>2. WebInv /\ [Next]_vars => WebInv'
  BY NextKeepsInv
<1>3. QED
  BY <1>1, <1>2, PTL DEF Spec

-----------------------------------------------------------------------------
(* What the invariant says *)

LEMMA InvTyped == WebInv => TypeOK
<1> SUFFICES ASSUME WebInv PROVE TypeOK
  OBVIOUS
<1> USE DEF WebInv
<1>1. PageInv /\ PageShape /\ SessionInv /\ invoice \in InvoiceStates
  BY DEF PageInv, InvoiceInv, FormShape
<1>2. /\ clock + Cardinality(SentWrites) <= MaxWrites
      /\ list.latest + Cardinality(Writes) <= MaxLoads
      /\ Cardinality(SentWrites) \in Nat /\ Cardinality(Writes) \in Nat
  BY <1>1, WritesCounted DEF PageInv, PageBounds
<1>3. clock \in 0 .. MaxWrites /\ list.latest \in 1 .. MaxLoads
  <2>1. list.latest \in Nat \ {0}
    BY <1>1 DEF PageShape, ListStates
  <2>2. QED
    BY <1>1, <1>2, <2>1, BoundsTyped
<1>4. list.at \in 0 .. MaxWrites /\ list.wrote.at \in 0 .. MaxWrites
  BY <1>1, <1>3, BoundsTyped DEF PageInv, NothingAhead
<1>5. list.page \in 1 .. Size
  <2>1. list.size \in {1, 2} /\ list.page \in Nat \ {0}
    BY <1>1 DEF PageShape, ListStates
  <2>2. Cardinality(Listed) \in Nat /\ Cardinality(Listed) <= Size
    BY ListedFinite DEF Listed
  <2>3. PICK p : p = PageCount(Cardinality(Listed), list.size)
    OBVIOUS
  <2>4. p \in Nat \ {0} /\ (p = 1 \/ p <= Cardinality(Listed))
    BY <2>1, <2>2, <2>3, LastPage
  <2>5. list.page <= p
    BY <1>1, <2>3 DEF PageInv, PageExists
  <2>6. QED
    BY <2>1, <2>2, <2>4, <2>5, SizePositive
<1>6. list \in [search: Texts, debounced: Texts, loaded: BOOLEAN, items: Snapshot,
                at: 0 .. MaxWrites, error: BOOLEAN, page: 1 .. Size, size: {1, 2},
                tab: TabNames, latest: 1 .. MaxLoads,
                wrote: [row: Rows \cup {0}, value: Values, shown: Values, at: 0 .. MaxWrites]]
  <2>1. list.wrote \in [row: Rows \cup {0}, value: Values, shown: Values, at: 0 .. MaxWrites]
    <3>1. list.wrote \in [row: Rows \cup {0}, value: Values, shown: Values, at: Nat]
      BY <1>1 DEF PageShape, ListStates
    <3>2. QED
      BY <1>4, <3>1
  <2>2. list \in ListStates
    BY <1>1 DEF PageShape
  <2>3. QED
    BY <1>3, <1>4, <1>5, <2>1, <2>2 DEF ListStates
<1>7. PageTypeOK
  BY <1>1, <1>3, <1>6 DEF PageTypeOK, PageShape, FormStates
<1>8. invoice.lines \in 1 .. MaxLines /\ invoice.shown \in Invoices \cup {0}
  BY <1>1 DEF InvoiceStates
<1>9. QED
  BY <1>1, <1>7, <1>8 DEF TypeOK, SessionInv, PageShape

LEMMA ListAtKept ==
  ASSUME PageInv, PageNext, Page.hook
  PROVE  list'.at >= list.at
<1>0. list \in ListStates /\ list.at \in Nat
  BY DEF PageInv, PageShape, ListStates
<1>1. CASE UserOnPage
  <2>1. list'.at = list.at
    BY <1>0, <1>1 DEF UserOnPage, Type, ChooseTab, TurnPage, ResizePage, Create, Fill, Cancel, Submit,
       Dismiss, Confirm, Edit, AskRemove, ToggleFavorite, ListStates
  <2>2. QED
    BY <1>0, <2>1
<1>2. CASE Debounced
  BY <1>0, <1>2 DEF Debounced, ListStates
<1>3. CASE OthersWrite
  BY <1>0, <1>3 DEF OthersWrite
<1>4. ASSUME NEW c \in calls, Serve(c) PROVE list'.at >= list.at
  <2>1. list' = list
    BY <1>4, Zenon DEF Serve, ServeLoad, ServeSave, ServeRemove, ServeToggle
  <2>2. QED
    BY <1>0, <2>1
<1>5. ASSUME NEW c \in calls, Answer(c) PROVE list'.at >= list.at
  <2>1. ASSUME NEW ok \in BOOLEAN, Loaded(c, ok) PROVE list'.at >= list.at
    <3>1. list'.at = list.at \/ (~Stale(c) /\ ok /\ list'.at = c.at)
      BY <1>0, <2>1 DEF Loaded, ListStates
    <3>2. ~Stale(c) /\ ok => c.at >= list.at
      BY <2>1 DEF Loaded, Stale, PageInv, NewestIsNewer, Newest
    <3>3. QED
      BY <1>0, <3>1, <3>2
  <2>2. CASE Saved(c) \/ Removed(c) \/ Toggled(c)
    <3>1. list'.at = list.at
      BY <1>0, <2>2 DEF Saved, Removed, Toggled, Acknowledged, ListStates
    <3>2. QED
      BY <1>0, <3>1
  <2>3. CASE SaveFailed(c) \/ RemoveFailed(c) \/ ToggleFailed(c)
    BY <1>0, <2>3 DEF SaveFailed, RemoveFailed, ToggleFailed
  <2>4. QED
    BY <1>5, <2>1, <2>2, <2>3 DEF Answer
<1>6. QED
  BY <1>1, <1>2, <1>3, <1>4, <1>5 DEF PageNext

LEMMA NeverBackStep ==
  WebInv /\ [Next]_vars
    => [Page.hook /\ list.loaded /\ list'.loaded => list'.at >= list.at]_pageVars
<1> SUFFICES ASSUME WebInv, [Next]_vars, ~UNCHANGED pageVars,
                    Page.hook, list.loaded, list'.loaded
             PROVE  list'.at >= list.at
  OBVIOUS
<1>1. Next
  BY DEF vars
<1>2. MountList(Landing) \/ UnmountList \/ PageNext
  BY <1>1 DEF Next, Login, LoggedIn, LoginFailed, Logout, Named, NotNamed, OtherTab,
     LoadApplication, GoToNewInvoice, GoToInvoices, StepOfList, StepOfNewInvoice
<1>3. CASE MountList(Landing) \/ UnmountList
  <2>1. list' = Mounted
    BY <1>3 DEF MountList, UnmountList
  <2>2. Mounted.loaded = FALSE
    BY DEF Mounted
  <2>3. QED
    BY <2>1, <2>2, Zenon
<1>4. CASE PageNext
  BY <1>4, ListAtKept DEF WebInv
<1>5. QED
  BY <1>2, <1>3, <1>4

LEMMA OwnWritesFollow == PageInv => OwnWritesShown
BY DEF PageInv, NewestAwaited, OwnWritesShown, Quiet

LEMMA SavedFollows == PageInv => SavedIsShown
<1> DEFINE w == list.wrote
<1> SUFFICES ASSUME PageInv, Page.hook, Quiet, ~list.error, w.row \in Listed, w.at = clock,
                    w.value # w.shown, Field # "omitted"
             PROVE  list.items[w.row] = w.value
  BY DEF SavedIsShown
<1>1. list.at = clock
  <2>1. list.at >= w.at
    BY OwnWritesFollow DEF OwnWritesShown
  <2>2. QED
    BY <2>1, BoundsTyped DEF PageInv, NothingAhead
<1>2. w.row \in Rows /\ list.items[w.row] # Gone
  BY DEF Listed
<1>3. table[w.row] = w.value
  BY <1>2 DEF PageInv, UpToDate, Stored
<1>4. list.items[w.row] \in {Gone, table[w.row]}
  BY <1>1, <1>2 DEF PageInv, UpToDate, Agrees
<1>5. QED
  BY <1>2, <1>3, <1>4

LEMMA OneSaveFollows == PageInv => OneSaveAtATime
<1> SUFFICES ASSUME PageInv PROVE Cardinality(Saves) <= 1
  BY DEF OneSaveAtATime, Saves
<1>1. CASE Saves = {}
  BY <1>1, FS_EmptySet
<1>2. CASE Saves # {}
  <2>1. PICK c : Saves = {c}
    BY <1>2 DEF PageInv, SaveIsKnown
  <2>2. Cardinality({c}) = 1
    BY FS_Singleton
  <2>3. QED
    BY <2>1, <2>2
<1>3. QED
  BY <1>1, <1>2

LEMMA OneDraftFollows == InvoiceInv => OneDraftPerForm
<1> SUFFICES ASSUME InvoiceInv PROVE invoice.drafts <= 1 + lost
  BY DEF OneDraftPerForm
<1>1. invoice.drafts \in Nat /\ lost \in Nat /\ invoice.drafts <= lost + 1
  BY DEF InvoiceInv, FormShape, InvoiceStates, DraftInv
<1>2. QED
  BY <1>1

(* Everything has the shape the code gives it, for any number of rows,     *)
(* loads, writes, firms and lines.                                         *)
THEOREM WebClientTyped == Spec => []TypeOK
BY WebClientInvariant, InvTyped, PTL

(* A list of the hook never goes back to an older state of the table while *)
(* it stays mounted: reload's number drops every answer but the newest's.  *)
THEOREM ListNeverBackInTime == Spec => NeverBackInTime
<1>1. Spec => []WebInv
  BY WebClientInvariant
<1>2. QED
  BY <1>1, NeverBackStep, PTL DEF Spec, NeverBackInTime

(* When nothing is under way, a list of the hook is at least as new as the *)
(* last write of this user: its reload is the newest load, or older than   *)
(* it.                                                                     *)
THEOREM OwnWritesAreShown == Spec => []OwnWritesShown
<1>1. WebInv => OwnWritesShown
  BY OwnWritesFollow DEF WebInv
<1>2. QED
  BY <1>1, WebClientInvariant, PTL

(* A field that was changed in a form, or emptied, and saved is shown as   *)
(* it was typed, unless somebody wrote since or the form omits it.         *)
THEOREM SavedFieldIsShown == Spec => []SavedIsShown
<1>1. WebInv => SavedIsShown
  BY SavedFollows DEF WebInv
<1>2. QED
  BY <1>1, WebClientInvariant, PTL

(* A table of the hook is never without rows, for any number of rows,      *)
(* except under the tabs of the contacts that leave rows out.              *)
THEOREM CurrentPageShowsRows == Spec => []PageShowsRows
<1>1. WebInv => PageShowsRows
  BY TableNotEmpty DEF WebInv, PageInv
<1>2. QED
  BY <1>1, WebClientInvariant, PTL

(* A form has one save under way at most.                                  *)
THEOREM FormSavesOnce == Spec => []OneSaveAtATime
<1>1. WebInv => OneSaveAtATime
  BY OneSaveFollows DEF WebInv
<1>2. QED
  BY <1>1, WebClientInvariant, PTL

(* The firm in the header of an undisturbed tab is the one its requests    *)
(* are made for.                                                           *)
THEOREM HeaderIsTheFirm == Spec => []HeaderNamesTheFirm
<1>1. WebInv => HeaderNamesTheFirm
  BY DEF WebInv, SessionInv, HeaderNamesTheFirm
<1>2. QED
  BY <1>1, WebClientInvariant, PTL

(* One filled form makes one draft, and another only for each creation     *)
(* whose answer was lost.                                                  *)
THEOREM FormMakesOneDraft == Spec => []OneDraftPerForm
<1>1. WebInv => OneDraftPerForm
  BY OneDraftFollows DEF WebInv
<1>2. QED
  BY <1>1, WebClientInvariant, PTL
=============================================================================
