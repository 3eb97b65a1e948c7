--------------------------- MODULE InboxApiProofs ---------------------------
(***************************************************************************)
(* Theorems about InboxApi, for every number of callers, every size of the *)
(* inbox, of a page and of the audit ring, and every bound.                *)
(***************************************************************************)
EXTENDS InboxApi, FiniteSetTheorems, TLAPS

\* The inbox is a finite set of ids, each with a receive time.
InboxTyped ==
    /\ IsFiniteSet(Inbox) /\ Inbox \subseteq Nat \ {0}
    /\ msgs \in [Inbox -> [at : Nat, read : BOOLEAN]]

-----------------------------------------------------------------------------
(* The order of the inbox.  The library's induction theorems cannot be     *)
(* instantiated here; that a set of numbers has a least element can.       *)

LEMMA LeastNat ==
  ASSUME NEW T, T \subseteq Nat, T # {}
  PROVE  \E x \in T : \A y \in T : x <= y
<1> DEFINE R == {ss \in Nat \X Nat : ss[1] < ss[2]}
<1>1. IsWellFoundedOn(R, Nat)
  BY NatLessThanWellFounded DEF OpToRel
<1>2. \E x \in T : \A y \in T : ~(<<y, x>> \in R)
  <2> HIDE DEF R
  <2> QED BY <1>1, WFMin
<1>3. PICK x \in T : \A y \in T : ~(<<y, x>> \in R)
  BY <1>2
<1>4. ASSUME NEW y \in T PROVE x <= y
  <2>1. x \in Nat /\ y \in Nat
    OBVIOUS
  <2>2. ~(<<y, x>> \in R)
    BY <1>3
  <2>3. ASSUME y < x PROVE FALSE
    <3>1. <<y, x>> \in Nat \X Nat
      BY <2>1
    <3>2. <<y, x>>[1] < <<y, x>>[2]
      BY <2>3
    <3> QED BY <3>1, <3>2, <2>2
  <2> QED BY <2>1, <2>3
<1> QED BY <1>4

\* a stands before b in the inbox.
Before(a, b) == NewerThan(a, msgs[b].at, b)

LEMMA TimeType ==
  ASSUME InboxTyped, NEW a \in Inbox
  PROVE  a \in Nat /\ a # 0 /\ msgs[a].at \in Nat /\ msgs[a].read \in BOOLEAN
  BY DEF InboxTyped

LEMMA Order ==
  ASSUME InboxTyped, NEW a \in Inbox, NEW b \in Inbox, NEW c \in Inbox
  PROVE  /\ ~Before(a, a)
         /\ Before(a, b) /\ Before(b, c) => Before(a, c)
         /\ a # b => Before(a, b) \/ Before(b, a)
<1>1. /\ a \in Nat /\ msgs[a].at \in Nat
      /\ b \in Nat /\ msgs[b].at \in Nat
      /\ c \in Nat /\ msgs[c].at \in Nat
  BY TimeType
<1> QED BY <1>1 DEF Before, NewerThan

\* Every part of the inbox has an oldest message.
LEMMA LastExists ==
  ASSUME InboxTyped, NEW S, S \subseteq Inbox, S # {}
  PROVE  \E o \in S : \A x \in S \ {o} : Before(x, o)
<1> DEFINE T == {msgs[x].at : x \in S}
<1>1. T \subseteq Nat /\ T # {}
  BY TimeType
<1>2. PICK t \in T : \A y \in T : t <= y
  <2> HIDE DEF T
  <2> QED BY <1>1, LeastNat
<1> DEFINE U == {x \in S : msgs[x].at = t}
<1>3. U \subseteq Nat /\ U # {}
  BY <1>2, TimeType
<1>4. PICK o \in U : \A y \in U : o <= y
  <2> HIDE DEF U
  <2> QED BY <1>3, LeastNat
<1>5. ASSUME NEW x \in S, x # o PROVE Before(x, o)
  <2>1. t \in Nat /\ msgs[o].at = t /\ o \in S
    BY <1>1, <1>4
  <2>2. msgs[x].at \in T /\ msgs[x].at \in Nat /\ x \in Nat /\ o \in Nat
    BY <2>1, TimeType
  <2>3. t <= msgs[x].at
    BY <1>2, <2>2
  <2>4. msgs[x].at = t => o <= x
    BY <1>4
  <2> QED BY <1>5, <2>1, <2>2, <2>3, <2>4 DEF Before, NewerThan
<1> QED BY <1>4, <1>5

LEMMA OldestIs ==
  ASSUME InboxTyped, Inbox # {}
  PROVE  Oldest \in Inbox
<1>1. \E o \in Inbox : \A x \in Inbox \ {o} : Before(x, o)
  BY LastExists
<1> QED BY <1>1 DEF Oldest, Before

-----------------------------------------------------------------------------
(* Sorting: a part of the inbox, newest first.                             *)

Falling(s) == \A i, j \in DOMAIN s : i < j => Before(s[i], s[j])

Sortable(S) == \E s \in [1..Cardinality(S) -> S] : Falling(s)

LEMMA SortOne ==
  ASSUME InboxTyped, NEW S, S \subseteq Inbox, IsFiniteSet(S), NEW o \in S,
         \A x \in S \ {o} : Before(x, o), Sortable(S \ {o})
  PROVE  Sortable(S)
<1> DEFINE n == Cardinality(S)
<1>1. n \in Nat /\ n # 0 /\ Cardinality(S \ {o}) = n - 1
  BY FS_CardinalityType, FS_EmptySet, FS_RemoveElement
<1>2. PICK s \in [1..(n - 1) -> S \ {o}] : Falling(s)
  BY <1>1 DEF Sortable
<1> HIDE DEF n
<1> DEFINE t == [i \in 1..n |-> IF i = n THEN o ELSE s[i]]
<1>3. t \in [1..n -> S]
  BY <1>1, <1>2
<1>4. ASSUME NEW i \in 1..n, NEW j \in 1..n, i < j PROVE Before(t[i], t[j])
  <2>1. i \in 1..(n - 1) /\ t[i] = s[i] /\ s[i] \in S \ {o}
    BY <1>1, <1>2, <1>4
  <2>2. CASE j = n
    BY <2>1, <2>2
  <2>3. CASE j # n
    <3>1. j \in 1..(n - 1) /\ t[j] = s[j]
      BY <1>1, <2>3
    <3>2. DOMAIN s = 1..(n - 1)
      BY <1>2
    <3> QED BY <1>2, <1>4, <2>1, <3>1, <3>2 DEF Falling
  <2> QED BY <2>2, <2>3
<1>5. DOMAIN t = 1..n
  OBVIOUS
<1> HIDE DEF t
<1>6. Falling(t)
  BY <1>4, <1>5 DEF Falling
<1> QED BY <1>3, <1>6 DEF Sortable, n

\* By taking the oldest away until nothing is left.
LEMMA Sorting ==
  ASSUME InboxTyped, NEW S, S \subseteq Inbox
  PROVE  Sortable(S)
<1> DEFINE Bad == {X \in SUBSET Inbox : ~Sortable(X)}
           T == {Cardinality(X) : X \in Bad}
<1>1. ASSUME NEW X \in SUBSET Inbox
      PROVE  IsFiniteSet(X) /\ Cardinality(X) \in Nat
  BY FS_Subset, FS_CardinalityType DEF InboxTyped
<1>2. SUFFICES ASSUME T # {} PROVE FALSE
  OBVIOUS
<1>3. T \subseteq Nat
  BY <1>1
<1>4. PICK n \in T : \A y \in T : n <= y
  <2> HIDE DEF T
  <2> QED BY <1>2, <1>3, LeastNat
<1>5. PICK X \in Bad : n = Cardinality(X)
  BY <1>4
<1>6. X \subseteq Inbox /\ ~Sortable(X) /\ IsFiniteSet(X) /\ n \in Nat
  BY <1>1, <1>5
<1>7. X # {}
  <2> SUFFICES ASSUME X = {} PROVE FALSE
    OBVIOUS
  <2>1. Cardinality(X) = 0
    BY FS_EmptySet
  <2>2. [i \in 1..0 |-> 0] \in [1..Cardinality(X) -> X]
    BY <2>1
  <2>3. Falling([i \in 1..0 |-> 0])
    BY DEF Falling
  <2> QED BY <1>6, <2>2, <2>3 DEF Sortable
<1>8. PICK o \in X : \A x \in X \ {o} : Before(x, o)
  BY <1>6, <1>7, LastExists
<1>9. Cardinality(X \ {o}) = n - 1
  BY <1>5, <1>6, FS_RemoveElement
<1>10. Sortable(X \ {o})
  <2> SUFFICES ASSUME ~Sortable(X \ {o}) PROVE FALSE
    OBVIOUS
  <2>1. X \ {o} \in Bad
    BY <1>6
  <2>2. n - 1 \in T
    BY <1>9, <2>1
  <2>3. n <= n - 1
    BY <1>4, <2>2
  <2> QED BY <1>6, <2>3
<1> QED BY <1>6, <1>8, <1>10, SortOne

\* NewestFirst lists each message of S once, the newest first.
LEMMA NewestFirstIs ==
  ASSUME InboxTyped, NEW S, S \subseteq Inbox, NEW s, s = NewestFirst(S)
  PROVE  /\ s \in Seq(S) /\ Len(s) = Cardinality(S) /\ Len(s) \in Nat
         /\ Falling(s) /\ IsInjective(s) /\ ToSet(s) = S
<1>1. IsFiniteSet(S) /\ Cardinality(S) \in Nat
  BY FS_Subset, FS_CardinalityType DEF InboxTyped
<1> DEFINE n == Cardinality(S)
<1>2. s \in [1..n -> S] /\ Falling(s)
  BY Sorting DEF NewestFirst, Sortable, Falling, Before
<1>3. s \in Seq(S) /\ Len(s) = n
  BY <1>1, <1>2
<1>4. IsInjective(s)
  <2> SUFFICES ASSUME NEW i \in 1..n, NEW j \in 1..n, i < j PROVE s[i] # s[j]
    BY <1>1, <1>2 DEF IsInjective
  <2>1. Before(s[i], s[j]) /\ s[i] \in Inbox
    BY <1>2 DEF Falling
  <2> QED BY <2>1, Order
<1>5. ToSet(s) = S
  <2>1. s \in Injection(1..n, S)
    BY <1>2, <1>4 DEF Injection, IsInjective
  <2>2. Cardinality(1..n) = n /\ IsFiniteSet(1..n)
    BY <1>1, FS_Interval
  <2>3. s \in Surjection(1..n, S)
    BY <1>1, <2>1, <2>2, FS_Injection
  <2> QED BY <1>2, <2>3 DEF Surjection, ToSet
<1> QED BY <1>1, <1>2, <1>3, <1>4, <1>5

-----------------------------------------------------------------------------
(* A page.                                                                 *)

LEMMA MinIs ==
  ASSUME NEW a \in Nat, NEW b \in Nat
  PROVE  /\ Min({a, b}) \in Nat /\ Min({a, b}) <= a /\ Min({a, b}) <= b
         /\ Min({a, b}) = a \/ Min({a, b}) = b
<1>1. \E x \in {a, b} : \A y \in {a, b} : x <= y
  OBVIOUS
<1> QED BY <1>1 DEF Min

LEMMA AfterIs ==
  ASSUME InboxTyped, NEW cur \in Inbox
  PROVE  After(cur) = {id \in Inbox : Before(cur, id)}
<1>1. cur # 0 /\ CursorAt(cur) = msgs[cur].at
  BY TimeType DEF CursorAt
<1>2. After(cur) = {id \in Inbox \ {cur} : ~Before(id, cur)}
  BY <1>1 DEF After, Before
<1>3. ASSUME NEW id \in Inbox
      PROVE  (id # cur /\ ~Before(id, cur)) <=> Before(cur, id)
  BY Order
<1> QED BY <1>2, <1>3

\* The messages a page of c may show, from the cursor on.
Ahead(c, cur) == {id \in After(cur) : Matches(c, msgs[id])}

LEMMA AheadType == \A c, cur : Ahead(c, cur) \subseteq Inbox
  BY DEF Ahead, After

\* A page is the front of what is ahead; when it does not reach the end its
\* last row parts what was shown from what is left.
LEMMA PageIs ==
  ASSUME InboxTyped, NEW c, NEW cur, NEW res, res = Page(c, cur)
  PROVE  /\ res.rows \in Seq(Inbox) /\ IsInjective(res.rows)
         /\ ToSet(res.rows) \subseteq Ahead(c, cur)
         /\ res.next \in Nat
         /\ res.next = 0 => ToSet(res.rows) = Ahead(c, cur)
         /\ res.next # 0 =>
              /\ Len(res.rows) = PageLimit
              /\ res.next \in Ahead(c, cur)
              /\ \A x \in ToSet(res.rows) : ~Before(res.next, x)
              /\ \A x \in Ahead(c, cur) \ ToSet(res.rows) : Before(res.next, x)
<1> DEFINE S == Ahead(c, cur)
<1>1. S \subseteq Inbox
  BY AheadType
<1> DEFINE rows == NewestFirst(S)
<1> HIDE DEF S
<1>2. /\ rows \in Seq(S) /\ Len(rows) \in Nat
      /\ Falling(rows) /\ IsInjective(rows) /\ ToSet(rows) = S
  BY <1>1, NewestFirstIs
<1> DEFINE m == Min({PageLimit, Len(rows)})
           page == SubSeq(rows, 1, m)
<1>3. /\ res.rows = page
      /\ res.next = IF Len(rows) > PageLimit THEN Last(page) ELSE 0
  BY DEF Page, S, Ahead
<1> HIDE DEF rows
<1>4. PageLimit \in Nat \ {0}
  BY InboxAssumption
<1>5. m \in Nat /\ m <= PageLimit /\ m <= Len(rows) /\ (m = PageLimit \/ m = Len(rows))
  BY <1>2, <1>4, MinIs
<1> HIDE DEF m
<1>6. /\ page \in Seq(S) /\ Len(page) = m
      /\ \A i \in 1..m : page[i] = rows[i] /\ i \in DOMAIN rows
  BY <1>2, <1>5
<1>7. DOMAIN rows = 1..Len(rows) /\ DOMAIN page = 1..m
  BY <1>2, <1>6
<1> HIDE DEF page
<1>8. page \in Seq(Inbox) /\ IsInjective(page) /\ ToSet(page) \subseteq S
  <2>1. page \in Seq(Inbox)
    BY <1>1, <1>6
  <2>2. IsInjective(page)
    BY <1>2, <1>6, <1>7 DEF IsInjective
  <2>3. ToSet(page) \subseteq S
    BY <1>6, <1>7 DEF ToSet
  <2> QED BY <2>1, <2>2, <2>3
<1>9. CASE Len(rows) <= PageLimit
  <2>1. m = Len(rows) /\ res.next = 0
    BY <1>2, <1>3, <1>4, <1>5, <1>9
  <2>2. ToSet(page) = S
    BY <1>2, <1>6, <1>7, <2>1 DEF ToSet
  <2> QED BY <1>3, <1>8, <2>1, <2>2 DEF S
<1>10. CASE Len(rows) > PageLimit
  <2>1. m = PageLimit /\ m >= 1 /\ res.next = Last(page)
    BY <1>2, <1>3, <1>4, <1>5, <1>10
  <2>2. Last(page) = rows[m] /\ rows[m] \in S /\ rows[m] \in Inbox
    BY <1>1, <1>2, <1>5, <1>6, <2>1 DEF Last
  <2>3. ASSUME NEW x \in ToSet(page) PROVE ~Before(rows[m], x)
    <3>1. PICK i \in 1..m : x = rows[i]
      BY <1>6, <1>7 DEF ToSet
    <3>2. x \in Inbox
      BY <1>1, <1>8
    <3>3. i < m => Before(x, rows[m])
      BY <1>2, <1>5, <1>6, <2>1, <3>1 DEF Falling
    <3> QED BY <1>5, <2>2, <3>1, <3>2, <3>3, Order
  <2>4. ASSUME NEW x \in S \ ToSet(page) PROVE Before(rows[m], x)
    <3>1. PICK i \in 1..Len(rows) : x = rows[i]
      BY <1>2, <1>7 DEF ToSet
    <3>2. ~(i \in 1..m)
      BY <1>6, <1>7, <3>1 DEF ToSet
    <3>3. m < i /\ m \in DOMAIN rows /\ i \in DOMAIN rows
      BY <1>2, <1>5, <1>7, <2>1, <3>1, <3>2
    <3> QED BY <1>2, <3>1, <3>3 DEF Falling
  <2>5. rows[m] \in Nat /\ rows[m] # 0
    BY <2>2, TimeType
  <2>6. res.next = rows[m] /\ res.rows = page /\ Len(page) = PageLimit
    BY <1>3, <1>6, <2>1, <2>2
  <2>7. \A x \in ToSet(page) : ~Before(rows[m], x)
    BY <2>3
  <2>8. \A x \in S \ ToSet(page) : Before(rows[m], x)
    BY <2>4
  <2> QED BY <1>8, <2>2, <2>5, <2>6, <2>7, <2>8 DEF S
<1> QED BY <1>2, <1>4, <1>9, <1>10

\* A listing that showed rows, up to the cursor, none of them twice: of k
\* nothing is missing that the cursor has passed.
Parted(rows, cur, k) ==
    /\ rows \in Seq(Inbox) /\ IsInjective(rows)
    /\ cur # 0 => cur \in Inbox
    /\ ToSet(rows) \cap After(cur) = {}
    /\ k \subseteq ToSet(rows) \cup After(cur)

\* What caller c may be shown of the inbox.
Showing(c) == {id \in Inbox : Matches(c, msgs[id])}

LEMMA SeqMono ==
  ASSUME NEW S, NEW T, S \subseteq T, NEW s \in Seq(S)
  PROVE  s \in Seq(T)
<1>1. s \in [1..Len(s) -> T] /\ Len(s) \in Nat
  OBVIOUS
<1> QED BY <1>1

LEMMA Concat ==
  ASSUME NEW S, NEW s \in Seq(S), NEW t \in Seq(S)
  PROVE  /\ s \o t \in Seq(S) /\ Len(s \o t) = Len(s) + Len(t)
         /\ ToSet(s \o t) = ToSet(s) \cup ToSet(t)
         /\ IsInjective(s) /\ IsInjective(t) /\ ToSet(s) \cap ToSet(t) = {}
              => IsInjective(s \o t)
<1> DEFINE u == s \o t
<1>1. /\ u \in Seq(S) /\ Len(u) = Len(s) + Len(t) /\ Len(s) \in Nat /\ Len(t) \in Nat
      /\ DOMAIN u = 1..Len(u) /\ DOMAIN s = 1..Len(s) /\ DOMAIN t = 1..Len(t)
      /\ \A i \in 1..Len(u) : u[i] = IF i <= Len(s) THEN s[i] ELSE t[i - Len(s)]
  OBVIOUS
<1> HIDE DEF u
<1>2. ToSet(u) \subseteq ToSet(s) \cup ToSet(t)
  <2> SUFFICES ASSUME NEW i \in 1..Len(u) PROVE u[i] \in ToSet(s) \cup ToSet(t)
    BY <1>1 DEF ToSet
  <2>1. CASE i <= Len(s)
    <3>1. u[i] = s[i] /\ i \in 1..Len(s)
      BY <1>1, <2>1
    <3> QED BY <1>1, <3>1 DEF ToSet
  <2>2. CASE i > Len(s)
    <3>1. u[i] = t[i - Len(s)] /\ i - Len(s) \in 1..Len(t)
      BY <1>1, <2>2
    <3> QED BY <1>1, <3>1 DEF ToSet
  <2> QED BY <1>1, <2>1, <2>2
<1>3. ToSet(s) \subseteq ToSet(u)
  <2> SUFFICES ASSUME NEW i \in 1..Len(s) PROVE s[i] \in ToSet(u)
    BY <1>1 DEF ToSet
  <2>1. i \in 1..Len(u) /\ u[i] = s[i]
    BY <1>1
  <2> QED BY <1>1, <2>1 DEF ToSet
<1>4. ToSet(t) \subseteq ToSet(u)
  <2> SUFFICES ASSUME NEW i \in 1..Len(t) PROVE t[i] \in ToSet(u)
    BY <1>1 DEF ToSet
  <2>1. /\ i + Len(s) \in 1..Len(u) /\ u[i + Len(s)] = t[(i + Len(s)) - Len(s)]
        /\ (i + Len(s)) - Len(s) = i
    BY <1>1
  <2> QED BY <1>1, <2>1 DEF ToSet
<1>5. ASSUME IsInjective(s), IsInjective(t), ToSet(s) \cap ToSet(t) = {}
      PROVE  IsInjective(u)
  <2> SUFFICES ASSUME NEW i \in 1..Len(u), NEW j \in 1..Len(u), u[i] = u[j], i < j PROVE FALSE
    BY <1>1 DEF IsInjective
  <2>0. /\ \A x, y \in 1..Len(s) : s[x] = s[y] => x = y
        /\ \A x, y \in 1..Len(t) : t[x] = t[y] => x = y
    BY <1>1, <1>5 DEF IsInjective
  <2>1. CASE j <= Len(s)
    <3>1. i \in 1..Len(s) /\ j \in 1..Len(s) /\ s[i] = s[j]
      BY <1>1, <2>1
    <3>2. i = j
      BY <2>0, <3>1
    <3> QED BY <1>1, <3>2
  <2>2. CASE i > Len(s)
    <3>1. i - Len(s) \in 1..Len(t) /\ j - Len(s) \in 1..Len(t) /\ t[i - Len(s)] = t[j - Len(s)]
      BY <1>1, <2>2
    <3>2. i - Len(s) = j - Len(s)
      BY <2>0, <3>1
    <3> QED BY <1>1, <3>2
  <2>3. CASE i <= Len(s) /\ j > Len(s)
    <3>1. i \in 1..Len(s) /\ j - Len(s) \in 1..Len(t) /\ s[i] = t[j - Len(s)]
      BY <1>1, <2>3
    <3>2. s[i] \in ToSet(s) /\ t[j - Len(s)] \in ToSet(t)
      BY <1>1, <3>1 DEF ToSet
    <3> QED BY <1>5, <3>1, <3>2
  <2> QED BY <1>1, <2>1, <2>2, <2>3
<1> QED BY <1>1, <1>2, <1>3, <1>4, <1>5 DEF u

\* One more page: nothing twice, and nothing of k lost.
Advances(rows, cur, k, res) ==
    LET more == rows \o res.rows
    IN  /\ more \in Seq(Inbox) /\ IsInjective(more)
        /\ res.next = 0 => k \subseteq ToSet(more)
        /\ res.next # 0 =>
             /\ Parted(more, res.next, k) /\ res.next # cur
             /\ Len(more) = Len(rows) + PageLimit

LEMMA PageAdvances ==
  ASSUME InboxTyped, NEW c, NEW rows, NEW cur, NEW k, Parted(rows, cur, k),
         k \subseteq Showing(c), NEW res, res = Page(c, cur)
  PROVE  Advances(rows, cur, k, res)
<1> DEFINE more == rows \o res.rows
<1>1. /\ res.rows \in Seq(Inbox) /\ IsInjective(res.rows)
      /\ ToSet(res.rows) \subseteq Ahead(c, cur)
      /\ res.next \in Nat
      /\ res.next = 0 => ToSet(res.rows) = Ahead(c, cur)
      /\ res.next # 0 =>
           /\ Len(res.rows) = PageLimit
           /\ res.next \in Ahead(c, cur)
           /\ \A x \in ToSet(res.rows) : ~Before(res.next, x)
           /\ \A x \in Ahead(c, cur) \ ToSet(res.rows) : Before(res.next, x)
  BY PageIs
<1>2. Ahead(c, cur) = {id \in After(cur) : Matches(c, msgs[id])} /\ After(cur) \subseteq Inbox
  BY DEF Ahead, After
<1>3. /\ rows \in Seq(Inbox) /\ IsInjective(rows) /\ (cur # 0 => cur \in Inbox)
      /\ ToSet(rows) \cap After(cur) = {} /\ k \subseteq ToSet(rows) \cup After(cur)
  BY DEF Parted
<1>4. ToSet(rows) \cap ToSet(res.rows) = {}
  BY <1>1, <1>2, <1>3
<1>5. /\ more \in Seq(Inbox) /\ IsInjective(more) /\ Len(more) = Len(rows) + Len(res.rows)
      /\ ToSet(more) = ToSet(rows) \cup ToSet(res.rows)
  BY <1>1, <1>3, <1>4, Concat
<1> HIDE DEF more
<1>6. k \subseteq ToSet(rows) \cup Ahead(c, cur)
  BY <1>2, <1>3 DEF Showing
<1>7. ASSUME res.next = 0 PROVE k \subseteq ToSet(more)
  BY <1>1, <1>5, <1>6, <1>7
<1>8. ASSUME res.next # 0
      PROVE  /\ Parted(more, res.next, k) /\ res.next # cur
             /\ Len(more) = Len(rows) + PageLimit
  <2>1. res.next \in Inbox /\ res.next \in After(cur)
    BY <1>1, <1>2, <1>8
  <2>2. After(res.next) = {id \in Inbox : Before(res.next, id)}
    BY <2>1, AfterIs
  <2>3. res.next # cur
    <3>1. CASE cur = 0
      BY <1>8, <3>1
    <3>2. CASE cur # 0
      BY <2>1, <3>2 DEF After
    <3> QED BY <3>1, <3>2
  <2>4. ASSUME NEW x \in ToSet(rows) PROVE ~Before(res.next, x)
    <3>1. x \in Inbox /\ x \notin After(cur)
      BY <1>3 DEF ToSet
    <3>2. cur # 0
      BY <3>1 DEF After
    <3>3. cur \in Inbox /\ After(cur) = {id \in Inbox : Before(cur, id)}
      BY <1>3, <3>2, AfterIs
    <3>4. Before(cur, res.next) /\ ~Before(cur, x)
      BY <2>1, <3>1, <3>3
    <3> QED BY <2>1, <3>1, <3>3, <3>4, Order
  <2>5. ToSet(more) \cap After(res.next) = {}
    BY <1>1, <1>5, <1>8, <2>2, <2>4
  <2>6. k \subseteq ToSet(more) \cup After(res.next)
    <3>1. Ahead(c, cur) \ ToSet(res.rows) \subseteq After(res.next)
      BY <1>1, <1>2, <1>8, <2>2
    <3> QED BY <1>5, <1>6, <3>1
  <2> QED BY <1>1, <1>5, <1>8, <2>1, <2>3, <2>5, <2>6 DEF Parted
<1> QED BY <1>5, <1>7, <1>8 DEF Advances, more

-----------------------------------------------------------------------------
(* The inductive invariant.                                                *)

Removals == {"delete", "clear"}

Ops == {"none", "page", "email", "delete", "clear", "reset", "audit"}
PCs == {"idle", "list", "next", "encode", "pages", "match", "remove", "note", "append",
        "rotate", "get"}
Answers == {"none", "ok", "stale", "conflict", "notfound"}
Cursors == [id : Nat, gen : Nat, key : Nat]
Rows == Seq(Nat)
Expectations == Int \cup {NoGuard}

RequestSet ==
    [op : Ops, pc : PCs, unread : BOOLEAN, cur : Cursors, rows : Rows, left : Int,
     from : Nat, to : Nat, expect : Expectations, target : Nat, event : Nat, ans : Answers]

EventSet == [id : Nat, op : {"delete", "clear", "reset"}, message : Nat, gen : Nat]

StoreTyped ==
    /\ InboxTyped /\ Cardinality(Inbox) <= MaxMessages
    /\ now \in Nat /\ gen \in Nat /\ epoch \in Nat /\ key \in Nat
    /\ minted \in Seq(Nat)
    /\ held \subseteq [at : Nat, id : Nat, epoch : Nat]

\* The ring holds the last events, and every event until it is full.
RingOK ==
    /\ ring \in Seq(EventSet) /\ nextID \in Nat
    /\ Len(ring) <= AuditMax /\ Len(ring) <= nextID
    /\ Len(ring) = nextID \/ Len(ring) = AuditMax
    /\ \A j \in 1..Len(ring) : ring[j].id = nextID - Len(ring) + j

\* A listing between two pages: as long as the generation is the one of the
\* last page, everything shown stands before the cursor, and everything to
\* be shown is shown or stands after it.
PagesOK(r, k) ==
    r.pc \in {"list", "encode", "next"} =>
        /\ r.op = "page"
        /\ r.cur.id = 0 => r.rows = <<>>
        /\ r.cur.id # 0 =>
             r.cur.gen <= gen /\ (r.cur.gen = gen => Parted(r.rows, r.cur.id, k))

\* The rows of the pages taken when left are left of the budget.
FullPages(left) == PageLimit * (ListPageBudget - left)

\* The same for GET /email, whose pages so far were all full.
EmailOK(r, k) ==
    r.pc = "pages" =>
        /\ r.op = "email" /\ r.left \in 1..ListPageBudget
        /\ r.cur.id = 0 => r.rows = <<>> /\ r.left = ListPageBudget
        /\ r.cur.id # 0 =>
             /\ r.from <= gen
             /\ r.from = gen =>
                  /\ Parted(r.rows, r.cur.id, k)
                  /\ Len(r.rows) = FullPages(r.left)

\* The messages that match the filter of a request.
Visible(r) == {id \in Inbox : ~(r.unread /\ msgs[id].read)}

\* What is kept matches; a listing answered ok is complete.
ShownOK(r, k) ==
    /\ k \subseteq Visible(r)
    /\ r.pc # "idle" => r.ans = "none"
    /\ \/ r.op = "page" /\ r.ans = "ok"
       \/ r.op = "email" /\ r.ans = "ok" /\ r.from = r.to
       => IsInjective(r.rows) /\ k \subseteq ToSet(r.rows)

\* A deletion, from its test of the generation to its event.
GuardOK(r) ==
    /\ r.pc = "match" => r.op \in Removals /\ r.from <= gen
    /\ r.pc = "remove" => r.op \in Removals
    /\ r.pc \in {"note", "append", "rotate"} => r.op \in Removals \cup {"reset"}
    /\ r.pc \in {"remove", "note"} /\ r.expect # NoGuard => r.from <= r.expect

\* The event of a request, and the one a client asked for.
AuditOK(r) ==
    /\ r.event <= nextID
    /\ r.event # 0 => \A j \in DOMAIN ring : ring[j].id = r.event => ring[j].op = r.op
    /\ r.pc = "get" => r.op = "audit"
    /\ r.op = "audit" => r.pc \in {"get", "idle"} /\ r.target \in 1..nextID
    /\ r.op = "audit" /\ r.ans = "notfound" => nextID - r.target >= AuditMax

RequestOK(r, k) ==
    r \in RequestSet /\ PagesOK(r, k) /\ EmailOK(r, k) /\ ShownOK(r, k) /\ GuardOK(r) /\ AuditOK(r)

InboxInv ==
    /\ StoreTyped /\ RingOK
    /\ call \in [Callers -> RequestSet] /\ kept \in [Callers -> SUBSET Nat]
    /\ \A c \in Callers : RequestOK(call[c], kept[c])

-----------------------------------------------------------------------------
(* The steps of Next, and what they do to the inbox and to the ring.       *)

\* The steps of caller c.
RequestStep(c) ==
    \/ \E unread \in BOOLEAN : BeginPages(c, unread)
    \/ DecodeCursor(c) \/ ListPage(c) \/ EncodeCursor(c)
    \/ BeginEmail(c) \/ EmailPage(c)
    \/ \E op \in Removals, id \in Nat, expect \in Expectations :
          BeginDelete(c, op, id, expect)
    \/ MatchStep(c) \/ RemoveStep(c) \/ BeginReset(c) \/ RotateCursors(c)
    \/ Note(c) \/ RecordAudit(c)
    \/ \E j \in Nat : QueryAudit(c, j)
    \/ GetAudit(c)

LEMMA NextCases ==
  ASSUME InboxInv, Next
  PROVE  \/ Tick \/ Receive
         \/ \E h \in held : Mint(h)
         \/ \E h \in held : Insert(h)
         \/ \E S \in SUBSET Inbox : Marked(S)
         \/ \E c \in Callers : RequestStep(c)
<1>1. gen \in Nat /\ Len(minted) \in Nat
  BY DEF InboxInv, StoreTyped
<1>2. AuditLimit \in Nat
  BY InboxAssumption
<1>3. CASE Mail
  BY <1>3 DEF Mail
<1>4. CASE Mark
  BY <1>4 DEF Mark, MarkRead, GetMessage, MarkAllRead
<1>5. ASSUME NEW c \in Callers, Listing(c) PROVE RequestStep(c)
  BY <1>5 DEF Listing, RequestStep
<1>6. ASSUME NEW c \in Callers, Auditing(c) PROVE RequestStep(c)
  BY <1>2, <1>6 DEF Auditing, RequestStep
<1>7. ASSUME NEW c \in Callers, Deleting(c) PROVE RequestStep(c)
  <2>1. Guards \subseteq Expectations /\ NoGuard \in Expectations
    BY <1>1 DEF Guards, Expectations
  <2>2. 1..Len(minted) \subseteq Nat
    BY <1>1
  <2>3. CASE \/ \E id \in 1..Len(minted) : \E expect \in Guards :
                   BeginDelete(c, "delete", id, expect)
             \/ \E expect \in Guards : BeginDelete(c, "clear", 0, expect)
    BY <2>1, <2>2, <2>3 DEF RequestStep, Removals
  <2>4. CASE \/ \E id \in 1..Len(minted) : CompatDelete(c, "delete", id)
             \/ CompatDelete(c, "clear", 0)
    BY <2>1, <2>2, <2>4 DEF RequestStep, Removals, CompatDelete
  <2>5. CASE \/ MatchStep(c) \/ RemoveStep(c) \/ BeginReset(c) \/ RotateCursors(c)
             \/ Note(c) \/ RecordAudit(c)
    BY <2>5 DEF RequestStep
  <2> QED BY <1>7, <2>3, <2>4, <2>5 DEF Deleting
<1> QED BY <1>3, <1>4, <1>5, <1>6, <1>7 DEF Next

\* Membership and order stand, or the generation has moved.
MoveStep ==
    \/ gen' = gen /\ Inbox' = Inbox /\ \A id \in Inbox : msgs'[id].at = msgs[id].at
    \/ gen' > gen

\* What stays of a set kept is there and matches.
Thins(c) ==
    kept'[c] \subseteq {id \in kept[c] : id \in Inbox' /\ ~(call[c].unread /\ msgs'[id].read)}

LEMMA BecomesThins ==
  ASSUME NEW m, Becomes(m), NEW c \in Callers
  PROVE  Thins(c)
  BY DEF Becomes, Thins, Inbox, Matches

LEMMA QuietStore ==
  ASSUME InboxInv, UNCHANGED <<now, held, store>>, key' \in Nat
  PROVE  StoreTyped' /\ MoveStep
<1>1. msgs' = msgs /\ Inbox' = Inbox /\ gen' = gen
  BY DEF store, Inbox
<1> QED BY <1>1 DEF InboxInv, StoreTyped, InboxTyped, MoveStep, store

LEMMA QuietThins ==
  ASSUME InboxInv, UNCHANGED msgs, NEW c \in Callers, kept'[c] = kept[c]
  PROVE  Thins(c)
<1>1. Inbox' = Inbox
  BY DEF Inbox
<1> QED BY <1>1 DEF InboxInv, RequestOK, ShownOK, Visible, Thins

LEMMA MailTypes ==
  ASSUME InboxInv, Tick \/ Receive \/ \E h \in held : Mint(h)
  PROVE  StoreTyped' /\ MoveStep
<1>1. msgs' = msgs /\ Inbox' = Inbox /\ gen' = gen /\ epoch' = epoch /\ key' = key
  BY DEF Tick, Receive, Mint, store, Inbox
<1>2. InboxTyped' /\ MoveStep
  BY <1>1 DEF InboxInv, StoreTyped, InboxTyped, MoveStep
<1>3. now' \in Nat
  BY DEF InboxInv, StoreTyped, Tick, Receive, Mint
<1>4. minted' \in Seq(Nat) /\ held' \subseteq [at : Nat, id : Nat, epoch : Nat]
  <2>1. CASE Tick \/ Receive
    BY <2>1 DEF InboxInv, StoreTyped, Tick, Receive, store
  <2>2. ASSUME NEW h \in held, Mint(h)
        PROVE  minted' \in Seq(Nat) /\ held' \subseteq [at : Nat, id : Nat, epoch : Nat]
    <3>1. PerMs \in Nat \ {0} /\ now \in Nat /\ minted \in Seq(Nat)
      BY InboxAssumption DEF InboxInv, StoreTyped
    <3>2. now \div PerMs \in Nat
      BY <3>1
    <3>3. minted' \in Seq(Nat) /\ Len(minted') \in Nat
      BY <2>2, <3>1, <3>2 DEF Mint
    <3> QED BY <2>2, <3>3 DEF Mint, InboxInv, StoreTyped
  <2> QED BY <2>1, <2>2
<1> QED BY <1>1, <1>2, <1>3, <1>4 DEF InboxInv, StoreTyped

LEMMA InsertTypes ==
  ASSUME InboxInv, NEW h \in held, Insert(h)
  PROVE  StoreTyped' /\ MoveStep /\ \A c \in Callers : Thins(c)
<1>1. /\ InboxTyped /\ gen \in Nat /\ h \in [at : Nat, id : Nat, epoch : Nat]
      /\ Cardinality(Inbox) \in Nat /\ IsFiniteSet(Inbox) /\ Cardinality(Inbox) <= MaxMessages
      /\ MaxMessages \in Nat \ {0}
  BY InboxAssumption, FS_CardinalityType DEF InboxInv, StoreTyped, InboxTyped
<1>2. /\ now' \in Nat /\ epoch' \in Nat /\ key' \in Nat /\ minted' \in Seq(Nat)
      /\ held' \subseteq [at : Nat, id : Nat, epoch : Nat]
  BY DEF InboxInv, StoreTyped, Insert
<1> DEFINE evicted == IF Fits THEN {} ELSE {Oldest}
           base == Without(evicted)
           m == [id \in DOMAIN base \cup {h.id} |->
                   IF id = h.id THEN [at |-> h.at, read |-> FALSE] ELSE base[id]]
<1>3. CASE h.epoch = epoch /\ (Fits \/ EvictOldest)
  <2>1. Becomes(m) /\ gen' = gen + Cardinality(evicted) + 1 /\ h.id # 0
    BY <1>3 DEF Insert
  <2>2. base = [id \in Inbox \ evicted |-> msgs[id]]
    BY DEF Without
  <2>3. msgs' = m /\ Inbox' = (Inbox \ evicted) \cup {h.id}
    BY <2>1, <2>2 DEF Becomes, Inbox
  <2>4. \A id \in Inbox' : msgs'[id] = IF id = h.id THEN [at |-> h.at, read |-> FALSE] ELSE msgs[id]
    BY <2>2, <2>3
  <2>5. msgs' \in [Inbox' -> [at : Nat, read : BOOLEAN]]
    <3>1. msgs' = [id \in Inbox' |-> msgs'[id]]
      BY <2>2, <2>3
    <3>2. \A id \in Inbox' : msgs'[id] \in [at : Nat, read : BOOLEAN]
      BY <1>1, <2>3, <2>4 DEF InboxTyped
    <3> QED BY <3>1, <3>2
  <2>6. /\ Cardinality(evicted) \in {0, 1} /\ IsFiniteSet(Inbox \ evicted)
        /\ Cardinality(Inbox \ evicted) < MaxMessages /\ Cardinality(Inbox \ evicted) \in Nat
    <3>1. CASE Fits
      <4>1. evicted = {} /\ Inbox \ evicted = Inbox
        BY <3>1
      <4> QED BY <1>1, <3>1, <4>1, FS_EmptySet DEF Fits
    <3>2. CASE ~Fits
      <4>1. evicted = {Oldest} /\ Inbox # {}
        BY <1>1, <3>2, FS_EmptySet DEF Fits
      <4>2. Oldest \in Inbox
        BY <1>1, <4>1, OldestIs
      <4>3. IsFiniteSet(Inbox \ {Oldest}) /\ Cardinality(Inbox \ {Oldest}) = Cardinality(Inbox) - 1
        BY <1>1, <4>2, FS_RemoveElement
      <4>4. Cardinality(Inbox) # 0
        BY <1>1, <4>1, FS_EmptySet
      <4>5. Cardinality(evicted) = 1
        BY <4>1, FS_Singleton
      <4>6. Inbox \ evicted = Inbox \ {Oldest}
        BY <4>1
      <4> HIDE DEF evicted
      <4> QED BY <1>1, <4>3, <4>4, <4>5, <4>6
    <3> QED BY <3>1, <3>2
  <2> HIDE DEF evicted
  <2>7. IsFiniteSet(Inbox') /\ Cardinality(Inbox') <= MaxMessages
    <3> DEFINE X == Inbox \ evicted
    <3>1. /\ IsFiniteSet(X \cup {h.id})
          /\ Cardinality(X \cup {h.id}) = IF h.id \in X THEN Cardinality(X) ELSE Cardinality(X) + 1
      BY <2>6, FS_AddElement
    <3> QED BY <1>1, <2>3, <2>6, <3>1
  <2>8. Inbox' \subseteq Nat \ {0}
    BY <1>1, <2>1, <2>3 DEF InboxTyped
  <2>9. InboxTyped'
    BY <2>5, <2>7, <2>8 DEF InboxTyped
  <2>10. gen' \in Nat /\ gen' > gen
    BY <1>1, <2>1, <2>6
  <2>11. \A c \in Callers : Thins(c)
    <3> HIDE DEF m
    <3> QED BY <2>1, BecomesThins
  <2> QED BY <1>2, <2>7, <2>9, <2>10, <2>11 DEF StoreTyped, MoveStep
<1>4. CASE ~(h.epoch = epoch /\ (Fits \/ EvictOldest))
  <2>1. msgs' = msgs /\ gen' = gen /\ kept' = kept /\ Inbox' = Inbox
    BY <1>4 DEF Insert, Inbox
  <2>2. InboxTyped' /\ MoveStep
    BY <1>1, <2>1 DEF InboxTyped, MoveStep
  <2> QED BY <1>1, <1>2, <2>1, <2>2, QuietThins DEF StoreTyped
<1> QED BY <1>3, <1>4

LEMMA MarkedTypes ==
  ASSUME InboxInv, NEW S \in SUBSET Inbox, Marked(S)
  PROVE  StoreTyped' /\ MoveStep /\ \A c \in Callers : Thins(c)
<1> DEFINE m == [id \in Inbox |-> IF id \in S THEN [msgs[id] EXCEPT !.read = TRUE] ELSE msgs[id]]
<1>1. Becomes(m) /\ gen' = gen
  BY DEF Marked
<1>2. msgs' = m /\ Inbox' = Inbox
  BY <1>1 DEF Becomes, Inbox
<1>3. \A id \in Inbox : /\ m[id] \in [at : Nat, read : BOOLEAN]
                        /\ m[id].at = msgs[id].at
  BY DEF InboxInv, StoreTyped, InboxTyped
<1>4. InboxTyped' /\ MoveStep
  BY <1>1, <1>2, <1>3 DEF InboxInv, StoreTyped, InboxTyped, MoveStep
<1>5. \A c \in Callers : Thins(c)
  <2> HIDE DEF m
  <2> QED BY <1>1, BecomesThins
<1> QED BY <1>2, <1>4, <1>5 DEF InboxInv, StoreTyped, Marked

LEMMA RemoveTypes ==
  ASSUME InboxInv, NEW c \in Callers, RemoveStep(c)
  PROVE  StoreTyped' /\ MoveStep /\ \A d \in Callers : Thins(d)
<1> DEFINE gone == IF call[c].op = "clear" THEN Inbox ELSE {call[c].target} \cap Inbox
<1>1. /\ InboxTyped /\ gen \in Nat /\ IsFiniteSet(Inbox) /\ gone \subseteq Inbox
      /\ Cardinality(Inbox) \in Nat /\ Cardinality(Inbox) <= MaxMessages
  BY FS_CardinalityType DEF InboxInv, StoreTyped, InboxTyped
<1>2. /\ now' \in Nat /\ epoch' \in Nat /\ key' \in Nat /\ minted' \in Seq(Nat)
      /\ held' \subseteq [at : Nat, id : Nat, epoch : Nat]
  BY DEF InboxInv, StoreTyped, RemoveStep
<1>3. CASE Removable(c)
  <2>1. Becomes(Without(gone)) /\ gen' = gen + Cardinality(gone)
    BY <1>3 DEF RemoveStep
  <2> HIDE DEF gone
  <2>2. msgs' = [id \in Inbox \ gone |-> msgs[id]] /\ Inbox' = Inbox \ gone
    BY <2>1 DEF Becomes, Without, Inbox
  <2>3. IsFiniteSet(gone) /\ Cardinality(gone) \in Nat /\ (Cardinality(gone) = 0 <=> gone = {})
    BY <1>1, FS_Subset, FS_CardinalityType, FS_EmptySet
  <2>4. /\ IsFiniteSet(Inbox') /\ Cardinality(Inbox') \in Nat
        /\ Cardinality(Inbox') <= Cardinality(Inbox)
    BY <1>1, <2>2, FS_Subset, FS_CardinalityType
  <2>5. InboxTyped'
    BY <1>1, <2>2, <2>4 DEF InboxTyped
  <2>6. gen' \in Nat /\ MoveStep
    <3>1. CASE gone = {}
      BY <1>1, <2>1, <2>2, <2>3, <3>1 DEF MoveStep
    <3>2. CASE gone # {}
      BY <1>1, <2>1, <2>3, <3>2 DEF MoveStep
    <3> QED BY <3>1, <3>2
  <2>7. Cardinality(Inbox') <= MaxMessages
    BY <1>1, <2>4, InboxAssumption
  <2> QED BY <1>2, <2>1, <2>5, <2>6, <2>7, BecomesThins DEF StoreTyped
<1>4. CASE ~Removable(c)
  <2>1. msgs' = msgs /\ gen' = gen /\ kept' = kept /\ Inbox' = Inbox
    BY <1>4 DEF RemoveStep, Inbox
  <2>2. InboxTyped' /\ MoveStep
    BY <1>1, <2>1 DEF InboxTyped, MoveStep
  <2> QED BY <1>1, <1>2, <2>1, <2>2, QuietThins DEF StoreTyped
<1> QED BY <1>3, <1>4

LEMMA ResetTypes ==
  ASSUME InboxInv, NEW c \in Callers, BeginReset(c)
  PROVE  StoreTyped' /\ MoveStep /\ \A d \in Callers : Thins(d)
<1>1. msgs' = <<>> /\ Inbox' = {}
  BY DEF BeginReset, Inbox
<1>2. Cardinality(Inbox') = 0 /\ IsFiniteSet(Inbox')
  BY <1>1, FS_EmptySet
<1>3. InboxTyped'
  BY <1>1, <1>2 DEF InboxTyped
<1>4. MaxMessages \in Nat
  BY InboxAssumption
<1>5. \A d \in Callers : Thins(d)
  BY DEF BeginReset, Thins
<1>6. gen \in Nat /\ gen' \in Nat /\ gen' > gen /\ epoch' \in Nat
  BY DEF BeginReset, InboxInv, StoreTyped
<1> QED BY <1>1, <1>2, <1>3, <1>4, <1>5, <1>6 DEF InboxInv, StoreTyped, MoveStep, BeginReset

\* The ring stands, or takes one event with the next id.
RecordStep ==
    \/ UNCHANGED audit
    \/ /\ nextID' = nextID + 1
       /\ \A j \in 1..Len(ring') :
             ring'[j].id = nextID + 1 \/ \E i \in 1..Len(ring) : ring'[j] = ring[i]

LEMMA QuietRing ==
  ASSUME InboxInv, UNCHANGED audit
  PROVE  RingOK' /\ RecordStep
  BY DEF InboxInv, RingOK, audit, RecordStep

LEMMA RecordTypes ==
  ASSUME InboxInv, NEW c \in Callers, RecordAudit(c)
  PROVE  /\ RingOK' /\ RecordStep
         /\ \A j \in 1..Len(ring') : ring'[j].id = nextID' => ring'[j].op = call[c].op
<1> DEFINE ev == [id |-> nextID', op |-> call[c].op, message |-> call[c].target,
                  gen |-> call[c].from]
           n == Len(ring)
           all == Append(ring, ev)
<1>0. RingOK
  BY DEF InboxInv
<1>1. /\ ring \in Seq(EventSet) /\ n \in Nat /\ nextID \in Nat /\ n <= AuditMax /\ n <= nextID
      /\ n = nextID \/ n = AuditMax
      /\ \A j \in 1..n : ring[j].id = nextID - n + j
  BY <1>0 DEF RingOK
<1>2. AuditMax \in Nat \ {0}
  BY InboxAssumption
<1>3. nextID' = nextID + 1 /\ ring' = Appended(ev)
  BY DEF RecordAudit
<1>4. call[c].op \in Removals \cup {"reset"} /\ call[c] \in RequestSet
  BY DEF RecordAudit, At, InboxInv, RequestOK, GuardOK
<1>5. ev \in EventSet /\ ev.id = nextID + 1 /\ ev.op = call[c].op
  BY <1>1, <1>3, <1>4 DEF EventSet, RequestSet, Removals, Ops
<1> HIDE DEF ev
<1>6. /\ all \in Seq(EventSet) /\ Len(all) = n + 1
      /\ \A j \in 1..(n + 1) : all[j] = IF j = n + 1 THEN ev ELSE ring[j]
  BY <1>1, <1>5
<1>7. ring' = IF n + 1 > AuditMax THEN Tail(all) ELSE all
  BY <1>3, <1>6 DEF Appended
<1> HIDE DEF n, all
<1>8. CASE n + 1 <= AuditMax
  <2>1. ring' = all /\ n = nextID
    BY <1>1, <1>2, <1>7, <1>8
  <2>2. Len(ring') = n + 1 /\ \A j \in 1..(n + 1) : ring'[j] = IF j = n + 1 THEN ev ELSE ring[j]
    BY <1>6, <2>1
  <2>3. \A j \in 1..(n + 1) : ring'[j].id = nextID' - Len(ring') + j
    BY <1>1, <1>3, <1>5, <2>1, <2>2
  <2>4. \A j \in 1..n : ring'[j].id # nextID'
    BY <1>1, <1>3, <2>2, <2>3
  <2>5. RingOK'
    BY <1>1, <1>3, <1>6, <1>8, <2>1, <2>2, <2>3 DEF RingOK
  <2>6. RecordStep
    <3> SUFFICES ASSUME NEW j \in 1..(n + 1)
                 PROVE  ring'[j].id = nextID + 1 \/ \E i \in 1..Len(ring) : ring'[j] = ring[i]
      BY <1>3, <2>2 DEF RecordStep
    <3>1. j = n + 1 \/ j \in 1..n
      BY <1>1
    <3> QED BY <1>1, <1>5, <2>2, <3>1 DEF n
  <2>7. \A j \in 1..Len(ring') : ring'[j].id = nextID' => ring'[j].op = call[c].op
    BY <1>1, <1>5, <2>2, <2>4
  <2> QED BY <2>5, <2>6, <2>7
<1>9. CASE n + 1 > AuditMax
  <2>1. ring' = Tail(all) /\ n = AuditMax /\ n >= 1
    BY <1>1, <1>2, <1>7, <1>9
  <2>2. /\ ring' \in Seq(EventSet) /\ Len(ring') = n
        /\ \A j \in 1..n : ring'[j] = IF j = n THEN ev ELSE ring[j + 1]
    <3>1. /\ Tail(all) \in Seq(EventSet) /\ Len(Tail(all)) = n
          /\ \A j \in 1..n : Tail(all)[j] = all[j + 1]
      BY <1>1, <1>6, <2>1
    <3>2. \A j \in 1..n : all[j + 1] = IF j = n THEN ev ELSE ring[j + 1]
      BY <1>1, <1>6
    <3> QED BY <2>1, <3>1, <3>2
  <2>3. \A j \in 1..n : ring'[j].id = nextID' - Len(ring') + j
    <3> SUFFICES ASSUME NEW j \in 1..n PROVE ring'[j].id = nextID' - Len(ring') + j
      OBVIOUS
    <3>1. CASE j = n
      BY <1>1, <1>3, <1>5, <2>2, <3>1
    <3>2. CASE j # n
      <4>1. j + 1 \in 1..n
        BY <1>1, <3>2
      <4>2. ring[j + 1].id = nextID - n + (j + 1)
        BY <1>1, <4>1
      <4> QED BY <1>1, <1>3, <2>2, <3>2, <4>2
    <3> QED BY <3>1, <3>2
  <2>4. RingOK'
    <3>1. /\ nextID' \in Nat /\ Len(ring') = AuditMax
          /\ Len(ring') <= AuditMax /\ Len(ring') <= nextID'
      BY <1>1, <1>2, <1>3, <2>1, <2>2
    <3>2. \A j \in 1..Len(ring') : ring'[j].id = nextID' - Len(ring') + j
      BY <2>2, <2>3
    <3> QED BY <2>2, <3>1, <3>2 DEF RingOK
  <2>5. RecordStep
    <3> SUFFICES ASSUME NEW j \in 1..n
                 PROVE  ring'[j].id = nextID + 1 \/ \E i \in 1..Len(ring) : ring'[j] = ring[i]
      BY <1>3, <2>2 DEF RecordStep
    <3>1. j = n \/ j + 1 \in 1..n
      BY <1>1
    <3> QED BY <1>1, <1>5, <2>2, <3>1 DEF n
  <2>6. \A j \in 1..Len(ring') : ring'[j].id = nextID' => ring'[j].op = call[c].op
    <3> SUFFICES ASSUME NEW j \in 1..n, ring'[j].id = nextID' PROVE ring'[j].op = call[c].op
      BY <2>2
    <3>1. j = n
      BY <1>1, <1>3, <2>2, <2>3
    <3> QED BY <1>1, <1>5, <2>1, <2>2, <3>1
  <2> QED BY <2>4, <2>5, <2>6
<1> QED BY <1>1, <1>2, <1>8, <1>9

-----------------------------------------------------------------------------
(* A request that does not move while others do.                           *)

LEMMA PartedKeeps ==
  ASSUME NEW rows, NEW cur, NEW k, NEW k2, Parted(rows, cur, k), cur # 0, k2 \subseteq k,
         Inbox' = Inbox, \A id \in Inbox : msgs'[id].at = msgs[id].at
  PROVE  Parted(rows, cur, k2)'
<1>1. cur \in Inbox /\ CursorAt(cur)' = CursorAt(cur)
  BY DEF Parted, CursorAt
<1>2. After(cur)' = After(cur)
  BY <1>1 DEF After, NewerThan
<1> QED BY <1>2 DEF Parted

LEMMA RequestKeeps ==
  ASSUME InboxInv, MoveStep, RecordStep, StoreTyped', RingOK',
         NEW r, NEW k, RequestOK(r, k), NEW k2, k2 \subseteq k,
         \A id \in k2 : id \in Inbox' /\ ~(r.unread /\ msgs'[id].read)
  PROVE  RequestOK(r, k2)'
<1>1. /\ r \in RequestSet /\ gen \in Nat /\ gen' \in Nat /\ gen <= gen'
      /\ nextID \in Nat /\ nextID' \in Nat
  BY DEF RequestOK, InboxInv, StoreTyped, RingOK, MoveStep
<1>2. /\ r.cur.id \in Nat /\ r.cur.gen \in Nat /\ r.from \in Nat
      /\ r.event \in Nat /\ r.target \in Nat
  BY <1>1 DEF RequestSet, Cursors
<1>3. r.cur.id # 0 /\ gen' = gen /\ Parted(r.rows, r.cur.id, k) => Parted(r.rows, r.cur.id, k2)'
  BY <1>1, PartedKeeps DEF MoveStep
<1>4. PagesOK(r, k2)'
  BY <1>1, <1>2, <1>3 DEF RequestOK, PagesOK
<1>5. EmailOK(r, k2)'
  BY <1>1, <1>2, <1>3 DEF RequestOK, EmailOK, FullPages, ListPageBudget
<1>6. ShownOK(r, k2)'
  BY DEF RequestOK, ShownOK, Visible
<1>7. GuardOK(r)'
  BY <1>1, <1>2 DEF RequestOK, GuardOK
<1>8. AuditOK(r)'
  <2>1. CASE UNCHANGED audit
    BY <2>1 DEF RequestOK, AuditOK, audit
  <2>2. CASE /\ nextID' = nextID + 1
             /\ \A j \in 1..Len(ring') :
                   ring'[j].id = nextID + 1 \/ \E i \in 1..Len(ring) : ring'[j] = ring[i]
    <3>1. DOMAIN ring = 1..Len(ring) /\ DOMAIN ring' = 1..Len(ring')
      BY DEF InboxInv, RingOK
    <3>2. r.event # 0 => \A j \in DOMAIN ring' : ring'[j].id = r.event => ring'[j].op = r.op
      <4> SUFFICES ASSUME r.event # 0, NEW j \in 1..Len(ring'), ring'[j].id = r.event
                   PROVE  ring'[j].op = r.op
        BY <3>1
      <4>1. /\ r.event <= nextID
            /\ \A i \in 1..Len(ring) : ring[i].id = r.event => ring[i].op = r.op
        BY <3>1 DEF RequestOK, AuditOK
      <4>2. r.event # nextID + 1
        BY <1>1, <1>2, <4>1
      <4>3. PICK i \in 1..Len(ring) : ring'[j] = ring[i]
        BY <2>2, <4>2
      <4> QED BY <4>1, <4>3
    <3>3. AuditMax \in Nat
      BY InboxAssumption
    <3> QED BY <1>1, <1>2, <2>2, <3>2, <3>3 DEF RequestOK, AuditOK
  <2> QED BY <2>1, <2>2 DEF RecordStep
<1> QED BY <1>1, <1>4, <1>5, <1>6, <1>7, <1>8 DEF RequestOK

LEMMA StillOK ==
  ASSUME InboxInv, MoveStep, RecordStep, StoreTyped', RingOK',
         NEW c \in Callers, Thins(c), NEW r, r = call[c], NEW k, k = kept'[c]
  PROVE  /\ RequestOK(r, k)' /\ k \subseteq Nat
         /\ k \subseteq Visible(r)'
<1>1. RequestOK(r, kept[c]) /\ kept[c] \subseteq Nat
  BY DEF InboxInv
<1>2. k \subseteq kept[c] /\ \A id \in k : id \in Inbox' /\ ~(r.unread /\ msgs'[id].read)
  BY DEF Thins
<1>4. k \subseteq Visible(r)'
  BY <1>2 DEF Visible
<1>3. RequestOK(r, k)'
  <2> SUFFICES ASSUME NEW k1, k1 = kept[c] PROVE RequestOK(r, k)'
    OBVIOUS
  <2> QED BY <1>1, <1>2, RequestKeeps
<1> QED BY <1>1, <1>2, <1>3, <1>4

LEMMA StillKeeps ==
  ASSUME InboxInv, MoveStep, RecordStep, StoreTyped', RingOK',
         NEW c \in Callers, call'[c] = call[c], Thins(c)
  PROVE  RequestOK(call[c], kept[c])' /\ kept'[c] \subseteq Nat
<1> SUFFICES ASSUME NEW r, r = call[c], NEW k, k = kept'[c]
             PROVE  RequestOK(call[c], kept[c])' /\ kept'[c] \subseteq Nat
  OBVIOUS
<1>1. RequestOK(r, k)' /\ k \subseteq Nat
  BY StillOK
<1> QED BY <1>1

-----------------------------------------------------------------------------
(* The request that moves.                                                 *)

LEMMA GoOK ==
  ASSUME InboxInv, NEW c \in Callers, NEW q, Go(c, q), NEW k, k = kept'[c], RequestOK(q, k)'
  PROVE  RequestOK(call[c], kept[c])'
<1>1. call'[c] = q
  BY DEF InboxInv, Go
<1> QED BY <1>1

LEMMA IdleType ==
  /\ Idle \in RequestSet /\ Idle.cur = NoCursor /\ Idle.rows = <<>> /\ Idle.event = 0
  /\ Idle.unread = FALSE /\ Idle.expect = NoGuard /\ Idle.ans = "none"
  /\ NoCursor.id = 0 /\ NoCursor \in [id : Nat, gen : Nat, key : Nat]
  BY DEF Idle, NoCursor, RequestSet, Ops, PCs, Answers, Cursors, Rows, Expectations

\* An answer keeps what the properties ask of a request.
LEMMA AnswerOK ==
  ASSUME InboxInv, RingOK', NEW c \in Callers, NEW r \in RequestSet,
         NEW a \in {"ok", "stale", "conflict", "notfound"}, Answer(c, r, a),
         NEW k, k = kept'[c], k \subseteq Visible(r)',
         r.event <= nextID',
         r.event # 0 => \A j \in DOMAIN ring' : ring'[j].id = r.event => ring'[j].op = r.op,
         r.op = "audit" => r.target \in 1..nextID',
         r.op = "audit" /\ a = "notfound" => nextID' - r.target >= AuditMax,
         \/ r.op = "page" /\ a = "ok"
         \/ r.op = "email" /\ a = "ok" /\ r.from = r.to
         => IsInjective(r.rows) /\ k \subseteq ToSet(r.rows)
  PROVE  RequestOK(call[c], kept[c])'
<1> DEFINE q == [r EXCEPT !.pc = "idle", !.ans = a, !.cur = NoCursor, !.left = 0,
                          !.expect = NoGuard]
<1>1. /\ q.pc = "idle" /\ q.ans = a /\ q.op = r.op /\ q.rows = r.rows
      /\ q.from = r.from /\ q.to = r.to /\ q.unread = r.unread /\ q.event = r.event
      /\ q.target = r.target
      /\ q \in RequestSet
  <2>1. "idle" \in PCs /\ a \in Answers /\ NoGuard \in Expectations /\ NoCursor \in Cursors
    BY IdleType DEF PCs, Answers, Expectations, Cursors
  <2>2. q \in RequestSet
    <3> DEFINE s == [r EXCEPT !.pc = "idle", !.ans = a]
               t == [s EXCEPT !.cur = NoCursor]
               u == [t EXCEPT !.left = 0]
               v == [u EXCEPT !.expect = NoGuard]
    <3>1. s \in RequestSet
      BY <2>1 DEF RequestSet
    <3>2. q = v
      BY DEF RequestSet
    <3> HIDE DEF s, q
    <3>3. t \in RequestSet
      BY <2>1, <3>1 DEF RequestSet
    <3> HIDE DEF t
    <3>4. u \in RequestSet
      BY <3>3 DEF RequestSet
    <3> HIDE DEF u
    <3>5. v \in RequestSet
      BY <2>1, <3>4 DEF RequestSet
    <3> QED BY <3>2, <3>5
  <2>3. /\ q.pc = "idle" /\ q.ans = a /\ q.op = r.op /\ q.rows = r.rows
        /\ q.from = r.from /\ q.to = r.to /\ q.unread = r.unread
    BY DEF RequestSet
  <2>4. q.event = r.event /\ q.target = r.target
    BY DEF RequestSet
  <2> HIDE DEF q
  <2> QED BY <2>2, <2>3, <2>4
<1>2. Go(c, q)
  BY DEF Answer
<1> HIDE DEF q
<1>3. PagesOK(q, k)' /\ EmailOK(q, k)' /\ GuardOK(q)'
  BY <1>1 DEF PagesOK, EmailOK, GuardOK
<1>4. ShownOK(q, k)'
  BY <1>1 DEF ShownOK, Visible
<1>5. AuditOK(q)'
  BY <1>1 DEF AuditOK
<1>6. RequestOK(q, k)'
  BY <1>1, <1>3, <1>4, <1>5 DEF RequestOK
<1> QED BY <1>2, <1>6, GoOK

\* A step that leaves the inbox and the ring alone.
LEMMA QuietOK ==
  ASSUME InboxInv, UNCHANGED <<now, held, store, audit>>, key' \in Nat,
         NEW c \in Callers, kept'[c] = kept[c], NEW r, r = call[c], NEW k, k = kept'[c]
  PROVE  /\ RequestOK(r, k)' /\ RingOK' /\ r \in RequestSet
         /\ k \subseteq Visible(r)'
<1>1. StoreTyped' /\ MoveStep
  BY QuietStore
<1>2. RingOK' /\ RecordStep
  BY QuietRing
<1>3. Thins(c)
  BY QuietThins DEF store
<1>4. RequestOK(r, k)' /\ k \subseteq Visible(r)'
  BY <1>1, <1>2, <1>3, StillOK
<1>5. r \in RequestSet
  BY DEF InboxInv
<1> QED BY <1>2, <1>4, <1>5

\* Its answer, when it is not a listing's.
LEMMA QuietAnswer ==
  ASSUME InboxInv, UNCHANGED <<now, held, store, audit>>, key' \in Nat,
         NEW c \in Callers, kept'[c] = kept[c],
         NEW a \in {"ok", "stale", "conflict", "notfound"}, Answer(c, call[c], a),
         call[c].op = "audit" /\ a = "notfound" => nextID - call[c].target >= AuditMax,
         call[c].op \in {"page", "email"} => a # "ok"
  PROVE  RequestOK(call[c], kept[c])'
<1> SUFFICES ASSUME NEW r, r = call[c], NEW k, k = kept'[c]
             PROVE  RequestOK(call[c], kept[c])'
  OBVIOUS
<1>1. /\ RequestOK(r, k)' /\ RingOK' /\ r \in RequestSet
      /\ k \subseteq Visible(r)'
  BY QuietOK
<1>2. nextID' = nextID
  BY DEF audit
<1>3. /\ r.event <= nextID'
      /\ r.event # 0 => \A j \in DOMAIN ring' : ring'[j].id = r.event => ring'[j].op = r.op
      /\ r.op = "audit" => r.target \in 1..nextID'
  BY <1>1 DEF RequestOK, AuditOK
<1>4. r.op = "audit" /\ a = "notfound" => nextID' - r.target >= AuditMax
  BY <1>2
<1>5. ~(\/ r.op = "page" /\ a = "ok"
        \/ r.op = "email" /\ a = "ok" /\ r.from = r.to)
  OBVIOUS
<1>6. Answer(c, r, a)
  OBVIOUS
<1> QED BY <1>1, <1>3, <1>4, <1>5, <1>6, AnswerOK

-----------------------------------------------------------------------------
(* Deletions, resets and the trail.                                        *)

LEMMA BeginDeleteOK ==
  ASSUME InboxInv, NEW c \in Callers, NEW op \in Removals, NEW id \in Nat,
         NEW expect \in Expectations, BeginDelete(c, op, id, expect)
  PROVE  RequestOK(call[c], kept[c])'
<1> SUFFICES ASSUME NEW k, k = kept'[c], NEW g, g = gen PROVE RequestOK(call[c], kept[c])'
  OBVIOUS
<1> DEFINE q == [Idle EXCEPT !.op = op, !.pc = "match", !.target = id, !.expect = expect,
                             !.from = g]
<1>1. Go(c, q) /\ UNCHANGED <<now, held, store, key, audit, kept>> /\ call[c] = Idle /\ g \in Nat
  BY DEF BeginDelete, Begin, InboxInv, StoreTyped
<1>2. /\ q \in RequestSet /\ q.op = op /\ q.pc = "match" /\ q.from = g /\ q.event = 0
      /\ q.ans = "none" /\ q.unread = FALSE
  <2>1. "match" \in PCs /\ op \in Ops /\ expect \in Expectations
    BY DEF PCs, Ops, Removals
  <2> QED BY <1>1, <2>1, IdleType DEF RequestSet
<1> HIDE DEF q
<1>3. gen' = g /\ nextID' \in Nat
  BY <1>1 DEF store, audit, InboxInv, RingOK
<1>4. k \subseteq Visible(q)'
  <2> SUFFICES ASSUME NEW r, r = call[c]
               PROVE  k \subseteq Visible(q)'
    OBVIOUS
  <2>1. k \subseteq Visible(r)'
    BY <1>1, QuietOK DEF InboxInv, StoreTyped
  <2> QED BY <1>2, <2>1 DEF Visible
<1>5. PagesOK(q, k)' /\ EmailOK(q, k)' /\ ShownOK(q, k)'
  BY <1>2, <1>4 DEF PagesOK, EmailOK, ShownOK, Visible
<1>6. GuardOK(q)' /\ AuditOK(q)'
  BY <1>1, <1>2, <1>3 DEF GuardOK, AuditOK, Removals
<1>7. RequestOK(q, k)'
  BY <1>2, <1>5, <1>6 DEF RequestOK
<1> QED BY <1>1, <1>7, GoOK

LEMMA MatchOK ==
  ASSUME InboxInv, NEW c \in Callers, MatchStep(c)
  PROVE  RequestOK(call[c], kept[c])'
<1> SUFFICES ASSUME NEW r, r = call[c], NEW k, k = kept'[c], NEW g, g = gen
             PROVE  RequestOK(call[c], kept[c])'
  OBVIOUS
<1>1. /\ UNCHANGED <<now, held, store, audit, kept>> /\ key' \in Nat /\ kept'[c] = kept[c]
      /\ r.pc = "match" /\ gen' = g /\ g \in Nat
  BY DEF MatchStep, At, InboxInv, StoreTyped, store
<1>2. RequestOK(r, k)' /\ r \in RequestSet
  BY <1>1, QuietOK
<1>3. r.op \in Removals /\ r.from <= g
  BY <1>1, <1>2 DEF RequestOK, GuardOK
<1>4. CASE Expected(c)
  <2> DEFINE q == [r EXCEPT !.pc = "remove"]
  <2>1. Go(c, q)
    BY <1>4 DEF MatchStep
  <2>2. /\ q \in RequestSet /\ q.op = r.op /\ q.pc = "remove" /\ q.from = r.from
        /\ q.expect = r.expect /\ q.event = r.event /\ q.ans = r.ans /\ q.unread = r.unread
    BY <1>2 DEF RequestSet, PCs
  <2> HIDE DEF q
  <2>3. r.expect \in {NoGuard, g}
    BY <1>4 DEF Expected
  <2>4. PagesOK(q, k)' /\ EmailOK(q, k)' /\ ShownOK(q, k)'
    BY <1>1, <1>2, <1>3, <2>2 DEF PagesOK, EmailOK, ShownOK, Visible, RequestOK, Removals
  <2>5. GuardOK(q)' /\ AuditOK(q)'
    BY <1>1, <1>2, <1>3, <2>2, <2>3 DEF GuardOK, AuditOK, RequestOK, Removals
  <2>6. RequestOK(q, k)'
    BY <2>2, <2>4, <2>5 DEF RequestOK
  <2> QED BY <2>1, <2>6, GoOK
<1>5. CASE ~Expected(c)
  <2>1. Answer(c, call[c], "conflict")
    BY <1>5 DEF MatchStep
  <2> QED BY <1>1, <2>1, QuietAnswer
<1> QED BY <1>4, <1>5

LEMMA RemoveOK ==
  ASSUME InboxInv, NEW c \in Callers, RemoveStep(c)
  PROVE  RequestOK(call[c], kept[c])'
<1> SUFFICES ASSUME NEW r, r = call[c], NEW k, k = kept'[c], NEW g, g = gen'
             PROVE  RequestOK(call[c], kept[c])'
  OBVIOUS
<1>1. StoreTyped' /\ MoveStep /\ Thins(c)
  BY RemoveTypes
<1>2. RingOK' /\ RecordStep
  BY QuietRing DEF RemoveStep
<1>3. /\ RequestOK(r, k)' /\ r \in RequestSet /\ r.pc = "remove" /\ g \in Nat
      /\ k \subseteq Visible(r)'
  BY <1>1, <1>2, StillOK DEF InboxInv, RemoveStep, At, StoreTyped
<1>4. r.op \in Removals /\ (r.expect # NoGuard => r.from <= r.expect)
  BY <1>3 DEF RequestOK, GuardOK
<1>5. CASE Removable(c)
  <2> DEFINE q == [r EXCEPT !.pc = "note", !.to = g]
  <2>1. Go(c, q)
    BY <1>5 DEF RemoveStep
  <2>2. /\ q \in RequestSet /\ q.op = r.op /\ q.pc = "note" /\ q.from = r.from
        /\ q.expect = r.expect /\ q.event = r.event /\ q.ans = r.ans /\ q.unread = r.unread
    BY <1>3 DEF RequestSet, PCs
  <2> HIDE DEF q
  <2>4. PagesOK(q, k)' /\ EmailOK(q, k)' /\ ShownOK(q, k)'
    BY <1>3, <1>4, <2>2 DEF PagesOK, EmailOK, ShownOK, Visible, RequestOK, Removals
  <2>5. GuardOK(q)' /\ AuditOK(q)'
    BY <1>3, <1>4, <2>2 DEF GuardOK, AuditOK, RequestOK, Removals
  <2>6. RequestOK(q, k)'
    BY <2>2, <2>4, <2>5 DEF RequestOK
  <2> QED BY <2>1, <2>6, GoOK
<1>6. CASE ~Removable(c)
  <2>1. Answer(c, r, "notfound")
    BY <1>6 DEF RemoveStep
  <2>2. /\ r.event <= nextID'
        /\ r.event # 0 => \A j \in DOMAIN ring' : ring'[j].id = r.event => ring'[j].op = r.op
    BY <1>3 DEF RequestOK, AuditOK
  <2>3. r.op # "audit" /\ r.op # "page" /\ r.op # "email"
    BY <1>4 DEF Removals
  <2> QED BY <1>2, <1>3, <2>1, <2>2, <2>3, AnswerOK
<1> QED BY <1>5, <1>6

LEMMA ResetOK ==
  ASSUME InboxInv, NEW c \in Callers, BeginReset(c)
  PROVE  RequestOK(call[c], kept[c])'
<1> SUFFICES ASSUME NEW k, k = kept'[c], NEW g, g = gen' PROVE RequestOK(call[c], kept[c])'
  OBVIOUS
<1> DEFINE q == [Idle EXCEPT !.op = "reset", !.pc = "note", !.to = g]
<1>1. Go(c, q) /\ k = {} /\ g \in Nat /\ nextID' \in Nat
  BY DEF BeginReset, InboxInv, StoreTyped, RingOK, audit
<1>2. /\ q \in RequestSet /\ q.op = "reset" /\ q.pc = "note" /\ q.expect = NoGuard /\ q.event = 0
      /\ q.ans = "none"
  BY <1>1, IdleType DEF RequestSet, PCs, Ops
<1> HIDE DEF q
<1>3. PagesOK(q, k)' /\ EmailOK(q, k)' /\ ShownOK(q, k)'
  BY <1>1, <1>2 DEF PagesOK, EmailOK, ShownOK, Visible
<1>4. GuardOK(q)' /\ AuditOK(q)'
  BY <1>1, <1>2 DEF GuardOK, AuditOK
<1>5. RequestOK(q, k)'
  BY <1>2, <1>3, <1>4 DEF RequestOK
<1> QED BY <1>1, <1>5, GoOK

LEMMA RotateOK ==
  ASSUME InboxInv, NEW c \in Callers, RotateCursors(c)
  PROVE  RequestOK(call[c], kept[c])'
<1>1. /\ UNCHANGED <<now, held, store, audit, kept>> /\ key' \in Nat /\ kept'[c] = kept[c]
      /\ call[c].pc = "rotate" /\ Answer(c, call[c], "ok")
  BY DEF RotateCursors, At, InboxInv, StoreTyped
<1>2. call[c].op \in Removals \cup {"reset"}
  BY <1>1 DEF InboxInv, RequestOK, GuardOK
<1> QED BY <1>1, <1>2, QuietAnswer DEF Removals

LEMMA NoteOK ==
  ASSUME InboxInv, NEW c \in Callers, Note(c)
  PROVE  RequestOK(call[c], kept[c])'
<1> SUFFICES ASSUME NEW r, r = call[c], NEW k, k = kept'[c], NEW g, g = gen
             PROVE  RequestOK(call[c], kept[c])'
  OBVIOUS
<1>1. /\ UNCHANGED <<now, held, store, audit, kept>> /\ key' \in Nat /\ kept'[c] = kept[c]
      /\ r.pc = "note" /\ g \in Nat
  BY DEF Note, At, InboxInv, StoreTyped
<1>2. RequestOK(r, k)' /\ r \in RequestSet
  BY <1>1, QuietOK
<1>3. r.op \in Removals \cup {"reset"}
  BY <1>1, <1>2 DEF RequestOK, GuardOK
<1> DEFINE q == [r EXCEPT !.pc = "append", !.from = g, !.expect = NoGuard]
<1>4. Go(c, q)
  BY DEF Note
<1>5. /\ q \in RequestSet /\ q.op = r.op /\ q.pc = "append" /\ q.event = r.event
      /\ q.ans = r.ans /\ q.unread = r.unread
  BY <1>1, <1>2 DEF RequestSet, PCs, Expectations
<1> HIDE DEF q
<1>6. PagesOK(q, k)' /\ EmailOK(q, k)' /\ ShownOK(q, k)'
  BY <1>1, <1>2, <1>3, <1>5 DEF PagesOK, EmailOK, ShownOK, Visible, RequestOK, Removals
<1>7. GuardOK(q)' /\ AuditOK(q)'
  BY <1>2, <1>3, <1>5 DEF GuardOK, AuditOK, RequestOK, Removals
<1>8. RequestOK(q, k)'
  BY <1>5, <1>6, <1>7 DEF RequestOK
<1> QED BY <1>4, <1>8, GoOK

LEMMA RecordOK ==
  ASSUME InboxInv, NEW c \in Callers, RecordAudit(c)
  PROVE  RequestOK(call[c], kept[c])'
<1> SUFFICES ASSUME NEW r, r = call[c], NEW k, k = kept'[c], NEW n, n = nextID'
             PROVE  RequestOK(call[c], kept[c])'
  OBVIOUS
<1>1. StoreTyped' /\ MoveStep
  BY QuietStore DEF RecordAudit, InboxInv, StoreTyped
<1>2. /\ RingOK' /\ RecordStep
      /\ \A j \in 1..Len(ring') : ring'[j].id = n => ring'[j].op = r.op
  BY RecordTypes
<1>3. Thins(c)
  BY QuietThins DEF RecordAudit, store
<1>4. /\ RequestOK(r, k)' /\ r \in RequestSet /\ r.pc = "append"
      /\ k \subseteq Visible(r)'
  BY <1>1, <1>2, <1>3, StillOK DEF InboxInv, RecordAudit, At
<1>5. r.op \in Removals \cup {"reset"}
  BY <1>4 DEF RequestOK, GuardOK
<1>6. n \in Nat /\ DOMAIN ring' = 1..Len(ring')
  BY <1>2 DEF RingOK
<1> DEFINE q == [r EXCEPT !.event = n, !.pc = "rotate"]
<1>7. /\ q \in RequestSet /\ q.op = r.op /\ q.pc = "rotate" /\ q.event = n
      /\ q.ans = r.ans /\ q.unread = r.unread
  BY <1>4, <1>6 DEF RequestSet, PCs
<1>8. IF q.op = "reset" THEN Go(c, q) ELSE Answer(c, q, "ok")
  BY DEF RecordAudit
<1> HIDE DEF q
<1>9. /\ q.event <= nextID'
      /\ q.event # 0 => \A j \in DOMAIN ring' : ring'[j].id = q.event => ring'[j].op = q.op
  BY <1>2, <1>6, <1>7
<1>10. q.op # "audit" /\ q.op # "page" /\ q.op # "email"
  BY <1>5, <1>7 DEF Removals
<1>11. CASE q.op = "reset"
  <2>1. PagesOK(q, k)' /\ EmailOK(q, k)' /\ ShownOK(q, k)'
    BY <1>4, <1>7, <1>10 DEF PagesOK, EmailOK, ShownOK, Visible, RequestOK
  <2>2. GuardOK(q)' /\ AuditOK(q)'
    BY <1>7, <1>9, <1>10, <1>11 DEF GuardOK, AuditOK
  <2>3. RequestOK(q, k)'
    BY <1>7, <2>1, <2>2 DEF RequestOK
  <2> QED BY <1>8, <1>11, <2>3, GoOK
<1>12. CASE q.op # "reset"
  <2>1. Answer(c, q, "ok")
    BY <1>8, <1>12
  <2>2. k \subseteq Visible(q)'
    BY <1>4, <1>7 DEF Visible
  <2> QED BY <1>2, <1>7, <1>9, <1>10, <2>1, <2>2, AnswerOK
<1> QED BY <1>11, <1>12

\* A page of the trail shows events the ring holds.
LEMMA AuditPageIs ==
  ASSUME InboxInv, NEW j \in DOMAIN AuditPage
  PROVE  AuditPage[j].id \in 1..nextID
<1> DEFINE n == Len(ring)
           back == Reverse(ring)
           m == Min({AuditLimit, Len(ring)})
<1>1. /\ ring \in Seq(EventSet) /\ n \in Nat /\ nextID \in Nat
      /\ n = nextID \/ n = AuditMax
      /\ n <= nextID
      /\ \A i \in 1..n : ring[i].id = nextID - n + i
  BY DEF InboxInv, RingOK
<1>2. AuditLimit \in Nat /\ AuditMax \in Nat
  BY InboxAssumption
<1>3. m \in Nat /\ m <= n
  BY <1>1, <1>2, MinIs
<1>4. back \in Seq(EventSet) /\ Len(back) = n /\ \A i \in 1..n : back[i] = ring[(n - i) + 1]
  BY <1>1 DEF Reverse
<1>5. AuditPage = SubSeq(back, 1, m)
  BY DEF AuditPage
<1> HIDE DEF n, back, m
<1>6. j \in 1..m /\ AuditPage[j] = back[j]
  <2>1. DOMAIN SubSeq(back, 1, m) = 1..m /\ \A i \in 1..m : SubSeq(back, 1, m)[i] = back[i]
    BY <1>1, <1>3, <1>4
  <2> QED BY <1>5, <2>1
<1>7. j \in 1..n /\ (n - j) + 1 \in 1..n
  <2>1. j \in Nat /\ j >= 1 /\ j <= n
    BY <1>1, <1>3, <1>6
  <2> QED BY <1>1, <2>1
<1>8. AuditPage[j].id = nextID - n + ((n - j) + 1)
  BY <1>1, <1>4, <1>6, <1>7
<1> QED BY <1>1, <1>7, <1>8

LEMMA QueryOK ==
  ASSUME InboxInv, NEW c \in Callers, NEW j, QueryAudit(c, j)
  PROVE  RequestOK(call[c], kept[c])'
<1> SUFFICES ASSUME NEW k, k = kept'[c], NEW t, t = AuditPage[j].id
             PROVE  RequestOK(call[c], kept[c])'
  OBVIOUS
<1> DEFINE q == [Idle EXCEPT !.op = "audit", !.pc = "get", !.target = t]
<1>1. Go(c, q) /\ UNCHANGED <<now, held, store, key, audit, kept>> /\ call[c] = Idle
  BY DEF QueryAudit, Begin
<1>2. t \in 1..nextID /\ nextID' = nextID /\ nextID \in Nat /\ kept'[c] = kept[c] /\ key' \in Nat
  BY <1>1, AuditPageIs DEF QueryAudit, audit, InboxInv, RingOK, StoreTyped
<1>3. /\ q \in RequestSet /\ q.op = "audit" /\ q.pc = "get" /\ q.event = 0 /\ q.target = t
      /\ q.ans = "none" /\ q.unread = FALSE
  <2>1. "get" \in PCs /\ "audit" \in Ops /\ t \in Nat
    BY <1>2 DEF PCs, Ops
  <2> QED BY <2>1, IdleType DEF RequestSet
<1> HIDE DEF q
<1>4. k \subseteq Visible(q)'
  <2> SUFFICES ASSUME NEW r, r = call[c]
               PROVE  k \subseteq Visible(q)'
    OBVIOUS
  <2>1. k \subseteq Visible(r)' /\ r.unread = FALSE
    BY <1>1, <1>2, IdleType, QuietOK
  <2> QED BY <1>3, <2>1 DEF Visible
<1>5. PagesOK(q, k)' /\ EmailOK(q, k)' /\ ShownOK(q, k)'
  BY <1>3, <1>4 DEF PagesOK, EmailOK, ShownOK, Visible
<1>6. GuardOK(q)' /\ AuditOK(q)'
  BY <1>2, <1>3 DEF GuardOK, AuditOK
<1>7. RequestOK(q, k)'
  BY <1>3, <1>5, <1>6 DEF RequestOK
<1> QED BY <1>1, <1>7, GoOK

\* Of the events up to the last, the ring lacks only the old ones.
LEMMA RingHolds ==
  ASSUME RingOK, NEW e \in 1..nextID, ~(nextID - e >= AuditMax)
  PROVE  \E j \in 1..Len(ring) : ring[j].id = e
<1> DEFINE j == e - nextID + Len(ring)
<1>1. /\ nextID \in Nat /\ Len(ring) \in Nat /\ (Len(ring) = nextID \/ Len(ring) = AuditMax)
      /\ \A i \in 1..Len(ring) : ring[i].id = nextID - Len(ring) + i
  BY DEF RingOK
<1>2. j \in 1..Len(ring)
  BY <1>1, InboxAssumption
<1>3. nextID - Len(ring) + j = e
  BY <1>1
<1> HIDE DEF j
<1> QED BY <1>1, <1>2, <1>3

LEMMA GetOK ==
  ASSUME InboxInv, NEW c \in Callers, GetAudit(c)
  PROVE  RequestOK(call[c], kept[c])'
<1> DEFINE a == IF \E j \in DOMAIN ring : ring[j].id = call[c].target THEN "ok" ELSE "notfound"
<1>1. /\ UNCHANGED <<now, held, store, audit, kept>> /\ key' \in Nat /\ kept'[c] = kept[c]
      /\ call[c].pc = "get" /\ Answer(c, call[c], a)
  BY DEF GetAudit, At, InboxInv, StoreTyped
<1>2. RingOK /\ DOMAIN ring = 1..Len(ring)
  BY DEF InboxInv, RingOK
<1>3. call[c].op = "audit" /\ call[c].target \in 1..nextID
  BY <1>1 DEF InboxInv, RequestOK, AuditOK
<1>4. a = "notfound" => nextID - call[c].target >= AuditMax
  BY <1>2, <1>3, RingHolds
<1>5. CASE a = "ok"
  BY <1>1, <1>3, <1>5, QuietAnswer
<1>6. CASE a = "notfound"
  BY <1>1, <1>3, <1>4, <1>6, QuietAnswer
<1> QED BY <1>5, <1>6

-----------------------------------------------------------------------------
(* Listings.                                                               *)

LEMMA Ceiling ==
  ASSUME NEW m \in Nat \ {0}, NEW p \in Nat \ {0}
  PROVE  /\ (m + p - 1) \div p \in Nat /\ (m + p - 1) \div p >= 1
         /\ p * ((m + p - 1) \div p) >= m
<1> DEFINE n == m + p - 1
           d == n \div p
           e == n % p
<1>1. n \in Nat /\ n >= p
  OBVIOUS
<1>2. d \in Nat /\ e \in 0..(p - 1) /\ n = p * d + e
  OBVIOUS
<1>3. p * d >= m
  <2> DEFINE x == p * d
  <2>1. x \in Int /\ n = x + e
    BY <1>2
  <2> HIDE DEF x, d, e
  <2> QED BY <1>2, <2>1
<1>4. d >= 1
  <2> SUFFICES ASSUME d = 0 PROVE FALSE
    BY <1>2
  <2>1. p * d = 0
    BY <1>2
  <2> QED BY <1>3, <2>1
<1> QED BY <1>2, <1>3, <1>4

LEMMA Budget ==
  /\ ListPageBudget \in Nat /\ ListPageBudget >= 2
  /\ PageLimit * (ListPageBudget - 1) >= MaxMessages
<1>1. MaxMessages \in Nat \ {0} /\ PageLimit \in Nat \ {0}
  BY InboxAssumption
<1> DEFINE d == (MaxMessages + PageLimit - 1) \div PageLimit
<1>2. d \in Nat /\ d >= 1 /\ PageLimit * d >= MaxMessages
  BY <1>1, Ceiling
<1>3. ListPageBudget = d + 1
  BY DEF ListPageBudget
<1> HIDE DEF d
<1>4. ListPageBudget - 1 = d
  BY <1>2, <1>3
<1> QED BY <1>2, <1>3, <1>4

\* What a listing showed fits in the inbox.
LEMMA ShownFit ==
  ASSUME StoreTyped, NEW rows, NEW cur, NEW k, Parted(rows, cur, k)
  PROVE  Len(rows) \in Nat /\ Len(rows) <= MaxMessages
<1>1. rows \in Seq(Inbox) /\ IsInjective(rows) /\ Len(rows) \in Nat /\ IsFiniteSet(Inbox)
  BY DEF Parted, StoreTyped, InboxTyped
<1>2. rows \in Injection(1..Len(rows), Inbox)
  BY <1>1 DEF Injection, IsInjective
<1>3. IsFiniteSet(1..Len(rows)) /\ Cardinality(1..Len(rows)) = Len(rows)
  BY <1>1, FS_Interval
<1>4. Cardinality(1..Len(rows)) <= Cardinality(Inbox)
  BY <1>1, <1>2, FS_Injection
<1>5. Cardinality(Inbox) \in Nat /\ Cardinality(Inbox) <= MaxMessages /\ MaxMessages \in Nat
  BY <1>1, FS_CardinalityType, InboxAssumption DEF StoreTyped
<1> QED BY <1>1, <1>3, <1>4, <1>5

LEMMA BeginPagesOK ==
  ASSUME InboxInv, NEW c \in Callers, NEW unread \in BOOLEAN, BeginPages(c, unread)
  PROVE  RequestOK(call[c], kept[c])'
<1> SUFFICES ASSUME NEW k, k = kept'[c] PROVE RequestOK(call[c], kept[c])'
  OBVIOUS
<1> DEFINE q == [Idle EXCEPT !.op = "page", !.pc = "list", !.unread = unread]
<1>1. Go(c, q) /\ k = {} /\ nextID' \in Nat
  BY DEF BeginPages, InboxInv, RingOK, audit
<1>2. /\ q \in RequestSet /\ q.op = "page" /\ q.pc = "list" /\ q.cur.id = 0 /\ q.rows = <<>>
      /\ q.event = 0 /\ q.ans = "none"
  BY IdleType DEF RequestSet, PCs, Ops
<1> HIDE DEF q
<1>3. PagesOK(q, k)' /\ EmailOK(q, k)' /\ ShownOK(q, k)'
  BY <1>1, <1>2 DEF PagesOK, EmailOK, ShownOK, Visible
<1>4. GuardOK(q)' /\ AuditOK(q)'
  BY <1>1, <1>2 DEF GuardOK, AuditOK
<1>5. RequestOK(q, k)'
  BY <1>2, <1>3, <1>4 DEF RequestOK
<1> QED BY <1>1, <1>5, GoOK

LEMMA BeginEmailOK ==
  ASSUME InboxInv, NEW c \in Callers, BeginEmail(c)
  PROVE  RequestOK(call[c], kept[c])'
<1> SUFFICES ASSUME NEW k, k = kept'[c] PROVE RequestOK(call[c], kept[c])'
  OBVIOUS
<1> DEFINE q == [Idle EXCEPT !.op = "email", !.pc = "pages", !.left = ListPageBudget]
<1>1. Go(c, q) /\ k = {} /\ nextID' \in Nat
  BY DEF BeginEmail, InboxInv, RingOK, audit
<1>2. /\ q \in RequestSet /\ q.op = "email" /\ q.pc = "pages" /\ q.cur.id = 0 /\ q.rows = <<>>
      /\ q.event = 0 /\ q.ans = "none" /\ q.left = ListPageBudget
  <2>1. "email" \in Ops /\ "pages" \in PCs /\ ListPageBudget \in Int
    BY Budget DEF Ops, PCs
  <2> DEFINE s == [Idle EXCEPT !.op = "email", !.pc = "pages"]
  <2>2. s \in RequestSet
    BY <2>1, IdleType DEF RequestSet
  <2>3. q = [s EXCEPT !.left = ListPageBudget]
    BY IdleType DEF RequestSet
  <2> HIDE DEF s
  <2>4. q \in RequestSet
    BY <2>1, <2>2, <2>3 DEF RequestSet
  <2>5. /\ q.op = "email" /\ q.pc = "pages" /\ q.cur.id = 0 /\ q.rows = <<>>
        /\ q.event = 0 /\ q.ans = "none" /\ q.left = ListPageBudget
    BY IdleType DEF RequestSet
  <2> QED BY <2>4, <2>5
<1> HIDE DEF q
<1>3. PagesOK(q, k)' /\ ShownOK(q, k)'
  BY <1>1, <1>2 DEF PagesOK, ShownOK, Visible
<1>4. EmailOK(q, k)'
  BY <1>1, <1>2, Budget DEF EmailOK, ListPageBudget
<1>5. GuardOK(q)' /\ AuditOK(q)'
  BY <1>1, <1>2 DEF GuardOK, AuditOK
<1>6. RequestOK(q, k)'
  BY <1>2, <1>3, <1>4, <1>5 DEF RequestOK
<1> QED BY <1>1, <1>6, GoOK

LEMMA DecodeOK ==
  ASSUME InboxInv, NEW c \in Callers, DecodeCursor(c)
  PROVE  RequestOK(call[c], kept[c])'
<1> SUFFICES ASSUME NEW r, r = call[c], NEW k, k = kept'[c]
             PROVE  RequestOK(call[c], kept[c])'
  OBVIOUS
<1>1. /\ UNCHANGED <<now, held, store, audit, kept>> /\ key' \in Nat /\ kept'[c] = kept[c]
      /\ r.pc = "next"
  BY DEF DecodeCursor, At, InboxInv, StoreTyped
<1>2. RequestOK(r, k)' /\ r \in RequestSet
  BY <1>1, QuietOK
<1>3. r.op = "page"
  BY <1>1, <1>2 DEF RequestOK, PagesOK
<1>4. CASE r.cur.key = key
  <2> DEFINE q == [r EXCEPT !.pc = "list"]
  <2>1. Go(c, q)
    BY <1>4 DEF DecodeCursor
  <2>2. /\ q \in RequestSet /\ q.op = r.op /\ q.pc = "list" /\ q.cur = r.cur /\ q.rows = r.rows
        /\ q.event = r.event /\ q.ans = r.ans /\ q.unread = r.unread
    BY <1>2 DEF RequestSet, PCs
  <2> HIDE DEF q
  <2>3. PagesOK(q, k)' /\ EmailOK(q, k)' /\ ShownOK(q, k)'
    BY <1>1, <1>2, <1>3, <2>2 DEF PagesOK, EmailOK, ShownOK, Visible, RequestOK
  <2>4. GuardOK(q)' /\ AuditOK(q)'
    BY <1>2, <1>3, <2>2 DEF GuardOK, AuditOK, RequestOK
  <2>5. RequestOK(q, k)'
    BY <2>2, <2>3, <2>4 DEF RequestOK
  <2> QED BY <2>1, <2>5, GoOK
<1>5. CASE r.cur.key # key
  <2>1. Answer(c, call[c], "stale")
    BY <1>5 DEF DecodeCursor
  <2> QED BY <1>1, <1>3, <2>1, QuietAnswer
<1> QED BY <1>4, <1>5

LEMMA EncodeOK ==
  ASSUME InboxInv, NEW c \in Callers, EncodeCursor(c)
  PROVE  RequestOK(call[c], kept[c])'
<1> SUFFICES ASSUME NEW r, r = call[c], NEW k, k = kept'[c], NEW y, y = key
             PROVE  RequestOK(call[c], kept[c])'
  OBVIOUS
<1>1. /\ UNCHANGED <<now, held, store, audit, kept>> /\ key' \in Nat /\ kept'[c] = kept[c]
      /\ r.pc = "encode" /\ y \in Nat
  BY DEF EncodeCursor, At, InboxInv, StoreTyped
<1>2. RequestOK(r, k)' /\ r \in RequestSet
  BY <1>1, QuietOK
<1>3. r.op = "page"
  BY <1>1, <1>2 DEF RequestOK, PagesOK
<1> DEFINE q == [r EXCEPT !.pc = "next", !.cur.key = y]
<1>4. Go(c, q)
  BY DEF EncodeCursor
<1>5. /\ q \in RequestSet /\ q.op = r.op /\ q.pc = "next" /\ q.cur.id = r.cur.id
      /\ q.cur.gen = r.cur.gen /\ q.rows = r.rows
      /\ q.event = r.event /\ q.ans = r.ans /\ q.unread = r.unread
  <2>1. r.cur \in Cursors
    BY <1>2 DEF RequestSet
  <2>2. /\ [r.cur EXCEPT !.key = y] \in Cursors
        /\ [r.cur EXCEPT !.key = y].id = r.cur.id /\ [r.cur EXCEPT !.key = y].gen = r.cur.gen
    BY <1>1, <2>1 DEF Cursors
  <2> DEFINE w == [r.cur EXCEPT !.key = y]
  <2>3. q = [r EXCEPT !.pc = "next", !.cur = w]
    BY <1>2 DEF RequestSet
  <2> HIDE DEF w, q
  <2>4. q.cur = w
    BY <1>2, <2>3 DEF RequestSet
  <2>5. /\ q.op = r.op /\ q.pc = "next" /\ q.rows = r.rows
        /\ q.event = r.event /\ q.ans = r.ans /\ q.unread = r.unread
    BY <1>2, <2>3 DEF RequestSet
  <2>6. q \in RequestSet
    BY <1>2, <2>2, <2>3 DEF RequestSet, PCs, w
  <2> QED BY <2>2, <2>4, <2>5, <2>6 DEF w
<1> HIDE DEF q
<1>6. PagesOK(q, k)' /\ EmailOK(q, k)' /\ ShownOK(q, k)'
  BY <1>1, <1>2, <1>3, <1>5 DEF PagesOK, EmailOK, ShownOK, Visible, RequestOK
<1>7. GuardOK(q)' /\ AuditOK(q)'
  BY <1>2, <1>3, <1>5 DEF GuardOK, AuditOK, RequestOK
<1>8. RequestOK(q, k)'
  BY <1>5, <1>6, <1>7 DEF RequestOK
<1> QED BY <1>4, <1>8, GoOK

\* Taking a page, fresh from the last one or the first.
Fresh(r, k) ==
    \/ r.cur.id = 0 /\ r.rows = <<>>
    \/ r.cur.id # 0 /\ Parted(r.rows, r.cur.id, k)

TookPage(r, k, res) ==
    LET more == r.rows \o res.rows
    IN  /\ IsInjective(more)
        /\ res.next = 0 => k \subseteq ToSet(more)
        /\ res.next # 0 =>
             /\ Parted(more, res.next, k) /\ res.next # r.cur.id
             /\ Len(more) = Len(r.rows) + PageLimit /\ Len(more) <= MaxMessages

RowsOK(r, res) == r.rows \o res.rows \in Rows

LEMMA TakePage ==
  ASSUME InboxInv, NEW c \in Callers, UNCHANGED store, Watch(c),
         NEW r, r = call[c], NEW k, k = kept'[c], NEW res, res = Page(c, r.cur.id)
  PROVE  /\ k \subseteq Visible(r)' /\ k \subseteq Nat
         /\ RowsOK(r, res) /\ res.next \in Nat
         /\ Fresh(r, kept[c]) => TookPage(r, k, res)'
<1>1. /\ InboxTyped /\ StoreTyped /\ r \in RequestSet /\ RequestOK(r, kept[c])
      /\ kept \in [Callers -> SUBSET Nat]
  BY DEF InboxInv, StoreTyped
<1>2. msgs' = msgs /\ Inbox' = Inbox
  BY DEF store, Inbox
<1> DEFINE S == Showing(c)
<1>3. S = Visible(r) /\ S \subseteq Nat /\ S \subseteq Inbox
  BY <1>1 DEF Showing, Visible, Matches, InboxTyped
<1>4. kept[c] \subseteq S
  BY <1>1, <1>3 DEF RequestOK, ShownOK
<1>5. k = IF r.cur.id = 0 THEN S ELSE kept[c]
  BY <1>1 DEF Watch, Showing
<1>6. k \subseteq S
  BY <1>4, <1>5
<1>7. k \subseteq Visible(r)' /\ k \subseteq Nat
  BY <1>2, <1>3, <1>6 DEF Visible
<1>8. res.rows \in Seq(Inbox) /\ res.next \in Nat
  BY <1>1, PageIs
<1>9. RowsOK(r, res)
  <2>1. r.rows \in Seq(Nat)
    BY <1>1 DEF RequestSet, Rows
  <2>2. Inbox \subseteq Nat
    BY <1>1 DEF InboxTyped
  <2>3. res.rows \in Seq(Nat)
    BY <1>8, <2>2, SeqMono
  <2> QED BY <2>1, <2>3, Concat DEF Rows, RowsOK
<1>10. ASSUME Fresh(r, kept[c]) PROVE TookPage(r, k, res)'
  <2>1. Parted(r.rows, r.cur.id, k)
    <3>1. CASE r.cur.id = 0 /\ r.rows = <<>>
      <4>1. <<>> \in Seq(Inbox) /\ IsInjective(<<>>) /\ ToSet(<<>>) = {}
        BY DEF IsInjective, ToSet
      <4>2. After(0) = Inbox
        BY DEF After
      <4>3. k \subseteq Inbox
        BY <1>3, <1>6
      <4> QED BY <3>1, <4>1, <4>2, <4>3 DEF Parted
    <3>2. CASE r.cur.id # 0 /\ Parted(r.rows, r.cur.id, kept[c])
      BY <1>5, <3>2
    <3> QED BY <1>10, <3>1, <3>2 DEF Fresh
  <2> HIDE DEF S
  <2>2. Advances(r.rows, r.cur.id, k, res)
    <3> SUFFICES ASSUME NEW old, old = r.rows, NEW cur, cur = r.cur.id
                 PROVE  Advances(old, cur, k, res)
      OBVIOUS
    <3>1. k \subseteq Showing(c)
      BY <1>6 DEF S
    <3> QED BY <1>1, <2>1, <3>1, PageAdvances
  <2> DEFINE more == r.rows \o res.rows
  <2>3. /\ IsInjective(more)
        /\ res.next = 0 => k \subseteq ToSet(more)
        /\ res.next # 0 =>
             /\ Parted(more, res.next, k) /\ res.next # r.cur.id
             /\ Len(more) = Len(r.rows) + PageLimit
    BY <2>2 DEF Advances
  <2> HIDE DEF more
  <2>4. ASSUME res.next # 0 PROVE Parted(more, res.next, k)' /\ Len(more) <= MaxMessages
    <3>1. Parted(more, res.next, k)
      BY <2>3, <2>4
    <3>2. \A id \in Inbox : msgs'[id].at = msgs[id].at
      BY <1>2
    <3>3. Parted(more, res.next, k)'
      <4> SUFFICES ASSUME NEW cur, cur = res.next PROVE Parted(more, cur, k)'
        OBVIOUS
      <4>1. Parted(more, cur, k) /\ cur # 0
        BY <2>4, <3>1
      <4> QED BY <1>2, <3>2, <4>1, PartedKeeps
    <3> QED BY <1>1, <3>1, <3>3, ShownFit
  <2> QED BY <2>3, <2>4 DEF TookPage, more
<1> QED BY <1>7, <1>8, <1>9, <1>10

LEMMA ListOK ==
  ASSUME InboxInv, NEW c \in Callers, ListPage(c)
  PROVE  RequestOK(call[c], kept[c])' /\ kept'[c] \subseteq Nat
<1> SUFFICES ASSUME NEW r, r = call[c], NEW k, k = kept'[c], NEW g, g = gen,
                    NEW res, res = Page(c, r.cur.id), NEW rows, rows = r.rows \o res.rows
             PROVE  RequestOK(call[c], kept[c])' /\ k \subseteq Nat
  OBVIOUS
<1>1. /\ UNCHANGED store /\ UNCHANGED audit /\ Watch(c) /\ r.pc = "list" /\ g \in Nat
      /\ r \in RequestSet /\ RequestOK(r, kept[c]) /\ gen' = g /\ ring' = ring /\ nextID' = nextID
  BY DEF ListPage, At, InboxInv, StoreTyped, store, audit
<1>2. /\ k \subseteq Visible(r)' /\ k \subseteq Nat
      /\ rows \in Rows /\ res.next \in Nat
      /\ Fresh(r, kept[c]) =>
           /\ IsInjective(rows)
           /\ res.next = 0 => k \subseteq ToSet(rows)
           /\ res.next # 0 =>
                /\ Parted(rows, res.next, k)' /\ res.next # r.cur.id
                /\ Len(rows) = Len(r.rows) + PageLimit /\ Len(rows) <= MaxMessages
  <2>1. /\ k \subseteq Visible(r)' /\ k \subseteq Nat
        /\ RowsOK(r, res) /\ res.next \in Nat
        /\ Fresh(r, kept[c]) => TookPage(r, k, res)'
    BY <1>1, TakePage
  <2> QED BY <2>1 DEF RowsOK, TookPage
<1>3. RingOK' /\ nextID' \in Nat
  BY <1>1, QuietRing DEF RingOK
<1>4. /\ r.op = "page" /\ r.ans = "none"
      /\ r.event <= nextID'
      /\ r.event # 0 => \A j \in DOMAIN ring' : ring'[j].id = r.event => ring'[j].op = r.op
  BY <1>1 DEF RequestOK, PagesOK, ShownOK, AuditOK
<1>5. CursorFresh(r.cur) => Fresh(r, kept[c])
  <2>1. PagesOK(r, kept[c])
    <3>1. RequestOK(r, kept[c])
      BY <1>1, Zenon
    <3> QED BY <3>1, Zenon DEF RequestOK
  <2> QED BY <1>1, <2>1 DEF PagesOK, CursorFresh, Fresh
<1> DEFINE m == [r EXCEPT !.rows = rows]
<1>6. /\ m \in RequestSet /\ m.op = "page" /\ m.rows = rows /\ m.unread = r.unread
      /\ m.event = r.event /\ m.ans = "none" /\ m.cur = r.cur
  BY <1>1, <1>2, <1>4 DEF RequestSet
<1>7. IF ~CursorFresh(r.cur)
      THEN Answer(c, r, "stale")
      ELSE IF res.next = 0
           THEN Answer(c, m, "ok")
           ELSE Go(c, [m EXCEPT !.pc = "encode", !.cur.id = res.next, !.cur.gen = g])
  BY DEF ListPage
<1> HIDE DEF m
<1>8. CASE ~CursorFresh(r.cur)
  <2>1. Answer(c, r, "stale")
    BY <1>7, <1>8
  <2> QED BY <1>1, <1>2, <1>3, <1>4, <2>1, AnswerOK
<1>9. CASE CursorFresh(r.cur) /\ res.next = 0
  <2>1. Answer(c, m, "ok")
    BY <1>7, <1>9
  <2>2. IsInjective(rows) /\ k \subseteq ToSet(rows)
    BY <1>2, <1>5, <1>9
  <2>3. k \subseteq Visible(m)'
    BY <1>2, <1>6 DEF Visible
  <2>4. /\ m.event <= nextID'
        /\ m.event # 0 => \A j \in DOMAIN ring' : ring'[j].id = m.event => ring'[j].op = m.op
    BY <1>4, <1>6
  <2> QED BY <1>2, <1>3, <1>6, <2>1, <2>2, <2>3, <2>4, AnswerOK
<1>10. CASE CursorFresh(r.cur) /\ res.next # 0
  <2> DEFINE x == [m.cur EXCEPT !.id = res.next, !.gen = g]
             q == [m EXCEPT !.pc = "encode", !.cur.id = res.next, !.cur.gen = g]
  <2>1. Go(c, q)
    BY <1>7, <1>10
  <2>2. m.cur \in Cursors
    BY <1>6 DEF RequestSet
  <2>3. x \in Cursors /\ x.id = res.next /\ x.gen = g
    BY <1>1, <1>2, <2>2 DEF Cursors
  <2>4. q = [m EXCEPT !.pc = "encode", !.cur = x]
    BY <1>6, <2>2 DEF RequestSet, Cursors
  <2> HIDE DEF x, q
  <2>5. q.cur = x /\ q.pc = "encode" /\ q.rows = rows /\ q.op = "page"
    BY <1>6, <2>4 DEF RequestSet
  <2>6. q.unread = r.unread /\ q.event = r.event /\ q.ans = "none"
    BY <1>6, <2>4 DEF RequestSet
  <2>7. q \in RequestSet
    BY <1>6, <2>3, <2>4 DEF RequestSet, PCs
  <2>8. Parted(rows, res.next, k)'
    BY <1>2, <1>5, <1>10
  <2>9. PagesOK(q, k)'
    <3>1. q.op = "page" /\ q.cur.id # 0 /\ q.cur.id = res.next /\ q.cur.gen = g /\ q.rows = rows
      BY <1>10, <2>3, <2>5
    <3>2. q.cur.gen <= gen'
      <4>1. gen' = g /\ g \in Nat
        BY <1>1
      <4> QED BY <3>1, <4>1
    <3>3. Parted(q.rows, q.cur.id, k)'
      BY <2>8, <3>1
    <3> QED BY <3>1, <3>2, <3>3 DEF PagesOK
  <2>10. EmailOK(q, k)' /\ ShownOK(q, k)'
    BY <1>2, <2>5, <2>6 DEF EmailOK, ShownOK, Visible
  <2>11. GuardOK(q)' /\ AuditOK(q)'
    BY <1>4, <2>5, <2>6 DEF GuardOK, AuditOK
  <2>12. RequestOK(q, k)'
    BY <2>7, <2>9, <2>10, <2>11 DEF RequestOK
  <2> QED BY <1>2, <2>1, <2>12, GoOK
<1> QED BY <1>8, <1>9, <1>10

LEMMA FullPagesStep ==
  ASSUME NEW l \in Int, NEW next, next = l - 1
  PROVE  FullPages(l) \in Int /\ FullPages(l) + PageLimit = FullPages(next)
<1>1. PageLimit \in Nat /\ ListPageBudget \in Int
  BY InboxAssumption, Budget
<1>2. ASSUME NEW p \in Nat, NEW b \in Int
      PROVE  p * (b - l) \in Int /\ p * (b - l) + p = p * (b - (l - 1))
  OBVIOUS
<1> QED BY <1>1, <1>2 DEF FullPages

LEMMA FullPagesEnds ==
  /\ FullPages(ListPageBudget) = 0
  /\ FullPages(1) \in Int /\ FullPages(1) >= MaxMessages
<1>1. PageLimit \in Nat /\ ListPageBudget \in Int
  BY InboxAssumption, Budget
<1>2. ASSUME NEW p \in Nat, NEW b \in Int PROVE p * (b - b) = 0 /\ p * (b - 1) \in Int
  OBVIOUS
<1> QED BY <1>1, <1>2, Budget DEF FullPages

LEMMA EmailPageOK ==
  ASSUME InboxInv, NEW c \in Callers, EmailPage(c)
  PROVE  RequestOK(call[c], kept[c])' /\ kept'[c] \subseteq Nat
<1> SUFFICES ASSUME NEW r, r = call[c], NEW k, k = kept'[c], NEW g, g = gen,
                    NEW res, res = Page(c, r.cur.id), NEW rows, rows = r.rows \o res.rows
             PROVE  RequestOK(call[c], kept[c])' /\ k \subseteq Nat
  OBVIOUS
<1>1. /\ UNCHANGED store /\ UNCHANGED audit /\ Watch(c) /\ r.pc = "pages" /\ g \in Nat
      /\ r \in RequestSet /\ RequestOK(r, kept[c]) /\ gen' = g /\ ring' = ring /\ nextID' = nextID
  BY DEF EmailPage, At, InboxInv, StoreTyped, store, audit
<1>2. /\ k \subseteq Visible(r)' /\ k \subseteq Nat
      /\ rows \in Rows /\ res.next \in Nat
      /\ Fresh(r, kept[c]) =>
           /\ IsInjective(rows)
           /\ res.next = 0 => k \subseteq ToSet(rows)
           /\ res.next # 0 =>
                /\ Parted(rows, res.next, k)' /\ res.next # r.cur.id
                /\ Len(rows) = Len(r.rows) + PageLimit /\ Len(rows) <= MaxMessages
  <2>1. /\ k \subseteq Visible(r)' /\ k \subseteq Nat
        /\ RowsOK(r, res) /\ res.next \in Nat
        /\ Fresh(r, kept[c]) => TookPage(r, k, res)'
    BY <1>1, TakePage
  <2> QED BY <2>1 DEF RowsOK, TookPage
<1>3. RingOK' /\ nextID' \in Nat
  BY <1>1, QuietRing DEF RingOK
<1>4. /\ r.op = "email" /\ r.ans = "none" /\ r.left \in 1..ListPageBudget
      /\ r.event <= nextID'
      /\ r.event # 0 => \A j \in DOMAIN ring' : ring'[j].id = r.event => ring'[j].op = r.op
  BY <1>1 DEF RequestOK, EmailOK, ShownOK, AuditOK
<1> DEFINE f == IF r.cur.id = 0 THEN g ELSE r.from
           m == [r EXCEPT !.rows = rows, !.left = r.left - 1, !.to = g, !.from = f]
<1>5. f \in Nat /\ f <= g
  BY <1>1 DEF RequestSet, RequestOK, EmailOK
<1>6. f = g => Fresh(r, kept[c]) /\ Len(r.rows) = FullPages(r.left)
  <2>1. CASE r.cur.id = 0
    <3>1. r.rows = <<>> /\ r.left = ListPageBudget
      BY <1>1, <2>1 DEF RequestOK, EmailOK
    <3>2. FullPages(ListPageBudget) = 0
      BY FullPagesEnds
    <3> QED BY <2>1, <3>1, <3>2 DEF Fresh
  <2>2. CASE r.cur.id # 0
    <3>1. EmailOK(r, kept[c])
      <4>1. RequestOK(r, kept[c])
        BY <1>1, Zenon
      <4> QED BY <4>1, Zenon DEF RequestOK
    <3> QED BY <1>1, <2>2, <3>1 DEF EmailOK, Fresh
  <2> QED BY <2>1, <2>2
<1> HIDE DEF f
<1>7. /\ m \in RequestSet /\ m.op = "email" /\ m.rows = rows /\ m.unread = r.unread
      /\ m.event = r.event /\ m.ans = "none" /\ m.cur = r.cur /\ m.left = r.left - 1
      /\ m.to = g /\ m.from = f /\ m.pc = "pages"
  <2>1. r.left - 1 \in Int
    BY <1>1 DEF RequestSet
  <2> DEFINE s == [r EXCEPT !.rows = rows]
             t == [s EXCEPT !.left = r.left - 1]
             u == [t EXCEPT !.to = g, !.from = f]
  <2>2. s \in RequestSet
    BY <1>1, <1>2 DEF RequestSet
  <2>3. m = u
    BY <1>1 DEF RequestSet
  <2>4. /\ m.op = "email" /\ m.rows = rows /\ m.unread = r.unread
        /\ m.event = r.event /\ m.ans = "none" /\ m.cur = r.cur
    BY <1>1, <1>4 DEF RequestSet
  <2>5. m.left = r.left - 1 /\ m.to = g /\ m.from = f /\ m.pc = "pages"
    BY <1>1 DEF RequestSet
  <2> HIDE DEF s, m
  <2>6. t \in RequestSet
    BY <2>1, <2>2 DEF RequestSet
  <2> HIDE DEF t
  <2>7. u \in RequestSet
    BY <1>1, <1>5, <2>6 DEF RequestSet
  <2> QED BY <2>3, <2>4, <2>5, <2>7
<1>8. IF res.next \in {0, r.cur.id} \/ r.left = 1
      THEN Answer(c, m, "ok")
      ELSE Go(c, [m EXCEPT !.cur.id = res.next])
  BY DEF EmailPage, f
<1> HIDE DEF m
<1>9. r.left \in Nat /\ r.left >= 1 /\ r.left <= ListPageBudget /\ ListPageBudget \in Nat
      /\ PageLimit \in Nat \ {0} /\ MaxMessages \in Nat
  BY <1>4, Budget, InboxAssumption
<1>10. /\ m.event <= nextID'
       /\ m.event # 0 => \A j \in DOMAIN ring' : ring'[j].id = m.event => ring'[j].op = m.op
       /\ k \subseteq Visible(m)'
  BY <1>2, <1>4, <1>7 DEF Visible
\* The budget is enough: the pages before were full, so nothing is left.
<1>11. f = g /\ r.left = 1 => res.next = 0
  <2> SUFFICES ASSUME f = g, r.left = 1, res.next # 0 PROVE FALSE
    OBVIOUS
  <2>1. Len(rows) = FullPages(1) + PageLimit /\ Len(rows) <= MaxMessages
    BY <1>2, <1>6
  <2>2. FullPages(1) \in Int /\ FullPages(1) >= MaxMessages
    BY FullPagesEnds
  <2> QED BY <1>9, <2>1, <2>2
<1>12. CASE res.next \in {0, r.cur.id} \/ r.left = 1
  <2>1. Answer(c, m, "ok")
    BY <1>8, <1>12
  <2>2. m.from = m.to => IsInjective(m.rows) /\ k \subseteq ToSet(m.rows)
    <3> SUFFICES ASSUME f = g PROVE IsInjective(rows) /\ k \subseteq ToSet(rows)
      BY <1>7
    <3>1. res.next = 0
      BY <1>2, <1>6, <1>11, <1>12
    <3> QED BY <1>2, <1>6, <3>1
  <2> QED BY <1>2, <1>3, <1>7, <1>10, <2>1, <2>2, AnswerOK
<1>13. CASE ~(res.next \in {0, r.cur.id} \/ r.left = 1)
  <2> DEFINE x == [m.cur EXCEPT !.id = res.next]
             q == [m EXCEPT !.cur.id = res.next]
  <2>1. Go(c, q) /\ res.next # 0
    BY <1>8, <1>13
  <2>2. m.cur \in Cursors
    BY <1>7 DEF RequestSet
  <2>3. x \in Cursors /\ x.id = res.next
    BY <1>2, <2>2 DEF Cursors
  <2>4. q = [m EXCEPT !.cur = x]
    BY <1>7, <2>2 DEF RequestSet, Cursors
  <2> HIDE DEF x, q
  <2>5. q.cur = x /\ q.pc = "pages" /\ q.rows = rows /\ q.op = "email" /\ q.left = r.left - 1
    BY <1>7, <2>4 DEF RequestSet
  <2>6. q.unread = r.unread /\ q.event = r.event /\ q.ans = "none" /\ q.from = f
    BY <1>7, <2>4 DEF RequestSet
  <2>7. q \in RequestSet
    BY <1>7, <2>3, <2>4 DEF RequestSet
  <2>8. ASSUME f = g
        PROVE  /\ Parted(rows, res.next, k)'
               /\ Len(rows) = FullPages(r.left - 1)
    <3>1. Len(rows) = FullPages(r.left) + PageLimit
      BY <1>2, <1>6, <2>1, <2>8
    <3>2. FullPages(r.left) + PageLimit = FullPages(r.left - 1)
      <4> SUFFICES ASSUME NEW l, l = r.left, NEW next, next = l - 1
                   PROVE  FullPages(l) + PageLimit = FullPages(next)
        OBVIOUS
      <4>1. l \in Int
        BY <1>9
      <4> QED BY <4>1, FullPagesStep
    <3> QED BY <1>2, <1>6, <2>1, <2>8, <3>1, <3>2
  <2>9. r.left - 1 \in 1..ListPageBudget
    BY <1>9, <1>13
  <2>10. EmailOK(q, k)'
    <3>1. ListPageBudget' = ListPageBudget /\ \A l : FullPages(l)' = FullPages(l)
      BY DEF ListPageBudget, FullPages
    <3> QED BY <1>1, <1>5, <2>1, <2>3, <2>5, <2>6, <2>8, <2>9, <3>1 DEF EmailOK
  <2>11. PagesOK(q, k)' /\ ShownOK(q, k)'
    BY <1>2, <2>5, <2>6 DEF PagesOK, ShownOK, Visible
  <2>12. GuardOK(q)' /\ AuditOK(q)'
    BY <1>4, <2>5, <2>6 DEF GuardOK, AuditOK
  <2>13. RequestOK(q, k)'
    BY <2>7, <2>10, <2>11, <2>12 DEF RequestOK
  <2> QED BY <1>2, <2>1, <2>13, GoOK
<1> QED BY <1>2, <1>12, <1>13

-----------------------------------------------------------------------------
(* The theorems.                                                           *)

LEMMA NewRequest ==
  ASSUME InboxInv, NEW c \in Callers, RequestStep(c)
  PROVE  RequestOK(call[c], kept[c])'
  BY BeginPagesOK, DecodeOK, ListOK, EncodeOK, BeginEmailOK, EmailPageOK, BeginDeleteOK,
     MatchOK, RemoveOK, ResetOK, RotateOK, NoteOK, RecordOK, QueryOK, GetOK DEF RequestStep

\* What a step of c leaves to the others.
Undisturbed(c) ==
    /\ StoreTyped' /\ MoveStep /\ RingOK' /\ RecordStep
    /\ \A d \in Callers \ {c} : Thins(d)

LEMMA QuietStep ==
  ASSUME InboxInv, NEW c \in Callers, UNCHANGED <<now, held, store, audit>>, key' \in Nat,
         \A d \in Callers \ {c} : kept'[d] = kept[d]
  PROVE  Undisturbed(c)
<1>1. StoreTyped' /\ MoveStep /\ RingOK' /\ RecordStep
  BY QuietStore, QuietRing
<1>2. \A d \in Callers \ {c} : Thins(d)
  BY QuietThins DEF store
<1> QED BY <1>1, <1>2 DEF Undisturbed

LEMMA StepFrame ==
  ASSUME InboxInv, NEW c \in Callers, RequestStep(c)
  PROVE  Undisturbed(c)
<1>1. key \in Nat /\ kept \in [Callers -> SUBSET Nat]
  BY DEF InboxInv, StoreTyped
<1>2. CASE RemoveStep(c)
  BY <1>2, RemoveTypes, QuietRing DEF Undisturbed, RemoveStep
<1>3. CASE BeginReset(c)
  BY <1>3, ResetTypes, QuietRing DEF Undisturbed, BeginReset
<1>4. CASE RecordAudit(c)
  <2>1. UNCHANGED <<now, held, store>> /\ key' \in Nat /\ kept' = kept /\ msgs' = msgs
    BY <1>1, <1>4 DEF RecordAudit, store
  <2>2. StoreTyped' /\ MoveStep
    BY <2>1, QuietStore
  <2>3. \A d \in Callers : Thins(d)
    BY <2>1, QuietThins
  <2> QED BY <1>4, <2>2, <2>3, RecordTypes DEF Undisturbed
<1>5. CASE ListPage(c) \/ EmailPage(c)
  BY <1>1, <1>5, QuietStep DEF ListPage, EmailPage, Watch
<1>6. CASE (\E unread \in BOOLEAN : BeginPages(c, unread)) \/ BeginEmail(c)
  BY <1>1, <1>6, QuietStep DEF BeginPages, BeginEmail
<1>7. CASE \/ DecodeCursor(c) \/ EncodeCursor(c) \/ MatchStep(c) \/ Note(c) \/ GetAudit(c)
           \/ RotateCursors(c)
  BY <1>1, <1>7, QuietStep DEF DecodeCursor, EncodeCursor, MatchStep, Note, GetAudit, RotateCursors
<1>8. CASE \/ \E op \in Removals, id \in Nat, expect \in Expectations :
                 BeginDelete(c, op, id, expect)
           \/ \E j \in Nat : QueryAudit(c, j)
  BY <1>1, <1>8, QuietStep DEF BeginDelete, QueryAudit
<1> QED BY <1>2, <1>3, <1>4, <1>5, <1>6, <1>7, <1>8 DEF RequestStep

LEMMA StepDomains ==
  ASSUME InboxInv, NEW c \in Callers, RequestStep(c)
  PROVE  /\ DOMAIN call' = Callers /\ call' = [d \in Callers |-> call'[d]]
         /\ \A d \in Callers \ {c} : call'[d] = call[d]
         /\ kept' = [d \in Callers |-> kept'[d]]
<1>1. call \in [Callers -> RequestSet] /\ kept \in [Callers -> SUBSET Nat]
  BY DEF InboxInv
<1>2. ASSUME NEW q, Go(c, q)
      PROVE  /\ DOMAIN call' = Callers /\ call' = [d \in Callers |-> call'[d]]
             /\ \A d \in Callers \ {c} : call'[d] = call[d]
  BY <1>1, <1>2 DEF Go
<1>3. \E q : Go(c, q)
  BY DEF RequestStep, BeginPages, DecodeCursor, ListPage, EncodeCursor, BeginEmail, EmailPage,
         BeginDelete, MatchStep, RemoveStep, BeginReset, RotateCursors, Note, RecordAudit,
         QueryAudit, GetAudit, Answer
<1>4. kept' = [d \in Callers |-> kept'[d]]
  BY <1>1 DEF RequestStep, BeginPages, DecodeCursor, ListPage, EncodeCursor, BeginEmail, EmailPage,
         BeginDelete, MatchStep, RemoveStep, BeginReset, RotateCursors, Note, RecordAudit,
         QueryAudit, GetAudit, Watch, Becomes
<1> QED BY <1>2, <1>3, <1>4

LEMMA RequestTypes ==
  ASSUME InboxTyped', NEW c \in Callers, RequestOK(call[c], kept[c])'
  PROVE  call'[c] \in RequestSet /\ kept'[c] \in SUBSET Nat
  BY DEF RequestOK, ShownOK, Visible, InboxTyped

LEMMA RequestKeepsInv ==
  ASSUME InboxInv, NEW c \in Callers, RequestStep(c)
  PROVE  InboxInv'
<1>1. /\ StoreTyped' /\ MoveStep /\ RingOK' /\ RecordStep
      /\ \A d \in Callers \ {c} : Thins(d)
  BY StepFrame DEF Undisturbed
<1>2. /\ DOMAIN call' = Callers /\ call' = [d \in Callers |-> call'[d]]
      /\ \A d \in Callers \ {c} : call'[d] = call[d]
      /\ kept' = [d \in Callers |-> kept'[d]]
  BY StepDomains
<1>3. ASSUME NEW d \in Callers PROVE RequestOK(call[d], kept[d])'
  <2>1. CASE d = c
    BY <2>1, NewRequest
  <2>2. CASE d # c
    BY <1>1, <1>2, <2>2, StillKeeps
  <2> QED BY <2>1, <2>2
<1>4. InboxTyped'
  BY <1>1 DEF StoreTyped
<1>5. \A d \in Callers : call'[d] \in RequestSet /\ kept'[d] \in SUBSET Nat
  BY <1>3, <1>4, RequestTypes
<1> QED BY <1>1, <1>2, <1>3, <1>5 DEF InboxInv

LEMMA MailKeepsInv ==
  ASSUME InboxInv, call' = call, UNCHANGED audit, StoreTyped', MoveStep,
         kept' = [c \in Callers |-> kept'[c]], \A c \in Callers : Thins(c)
  PROVE  InboxInv'
<1>1. RingOK' /\ RecordStep
  BY QuietRing
<1>2. ASSUME NEW c \in Callers PROVE RequestOK(call[c], kept[c])' /\ kept'[c] \in SUBSET Nat
  BY <1>1, StillKeeps
<1>3. call' \in [Callers -> RequestSet]
  BY DEF InboxInv
<1> QED BY <1>1, <1>2, <1>3 DEF InboxInv

LEMMA InboxInit == Init => InboxInv
<1> SUFFICES ASSUME Init PROVE InboxInv
  OBVIOUS
<1>1. Inbox = {} /\ msgs = <<>>
  BY DEF Init, Inbox
<1>2. InboxTyped /\ Cardinality(Inbox) = 0
  BY <1>1, FS_EmptySet DEF InboxTyped
<1>3. StoreTyped
  BY <1>2, InboxAssumption DEF Init, StoreTyped
<1>4. RingOK
  BY InboxAssumption DEF Init, RingOK
<1>5. call = [c \in Callers |-> Idle] /\ kept = [c \in Callers |-> {}] /\ nextID = 0
  BY DEF Init
<1>6. /\ Idle \in RequestSet /\ Idle.pc = "idle" /\ Idle.op = "none" /\ Idle.event = 0
      /\ Idle.ans = "none"
  BY IdleType DEF Idle
<1>7. RequestOK(Idle, {})
  BY <1>5, <1>6 DEF RequestOK, PagesOK, EmailOK, ShownOK, GuardOK, AuditOK
<1> QED BY <1>3, <1>4, <1>5, <1>6, <1>7 DEF InboxInv

LEMMA InboxStep == InboxInv /\ [Next]_vars => InboxInv'
<1> SUFFICES ASSUME InboxInv, [Next]_vars PROVE InboxInv'
  OBVIOUS
<1>1. kept \in [Callers -> SUBSET Nat]
  BY DEF InboxInv
<1>2. CASE Tick \/ Receive \/ \E h \in held : Mint(h)
  <2>1. StoreTyped' /\ MoveStep
    BY <1>2, MailTypes
  <2>2. call' = call /\ UNCHANGED audit /\ kept' = kept /\ msgs' = msgs
    BY <1>2 DEF Tick, Receive, Mint, store
  <2>3. \A c \in Callers : Thins(c)
    BY <2>2, QuietThins
  <2> QED BY <1>1, <2>1, <2>2, <2>3, MailKeepsInv
<1>3. ASSUME NEW h \in held, Insert(h) PROVE InboxInv'
  <2>1. StoreTyped' /\ MoveStep /\ \A c \in Callers : Thins(c)
    BY <1>3, InsertTypes
  <2>2. call' = call /\ UNCHANGED audit
    BY <1>3 DEF Insert
  <2>3. kept' = [c \in Callers |-> kept'[c]]
    BY <1>1, <1>3 DEF Insert, Becomes
  <2> QED BY <2>1, <2>2, <2>3, MailKeepsInv
<1>4. ASSUME NEW S \in SUBSET Inbox, Marked(S) PROVE InboxInv'
  <2>1. StoreTyped' /\ MoveStep /\ \A c \in Callers : Thins(c)
    BY <1>4, MarkedTypes
  <2>2. call' = call /\ UNCHANGED audit
    BY <1>4 DEF Marked
  <2>3. kept' = [c \in Callers |-> kept'[c]]
    BY <1>1, <1>4 DEF Marked, Becomes
  <2> QED BY <2>1, <2>2, <2>3, MailKeepsInv
<1>5. CASE UNCHANGED vars
  <2>1. /\ call' = call /\ UNCHANGED audit /\ UNCHANGED <<now, held, store>> /\ kept' = kept
        /\ msgs' = msgs /\ key' \in Nat
    BY <1>5 DEF vars, store, audit, InboxInv, StoreTyped
  <2>2. StoreTyped' /\ MoveStep
    BY <2>1, QuietStore
  <2>3. \A c \in Callers : Thins(c)
    BY <2>1, QuietThins
  <2> QED BY <1>1, <2>1, <2>2, <2>3, MailKeepsInv
<1>6. CASE Next
  BY <1>2, <1>3, <1>4, <1>6, NextCases, RequestKeepsInv
<1> QED BY <1>5, <1>6

\* The inductive invariant holds: among the rest, the inbox never exceeds
\* store.maxMessages and the audit ring never its size.
THEOREM InboxInvariant == Spec => []InboxInv
  BY InboxInit, InboxStep, PTL DEF Spec

\* Pages over REST and MCP: whatever is received, evicted, deleted, wiped or
\* read between handleListMessages' pages, a listing never told cursor_stale
\* has shown every message that matched throughout, and none twice.
THEOREM PagesArePartition == Spec => []PagesPartition
<1>1. InboxInv => PagesPartition
  BY DEF InboxInv, RequestOK, ShownOK, PagesPartition, Complete, Once
<1> QED BY <1>1, InboxInvariant, PTL

\* GET /email: listPageBudget is always enough, and when no membership
\* change fell between its pages the answer of listAll is complete.
THEOREM EmailIsComplete == Spec => []QuietEmailComplete
<1>1. InboxInv => QuietEmailComplete
  BY DEF InboxInv, RequestOK, ShownOK, QuietEmailComplete, Complete, Once
<1> QED BY <1>1, InboxInvariant, PTL

\* A guarded deletion (expectedStoreGeneration) that takes effect named a
\* generation the store had during the request.
THEOREM GuardsWereCurrent == Spec => []GuardWasCurrent
<1>1. InboxInv => GuardWasCurrent
  BY DEF InboxInv, RequestOK, GuardOK, GuardWasCurrent, At
<1> QED BY <1>1, InboxInvariant, PTL

\* recordAudit before the answer, and Ring.Append's consecutive ids: an
\* answered request's event is found until AuditMax later ones came.
THEOREM AnswersAreAudited == Spec => []AnsweredMeansAudited
<1>1. ASSUME InboxInv PROVE AnsweredMeansAudited
  <2> SUFFICES ASSUME NEW c \in Callers
               PROVE  /\ call[c].event # 0 =>
                           \/ \E j \in DOMAIN ring : /\ ring[j].id = call[c].event
                                                     /\ ring[j].op = call[c].op
                           \/ nextID - call[c].event >= AuditMax
                      /\ call[c].op = "audit" /\ call[c].ans = "notfound" =>
                           nextID - call[c].target >= AuditMax
    BY DEF AnsweredMeansAudited
  <2>1. /\ RingOK /\ AuditOK(call[c]) /\ call[c].event \in Nat
        /\ nextID \in Nat /\ DOMAIN ring = 1..Len(ring)
    BY <1>1 DEF InboxInv, RequestOK, RequestSet, RingOK
  <2>2. ASSUME call[c].event # 0, ~(nextID - call[c].event >= AuditMax)
        PROVE  \E j \in DOMAIN ring : ring[j].id = call[c].event /\ ring[j].op = call[c].op
    <3>1. call[c].event \in 1..nextID
      BY <2>1, <2>2 DEF AuditOK
    <3>2. PICK j \in 1..Len(ring) : ring[j].id = call[c].event
      BY <2>1, <2>2, <3>1, RingHolds
    <3> QED BY <2>1, <2>2, <3>2 DEF AuditOK
  <2>3. call[c].op = "audit" /\ call[c].ans = "notfound" => nextID - call[c].target >= AuditMax
    BY <2>1 DEF AuditOK
  <2> QED BY <2>2, <2>3
<1> QED BY <1>1, InboxInvariant, PTL
=============================================================================
