--------------------------- MODULE RequestsProofs ---------------------------
(***************************************************************************)
(* For any files, days and sizes of a page: a reader who follows the arrows *)
(* misses nothing, and files live as long as was asked for and is shown.    *)
(* What is proved of requests and of the list holds where both are checked. *)
(***************************************************************************)
EXTENDS MCRequests, SharingProofs, FiniteSetTheorems

USE NamesOK, UnitsOK

\* Whatever is counted here is finite.
LEMMA Countable ==
    ASSUME NEW S \in SUBSET Names, NEW T \in SUBSET S
    PROVE  IsFiniteSet(T) /\ Cardinality(T) \in Nat /\ Cardinality(T) <= Cardinality(S)
  <1>1. IsFiniteSet(S)
    BY FS_Subset
  <1>2. IsFiniteSet(T) /\ Cardinality(T) <= Cardinality(S)
    BY <1>1, FS_Subset
  <1> QED
    BY <1>2, FS_CardinalityType

\* The places of a set's files are 1 to their number, in the order of the names.
LEMMA PlaceRange ==
    ASSUME NEW S \in SUBSET Names, NEW x \in S
    PROVE  Place(x, S) \in 1..Cardinality(S)
  <1> DEFINE below == {k \in S : k <= x}
  <1>1. below \in SUBSET S /\ x \in below
    OBVIOUS
  <1>2. IsFiniteSet(below) /\ Cardinality(below) \in Nat /\ Cardinality(below) <= Cardinality(S)
    BY <1>1, Countable
  <1>3. Cardinality(below) # 0
    BY <1>1, <1>2, FS_EmptySet
  <1>4. Cardinality(S) \in Nat
    BY Countable
  <1> QED
    BY <1>2, <1>3, <1>4 DEF Place

LEMMA PlaceOrder ==
    ASSUME NEW S \in SUBSET Names, NEW x \in S, NEW y \in S
    PROVE  x < y <=> Place(x, S) < Place(y, S)
  <1>1. ASSUME NEW a \in S, NEW b \in S, a < b
        PROVE  Place(a, S) < Place(b, S)
    <2> DEFINE A == {k \in S : k <= a}
               B == {k \in S : k <= b}
    <2>1. A \in SUBSET B /\ b \in B /\ b \notin A /\ A \in SUBSET S /\ B \in SUBSET S
      <3>1. a \in Nat /\ b \in Nat /\ \A k \in S : k \in Nat
        OBVIOUS
      <3>2. \A k \in S : k <= a => k <= b
        BY <1>1, <3>1
      <3>3. ~(b <= a)
        BY <1>1, <3>1
      <3>4. A \subseteq B
        BY <3>2
      <3> QED
        BY <3>1, <3>3, <3>4
    <2>2. IsFiniteSet(B) /\ Cardinality(A) \in Nat /\ Cardinality(B) \in Nat
      BY <2>1, Countable
    <2>3. Cardinality(A) <= Cardinality(B) /\ (Cardinality(B) = Cardinality(A) => B = A)
      BY <2>1, <2>2, FS_Subset
    <2>4. Place(a, S) = Cardinality(A) /\ Place(b, S) = Cardinality(B)
      BY DEF Place
    <2> HIDE DEF A, B
    <2>5. A # B
      BY <2>1
    <2> QED
      BY <2>2, <2>3, <2>4, <2>5
  <1>2. Place(x, S) \in Nat /\ Place(y, S) \in Nat
    BY PlaceRange
  <1>3. x < y \/ x = y \/ y < x
    OBVIOUS
  <1> QED
    BY <1>1, <1>2, <1>3

\* Every place is somebody's.
LEMMA PlaceTaken ==
    ASSUME NEW S \in SUBSET Names, NEW n \in 1..Cardinality(S)
    PROVE  \E x \in S : Place(x, S) = n
  <1> DEFINE c == Cardinality(S)
             place == [x \in S |-> Place(x, S)]
  <1>1. IsFiniteSet(S) /\ c \in Nat
    BY Countable
  <1>2. IsFiniteSet(1..c) /\ Cardinality(1..c) = c
    BY <1>1, FS_Interval
  <1>3. \A x, y \in S : x # y => Place(x, S) # Place(y, S)
    <2> SUFFICES ASSUME NEW x \in S, NEW y \in S, x # y  PROVE Place(x, S) # Place(y, S)
      OBVIOUS
    <2>1. x < y \/ y < x
      OBVIOUS
    <2>2. Place(x, S) \in Nat /\ Place(y, S) \in Nat
      BY PlaceRange
    <2> QED
      BY <2>1, <2>2, PlaceOrder
  <1>4. place \in Injection(S, 1..c)
    BY <1>3, PlaceRange DEF Injection, IsInjective
  <1>5. place \in Surjection(S, 1..c)
    BY <1>1, <1>2, <1>4, FS_Injection
  <1> QED
    BY <1>5 DEF Surjection

\* A window of places holds as many files as it is wide, or fewer at the end.
Window(S, a, b) == {x \in S : Place(x, S) \in (a + 1)..b}

LEMMA IntervalSize ==
    ASSUME NEW a \in Nat, NEW b \in Nat, a <= b
    PROVE  IsFiniteSet((a + 1)..b) /\ Cardinality((a + 1)..b) = b - a
  <1>1. ASSUME NEW c \in Int, c <= b + 1
        PROVE  IsFiniteSet(c..b) /\ Cardinality(c..b) = b - c + 1
    <2>1. c \in Int /\ b \in Int
      OBVIOUS
    <2>2. IsFiniteSet(c..b) /\ Cardinality(c..b) = IF c > b THEN 0 ELSE b - c + 1
      BY ONLY <2>1, FS_Interval
    <2> QED
      BY <1>1, <2>2
  <1>2. a + 1 \in Int /\ a + 1 <= b + 1 /\ b - (a + 1) + 1 = b - a
    OBVIOUS
  <1> QED
    BY <1>1, <1>2

LEMMA WindowBound ==
    ASSUME NEW S \in SUBSET Names, NEW a \in Nat, NEW b \in Nat, a <= b
    PROVE  Cardinality(Window(S, a, b)) <= b - a
  <1> DEFINE place == [x \in Window(S, a, b) |-> Place(x, S)]
  <1>1. IsFiniteSet((a + 1)..b) /\ Cardinality((a + 1)..b) = b - a
    BY IntervalSize
  <1>2. \A x, y \in Window(S, a, b) : x # y => Place(x, S) # Place(y, S)
    <2> SUFFICES ASSUME NEW x \in S, NEW y \in S, x # y  PROVE Place(x, S) # Place(y, S)
      BY DEF Window
    <2>1. x < y \/ y < x
      OBVIOUS
    <2>2. Place(x, S) \in Nat /\ Place(y, S) \in Nat
      BY PlaceRange
    <2> QED
      BY <2>1, <2>2, PlaceOrder
  <1>3. place \in Injection(Window(S, a, b), (a + 1)..b)
    <2>1. \A x \in Window(S, a, b) : Place(x, S) \in (a + 1)..b
      BY DEF Window
    <2> QED
      BY <1>2, <2>1 DEF Injection, IsInjective
  <1> QED
    BY <1>1, <1>3, FS_Injection

LEMMA WindowFull ==
    ASSUME NEW S \in SUBSET Names, NEW a \in Nat, NEW b \in Nat, a <= b, b <= Cardinality(S)
    PROVE  Cardinality(Window(S, a, b)) >= b - a
  <1> DEFINE W == Window(S, a, b)
             at == [n \in (a + 1)..b |-> CHOOSE x \in S : Place(x, S) = n]
  <1>1. Cardinality((a + 1)..b) = b - a
    BY IntervalSize
  <1>2. Cardinality(S) \in Nat /\ IsFiniteSet(W) /\ Cardinality(W) \in Nat
    <2>1. S \in SUBSET S /\ W \in SUBSET S
      BY DEF Window
    <2> QED
      BY <2>1, Countable
  <1>3. \A n \in (a + 1)..b : at[n] \in S /\ Place(at[n], S) = n
    <2> SUFFICES ASSUME NEW n \in (a + 1)..b
                 PROVE  at[n] \in S /\ Place(at[n], S) = n
      OBVIOUS
    <2>1. n \in 1..Cardinality(S)
      BY <1>2
    <2> QED
      BY <2>1, PlaceTaken
  <1>4. at \in Injection((a + 1)..b, W)
    <2>1. \A n \in (a + 1)..b : at[n] \in W
      BY <1>3 DEF Window
    <2>2. \A n, m \in (a + 1)..b : at[n] = at[m] => n = m
      BY <1>3
    <2> HIDE DEF at, W
    <2>3. at = [n \in (a + 1)..b |-> at[n]]
      BY DEF at
    <2> QED
      BY <2>1, <2>2, <2>3 DEF Injection, IsInjective
  <1>5. Cardinality((a + 1)..b) <= Cardinality(W)
    BY <1>2, <1>4, FS_Injection
  <1> QED
    BY <1>1, <1>5

\* More files move a file forward only.
LEMMA PlaceGrows ==
    ASSUME NEW T \in SUBSET Names, NEW S \in SUBSET T, NEW x \in S
    PROVE  Place(x, S) <= Place(x, T)
  <1>1. {k \in S : k <= x} \in SUBSET {k \in T : k <= x} /\ {k \in T : k <= x} \in SUBSET Names
    OBVIOUS
  <1> QED
    BY <1>1, Countable DEF Place

-----------------------------------------------------------------------------
File == [created : Nat, asked : Nat, expireAt : Int]

\* What the rows, the shown page and the reader's notes are.
Listed ==
    /\ clock \in 0..MaxClock
    /\ files \in [Names -> File]
    /\ \A n \in Names : files[n] # NoFile => files[n].asked \in DaysAsked
    /\ view.page \in Nat /\ view.next \in {0, view.page + 1} /\ view.at \in 0..MaxClock
    /\ view.page = 0 => view.next = 0
    /\ DOMAIN view.rows \subseteq Names /\ Cardinality(DOMAIN view.rows) <= pageSize
    /\ walk \in [base : SUBSET Names, seen : SUBSET Names, broken : BOOLEAN]

\* What the reader has not seen lies behind the page that is shown: files that
\* are added move it further back, and the last page has nothing behind it.
Ahead ==
    (view.page > 0 /\ ~walk.broken) =>
        /\ walk.base \subseteq Stored
        /\ \A n \in walk.base \ walk.seen : Place(n, Stored) > view.page * pageSize
        /\ view.next = 0 => walk.base \subseteq walk.seen

\* What is shown of a file was worked out from its row when the page was made.
Shows ==
    /\ DOMAIN view.days = DOMAIN view.rows
    /\ \A n \in DOMAIN view.rows :
          /\ view.rows[n] \in File /\ view.rows[n] # NoFile
          /\ view.days[n] = (view.rows[n].expireAt - view.at) \div Day

\* A file expires when the days asked for are over.
Grants == \A n \in Names : files[n] # NoFile =>
              files[n].expireAt = files[n].created + files[n].asked * Day

\* What one page shows: every file whose place is on it, and the extra row is
\* there unless this is the last page.
LEMMA PageShown ==
    ASSUME NEW page \in Nat \ {0}
    PROVE  /\ Trim(Query(page)) \subseteq Stored
           /\ Cardinality(Trim(Query(page))) <= pageSize
           /\ \A n \in Stored : (page - 1) * pageSize < Place(n, Stored) /\ Place(n, Stored) <= page * pageSize
                                   => n \in Trim(Query(page))
           /\ Cardinality(Query(page)) <= pageSize
                 => \A n \in Stored : Place(n, Stored) <= page * pageSize
  <1> DEFINE from == (page - 1) * pageSize
             found == Query(page)
  <1>1. from \in Nat /\ from + pageSize = page * pageSize
    <2>1. page - 1 \in Nat /\ pageSize \in Nat
      OBVIOUS
    <2>2. \A p, q \in Nat : p * q \in Nat
      OBVIOUS
    <2>3. (page - 1) * pageSize + pageSize = page * pageSize
      OBVIOUS
    <2> QED
      BY <2>1, <2>2, <2>3
  <1>2. Stored \in SUBSET Names /\ Cardinality(Stored) \in Nat
    BY Countable DEF Stored
  <1>3. found = Window(Stored, from, from + pageSize + 1) /\ found \in SUBSET Stored
    BY DEF Query, Window
  <1> HIDE DEF from, found
  <1>4. Trim(found) = Window(found, 0, pageSize)
    <2>1. \A n \in found : Place(n, found) \in Nat /\ Place(n, found) > 0
      <3>1. found \in SUBSET Names /\ Cardinality(found) \in Nat
        BY <1>2, <1>3, Countable
      <3> QED
        BY <3>1, PlaceRange
    <2> QED
      BY <2>1 DEF Trim, Window
  <1>5. Cardinality(Trim(found)) <= pageSize
    <2>1. found \in SUBSET Names
      BY <1>2, <1>3
    <2> QED
      BY <1>4, <2>1, WindowBound
  <1>6. ASSUME NEW n \in Stored, from < Place(n, Stored), Place(n, Stored) <= from + pageSize
        PROVE  n \in Trim(found)
    <2> DEFINE place == Place(n, Stored)
    <2>1. place \in Nat
      BY <1>2, PlaceRange
    <2>2. n \in found
      BY <1>1, <1>3, <1>6, <2>1 DEF Window
    <2>3. {k \in found : k <= n} \in SUBSET Window(Stored, from, place)
      <3>1. \A k \in Stored : k <= n => Place(k, Stored) <= place
        <4> SUFFICES ASSUME NEW k \in Stored, k <= n  PROVE Place(k, Stored) <= place
          OBVIOUS
        <4>1. ~(n < k) /\ Place(k, Stored) \in Nat
          BY <1>2, PlaceRange
        <4> QED
          BY <1>2, <2>1, <4>1, PlaceOrder
      <3>2. \A k \in found : k \in Stored /\ Place(k, Stored) \in Nat /\ from < Place(k, Stored)
        BY <1>1, <1>3 DEF Window
      <3> HIDE DEF place
      <3> QED
        BY <1>1, <2>1, <3>1, <3>2 DEF Window
    <2>4. Cardinality(Window(Stored, from, place)) <= place - from
      BY <1>1, <1>2, <1>6, <2>1, WindowBound
    <2>5. Window(Stored, from, place) \in SUBSET Names
      BY <1>2 DEF Window
    <2>6. Place(n, found) <= pageSize
      <3>1. /\ Cardinality({k \in found : k <= n}) \in Nat
            /\ Cardinality({k \in found : k <= n}) <= Cardinality(Window(Stored, from, place))
        BY <2>3, <2>5, Countable
      <3>2. Cardinality(Window(Stored, from, place)) \in Nat
        BY <2>5, Countable
      <3>3. Place(n, found) = Cardinality({k \in found : k <= n})
        BY DEF Place
      <3> QED
        BY <1>1, <1>6, <2>1, <2>4, <3>1, <3>2, <3>3
    <2> QED
      BY <2>2, <2>6 DEF Trim
  <1>7. ASSUME NEW n \in Stored, Place(n, Stored) > from + pageSize
        PROVE  Cardinality(found) > pageSize
    <2>1. Place(n, Stored) \in Nat /\ Place(n, Stored) <= Cardinality(Stored)
      BY <1>2, PlaceRange
    <2>2. /\ from + pageSize + 1 \in Nat /\ from <= from + pageSize + 1
          /\ from + pageSize + 1 <= Cardinality(Stored)
          /\ (from + pageSize + 1) - from = pageSize + 1
      BY <1>1, <1>2, <1>7, <2>1
    <2>3. Cardinality(found) >= pageSize + 1
      BY <1>1, <1>2, <1>3, <2>2, WindowFull
    <2>4. Cardinality(found) \in Nat
      BY <1>2, <1>3, Countable
    <2> QED
      BY <2>3, <2>4
  <1>8. Cardinality(found) <= pageSize => \A n \in Stored : Place(n, Stored) <= from + pageSize
    <2>1. \A n \in Stored : Place(n, Stored) \in Nat
      BY <1>2, PlaceRange
    <2>2. found \in SUBSET Names
      BY <1>2, <1>3
    <2>3. Cardinality(found) \in Nat
      BY <2>2, Countable
    <2> QED
      BY <1>1, <1>7, <2>1, <2>3
  <1>9. Trim(found) \subseteq Stored
    BY <1>3 DEF Trim
  <1> QED
    BY <1>1, <1>5, <1>6, <1>8, <1>9 DEF from, found

\* The initial state satisfies the invariant.
LEMMA ListingInits == ListingInit => Listed /\ Ahead /\ Shows /\ Grants
  <1> SUFFICES ASSUME ListingInit  PROVE Listed /\ Ahead /\ Shows /\ Grants
    OBVIOUS
  <1>1. DOMAIN NoRows = {} /\ NoFile \in File
    BY DEF NoRows, NoFile, File
  <1>2. Cardinality({}) = 0
    BY FS_EmptySet
  <1> QED
    BY <1>1, <1>2 DEF ListingInit, Listed, Ahead, Shows, Grants

\* A page is shown: the one after, the one before or the first.
LEMMA ListKeeps ==
    ASSUME Listed, Ahead, NEW page \in Nat \ {0}, List(page),
           page = 1 \/ (view.page > 0 /\ page \in {view.page + 1, view.page - 1})
    PROVE  Listed' /\ Ahead' /\ Shows'
  <1> DEFINE items == Trim(Query(page))
  <1>1. /\ view' = [page |-> page, rows |-> [n \in items |-> files[n]],
                    days |-> [n \in items |-> formatExpiresIn(n)],
                    next |-> IF Cardinality(Query(page)) > pageSize THEN page + 1 ELSE 0,
                    at |-> clock]
        /\ walk' = IF page = 1
                   THEN [base |-> Stored, seen |-> items, broken |-> FALSE]
                   ELSE [walk EXCEPT !.seen = @ \cup items]
        /\ UNCHANGED <<clock, files>>
    BY DEF List
  <1>2. /\ items \subseteq Stored /\ Cardinality(items) <= pageSize
        /\ \A n \in Stored : (page - 1) * pageSize < Place(n, Stored) /\ Place(n, Stored) <= page * pageSize
                                => n \in items
        /\ Cardinality(Query(page)) <= pageSize
              => \A n \in Stored : Place(n, Stored) <= page * pageSize
    BY PageShown
  <1> HIDE DEF items
  <1>3. Stored' = Stored /\ Stored \subseteq Names /\ \A n \in Stored : Place(n, Stored) \in Nat \ {0}
    <2>1. Stored \in SUBSET Names /\ Cardinality(Stored) \in Nat
      BY Countable DEF Stored
    <2>2. Stored' = Stored
      BY <1>1 DEF Stored, Visible
    <2> QED
      BY <2>1, <2>2, PlaceRange
  <1>4. Listed'
    <2>1. view'.page = page /\ view'.next \in {0, page + 1} /\ view'.at = clock /\ DOMAIN view'.rows = items
      BY <1>1
    <2>2. walk \in [base : SUBSET Names, seen : SUBSET Names, broken : BOOLEAN]
      BY DEF Listed
    <2>3. walk' \in [base : SUBSET Names, seen : SUBSET Names, broken : BOOLEAN]
      <3>1. CASE page = 1
        BY <1>1, <1>2, <1>3, <3>1
      <3>2. CASE page # 1
        BY <1>1, <1>2, <1>3, <2>2, <3>2
      <3> QED
        BY <3>1, <3>2
    <2> QED
      BY <1>1, <1>2, <1>3, <2>1, <2>3 DEF Listed
  <1>5. Shows'
    <2>1. \A n \in items : files[n] \in File /\ files[n] # NoFile
      BY <1>2 DEF Listed, Stored, Visible
    <2>2. /\ view'.rows = [n \in items |-> files[n]] /\ view'.at = clock
          /\ view'.days = [n \in items |-> formatExpiresIn(n)]
      BY <1>1
    <2> QED
      BY <2>1, <2>2 DEF Shows, formatExpiresIn
  <1>6. Ahead'
    <2> SUFFICES ASSUME ~walk'.broken
                 PROVE  /\ walk'.base \subseteq Stored
                        /\ \A n \in walk'.base \ walk'.seen : Place(n, Stored) > page * pageSize
                        /\ Cardinality(Query(page)) <= pageSize => walk'.base \subseteq walk'.seen
      <3>1. Cardinality(Query(page)) \in Nat
        <4>1. Query(page) \in SUBSET Stored
          BY DEF Query
        <4> QED
          BY <1>3, <4>1, Countable
      <3>2. view'.page = page /\ (view'.next = 0 => ~(Cardinality(Query(page)) > pageSize))
        BY <1>1
      <3>3. Stored' = Stored /\ \A n \in Names : Place(n, Stored)' = Place(n, Stored)
        BY <1>3 DEF Place
      <3> QED
        BY <1>3, <3>1, <3>2, <3>3 DEF Ahead
    <2>1. /\ walk'.base \subseteq Stored /\ items \subseteq walk'.seen
          /\ \A n \in walk'.base \ walk'.seen : Place(n, Stored) > (page - 1) * pageSize
      <3>1. CASE page = 1
        <4>1. (page - 1) * pageSize = 0
          BY <3>1
        <4> QED
          BY <1>1, <1>3, <3>1, <4>1
      <3>2. CASE page # 1
        <4>1. view.page > 0 /\ page \in {view.page + 1, view.page - 1} /\ view.page \in Nat
          BY <3>2 DEF Listed
        <4>2. /\ walk'.base = walk.base /\ walk'.seen = walk.seen \cup items
              /\ walk'.broken = walk.broken
          BY <1>1, <3>2 DEF Listed
        <4>3. view.page * pageSize \in Nat /\ view.page * pageSize >= (page - 1) * pageSize
          <5>1. CASE page = view.page + 1
            BY <4>1, <5>1
          <5>2. CASE page = view.page - 1
            <6>1. view.page * pageSize = (page - 1) * pageSize + 2 * pageSize
              BY <4>1, <5>2
            <6>2. view.page * pageSize \in Nat /\ (page - 1) * pageSize \in Int
              BY <4>1
            <6> QED
              BY <6>1, <6>2
          <5> QED
            BY <4>1, <5>1, <5>2
        <4>4. /\ walk.base \subseteq Stored
              /\ \A n \in walk.base \ walk.seen : Place(n, Stored) > view.page * pageSize
          BY <4>1, <4>2 DEF Ahead
        <4>5. (page - 1) * pageSize \in Int
          OBVIOUS
        <4>6. \A n \in Stored :
                Place(n, Stored) > view.page * pageSize => Place(n, Stored) > (page - 1) * pageSize
          BY <1>3, <4>3, <4>5
        <4>7. \A n \in walk.base \ walk.seen : Place(n, Stored) > (page - 1) * pageSize
          BY <4>4, <4>6
        <4> QED
          BY <4>2, <4>4, <4>7
      <3> QED
        BY <3>1, <3>2
    <2>2. \A n \in walk'.base \ walk'.seen : Place(n, Stored) > page * pageSize
      <3> SUFFICES ASSUME NEW n \in walk'.base \ walk'.seen
                   PROVE  Place(n, Stored) > page * pageSize
        OBVIOUS
      <3>1. n \in Stored /\ n \notin items
        BY <2>1
      <3>2. Place(n, Stored) \in Nat /\ page * pageSize \in Nat
        BY <1>3, <3>1
      <3>3. Place(n, Stored) > (page - 1) * pageSize
        BY <2>1
      <3> QED
        BY <1>2, <3>1, <3>2, <3>3
    <2>3. Cardinality(Query(page)) <= pageSize => walk'.base \subseteq walk'.seen
      <3>1. page * pageSize \in Nat
        OBVIOUS
      <3> QED
        BY <1>2, <1>3, <2>1, <2>2, <3>1
    <2> QED
      BY <2>1, <2>2, <2>3
  <1> QED
    BY <1>4, <1>5, <1>6

\* Durations are integers, and those below the largest one are themselves.
LEMMA WrapType == ASSUME NEW d \in Nat  PROVE Wrap(d * Day) \in Int
  <1>1. d * Day \in Nat
    OBVIOUS
  <1>2. \A a \in Nat, b \in Nat \ {0} : a % b \in Int
    OBVIOUS
  <1>3. d * Day + MaxDuration + 1 \in Nat /\ 2 * (MaxDuration + 1) \in Nat \ {0}
    BY <1>1
  <1> QED
    BY <1>2, <1>3 DEF Wrap

LEMMA WrapIsIdentity ==
    ASSUME NEW d \in Nat, d <= MaxDuration  PROVE Wrap(d) = d
  <1>1. \A a \in Nat, b \in Nat \ {0} : a < b => a % b = a
    OBVIOUS
  <1>2. /\ d + MaxDuration + 1 \in Nat /\ 2 * (MaxDuration + 1) \in Nat \ {0}
        /\ d + MaxDuration + 1 < 2 * (MaxDuration + 1)
    OBVIOUS
  <1>3. (d + MaxDuration + 1) % (2 * (MaxDuration + 1)) = d + MaxDuration + 1
    BY <1>1, <1>2
  <1> QED
    BY <1>3 DEF Wrap

\* Time, uploads and deletions: the reader's notes stay true as long as no file
\* goes, and what is shown stays what it was.
LEMMA WorldKeeps ==
    ASSUME Listed, Ahead, Shows, ListingTick \/ \E n \in Names : CreateUpload(n) \/ DeleteFile(n)
    PROVE  Listed' /\ Ahead' /\ Shows'
  <1>1. UNCHANGED view
    BY DEF ListingTick, CreateUpload, DeleteFile
  <1>2. Shows'
    BY <1>1 DEF Shows
  <1>3. Listed'
    <2>1. CASE ListingTick
      <3>1. walk' \in [base : SUBSET Names, seen : SUBSET Names, broken : BOOLEAN]
        <4> DEFINE gone == walk.broken \/ \E n \in Stored : files[n].expireAt = clock'
        <4>1. walk' = [walk EXCEPT !.broken = gone] /\ gone \in BOOLEAN
          BY <2>1 DEF ListingTick
        <4> HIDE DEF gone
        <4> QED
          BY <4>1 DEF Listed
      <3>2. clock' \in 0..MaxClock /\ UNCHANGED files
        BY <2>1 DEF ListingTick, Listed
      <3> QED
        BY <1>1, <3>1, <3>2 DEF Listed
    <2>2. ASSUME NEW n \in Names, CreateUpload(n)  PROVE Listed'
      <3>1. PICK d \in DaysAsked :
               files' = [files EXCEPT ![n] = [created |-> clock, asked |-> d, expireAt |-> expireAt(d)]]
        BY <2>2 DEF CreateUpload
      <3>2. [created |-> clock, asked |-> d, expireAt |-> expireAt(d)] \in File
        BY WrapType DEF File, expireAt, Listed
      <3> QED
        BY <1>1, <2>2, <3>1, <3>2 DEF CreateUpload, Listed
    <2>3. ASSUME NEW n \in Names, DeleteFile(n)  PROVE Listed'
      <3>1. NoFile \in File
        BY DEF NoFile, File
      <3> QED
        BY <1>1, <2>3, <3>1 DEF DeleteFile, Listed
    <2> QED
      BY <2>1, <2>2, <2>3
  <1>4. Ahead'
    <2> SUFFICES ASSUME ~walk'.broken  PROVE Ahead'
      BY DEF Ahead
    <2> DEFINE Stays == /\ Stored \in SUBSET Stored' /\ Stored' \in SUBSET Names
                        /\ walk'.base = walk.base /\ walk'.seen = walk.seen /\ ~walk.broken
    <2>1. Stays
      <3>1. CASE ListingTick
        <4>1. /\ clock' = clock + 1 /\ UNCHANGED files
              /\ walk' = [walk EXCEPT !.broken = @ \/ \E n \in Stored : files[n].expireAt = clock']
          BY <3>1 DEF ListingTick
        <4>2. ~walk.broken /\ \A n \in Stored : files[n].expireAt # clock'
          BY <4>1 DEF Listed
        <4>3. \A n \in Stored : files[n].expireAt \in Int /\ clock \in Int
          BY DEF Listed, Stored, File
        <4> QED
          BY <4>1, <4>2, <4>3 DEF Listed, Stored, Visible
      <3>2. ASSUME NEW n \in Names, CreateUpload(n)  PROVE Stays
        <4>1. \A m \in Names : m # n => files'[m] = files[m]
          BY <3>2 DEF CreateUpload, Listed
        <4>2. n \notin Stored /\ UNCHANGED <<clock, walk>>
          BY <3>2 DEF CreateUpload, Stored, Visible
        <4> QED
          BY <4>1, <4>2 DEF Stored, Visible
      <3>3. ASSUME NEW n \in Names, DeleteFile(n)  PROVE FALSE
        BY <3>3 DEF DeleteFile, Listed
      <3> QED
        BY <3>1, <3>2, <3>3
    <2>2. \A n \in Stored : /\ Place(n, Stored) \in Nat /\ Place(n, Stored') \in Nat
                            /\ Place(n, Stored) <= Place(n, Stored')
      <3> SUFFICES ASSUME NEW n \in Stored
                   PROVE  /\ Place(n, Stored) \in Nat /\ Place(n, Stored') \in Nat
                          /\ Place(n, Stored) <= Place(n, Stored')
        OBVIOUS
      <3>1. Stored \in SUBSET Names /\ n \in Stored'
        BY <2>1
      <3>2. Cardinality(Stored) \in Nat /\ Cardinality(Stored') \in Nat
        BY <2>1, <3>1, Countable
      <3>3. Place(n, Stored) \in 1..Cardinality(Stored)
        BY <3>1, PlaceRange
      <3>4. Place(n, Stored') \in 1..Cardinality(Stored')
        BY <2>1, <3>1, PlaceRange
      <3>5. Place(n, Stored) <= Place(n, Stored')
        BY <2>1, PlaceGrows
      <3> QED
        BY <3>2, <3>3, <3>4, <3>5
    <2>3. view.page * pageSize \in Nat
      BY DEF Listed
    <2>4. \A n \in Names : Place(n, Stored)' = Place(n, Stored')
      BY DEF Place
    <2>5. ASSUME view.page > 0
          PROVE  /\ walk.base \subseteq Stored /\ (view.next = 0 => walk.base \subseteq walk.seen)
                 /\ \A n \in walk.base \ walk.seen : Place(n, Stored) > view.page * pageSize
      BY <2>1, <2>5 DEF Ahead
    <2>6. \A n \in Stored :
            Place(n, Stored) > view.page * pageSize => Place(n, Stored') > view.page * pageSize
      BY <2>2, <2>3
    <2> QED
      BY <1>1, <2>1, <2>4, <2>5, <2>6 DEF Ahead
  <1> QED
    BY <1>2, <1>3, <1>4

\* Every step keeps the invariant.
LEMMA ListingPreserved == Listed /\ Ahead /\ Shows /\ [ListingNext]_listingVars
                              => Listed' /\ Ahead' /\ Shows'
  <1> SUFFICES ASSUME Listed, Ahead, Shows, [ListingNext]_listingVars
               PROVE  Listed' /\ Ahead' /\ Shows'
    OBVIOUS
  <1>1. CASE Load
    BY <1>1, ListKeeps DEF Load
  <1>2. CASE NextArrow
    <2>1. view.next = view.page + 1 /\ view.page \in Nat \ {0}
      BY <1>2 DEF NextArrow, Listed
    <2> QED
      BY <1>2, <2>1, ListKeeps DEF NextArrow
  <1>3. CASE PrevArrow
    <2>1. view.page - 1 \in Nat \ {0} /\ view.page > 0
      BY <1>3 DEF PrevArrow, Listed
    <2> QED
      BY <1>3, <2>1, ListKeeps DEF PrevArrow
  <1>4. CASE ListingTick \/ \E n \in Names : CreateUpload(n) \/ DeleteFile(n)
    BY <1>4, WorldKeeps
  <1>5. CASE UNCHANGED listingVars
    BY <1>5 DEF listingVars, Listed, Ahead, Shows, Stored, Visible, Place
  <1> QED
    BY <1>1, <1>2, <1>3, <1>4, <1>5 DEF ListingNext

\* The inductive invariant holds of every reachable state.
THEOREM ListingInvariant == ListingSpec => [](Listed /\ Ahead /\ Shows)
  BY ListingInits, ListingPreserved, PTL DEF ListingSpec

\* The list keeps its types, and a page of it is never longer than a page.
THEOREM ListingTypes == ListingSpec => []ListingTypeOK
  <1>1. Listed /\ Shows => ListingTypeOK
    BY DEF Listed, Shows, ListingTypeOK
  <1> QED
    BY ListingInvariant, <1>1, PTL

\* Whoever follows the arrows to the last page has seen every file that was
\* there on the first, whatever is uploaded meanwhile (Service.List, with its
\* extra row, and Handler.List).
THEOREM Seen == ListingSpec => []NothingSkipped
  <1>1. Ahead => NothingSkipped
    BY DEF Ahead, NothingSkipped
  <1> QED
    BY ListingInvariant, <1>1, PTL

\* Where no number of days overflows a Duration, a file lives for the days that
\* were asked for and for the days the list shows (Handler.CreateUpload,
\* formatExpiresIn).
THEOREM Lifetime ==
    ASSUME \A d \in DaysAsked : d * Day <= MaxDuration  PROVE ListingSpec => []LifetimeKept
  <1>1. Listed /\ Grants /\ [ListingNext]_listingVars => Grants'
    <2> SUFFICES ASSUME Listed, Grants, [ListingNext]_listingVars  PROVE Grants'
      OBVIOUS
    <2>1. ASSUME NEW n \in Names, CreateUpload(n)  PROVE Grants'
      <3>1. PICK d \in DaysAsked :
               files' = [files EXCEPT ![n] = [created |-> clock, asked |-> d, expireAt |-> expireAt(d)]]
        BY <2>1 DEF CreateUpload
      <3>2. expireAt(d) = clock + d * Day
        <4>1. d * Day \in Nat /\ d * Day <= MaxDuration
          OBVIOUS
        <4> QED
          BY <4>1, WrapIsIdentity DEF expireAt
      <3> QED
        BY <3>1, <3>2 DEF Grants, Listed
    <2>2. ASSUME NEW n \in Names, DeleteFile(n)  PROVE Grants'
      BY <2>2 DEF DeleteFile, Grants, Listed
    <2>3. CASE UNCHANGED files
      BY <2>3 DEF Grants
    <2> QED
      BY <2>1, <2>2, <2>3
         DEF ListingNext, listingVars, ListingTick, Load, NextArrow, PrevArrow, List
  <1>2. Listed /\ Grants => AvailableAsAsked
    BY DEF Listed, Grants, AvailableAsAsked, Visible, File
  <1>3. Listed /\ Shows => ExpiresInKept
    <2> SUFFICES ASSUME Listed, Shows, NEW n \in DOMAIN view.rows,
                        files[n] = view.rows[n], clock < view.at + view.days[n] * Day
                 PROVE  Visible(n)
      BY DEF ExpiresInKept
    <2> DEFINE span == view.rows[n].expireAt - view.at
    <2>1. /\ view.rows[n].expireAt \in Int /\ view.at \in Int /\ clock \in Int /\ span \in Int
          /\ view.days[n] = span \div Day
      BY DEF Listed, Shows, File
    <2>2. (span \div Day) * Day <= span /\ (span \div Day) * Day \in Int
      <3>1. \A a \in Int, b \in Nat \ {0} : (a \div b) * b <= a /\ (a \div b) * b \in Int
        OBVIOUS
      <3> QED
        BY <2>1, <3>1
    <2>3. clock < view.at + span
      BY <2>1, <2>2
    <2> QED
      BY <2>1, <2>3 DEF Shows, Visible
  <1>4. ListingInit => Grants
    BY ListingInits
  <1>5. AvailableAsAsked /\ ExpiresInKept => LifetimeKept
    BY DEF LifetimeKept
  <1> QED
    BY ListingInvariant, <1>1, <1>2, <1>3, <1>4, <1>5, PTL DEF ListingSpec

-----------------------------------------------------------------------------

USE ItemsDiffer, LivesOK, NullsAreNotValues

\* The task of a request that asks for no item.
Blank == [target |-> NoItem, step |-> "start", shown |-> {}, missing |-> FALSE, gone |-> TRUE]
Idle == traffic = "wired" => task = [r \in Requests |-> Blank]

\* Whichever traffic is chosen, requests do what they do by themselves, and so
\* does the list: what is proved of each holds in the runs.
THEOREM RequestsAlone == MCSpec => ShareSpec /\ ListingSpec
  <1>1. NewTask(NoItem) = Blank
    BY DEF NewTask, Blank
  <1>2. MCInit => ShareInit /\ ListingInit /\ Idle
    BY <1>1 DEF MCInit, ShareInit, Idle
  <1>3. Idle /\ [MCNext]_<<allVars, listingVars, traffic>> => Idle'
    BY DEF MCNext, RequestStep, allVars, shareVars, Idle
  <1>4. Idle /\ [MCNext]_<<allVars, listingVars, traffic>> => [ShareNext]_allVars
    <2> SUFFICES ASSUME Idle, RequestStep  PROVE ShareNext
      BY DEF MCNext, allVars
    <2>1. CASE traffic # "wired"
      BY <2>1 DEF RequestStep
    <2>2. CASE traffic = "wired"
      <3>1. Next /\ UNCHANGED shareVars /\ task = [r \in Requests |-> Blank]
        BY <2>2 DEF RequestStep, Idle
      <3>2. ASSUME NEW r \in Requests, Begin(r)  PROVE Ask(r)
        <4>1. [task EXCEPT ![r] = Blank] = task
          BY <3>1
        <4>2. Set(r, NewTask(NoItem)) /\ UNCHANGED <<attr, rows, disk>>
          BY <1>1, <3>1, <4>1 DEF Set, shareVars
        <4> QED
          BY <3>2, <4>2 DEF Ask
      <3> QED
        BY <3>1, <3>2 DEF Next, ShareNext, ShareProceed
    <2> QED
      BY <2>1, <2>2
  <1>5. [MCNext]_<<allVars, listingVars, traffic>> => [ListingNext]_listingVars
    BY DEF MCNext, RequestStep
  <1> QED
    BY <1>2, <1>3, <1>4, <1>5, PTL DEF MCSpec, ShareSpec, ListingSpec

\* The variables of requests and of readers of the list keep their types.
THEOREM RequestsTyped == MCSpec => []RequestTypes
  <1>1. ShareInv => ShareTypeOK
    BY DEF ShareInv, IInv, GoodRows, GoodItems, TypeOK, ShareTypeOK
  <1> QED
    BY RequestsAlone, ShareInvariant, ListingTypes, <1>1, PTL DEF RequestTypes
=============================================================================
