---------------------------- MODULE KippleListing ----------------------------
(***************************************************************************)
(* The list of a user's kipple files: how long a file lives that was asked  *)
(* for so many days, what one page of the list shows, and what a reader     *)
(* sees who follows the arrows while files come, go and expire.  An upload  *)
(* is complete at once here; how it comes to be is KippleStore's.           *)
(***************************************************************************)
EXTENDS Integers, FiniteSets

CONSTANTS
    Names,         \* numbers that stand for filenames, in their order
    DaysAsked,     \* values of expire_days
    Day,           \* units of time in a day
    MaxDuration,   \* the largest time.Duration, in these units
    pageSize,      \* listPageSize
    MaxClock        \* bound: the clock stops here

ASSUME NamesOK == Names \subseteq Nat /\ IsFiniteSet(Names) /\ DaysAsked \subseteq Nat \ {0}
ASSUME UnitsOK == {Day, MaxDuration, pageSize} \subseteq Nat \ {0} /\ MaxClock \in Nat

VARIABLES
    clock,
    files,   \* the rows of the user, by filename
    view,    \* the list in the browser: its page, the rows on it by filename
    walk     \* history: what a reader has seen since page 1

listingVars == <<clock, files, view, walk>>

NoFile == [created |-> 0, asked |-> 0, expireAt |-> 0]
NoRows == [n \in {} |-> 0]
Visible(n) == files[n] # NoFile /\ files[n].expireAt > clock
Stored == {n \in Names : Visible(n)}

ListingInit ==
    /\ clock = 0
    /\ files = [n \in Names |-> NoFile]
    /\ view = [page |-> 0, rows |-> NoRows, days |-> NoRows, next |-> 0, at |-> 0]
    /\ walk = [base |-> {}, seen |-> {}, broken |-> FALSE]

\* time.Duration(expireDays) * 24 * time.Hour wraps around.
Wrap(d) == ((d + MaxDuration + 1) % (2 * (MaxDuration + 1))) - (MaxDuration + 1)
expireAt(days) == clock + Wrap(days * Day)

CreateUpload(n) ==
    /\ files[n] = NoFile
    /\ \E d \in DaysAsked :
          files' = [files EXCEPT
                      ![n] = [created |-> clock, asked |-> d, expireAt |-> expireAt(d)]]
    /\ UNCHANGED <<clock, view, walk>>

DeleteFile(n) ==
    /\ files[n] # NoFile
    /\ files' = [files EXCEPT ![n] = NoFile]
    /\ walk' = [walk EXCEPT !.broken = TRUE]
    /\ UNCHANGED <<clock, view>>

ListingTick ==
    /\ clock < MaxClock
    /\ clock' = clock + 1
    /\ walk' = [walk EXCEPT !.broken = @ \/ \E n \in Stored : files[n].expireAt = clock']
    /\ UNCHANGED <<files, view>>

-----------------------------------------------------------------------------

\* ORDER BY filename ASC: the place of n among the files in S, from 1 on.
Place(n, S) == Cardinality({k \in S : k <= n})

\* LIMIT pageSize + 1 OFFSET (page - 1) * pageSize.
BugOffset(page) ==
    LET from == page * pageSize
    IN {n \in Stored : Place(n, Stored) \in (from + 1)..(from + pageSize + 1)}
Query(page) ==
    LET from == (page - 1) * pageSize
    IN {n \in Stored : Place(n, Stored) \in (from + 1)..(from + pageSize + 1)}

\* formatExpiresIn: whole days, and "<1d" below one, written 0 here.
BugRoundsUp(n) == (files[n].expireAt - clock + Day - 1) \div Day
formatExpiresIn(n) == (files[n].expireAt - clock) \div Day

\* Handler.List: the extra row tells whether there is a next page, and goes.
Trim(found) == {n \in found : Place(n, found) <= pageSize}
List(page) ==
    LET found == Query(page)
        items == Trim(found)
    IN
    /\ view' = [page |-> page,
                rows |-> [n \in items |-> files[n]],
                days |-> [n \in items |-> formatExpiresIn(n)],
                next |-> IF Cardinality(found) > pageSize THEN page + 1 ELSE 0, at |-> clock]
    /\ walk' = IF page = 1
               THEN [base |-> Stored, seen |-> items, broken |-> FALSE]
               ELSE [walk EXCEPT !.seen = @ \cup items]
    /\ UNCHANGED <<clock, files>>

\* The list is loaded with the page, and again after an upload or a deletion;
\* the arrows ask for the neighbours of the page that is shown.
Load == List(1)
NextArrow == view.next > 0 /\ List(view.next)
PrevArrow == view.page > 1 /\ List(view.page - 1)

ListingNext ==
    \/ ListingTick \/ Load \/ NextArrow \/ PrevArrow
    \/ \E n \in Names : CreateUpload(n) \/ DeleteFile(n)

ListingSpec == ListingInit /\ [][ListingNext]_listingVars

-----------------------------------------------------------------------------

\* The types; a page holds at most pageSize files.
ListingTypeOK ==
    /\ clock \in 0..MaxClock
    /\ \A n \in Names : files[n] # NoFile => files[n].asked \in DaysAsked
    /\ DOMAIN view.rows \subseteq Names /\ Cardinality(DOMAIN view.rows) <= pageSize
    /\ DOMAIN view.days = DOMAIN view.rows
    /\ walk.base \subseteq Names /\ walk.seen \subseteq Names

\* Whoever follows the right arrow to the end, with steps back or not, has seen
\* every file that was there at the beginning, while files are only added: a
\* page that grows pushes files forward, never past the reader.
NothingSkipped ==
    (view.page > 0 /\ view.next = 0 /\ ~walk.broken) => walk.base \subseteq walk.seen

\* A file that was asked for so many days is there until they have passed
\* (service.go:150: "expireAt is the desired expiry for the completed file.").
AvailableAsAsked ==
    \A n \in Names :
        (files[n] # NoFile /\ clock < files[n].created + files[n].asked * Day) => Visible(n)

\* A file is there for as many days as the list showed when it was loaded.
ExpiresInKept ==
    \A n \in DOMAIN view.rows :
        (files[n] = view.rows[n] /\ clock < view.at + view.days[n] * Day) => Visible(n)

\* What the form was asked for and what the list shows of it, both rounded to
\* days, are never more than the clock will grant.
LifetimeKept == AvailableAsAsked /\ ExpiresInKept
=============================================================================
