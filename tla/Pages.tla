------------------------------- MODULE Pages -------------------------------
(***************************************************************************)
(* Reading a list page by page while it changes: the two ways of paging in *)
(* baseRepository.ts and the lists that use them.  Tasks, projects,        *)
(* invites and webhook deliveries are walked by cursor, newest first;      *)
(* members by cursor, oldest first; notifications by page number.          *)
(*                                                                         *)
(* A row is the number of its creation, so that rows are ordered by        *)
(* createdAt, which is taken to be different for any two of them.  There   *)
(* is one client, since reading changes nothing.  A definition directly    *)
(* above the one it resembles is a deliberately broken variant of it,      *)
(* which the properties are shown to reject.                               *)
(***************************************************************************)
EXTENDS Naturals, FiniteSets

CONSTANTS
  MaxRows,       \* bound: rows ever created
  PageSize,      \* take, or pageSize
  MaxChanges     \* bound: rows that leave, come back or are deleted

ASSUME PagesAssumption ==
  MaxRows \in Nat /\ PageSize \in Nat \ {0} /\ MaxChanges \in Nat

VARIABLES
  created,   \* rows ever created
  table,     \* those that are not deleted
  listed,    \* those that the where clause matches
  walk,      \* the client: the list, its cursor (0 is none) or page, and the two queries
             \* of the page that it waits for
  seen,      \* rows it was shown
  steady,    \* history: rows listed ever since the walk began
  count,     \* history of the walk: rows shown again, rows that came into the list and that
             \* left it, and those that came between the two queries of a page
  torn,      \* history: a page was asked for after a row that is not listed any more
  changes

vars == <<created, table, listed, walk, seen, steady, count, torn, changes>>

Lists == {"tasks", "members", "notifications"}

Idle == [pc |-> "idle", list |-> "tasks", cursor |-> 0, page |-> 0,
         items |-> {}, total |-> 0, came |-> 0]
Ask(l, page) == [pc |-> IF l = "notifications" THEN "offset" ELSE "cursor", list |-> l,
                 cursor |-> 0, page |-> page, items |-> {}, total |-> 0, came |-> 0]
NoCount == [repeated |-> 0, came |-> 0, left |-> 0, late |-> 0]

Before(l, x, y) == IF l = "members" THEN x < y ELSE x > y

\* How many of S are listed before x.
Rank(l, S, x) == Cardinality({y \in S : Before(l, y, x)})
Skip(l, S, n) == {x \in S : Rank(l, S, x) >= n}
Take(l, S, n) == {x \in S : Rank(l, S, x) < n}

-----------------------------------------------------------------------------
(* Prisma's findMany with a cursor: the rows that match from the cursor's
   place on, of which skip drops the first, whether or not that is the row of
   the cursor.  There are none if that row is deleted.  How a cursor row
   that only left the filter is treated is an assumption about Prisma:
   CursorComplete excludes the case (torn), and NoRepeats needs no more of it
   than that no row before the cursor is found. *)
From(l, c) ==
  IF c = 0 THEN listed
  ELSE {x \in listed : c \in table /\ (x = c \/ Before(l, c, x))}

\* As if nothing were skipped.
FoundNoSkip(l, c) == Take(l, From(l, c), PageSize + 1)

\* The page by cursor, with the extra row that tells whether there are more.
Found(l, c) == Take(l, Skip(l, From(l, c), IF c = 0 THEN 0 ELSE 1), PageSize + 1)

\* As if the extra row were the next cursor.
CursorNextExtra(l, records, got) ==
  {c \in got : \A y \in got \ {c} : Before(l, y, c)}

\* The last of the records is the next cursor, if there are more.
CursorNext(l, records, got) ==
  {c \in records : \A y \in records \ {c} : Before(l, y, c)}

\* As if pages were counted from 0.
OffsetSkipMore(page) == page * PageSize

\* As if neighbouring pages shared a row.
OffsetSkipLess(page) == (page - 1) * (PageSize - 1)

OffsetSkip(page) == (page - 1) * PageSize

-----------------------------------------------------------------------------
(* The client's walk. *)

Start(l) ==
  /\ walk.pc = "idle"
  /\ walk' = Ask(l, 1)
  /\ steady' = listed /\ seen' = {} /\ count' = NoCount /\ torn' = FALSE
  /\ UNCHANGED <<created, table, listed, changes>>

Recount(records) == [count EXCEPT !.repeated = count.repeated + Cardinality(records \cap seen)]

Show(records) == seen' = seen \cup records /\ count' = Recount(records)

\* One page by cursor, and the next one is asked for if there is one.  The count of all
\* rows, which is read at the same time, is only passed on.
CursorPage ==
  /\ walk.pc = "cursor"
  /\ LET l == walk.list
         got == Found(l, walk.cursor)
         records == Take(l, got, PageSize) IN
       /\ Show(records)
       /\ IF records # got
            THEN \E c \in CursorNext(l, records, got) : walk' = [walk EXCEPT !.cursor = c]
            ELSE walk' = [walk EXCEPT !.pc = "done"]
       /\ torn' = (torn \/ (walk.cursor # 0 /\ walk.cursor \notin listed))
  /\ UNCHANGED <<created, table, listed, steady, changes>>

\* The two queries of a page by number run at once and see two states of the table.
FindFirst ==
  /\ walk.pc = "offset"
  /\ walk' = [walk EXCEPT !.pc = "count",
                          !.items = Take(walk.list, Skip(walk.list, listed, OffsetSkip(walk.page)), PageSize)]
  /\ UNCHANGED <<created, table, listed, seen, steady, count, torn, changes>>

CountFirst ==
  /\ walk.pc = "offset"
  /\ walk' = [walk EXCEPT !.pc = "find", !.total = Cardinality(listed), !.came = count.came]
  /\ UNCHANGED <<created, table, listed, seen, steady, count, torn, changes>>

\* hasNextPage, page < ceil(total / pageSize), and the client asks for the next page if so.
Turn(total) ==
  walk' = IF walk.page * PageSize < total
            THEN Ask(walk.list, walk.page + 1)
            ELSE [walk EXCEPT !.pc = "done"]

CountSecond ==
  /\ walk.pc = "count"
  /\ seen' = seen \cup walk.items
  /\ count' = [Recount(walk.items) EXCEPT !.late = 0]
  /\ Turn(Cardinality(listed))
  /\ UNCHANGED <<created, table, listed, steady, torn, changes>>

FindSecond ==
  /\ walk.pc = "find"
  /\ LET items == Take(walk.list, Skip(walk.list, listed, OffsetSkip(walk.page)), PageSize) IN
       /\ seen' = seen \cup items
       /\ count' = [Recount(items) EXCEPT !.late = count.came - walk.came]
  /\ Turn(walk.total)
  /\ UNCHANGED <<created, table, listed, steady, torn, changes>>

-----------------------------------------------------------------------------
(* What other requests do to the table meanwhile. *)

Create ==
  /\ created < MaxRows
  /\ created' = created + 1
  /\ table' = table \cup {created + 1} /\ listed' = listed \cup {created + 1}
  /\ count' = [count EXCEPT !.came = count.came + 1]
  /\ UNCHANGED <<walk, seen, steady, torn, changes>>

Lose(x) ==
  /\ changes < MaxChanges /\ changes' = changes + 1
  /\ listed' = listed \ {x} /\ steady' = steady \ {x}
  /\ count' = [count EXCEPT !.left = count.left + 1]
  /\ UNCHANGED <<created, walk, seen, torn>>

Delete(x) == x \in listed /\ Lose(x) /\ table' = table \ {x}

\* A status changes, or a notification is marked as read: the row leaves the filter.
Leave(x) == x \in listed /\ Lose(x) /\ UNCHANGED table

ComeBack(x) ==
  /\ x \in table \ listed
  /\ changes < MaxChanges /\ changes' = changes + 1
  /\ listed' = listed \cup {x}
  /\ count' = [count EXCEPT !.came = count.came + 1]
  /\ UNCHANGED <<created, table, walk, seen, steady, torn>>

-----------------------------------------------------------------------------
Init ==
  /\ created \in 0..MaxRows
  /\ table = 1..created /\ listed = table
  /\ walk = Idle /\ seen = {} /\ steady = {} /\ count = NoCount /\ torn = FALSE
  /\ changes = 0

Read == CursorPage \/ FindFirst \/ CountFirst \/ CountSecond \/ FindSecond

Next ==
  \/ \E l \in Lists : Start(l)
  \/ Read
  \/ Create
  \/ \E x \in 1..MaxRows : Delete(x) \/ Leave(x) \/ ComeBack(x)

Spec == Init /\ [][Next]_vars

-----------------------------------------------------------------------------
TypeOK ==
  /\ created \in Nat /\ changes \in Nat
  /\ table \subseteq 1..created /\ listed \subseteq table
  /\ seen \subseteq 1..created /\ steady \subseteq listed
  /\ walk \in [pc : {"idle", "cursor", "offset", "count", "find", "done"}, list : Lists,
               cursor : 0..created, page : Nat, items : SUBSET (1..created), total : Nat, came : Nat]
  /\ count \in [repeated : Nat, came : Nat, left : Nat, late : Nat]
  /\ torn \in BOOLEAN

ByCursor == walk.list # "notifications"

\* A walk by cursor shows no row twice, whatever comes, goes and comes back meanwhile.
NoRepeats == ByCursor => count.repeated = 0

\* A walk by cursor that has ended has shown every row that was in the list throughout,
\* unless a row that it had for a cursor was deleted or left the filter: then Prisma finds
\* nothing after it, or skips the row that has taken its place (baseRepository.ts:210).
CursorComplete == ByCursor /\ walk.pc = "done" /\ ~torn => steady \subseteq seen

\* A walk by number shows again at most one row for each that came into the list.
RepeatsBounded == ~ByCursor => count.repeated <= count.came

\* A walk by number that has ended missed at most one row for each that left the list (one
\* notification marked as read hides another from a client that lists the unread), and for
\* each that came between the count and the find of its last page (baseRepository.ts:155).
MissesBounded ==
  ~ByCursor /\ walk.pc = "done" => Cardinality(steady \ seen) <= count.left + count.late

\* What a walk by cursor has shown lies up to its cursor, and what it may still miss does not.
Walked ==
  ByCursor /\ walk.pc = "cursor" =>
    LET c == walk.cursor IN
      /\ c = 0 => seen = {}
      /\ c # 0 => \A x \in seen : x = c \/ Before(walk.list, x, c)
      /\ ~torn => \A x \in steady \ seen : c = 0 \/ Before(walk.list, c, x)
=============================================================================
