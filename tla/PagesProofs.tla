---------------------------- MODULE PagesProofs ----------------------------
(***************************************************************************)
(* Proofs about Pages: a walk by cursor shows no row twice, and shows      *)
(* every row that stayed in the list while its cursors did.  They rest on  *)
(* what the rank of a row in a finite list says about its order.           *)
(***************************************************************************)
EXTENDS Pages, FiniteSetTheorems, WellFoundedInduction, TLAPS

-----------------------------------------------------------------------------
(* Sets of rows. *)

LEMMA SmallestOf ==
  ASSUME NEW T \in SUBSET Nat, T # {}
  PROVE  \E x \in T : \A y \in T : x <= y
<1>1. PICK x \in T : \A y \in T : ~(<<y, x>> \in OpToRel(<, Nat))
  BY NatLessThanWellFounded, WFMin
<1>2. \A y \in T : <<y, x>> \in Nat \X Nat /\ ~(y < x)
  BY <1>1 DEF OpToRel
<1>3. ASSUME NEW y \in T PROVE x <= y
  <2>1. x \in Nat /\ y \in Nat /\ ~(y < x)
    BY <1>2
  <2> QED BY <2>1
<1> QED BY <1>3

LEMMA LargestOf ==
  ASSUME NEW n \in Nat, NEW T \in SUBSET (1..n), T # {}
  PROVE  \E x \in T : \A y \in T : y <= x
<1> DEFINE U == {i \in 0..n : n - i \in T}
<1>1. U \in SUBSET Nat
  OBVIOUS
<1>2. PICK y \in T : TRUE
  OBVIOUS
<1>3. n - y \in U
  <2>1. y \in 1..n /\ n - y \in 0..n /\ n - (n - y) = y
    BY <1>2
  <2> QED BY <1>2, <2>1
<1>4. PICK i \in U : \A j \in U : i <= j
  BY <1>1, <1>3, SmallestOf
<1>5. n - i \in T /\ \A z \in T : z <= n - i
  <2>1. ASSUME NEW z \in T PROVE z <= n - i
    <3>1. z \in 1..n /\ n - z \in 0..n /\ n - (n - z) = z
      BY <2>1
    <3>2. n - z \in U
      BY <2>1, <3>1
    <3>3. i <= n - z /\ i \in 0..n
      BY <1>4, <3>2
    <3> QED BY <3>1, <3>3
  <2> QED BY <1>4, <2>1
<1> QED BY <1>5

LEMMA Order ==
  ASSUME NEW l
  PROVE  /\ \A x \in Nat : ~Before(l, x, x)
         /\ \A x, y \in Nat : x = y \/ Before(l, x, y) \/ Before(l, y, x)
         /\ \A x, y \in Nat : ~(Before(l, x, y) /\ Before(l, y, x))
         /\ \A x, y, z \in Nat : Before(l, x, y) /\ Before(l, y, z) => Before(l, x, z)
BY DEF Before

\* A list has a first and a last row.
LEMMA Ends ==
  ASSUME NEW l, NEW n \in Nat, NEW S \in SUBSET (1..n), S # {}
  PROVE  /\ \E x \in S : \A y \in S \ {x} : Before(l, x, y)
         /\ \E x \in S : \A y \in S \ {x} : Before(l, y, x)
<1>1. S \in SUBSET Nat
  OBVIOUS
<1>2. PICK a \in S : \A y \in S : a <= y
  BY <1>1, SmallestOf
<1>3. PICK b \in S : \A y \in S : y <= b
  BY LargestOf
<1>4. \A y \in S : y \in Nat
  BY <1>1
<1>5. (\A y \in S \ {a} : a < y) /\ (\A y \in S \ {b} : y < b)
  BY <1>2, <1>3, <1>4
<1> QED BY <1>5 DEF Before

LEMMA Finite ==
  ASSUME NEW n \in Nat, NEW S \in SUBSET (1..n) PROVE IsFiniteSet(S) /\ Cardinality(S) \in Nat
<1>1. IsFiniteSet(1..n)
  BY FS_Interval
<1> QED BY <1>1, FS_Subset, FS_CardinalityType

\* A row has fewer before it than one it is before of, and none exactly if it is the first.
LEMMA Ranks ==
  ASSUME NEW l, NEW n \in Nat, NEW S \in SUBSET (1..n)
  PROVE  /\ \A x : Rank(l, S, x) \in Nat
         /\ \A x, y \in S : Before(l, y, x) => Rank(l, S, y) < Rank(l, S, x)
         /\ \A x \in S : Rank(l, S, x) = 0 <=> \A y \in S : ~Before(l, y, x)
<1> DEFINE B(x) == {y \in S : Before(l, y, x)}
<1>1. \A x : B(x) \in SUBSET (1..n)
  OBVIOUS
<1>2. \A x : IsFiniteSet(B(x)) /\ Cardinality(B(x)) \in Nat
  BY <1>1, Finite
<1>3. \A x : Rank(l, S, x) = Cardinality(B(x))
  BY DEF Rank
<1>4. ASSUME NEW x \in S, NEW y \in S, Before(l, y, x)
      PROVE  Cardinality(B(y)) < Cardinality(B(x))
  <2>1. x \in Nat /\ y \in Nat /\ \A z \in S : z \in Nat
    OBVIOUS
  <2>2. y \in B(x)
    BY <1>4
  <2>3. ASSUME NEW z \in B(y) PROVE z \in B(x) \ {y}
    <3>1. z \in S /\ Before(l, z, y) /\ z \in Nat
      BY <2>1, <2>3
    <3>2. Before(l, z, x) /\ z # y
      BY <1>4, <2>1, <3>1, Order
    <3> QED BY <3>1, <3>2
  <2>4. IsFiniteSet(B(x)) /\ Cardinality(B(x)) \in Nat /\ Cardinality(B(y)) \in Nat
    BY <1>2
  <2>5. B(y) \in SUBSET (B(x) \ {y})
    BY <2>3
  <2> HIDE DEF B
  <2>6. IsFiniteSet(B(x) \ {y}) /\ Cardinality(B(x) \ {y}) = Cardinality(B(x)) - 1
    BY <2>2, <2>4, FS_RemoveElement
  <2>7. Cardinality(B(y)) <= Cardinality(B(x) \ {y})
    BY <2>5, <2>6, FS_Subset
  <2> QED BY <2>4, <2>6, <2>7
<1>5. \A x : Cardinality(B(x)) = 0 <=> B(x) = {}
  BY <1>2, FS_EmptySet
<1> QED BY <1>2, <1>3, <1>4, <1>5

-----------------------------------------------------------------------------
(* Skip and Take. *)

\* What is taken has no gaps.
LEMMA TakeDown ==
  ASSUME NEW l, NEW n \in Nat, NEW S \in SUBSET (1..n), NEW m \in Nat,
         NEW x \in Take(l, S, m), NEW y \in S, Before(l, y, x)
  PROVE  y \in Take(l, S, m)
<1>1. x \in S /\ Rank(l, S, x) < m
  BY DEF Take
<1>2. Rank(l, S, y) < Rank(l, S, x) /\ Rank(l, S, x) \in Nat /\ Rank(l, S, y) \in Nat
  BY <1>1, Ranks
<1> QED BY <1>1, <1>2 DEF Take

LEMMA SkipOne ==
  ASSUME NEW l, NEW n \in Nat, NEW S \in SUBSET (1..n)
  PROVE  /\ Skip(l, S, 0) = S
         /\ \A x : x \in Skip(l, S, 1) <=> x \in S /\ \E y \in S : Before(l, y, x)
<1>1. \A x \in S : /\ Rank(l, S, x) \in Nat
                   /\ Rank(l, S, x) = 0 <=> \A y \in S : ~Before(l, y, x)
  BY Ranks
<1>2. \A k \in Nat : k >= 0 /\ (k >= 1 <=> k # 0)
  OBVIOUS
<1> QED BY <1>1, <1>2 DEF Skip

\* If there is no extra row, everything was taken.
LEMMA TakeAll ==
  ASSUME NEW l, NEW n \in Nat, NEW S \in SUBSET (1..n), NEW m \in Nat,
         Take(l, Take(l, S, m + 1), m) = Take(l, S, m + 1)
  PROVE  Take(l, S, m + 1) = S
<1> DEFINE got == Take(l, S, m + 1)
<1>1. got \in SUBSET S /\ got \in SUBSET (1..n)
  BY DEF Take
<1>2. SUFFICES ASSUME S \ got # {} PROVE FALSE
  BY <1>1
<1>3. PICK x \in S \ got : \A y \in (S \ got) \ {x} : Before(l, x, y)
  BY <1>2, Ends
<1> DEFINE B == {y \in S : Before(l, y, x)}
<1>4. x \in Nat /\ \A y \in S : y \in Nat
  BY <1>3
<1>5. B \in SUBSET got /\ B \in SUBSET (1..n)
  BY <1>3, <1>4, Order
<1>6. IsFiniteSet(B) /\ Cardinality(B) \in Nat
  BY <1>5, Finite
<1>7. Cardinality(B) >= m + 1
  <2>1. ~(Rank(l, S, x) < m + 1) /\ Rank(l, S, x) = Cardinality(B)
    BY <1>3 DEF Take, Rank
  <2> QED BY <1>6, <2>1
<1>8. B # {}
  BY <1>6, <1>7, FS_EmptySet
<1>9. PICK z \in B : \A y \in B \ {z} : Before(l, y, z)
  BY <1>5, <1>8, Ends
<1> DEFINE C == {y \in got : Before(l, y, z)}
<1>10. B \ {z} \in SUBSET C /\ C \in SUBSET (1..n)
  BY <1>1, <1>5, <1>9
<1>11. Cardinality(B \ {z}) = Cardinality(B) - 1
  BY <1>6, <1>9, FS_RemoveElement
<1>12. Cardinality(B \ {z}) <= Cardinality(C) /\ Cardinality(C) \in Nat
  BY <1>10, Finite, FS_Subset
<1>13. Cardinality(C) < m
  <2>1. z \in Take(l, got, m)
    BY <1>5, <1>9
  <2> QED BY <2>1 DEF Take, Rank
<1> QED BY <1>6, <1>7, <1>11, <1>12, <1>13

-----------------------------------------------------------------------------
(* One page by cursor.  Rest is what its query finds before it is cut. *)

Rest(l, c) == Skip(l, From(l, c), IF c = 0 THEN 0 ELSE 1)

LEMMA RestIs ==
  ASSUME TypeOK, NEW l, NEW c \in 0..created
  PROVE  /\ Rest(l, c) \in SUBSET (1..created)
         /\ Rest(l, c) \in SUBSET listed
         /\ c # 0 => \A x \in Rest(l, c) : Before(l, c, x)
         /\ c = 0 => Rest(l, c) = listed
         /\ c \in listed => \A x \in listed : Before(l, c, x) => x \in Rest(l, c)
<1>1. created \in Nat /\ listed \in SUBSET (1..created) /\ listed \in SUBSET table
  BY DEF TypeOK
<1>2. From(l, c) \in SUBSET listed /\ From(l, c) \in SUBSET (1..created)
  BY <1>1 DEF From
<1>3. CASE c = 0
  <2>1. Rest(l, c) = Skip(l, From(l, c), 0) /\ From(l, c) = listed
    BY <1>3 DEF Rest, From
  <2>2. Skip(l, From(l, c), 0) = From(l, c)
    BY <1>1, <1>2, SkipOne
  <2>3. c \notin listed
    BY <1>1, <1>3
  <2> QED BY <1>1, <1>3, <2>1, <2>2, <2>3
<1>4. CASE c # 0
  <2>1. \A x : x \in Rest(l, c) <=> x \in From(l, c) /\ \E y \in From(l, c) : Before(l, y, x)
    <3>1. Rest(l, c) = Skip(l, From(l, c), 1)
      BY <1>4 DEF Rest
    <3> DEFINE F == From(l, c)
    <3>2. created \in Nat /\ F \in SUBSET (1..created)
      BY <1>1, <1>2
    <3> HIDE DEF F
    <3>3. \A x : x \in Skip(l, F, 1) <=> x \in F /\ \E y \in F : Before(l, y, x)
      BY <3>2, SkipOne
    <3> QED BY <3>1, <3>3 DEF F
  <2>2. \A x \in From(l, c) : x = c \/ Before(l, c, x)
    BY <1>4 DEF From
  <2>3. ASSUME NEW x \in Rest(l, c) PROVE Before(l, c, x)
    <3>1. PICK y \in From(l, c) : Before(l, y, x)
      BY <2>1, <2>3
    <3>2. y = c \/ Before(l, c, y)
      BY <2>2
    <3>3. x \in Nat /\ y \in Nat /\ c \in Nat
      BY <1>2, <2>1, <2>3
    <3> QED BY <3>1, <3>2, <3>3, Order
  <2>4. ASSUME NEW x \in listed, c \in listed, Before(l, c, x) PROVE x \in Rest(l, c)
    <3>1. c \in From(l, c) /\ x \in From(l, c)
      BY <1>1, <1>4, <2>4 DEF From
    <3> QED BY <2>1, <2>4, <3>1
  <2> QED BY <1>2, <1>4, <2>1, <2>3, <2>4
<1> QED BY <1>3, <1>4

\* What a page shows of a finite set of rows: the records are the first of got, got the first
\* of all, and if the two are the same, there are no others.
LEMMA PageIs ==
  ASSUME NEW l, NEW n \in Nat, NEW S \in SUBSET (1..n)
  PROVE  LET got == Take(l, S, PageSize + 1)
             records == Take(l, got, PageSize) IN
         /\ got \in SUBSET S /\ records \in SUBSET got
         /\ \A x \in records, y \in S : Before(l, y, x) => y \in records
         /\ records = got => got = S
<1> DEFINE got == Take(l, S, PageSize + 1)
           records == Take(l, got, PageSize)
<1>1. PageSize \in Nat /\ PageSize + 1 \in Nat
  BY PagesAssumption
<1>2. got \in SUBSET S /\ records \in SUBSET got
  BY DEF Take
<1>3. ASSUME NEW x \in records, NEW y \in S, Before(l, y, x) PROVE y \in records
  <2>1. x \in Take(l, S, PageSize + 1) /\ x \in Take(l, got, PageSize)
    BY <1>2
  <2>2. y \in got
    BY <1>1, <1>3, <2>1, TakeDown
  <2>3. got \in SUBSET (1..n)
    BY <1>2
  <2>4. y \in Take(l, got, PageSize)
    BY <1>1, <1>3, <2>1, <2>2, <2>3, TakeDown
  <2> QED BY <2>4
<1>4. records = got => got = S
  BY <1>1, TakeAll
<1> QED BY <1>2, <1>3, <1>4

-----------------------------------------------------------------------------
(* The inductive invariant.  NoRepeats needs to know where the rows lie that *)
(* were shown, and CursorComplete where those lie that were not.             *)

Phases ==
  /\ walk.pc \in {"offset", "count", "find"} => ~ByCursor
  /\ walk.pc = "cursor" => ByCursor
  /\ walk.came <= count.came

Inv == TypeOK /\ Phases /\ NoRepeats /\ Walked /\ CursorComplete

LEMMA InitInv == Init => Inv
<1> SUFFICES ASSUME Init PROVE Inv
  OBVIOUS
<1>1. created \in Nat /\ table = 1..created /\ listed = table /\ seen = {} /\ steady = {}
      /\ changes = 0 /\ torn = FALSE
  BY PagesAssumption DEF Init
<1>2. walk = Idle /\ count = NoCount
  BY DEF Init
<1>3. TypeOK
  <2>1. Idle \in [pc : {"idle", "cursor", "offset", "count", "find", "done"}, list : Lists,
                  cursor : 0..created, page : Nat, items : SUBSET (1..created), total : Nat,
                  came : Nat]
    BY <1>1 DEF Idle, Lists
  <2>2. NoCount \in [repeated : Nat, came : Nat, left : Nat, late : Nat]
    BY DEF NoCount
  <2> QED BY <1>1, <1>2, <2>1, <2>2 DEF TypeOK
<1>4. walk.pc = "idle" /\ walk.list = "tasks" /\ walk.came = 0
      /\ count.repeated = 0 /\ count.came = 0
  BY <1>2 DEF Idle, NoCount
<1> QED BY <1>3, <1>4 DEF Inv, Phases, NoRepeats, Walked, CursorComplete, ByCursor

\* What a page by cursor shows is new, and what its client may still miss lies after it.
LEMMA PageInv == Inv /\ CursorPage => Phases' /\ NoRepeats' /\ Walked' /\ CursorComplete'
<1> SUFFICES ASSUME Inv, CursorPage PROVE Phases' /\ NoRepeats' /\ Walked' /\ CursorComplete'
  OBVIOUS
<1> DEFINE l == walk.list
           c == walk.cursor
           S == Rest(l, c)
           got == Found(l, c)
           records == Take(l, got, PageSize)
<1>1. TypeOK /\ Phases /\ NoRepeats /\ Walked
  BY DEF Inv
<1>2. created \in Nat /\ listed \in SUBSET (1..created) /\ c \in 0..created /\ seen \in SUBSET (1..created)
      /\ steady \in SUBSET listed
  BY <1>1 DEF TypeOK
<1>3. walk.pc = "cursor" /\ ByCursor
  BY <1>1 DEF CursorPage, Phases
<1>4. /\ S \in SUBSET (1..created) /\ S \in SUBSET listed
      /\ c # 0 => \A x \in S : Before(l, c, x)
      /\ c = 0 => S = listed
      /\ c \in listed => \A x \in listed : Before(l, c, x) => x \in S
  BY <1>1, <1>2, RestIs
<1>5. /\ got \in SUBSET S /\ records \in SUBSET got
      /\ \A x \in records, y \in S : Before(l, y, x) => y \in records
      /\ records = got => got = S
  <2>1. got = Take(l, S, PageSize + 1)
    BY DEF Found, Rest
  <2>2. created \in Nat /\ S \in SUBSET (1..created)
    BY <1>2, <1>4
  <2> HIDE DEF l, c, S, got
  <2> QED BY <2>1, <2>2, PageIs
<1>6. /\ c = 0 => seen = {}
      /\ c # 0 => \A x \in seen : x = c \/ Before(l, x, c)
      /\ ~torn => \A x \in steady \ seen : c = 0 \/ Before(l, c, x)
  BY <1>1, <1>3 DEF Walked
<1>7. /\ seen' = seen \cup records /\ steady' = steady
      /\ count' = [count EXCEPT !.repeated = count.repeated + Cardinality(records \cap seen)]
      /\ torn' = (torn \/ (c # 0 /\ c \notin listed))
  BY DEF CursorPage, Show, Recount
<1>8. \/ records # got /\ \E d \in CursorNext(l, records, got) : walk' = [walk EXCEPT !.cursor = d]
      \/ records = got /\ walk' = [walk EXCEPT !.pc = "done"]
  BY DEF CursorPage
<1> HIDE DEF S, got, records
<1>9. walk'.list = l /\ walk'.came = walk.came /\ ByCursor'
      /\ walk'.pc \in {"cursor", "done"}
  BY <1>1, <1>3, <1>8 DEF TypeOK, ByCursor
<1>10. records \cap seen = {}
  <2>1. SUFFICES ASSUME NEW x \in records, x \in seen PROVE FALSE
    OBVIOUS
  <2>2. c # 0 /\ Before(l, c, x) /\ (x = c \/ Before(l, x, c))
    BY <1>4, <1>5, <1>6, <2>1
  <2>3. x \in Nat /\ c \in Nat
    BY <1>2, <2>1
  <2> QED BY <2>2, <2>3, Order
<1>11. count'.repeated = 0 /\ count'.came = count.came
  <2>1. Cardinality(records \cap seen) = 0
    BY <1>10, FS_EmptySet
  <2>2. count.repeated = 0
    BY <1>1, <1>3 DEF NoRepeats
  <2>3. count \in [repeated : Nat, came : Nat, left : Nat, late : Nat]
    BY <1>1 DEF TypeOK
  <2> QED BY <1>7, <2>1, <2>2, <2>3
<1>12. Phases' /\ NoRepeats'
  BY <1>1, <1>9, <1>11 DEF Phases, NoRepeats
\* What stayed and was not shown is in the page's query, if no cursor was lost.
<1>13. ASSUME ~torn' PROVE \A x \in steady' \ seen' : x \in S /\ x \notin records
  <2>1. ~torn /\ (c = 0 \/ c \in listed)
    BY <1>7, <1>13
  <2> QED BY <1>2, <1>4, <1>6, <1>7, <2>1
<1>14. CASE records # got
  <2>1. PICK d \in CursorNext(l, records, got) : walk' = [walk EXCEPT !.cursor = d]
    BY <1>8, <1>14
  <2>2. d \in records /\ \A y \in records \ {d} : Before(l, y, d)
    BY <2>1 DEF CursorNext
  <2>3. walk'.cursor = d /\ walk'.pc = "cursor" /\ walk'.list = l
    BY <1>1, <1>3, <2>1 DEF TypeOK
  <2>4. d \in Nat /\ d # 0 /\ c \in Nat
    BY <1>2, <1>4, <1>5, <2>2
  <2>5. ASSUME NEW x \in seen' PROVE x = d \/ Before(l, x, d)
    <3>1. CASE x \in records
      BY <2>2, <3>1
    <3>2. CASE x \in seen
      <4>1. c # 0 /\ (x = c \/ Before(l, x, c)) /\ Before(l, c, d) /\ x \in Nat
        BY <1>2, <1>4, <1>5, <1>6, <2>2, <3>2
      <4> QED BY <2>4, <4>1, Order
    <3> QED BY <1>7, <2>5, <3>1, <3>2
  <2>6. ASSUME ~torn', NEW x \in steady' \ seen' PROVE Before(l, d, x)
    <3>1. x \in S /\ x \notin records
      BY <1>13, <2>6
    <3>2. x \in Nat /\ x # d /\ ~Before(l, x, d)
      BY <1>4, <1>5, <2>2, <3>1
    <3> QED BY <2>4, <3>2, Order
  <2>7. Walked'
    BY <2>3, <2>4, <2>5, <2>6 DEF Walked
  <2>8. CursorComplete'
    BY <2>3 DEF CursorComplete
  <2> QED BY <1>12, <2>7, <2>8
<1>15. CASE records = got
  <2>1. walk'.pc = "done"
    BY <1>1, <1>8, <1>15 DEF TypeOK
  <2>2. ~torn' => steady' \in SUBSET seen'
    BY <1>5, <1>13, <1>15
  <2> QED BY <1>12, <2>1, <2>2 DEF Walked, CursorComplete
<1> QED BY <1>14, <1>15

-----------------------------------------------------------------------------
(* Types. *)

WalkType(w, n) ==
  w \in [pc : {"idle", "cursor", "offset", "count", "find", "done"}, list : Lists,
         cursor : 0..n, page : Nat, items : SUBSET (1..n), total : Nat, came : Nat]

CountType(c) == c \in [repeated : Nat, came : Nat, left : Nat, late : Nat]

LEMMA AskType == ASSUME NEW l \in Lists, NEW p \in Nat, NEW n \in Nat PROVE WalkType(Ask(l, p), n)
BY DEF WalkType, Ask

LEMMA TurnType ==
  ASSUME TypeOK, NEW total, Turn(total) PROVE WalkType(walk', created)
<1>1. WalkType(walk, created) /\ walk.list \in Lists /\ walk.page + 1 \in Nat /\ created \in Nat
  BY DEF TypeOK, WalkType
<1>2. CASE walk' = Ask(walk.list, walk.page + 1)
  BY <1>1, <1>2, AskType
<1>3. CASE walk' = [walk EXCEPT !.pc = "done"]
  BY <1>1, <1>3 DEF WalkType
<1> QED BY <1>2, <1>3 DEF Turn

LEMMA TypeStep == Inv /\ [Next]_vars => TypeOK'
<1> SUFFICES ASSUME Inv, [Next]_vars PROVE TypeOK'
  OBVIOUS
<1>1. /\ created \in Nat /\ changes \in Nat
      /\ table \in SUBSET (1..created) /\ listed \in SUBSET table
      /\ seen \in SUBSET (1..created) /\ steady \in SUBSET listed
      /\ WalkType(walk, created) /\ CountType(count) /\ torn \in BOOLEAN
      /\ walk.came <= count.came
  BY DEF Inv, TypeOK, Phases, WalkType, CountType
<1>2. SUFFICES /\ created' \in Nat /\ changes' \in Nat
               /\ table' \in SUBSET (1..created') /\ listed' \in SUBSET table'
               /\ seen' \in SUBSET (1..created') /\ steady' \in SUBSET listed'
               /\ WalkType(walk', created') /\ CountType(count') /\ torn' \in BOOLEAN
  BY DEF TypeOK, WalkType, CountType
<1>3. \A l, S, m : Take(l, S, m) \in SUBSET S /\ Skip(l, S, m) \in SUBSET S
  BY DEF Take, Skip
<1>4. \A S \in SUBSET (1..created) : Cardinality(S) \in Nat
  BY <1>1, Finite
<1>5. ASSUME NEW l \in Lists, Start(l)
      PROVE /\ created' = created /\ changes' = changes /\ table' = table /\ listed' = listed
            /\ seen' = {} /\ steady' = listed /\ torn' = FALSE
            /\ WalkType(walk', created) /\ CountType(count')
  <2>1. count' = NoCount /\ walk' = Ask(l, 1) /\ 1 \in Nat
    BY <1>5 DEF Start
  <2>2. CountType(NoCount)
    BY DEF CountType, NoCount
  <2>3. WalkType(walk', created)
    BY <1>1, <2>1, AskType
  <2> QED BY <1>5, <2>1, <2>2, <2>3 DEF Start
<1>6. CASE CursorPage
  <2> DEFINE got == Found(walk.list, walk.cursor)
             records == Take(walk.list, got, PageSize)
  <2>1. records \in SUBSET listed /\ records \in SUBSET (1..created)
    <3>1. From(walk.list, walk.cursor) \in SUBSET listed
      BY DEF From
    <3>2. got \in SUBSET From(walk.list, walk.cursor)
      BY <1>3 DEF Found
    <3> QED BY <1>1, <1>3, <3>1, <3>2
  <2>2. /\ seen' = seen \cup records
        /\ count' = [count EXCEPT !.repeated = count.repeated + Cardinality(records \cap seen)]
        /\ torn' = (torn \/ (walk.cursor # 0 /\ walk.cursor \notin listed))
        /\ created' = created /\ changes' = changes /\ table' = table /\ listed' = listed
        /\ steady' = steady
    BY <1>6 DEF CursorPage, Show, Recount
  <2>3. \/ \E d \in CursorNext(walk.list, records, got) : walk' = [walk EXCEPT !.cursor = d]
        \/ walk' = [walk EXCEPT !.pc = "done"]
    BY <1>6 DEF CursorPage
  <2>4. \A d \in CursorNext(walk.list, records, got) : d \in records
    BY DEF CursorNext
  <2> HIDE DEF got, records
  <2>5. Cardinality(records \cap seen) \in Nat
    BY <1>1, <1>4, <2>1
  <2>6. CountType(count')
    BY <1>1, <2>2, <2>5 DEF CountType
  <2>7. WalkType(walk', created)
    <3>1. CASE walk' = [walk EXCEPT !.pc = "done"]
      BY <1>1, <3>1 DEF WalkType
    <3>2. ASSUME NEW d \in CursorNext(walk.list, records, got), walk' = [walk EXCEPT !.cursor = d]
          PROVE WalkType(walk', created)
      <4>1. d \in 0..created
        BY <1>1, <2>1, <2>4, <3>2
      <4> QED BY <1>1, <3>2, <4>1 DEF WalkType
    <3> QED BY <2>3, <3>1, <3>2
  <2> QED BY <1>1, <2>1, <2>2, <2>6, <2>7
\* What a page by number finds.
<1> DEFINE items == Take(walk.list, Skip(walk.list, listed, OffsetSkip(walk.page)), PageSize)
<1>7. items \in SUBSET (1..created)
  BY <1>1, <1>3
<1>8. walk.items \in SUBSET (1..created) /\ walk.came \in Nat /\ count.came \in Nat
      /\ Cardinality(listed) \in Nat
  BY <1>1, <1>4 DEF WalkType, CountType
<1>9. CASE FindFirst
  <2>1. /\ created' = created /\ changes' = changes /\ table' = table /\ listed' = listed
        /\ seen' = seen /\ steady' = steady /\ torn' = torn /\ count' = count
        /\ walk' = [walk EXCEPT !.pc = "count", !.items = items]
    BY <1>9 DEF FindFirst
  <2> HIDE DEF items
  <2>2. WalkType(walk', created)
    BY <1>1, <1>7, <2>1 DEF WalkType
  <2> QED BY <1>1, <2>1, <2>2
<1>10. CASE CountFirst
  <2>1. /\ created' = created /\ changes' = changes /\ table' = table /\ listed' = listed
        /\ seen' = seen /\ steady' = steady /\ torn' = torn /\ count' = count
        /\ walk' = [walk EXCEPT !.pc = "find", !.total = Cardinality(listed), !.came = count.came]
    BY <1>10 DEF CountFirst
  <2>2. WalkType(walk', created)
    BY <1>1, <1>8, <2>1 DEF WalkType
  <2> QED BY <1>1, <2>1, <2>2
<1>11. CASE CountSecond
  <2>1. /\ created' = created /\ changes' = changes /\ table' = table /\ listed' = listed
        /\ steady' = steady /\ torn' = torn
        /\ seen' = seen \cup walk.items
        /\ count' = [Recount(walk.items) EXCEPT !.late = 0]
    BY <1>11 DEF CountSecond
  <2>2. Cardinality(walk.items \cap seen) \in Nat
    BY <1>1, <1>4, <1>8
  <2>3. CountType(count')
    <3>1. CountType(Recount(walk.items))
      BY <1>1, <2>2 DEF CountType, Recount
    <3> QED BY <2>1, <3>1 DEF CountType
  <2>4. WalkType(walk', created)
    BY <1>11, TurnType DEF CountSecond, Inv
  <2> QED BY <1>1, <1>8, <2>1, <2>3, <2>4
<1>12. CASE FindSecond
  <2>1. /\ created' = created /\ changes' = changes /\ table' = table /\ listed' = listed
        /\ steady' = steady /\ torn' = torn
        /\ seen' = seen \cup items
        /\ count' = [Recount(items) EXCEPT !.late = count.came - walk.came]
    BY <1>12 DEF FindSecond
  <2> HIDE DEF items
  <2>2. Cardinality(items \cap seen) \in Nat
    BY <1>1, <1>4, <1>7
  <2>3. count.came - walk.came \in Nat
    BY <1>1, <1>8
  <2>4. CountType(count')
    <3>1. CountType(Recount(items))
      BY <1>1, <2>2 DEF CountType, Recount
    <3> QED BY <2>1, <2>3, <3>1 DEF CountType
  <2>5. WalkType(walk', created)
    BY <1>12, TurnType DEF FindSecond, Inv
  <2> QED BY <1>1, <1>7, <2>1, <2>4, <2>5
<1>13. CASE Create
  <2>1. /\ created' = created + 1 /\ changes' = changes
        /\ table' = table \cup {created + 1} /\ listed' = listed \cup {created + 1}
        /\ seen' = seen /\ steady' = steady /\ torn' = torn /\ walk' = walk
        /\ count' = [count EXCEPT !.came = count.came + 1]
    BY <1>13 DEF Create
  <2>2. CountType(count')
    BY <1>1, <2>1 DEF CountType
  <2>3. 1..created \in SUBSET (1..created') /\ 0..created \in SUBSET (0..created')
        /\ created + 1 \in 1..created' /\ created' \in Nat
    BY <1>1, <2>1
  <2>4. WalkType(walk', created')
    BY <1>1, <2>1, <2>3 DEF WalkType
  <2> QED BY <1>1, <2>1, <2>2, <2>3, <2>4
<1>14. ASSUME NEW x, Lose(x), table' \in {table, table \ {x}}
       PROVE /\ created' = created /\ changes' \in Nat
             /\ table' \in SUBSET (1..created) /\ listed' \in SUBSET table'
             /\ seen' = seen /\ steady' \in SUBSET listed' /\ torn' = torn
             /\ WalkType(walk', created) /\ CountType(count')
  <2>1. /\ created' = created /\ changes' = changes + 1
        /\ listed' = listed \ {x} /\ steady' = steady \ {x}
        /\ seen' = seen /\ torn' = torn /\ walk' = walk
        /\ count' = [count EXCEPT !.left = count.left + 1]
    BY <1>14 DEF Lose
  <2>2. CountType(count')
    BY <1>1, <2>1 DEF CountType
  <2> QED BY <1>1, <1>14, <2>1, <2>2
<1>15. ASSUME NEW x, ComeBack(x)
       PROVE /\ created' = created /\ changes' \in Nat
             /\ table' = table /\ listed' \in SUBSET table
             /\ seen' = seen /\ steady' = steady /\ steady' \in SUBSET listed' /\ torn' = torn
             /\ WalkType(walk', created) /\ CountType(count')
  <2>1. /\ created' = created /\ changes' = changes + 1 /\ x \in table
        /\ table' = table /\ listed' = listed \cup {x} /\ steady' = steady
        /\ seen' = seen /\ torn' = torn /\ walk' = walk
        /\ count' = [count EXCEPT !.came = count.came + 1]
    BY <1>15 DEF ComeBack
  <2>2. CountType(count')
    BY <1>1, <2>1 DEF CountType
  <2> QED BY <1>1, <2>1, <2>2
<1> HIDE DEF items
<1>16. CASE UNCHANGED vars
  BY <1>1, <1>16 DEF vars
<1>17. CASE \E l \in Lists : Start(l)
  BY <1>1, <1>5, <1>17
<1>18. CASE Read
  BY <1>6, <1>9, <1>10, <1>11, <1>12, <1>18 DEF Read
<1>19. CASE \E x \in 1..MaxRows : Delete(x) \/ Leave(x) \/ ComeBack(x)
  <2>1. PICK x \in 1..MaxRows : Delete(x) \/ Leave(x) \/ ComeBack(x)
    BY <1>19
  <2>2. CASE Delete(x)
    BY <1>1, <1>14, <2>2 DEF Delete
  <2>3. CASE Leave(x)
    BY <1>1, <1>14, <2>3 DEF Leave
  <2>4. CASE ComeBack(x)
    BY <1>1, <1>15, <2>4
  <2> QED BY <2>1, <2>2, <2>3, <2>4
<1> QED BY <1>13, <1>16, <1>17, <1>18, <1>19 DEF Next

-----------------------------------------------------------------------------
(* The other steps. *)

LEMMA Consecution == Inv /\ [Next]_vars => Inv'
<1> SUFFICES ASSUME Inv, [Next]_vars PROVE Inv'
  OBVIOUS
<1>1. TypeOK /\ TypeOK' /\ Phases /\ NoRepeats /\ Walked /\ CursorComplete
  BY TypeStep DEF Inv
<1>2. SUFFICES Phases' /\ NoRepeats' /\ Walked' /\ CursorComplete'
  BY <1>1 DEF Inv
<1>3. count.came \in Nat /\ walk.came \in Nat /\ count.left \in Nat
  BY <1>1 DEF TypeOK
<1>4. ASSUME NEW l \in Lists, Start(l) PROVE Phases' /\ NoRepeats' /\ Walked' /\ CursorComplete'
  <2>1. walk' = Ask(l, 1) /\ count' = NoCount /\ seen' = {}
    BY <1>4 DEF Start
  <2>2. /\ walk'.pc = IF l = "notifications" THEN "offset" ELSE "cursor"
        /\ walk'.list = l /\ walk'.cursor = 0 /\ walk'.came = 0
        /\ count'.repeated = 0 /\ count'.came = 0
    BY <2>1 DEF Ask, NoCount
  <2> QED BY <2>1, <2>2 DEF Phases, NoRepeats, Walked, CursorComplete, ByCursor
<1>5. CASE CursorPage
  BY <1>5, PageInv
\* A walk by number is not one by cursor.
<1>6. ASSUME ~ByCursor, walk'.list = walk.list, walk'.pc # "cursor", walk'.came <= count'.came
      PROVE Phases' /\ NoRepeats' /\ Walked' /\ CursorComplete'
  BY <1>6 DEF Phases, NoRepeats, Walked, CursorComplete, ByCursor
<1>7. ASSUME NEW total, Turn(total), ~ByCursor
      PROVE walk'.list = walk.list /\ walk'.pc # "cursor" /\ walk'.came \in {0, walk.came}
  <2>1. CASE walk' = Ask(walk.list, walk.page + 1)
    BY <1>7, <2>1 DEF Ask, ByCursor
  <2>2. CASE walk' = [walk EXCEPT !.pc = "done"]
    BY <1>1, <2>2 DEF TypeOK
  <2> QED BY <1>7, <2>1, <2>2 DEF Turn
<1>8. CASE FindFirst
  <2>1. walk.pc = "offset" /\ count' = count
    BY <1>8 DEF FindFirst
  <2>2. walk'.pc = "count" /\ walk'.list = walk.list /\ walk'.came = walk.came
    BY <1>1, <1>8 DEF FindFirst, TypeOK
  <2> QED BY <1>1, <1>6, <2>1, <2>2 DEF Phases
<1>9. CASE CountFirst
  <2>1. walk.pc = "offset" /\ count' = count
    BY <1>9 DEF CountFirst
  <2>2. walk'.pc = "find" /\ walk'.list = walk.list /\ walk'.came = count.came
    BY <1>1, <1>9 DEF CountFirst, TypeOK
  <2> QED BY <1>1, <1>3, <1>6, <2>1, <2>2 DEF Phases
<1>10. \A S : Recount(S).came = count.came
  BY <1>1 DEF Recount, TypeOK
<1>11. CASE CountSecond
  <2>1. ~ByCursor /\ walk.came <= count.came
    BY <1>1, <1>11 DEF CountSecond, Phases
  <2>2. count'.came = count.came
    BY <1>1, <1>11 DEF CountSecond, Recount, TypeOK
  <2>3. walk'.list = walk.list /\ walk'.pc # "cursor" /\ walk'.came \in {0, walk.came}
    BY <1>7, <1>11, <2>1 DEF CountSecond
  <2> QED BY <1>3, <1>6, <2>1, <2>2, <2>3
<1>12. CASE FindSecond
  <2>1. ~ByCursor /\ walk.came <= count.came
    BY <1>1, <1>12 DEF FindSecond, Phases
  <2>2. PICK S : count' = [Recount(S) EXCEPT !.late = count.came - walk.came]
    BY <1>12 DEF FindSecond
  <2>3. count'.came = count.came
    BY <1>1, <2>2 DEF Recount, TypeOK
  <2>4. walk'.list = walk.list /\ walk'.pc # "cursor" /\ walk'.came \in {0, walk.came}
    BY <1>7, <1>12, <2>1 DEF FindSecond
  <2> QED BY <1>3, <1>6, <2>1, <2>3, <2>4
\* Nothing comes into what the client has yet to see of the rows that stay.
<1>13. ASSUME walk' = walk, seen' = seen, torn' = torn, steady' \in SUBSET steady,
              count'.repeated = count.repeated, count.came <= count'.came, count'.came \in Nat
       PROVE Phases' /\ NoRepeats' /\ Walked' /\ CursorComplete'
  <2>1. ByCursor' <=> ByCursor
    BY <1>13 DEF ByCursor
  <2>2. Phases' /\ NoRepeats'
    BY <1>1, <1>3, <1>13, <2>1 DEF Phases, NoRepeats
  <2>3. Walked'
    BY <1>1, <1>13, <2>1 DEF Walked
  <2>4. CursorComplete'
    BY <1>1, <1>13, <2>1 DEF CursorComplete
  <2> QED BY <2>2, <2>3, <2>4
<1>14. CASE UNCHANGED vars
  BY <1>3, <1>13, <1>14 DEF vars
<1>15. CASE Create
  <2>1. walk' = walk /\ seen' = seen /\ torn' = torn /\ steady' = steady
    BY <1>15 DEF Create
  <2>2. count'.repeated = count.repeated /\ count'.came = count.came + 1
    BY <1>1, <1>15 DEF Create, TypeOK
  <2> QED BY <1>3, <1>13, <2>1, <2>2
<1>16. ASSUME NEW x, Lose(x) PROVE Phases' /\ NoRepeats' /\ Walked' /\ CursorComplete'
  <2>1. walk' = walk /\ seen' = seen /\ torn' = torn /\ steady' = steady \ {x}
    BY <1>16 DEF Lose
  <2>2. count'.repeated = count.repeated /\ count'.came = count.came
    BY <1>1, <1>16 DEF Lose, TypeOK
  <2> QED BY <1>3, <1>13, <2>1, <2>2
<1>17. ASSUME NEW x, ComeBack(x) PROVE Phases' /\ NoRepeats' /\ Walked' /\ CursorComplete'
  <2>1. walk' = walk /\ seen' = seen /\ torn' = torn /\ steady' = steady
    BY <1>17 DEF ComeBack
  <2>2. count'.repeated = count.repeated /\ count'.came = count.came + 1
    BY <1>1, <1>17 DEF ComeBack, TypeOK
  <2> QED BY <1>3, <1>13, <2>1, <2>2
<1>18. CASE Next
  BY <1>4, <1>5, <1>8, <1>9, <1>11, <1>12, <1>15, <1>16, <1>17, <1>18
     DEF Next, Read, Delete, Leave
<1> QED BY <1>14, <1>18

LEMMA Invariance == Spec => []Inv
BY InitInv, Consecution, PTL DEF Spec

-----------------------------------------------------------------------------
(* How ranks change as rows come and go. *)

LEMMA Distinct ==
  ASSUME NEW l, NEW n \in Nat, NEW S \in SUBSET (1..n), NEW x \in S, NEW y \in S,
         Rank(l, S, x) = Rank(l, S, y)
  PROVE  x = y
<1>1. /\ Before(l, y, x) => Rank(l, S, y) < Rank(l, S, x)
      /\ Before(l, x, y) => Rank(l, S, x) < Rank(l, S, y)
      /\ Rank(l, S, x) \in Nat /\ Rank(l, S, y) \in Nat
  BY Ranks
<1>2. x \in Nat /\ y \in Nat
  OBVIOUS
<1>3. x = y \/ Before(l, x, y) \/ Before(l, y, x)
  BY <1>2, Order
<1> QED BY <1>1, <1>3

\* A row that comes in moves those after it by one.
LEMMA RankMoves ==
  ASSUME NEW l, NEW n \in Nat, NEW S \in SUBSET (1..n), NEW z \in (1..n) \ S, NEW x
  PROVE  /\ Before(l, z, x) => Rank(l, S \cup {z}, x) = Rank(l, S, x) + 1
         /\ ~Before(l, z, x) => Rank(l, S \cup {z}, x) = Rank(l, S, x)
<1> DEFINE B == {y \in S : Before(l, y, x)}
           C == {y \in S \cup {z} : Before(l, y, x)}
<1>1. B \in SUBSET (1..n) /\ z \notin B
  OBVIOUS
<1>2. IsFiniteSet(B)
  BY <1>1, Finite
<1>3. Rank(l, S, x) = Cardinality(B) /\ Rank(l, S \cup {z}, x) = Cardinality(C)
  BY DEF Rank
<1>4. (Before(l, z, x) => C = B \cup {z}) /\ (~Before(l, z, x) => C = B)
  OBVIOUS
<1> HIDE DEF B, C
<1>5. Cardinality(B \cup {z}) = Cardinality(B) + 1
  BY <1>1, <1>2, FS_AddElement
<1> QED BY <1>3, <1>4, <1>5

LEMMA RankLeaves ==
  ASSUME NEW l, NEW n \in Nat, NEW S \in SUBSET (1..n), NEW z \in S, NEW x
  PROVE  Rank(l, S, x) \in {Rank(l, S \ {z}, x), Rank(l, S \ {z}, x) + 1}
<1> DEFINE B == {y \in S : Before(l, y, x)}
           C == {y \in S \ {z} : Before(l, y, x)}
<1>1. B \in SUBSET (1..n)
  OBVIOUS
<1>2. IsFiniteSet(B) /\ Cardinality(B) \in Nat
  BY <1>1, Finite
<1>3. Rank(l, S, x) = Cardinality(B) /\ Rank(l, S \ {z}, x) = Cardinality(C)
  BY DEF Rank
<1>4. C = B \ {z} /\ (z \in B \/ C = B)
  OBVIOUS
<1> HIDE DEF B, C
<1>5. CASE z \in B
  <2>1. Cardinality(B \ {z}) = Cardinality(B) - 1
    BY <1>2, <1>5, FS_RemoveElement
  <2>2. Cardinality(C) = Cardinality(B) - 1
    BY <1>4, <2>1
  <2>3. Cardinality(B) = Cardinality(C) + 1
    BY <1>2, <2>2
  <2> QED BY <1>3, <2>3
<1>6. CASE C = B
  BY <1>3, <1>6
<1> QED BY <1>4, <1>5, <1>6

\* As many rows are taken as there are to take.
LEMMA TakeCount ==
  ASSUME NEW l, NEW n \in Nat, NEW S \in SUBSET (1..n), NEW k \in Nat
  PROVE  /\ Cardinality(Take(l, S, k)) \in Nat /\ Cardinality(Take(l, S, k)) <= k
         /\ Take(l, S, k) = S \/ Cardinality(Take(l, S, k)) = k
<1> DEFINE T == Take(l, S, k)
<1>1. T \in SUBSET S /\ T \in SUBSET (1..n) /\ S \ T \in SUBSET (1..n)
  BY DEF Take
<1>2. IsFiniteSet(T) /\ Cardinality(T) \in Nat
  BY <1>1, Finite
<1>3. /\ \A x \in S : x \in T <=> Rank(l, S, x) < k
      /\ \A x : Rank(l, S, x) \in Nat
  BY Ranks DEF Take
<1>4. Cardinality(T) <= k
  <2>1. CASE T = {}
    BY <2>1, FS_EmptySet
  <2>2. CASE T # {}
    <3>1. PICK w \in T : \A y \in T \ {w} : Before(l, y, w)
      BY <1>1, <2>2, Ends
    <3> DEFINE B == {y \in S : Before(l, y, w)}
    <3>2. T \ {w} \in SUBSET B /\ B \in SUBSET (1..n)
      BY <1>1, <3>1
    <3>3. IsFiniteSet(B) /\ Cardinality(B) \in Nat
      BY <3>2, Finite
    <3>4. Cardinality(B) < k
      BY <1>1, <1>3, <3>1 DEF Rank
    <3> HIDE DEF B, T
    <3>5. Cardinality(T \ {w}) = Cardinality(T) - 1 /\ Cardinality(T \ {w}) <= Cardinality(B)
      BY <1>2, <3>1, <3>2, <3>3, FS_RemoveElement, FS_Subset
    <3> QED BY <1>2, <3>3, <3>4, <3>5
  <2> QED BY <2>1, <2>2
<1>5. ASSUME S \ T # {} PROVE Cardinality(T) >= k
  <2>1. PICK w \in S \ T : \A y \in (S \ T) \ {w} : Before(l, w, y)
    BY <1>1, <1>5, Ends
  <2> DEFINE B == {y \in S : Before(l, y, w)}
  <2>2. B \in SUBSET T
    <3>1. ASSUME NEW y \in B, y \notin T PROVE FALSE
      <4>1. y # w => Before(l, w, y)
        BY <2>1, <3>1
      <4>2. y \in Nat /\ w \in Nat /\ Before(l, y, w)
        BY <2>1
      <4> QED BY <4>1, <4>2, Order
    <3> QED BY <3>1
  <2>3. Cardinality(B) <= Cardinality(T) /\ Cardinality(B) \in Nat
    BY <1>1, <1>2, <2>2, Finite, FS_Subset
  <2>4. ~(Cardinality(B) < k)
    BY <1>3, <2>1 DEF Rank
  <2> QED BY <1>2, <2>3, <2>4
<1>6. S \ T # {} \/ T = S
  BY <1>1
<1> QED BY <1>2, <1>4, <1>5, <1>6

\* What a page by number finds: the rows whose rank lies between its ends.
LEMMA Window ==
  ASSUME NEW l, NEW n \in Nat, NEW S \in SUBSET (1..n), NEW k \in Nat, NEW m \in Nat
  PROVE  \A x : x \in Take(l, Skip(l, S, k), m) <=>
                  x \in S /\ Rank(l, S, x) >= k /\ Rank(l, S, x) < k + m
<1> DEFINE U == Skip(l, S, k)
           T == Take(l, S, k)
<1>1. \A x : Rank(l, S, x) \in Nat
  BY Ranks
<1>2. U = S \ T /\ T \in SUBSET S /\ T \in SUBSET (1..n)
  <2>1. \A x : (x \in U <=> x \in S /\ Rank(l, S, x) >= k) /\ (x \in T <=> x \in S /\ Rank(l, S, x) < k)
    BY DEF Skip, Take
  <2>2. \A x : Rank(l, S, x) >= k <=> ~(Rank(l, S, x) < k)
    BY <1>1
  <2> HIDE DEF U, T
  <2> QED BY <2>1, <2>2
<1>3. IsFiniteSet(T) /\ Cardinality(T) \in Nat
  BY <1>2, Finite
<1>4. ASSUME NEW x \in U PROVE Rank(l, S, x) = Rank(l, U, x) + k /\ Rank(l, U, x) \in Nat
  <2> DEFINE B == {y \in S : Before(l, y, x)}
             C == {y \in U : Before(l, y, x)}
  <2>1. x \in S /\ x \in Nat /\ Rank(l, S, x) >= k
    BY <1>2 DEF Skip
  <2>2. T \in SUBSET B
    <3>1. ASSUME NEW y \in T PROVE Before(l, y, x)
      <4>1. y \in S /\ y \in Nat /\ Rank(l, S, y) < k
        BY <1>2, <3>1 DEF Take
      <4>2. ~(Rank(l, S, x) < Rank(l, S, y)) /\ Rank(l, S, x) # Rank(l, S, y)
        BY <1>1, <2>1, <4>1
      <4>3. Before(l, x, y) => Rank(l, S, x) < Rank(l, S, y)
        BY <2>1, <4>1, Ranks
      <4> QED BY <2>1, <4>1, <4>2, <4>3, Order
    <3> QED BY <1>2, <3>1
  <2>3. C = B \ T /\ B \in SUBSET (1..n)
    BY <1>2
  <2>4. IsFiniteSet(B) /\ Cardinality(B) \in Nat
    BY <2>3, Finite
  <2>5. B \cap T = T
    BY <2>2
  <2>6. Rank(l, S, x) = Cardinality(B) /\ Rank(l, U, x) = Cardinality(C)
    BY DEF Rank
  <2>7. Cardinality(T) = k
    <3>1. T # S
      BY <1>2, <1>4
    <3> QED BY <3>1, TakeCount
  <2> HIDE DEF B, C, T, U
  <2>8. Cardinality(B \ T) = Cardinality(B) - Cardinality(B \cap T)
    BY <2>4, FS_Difference
  <2>9. Cardinality(C) \in Nat
    <3>1. C \in SUBSET (1..n)
      BY <2>3
    <3> QED BY <3>1, Finite
  <2>10. Cardinality(C) = Cardinality(B) - k
    BY <2>3, <2>5, <2>7, <2>8
  <2> QED BY <2>4, <2>6, <2>9, <2>10
<1>5. \A x : x \in U <=> x \in S /\ Rank(l, S, x) >= k
  BY DEF Skip
<1>6. \A x : x \in Take(l, U, m) <=> x \in U /\ Rank(l, U, x) < m
  BY DEF Take
<1> HIDE DEF U, T
<1>7. ASSUME NEW x
      PROVE x \in Take(l, U, m) <=> x \in S /\ Rank(l, S, x) >= k /\ Rank(l, S, x) < k + m
  <2>1. CASE x \in U
    <3>1. Rank(l, U, x) < m <=> Rank(l, S, x) < k + m
      BY <1>4, <2>1
    <3> QED BY <1>5, <1>6, <2>1, <3>1
  <2>2. CASE x \notin U
    BY <1>5, <1>6, <2>2
  <2> QED BY <2>1, <2>2
<1> QED BY <1>7 DEF U

-----------------------------------------------------------------------------
(* A walk by number that has passed k places of the list S.  Pushed are the   *)
(* rows that it has shown and that lie ahead of it, and Pulled are those of B *)
(* that it has not shown and that lie behind it.                              *)

Pushed(l, S, A, k) == {x \in S \cap A : Rank(l, S, x) >= k}
Pulled(l, S, B, k) == {x \in B : Rank(l, S, x) < k}

LEMMA PushedType ==
  ASSUME NEW l, NEW n \in Nat, NEW S \in SUBSET (1..n), NEW B \in SUBSET S, NEW A, NEW k
  PROVE  /\ Pushed(l, S, A, k) \in SUBSET (1..n) /\ IsFiniteSet(Pushed(l, S, A, k))
         /\ Cardinality(Pushed(l, S, A, k)) \in Nat
         /\ Pulled(l, S, B, k) \in SUBSET (1..n) /\ IsFiniteSet(Pulled(l, S, B, k))
         /\ Cardinality(Pulled(l, S, B, k)) \in Nat
<1>1. Pushed(l, S, A, k) \in SUBSET (1..n) /\ Pulled(l, S, B, k) \in SUBSET (1..n)
  BY DEF Pushed, Pulled
<1> QED BY <1>1, Finite

\* A set that another has all of, but for one element.
LEMMA OneMore ==
  ASSUME NEW n \in Nat, NEW A \in SUBSET (1..n), NEW B \in SUBSET (1..n), NEW w,
         \A x \in A : x \in B \/ x = w
  PROVE  Cardinality(A) <= Cardinality(B) + 1
<1>1. IsFiniteSet(B) /\ Cardinality(B) \in Nat
  BY Finite
<1>2. IsFiniteSet(B \cup {w}) /\ Cardinality(B \cup {w}) \in Nat /\ Cardinality(B \cup {w}) <= Cardinality(B) + 1
  <2>1. IsFiniteSet(B \cup {w}) /\ Cardinality(B \cup {w}) \in {Cardinality(B), Cardinality(B) + 1}
    BY <1>1, FS_AddElement
  <2> QED BY <1>1, <2>1
<1>3. A \in SUBSET (B \cup {w})
  OBVIOUS
<1>4. Cardinality(A) <= Cardinality(B \cup {w}) /\ Cardinality(A) \in Nat
  BY <1>2, <1>3, FS_Subset, Finite
<1> QED BY <1>1, <1>2, <1>4

\* A row that comes in pushes at most one row ahead, and pulls none behind.
LEMMA RowIn ==
  ASSUME NEW l, NEW n \in Nat, NEW S \in SUBSET (1..n), NEW z \in (1..n) \ S, NEW A,
         NEW B \in SUBSET S, NEW k \in Nat
  PROVE  /\ Cardinality(Pushed(l, S \cup {z}, A, k)) <= Cardinality(Pushed(l, S, A, k)) + 1
         /\ Cardinality(Pulled(l, S \cup {z}, B, k)) <= Cardinality(Pulled(l, S, B, k))
<1> DEFINE U == S \cup {z}
           P == Pushed(l, S, A, k)
           Q == Pushed(l, U, A, k)
<1>1. U \in SUBSET (1..n) /\ P \in SUBSET (1..n) /\ Q \in SUBSET (1..n)
  BY DEF Pushed
<1>2. \A x : Rank(l, S, x) \in Nat /\ Rank(l, U, x) \in Nat
  BY <1>1, Ranks
<1>3. \A x : /\ Before(l, z, x) => Rank(l, U, x) = Rank(l, S, x) + 1
             /\ ~Before(l, z, x) => Rank(l, U, x) = Rank(l, S, x)
  BY RankMoves
<1>4. \A x \in S : Before(l, z, x) => Rank(l, U, z) < Rank(l, U, x)
  BY <1>1, Ranks
<1>5. \A x, y \in U : Rank(l, U, x) = Rank(l, U, y) => x = y
  BY <1>1, Distinct
<1>6. \A x : (x \in P <=> x \in S /\ x \in A /\ Rank(l, S, x) >= k)
             /\ (x \in Q <=> x \in U /\ x \in A /\ Rank(l, U, x) >= k)
  BY DEF Pushed
<1>7. \A x : x \in U <=> x \in S \/ x = z
  OBVIOUS
<1> HIDE DEF U, P, Q
<1>8. Cardinality(Q) <= Cardinality(P) + 1
  <2>1. CASE Rank(l, U, z) >= k
    <3>1. ASSUME NEW x \in Q, x # z PROVE x \in P
      <4>1. x \in S /\ x \in A /\ Rank(l, U, x) >= k
        BY <1>6, <1>7, <3>1
      <4>2. Rank(l, S, x) >= k
        BY <1>2, <1>3, <1>4, <2>1, <4>1
      <4> QED BY <1>6, <4>1, <4>2
    <3> QED BY <1>1, <3>1, OneMore
  <2>2. CASE ~(Rank(l, U, z) >= k)
    <3>1. ASSUME NEW x \in Q, x \notin P PROVE Rank(l, U, x) = k
      <4>1. x \in S /\ x \in A /\ Rank(l, U, x) >= k
        BY <1>6, <1>7, <2>2, <3>1
      <4>2. ~(Rank(l, S, x) >= k)
        BY <1>6, <3>1, <4>1
      <4> QED BY <1>2, <1>3, <4>1, <4>2
    <3>2. CASE Q \in SUBSET P
      <4>1. \A x \in Q : x \in P \/ x = z
        BY <3>2
      <4> QED BY <1>1, <4>1, OneMore
    <3>3. ASSUME NEW w \in Q, w \notin P PROVE Cardinality(Q) <= Cardinality(P) + 1
      <4>1. \A x \in Q : x \in P \/ x = w
        BY <1>5, <1>6, <3>1, <3>3
      <4> QED BY <1>1, <4>1, OneMore
    <3> QED BY <3>2, <3>3
  <2> QED BY <2>1, <2>2
<1>9. Cardinality(Pulled(l, U, B, k)) <= Cardinality(Pulled(l, S, B, k))
  <2>1. Pulled(l, U, B, k) \in SUBSET Pulled(l, S, B, k)
    <3>1. \A x : Rank(l, U, x) < k => Rank(l, S, x) < k
      BY <1>2, <1>3
    <3> QED BY <3>1 DEF Pulled
  <2>2. IsFiniteSet(Pulled(l, S, B, k))
    BY PushedType
  <2> QED BY <2>1, <2>2, FS_Subset
<1> QED BY <1>8, <1>9 DEF U, P, Q

\* A row that goes out pulls at most one row behind, and pushes none ahead.
LEMMA RowOut ==
  ASSUME NEW l, NEW n \in Nat, NEW S \in SUBSET (1..n), NEW z \in S, NEW A,
         NEW B \in SUBSET S, NEW k \in Nat
  PROVE  /\ Cardinality(Pushed(l, S \ {z}, A, k)) <= Cardinality(Pushed(l, S, A, k))
         /\ Cardinality(Pulled(l, S \ {z}, B \ {z}, k)) <= Cardinality(Pulled(l, S, B, k)) + 1
<1> DEFINE V == S \ {z}
           P == Pulled(l, S, B, k)
           Q == Pulled(l, V, B \ {z}, k)
<1>1. V \in SUBSET (1..n)
  OBVIOUS
<1>2. \A x : Rank(l, S, x) \in Nat /\ Rank(l, V, x) \in Nat
  BY <1>1, Ranks
<1>3. \A x : Rank(l, S, x) \in {Rank(l, V, x), Rank(l, V, x) + 1}
  BY RankLeaves
<1>4. \A x, y \in S : Rank(l, S, x) = Rank(l, S, y) => x = y
  BY Distinct
<1>5. Cardinality(Pushed(l, V, A, k)) <= Cardinality(Pushed(l, S, A, k))
  <2>1. Pushed(l, V, A, k) \in SUBSET Pushed(l, S, A, k)
    <3>1. \A x : Rank(l, V, x) >= k => Rank(l, S, x) >= k
      BY <1>2, <1>3
    <3> QED BY <3>1 DEF Pushed
  <2>2. IsFiniteSet(Pushed(l, S, A, k))
    BY PushedType
  <2> QED BY <2>1, <2>2, FS_Subset
<1>6. P \in SUBSET (1..n) /\ Q \in SUBSET (1..n) /\ Q \in SUBSET S
  BY DEF Pulled
<1>7. ASSUME NEW x \in Q, x \notin P PROVE Rank(l, S, x) = k
  <2>1. Rank(l, V, x) < k /\ ~(Rank(l, S, x) < k)
    BY <1>7 DEF Pulled
  <2> QED BY <1>2, <1>3, <2>1
<1> HIDE DEF V, P, Q
<1>8. CASE Q \in SUBSET P
  <2>1. \A x \in Q : x \in P \/ x = z
    BY <1>8
  <2> QED BY <1>5, <1>6, <2>1, OneMore DEF V, P, Q
<1>9. ASSUME NEW w \in Q, w \notin P PROVE Cardinality(Q) <= Cardinality(P) + 1
  <2>1. \A x \in Q : x \in P \/ x = w
    BY <1>4, <1>6, <1>7, <1>9
  <2> QED BY <1>6, <2>1, OneMore
<1> QED BY <1>5, <1>8, <1>9 DEF V, P, Q

\* A page that is shown takes what it shows again from the rows ahead, and leaves none behind.
LEMMA PageShown ==
  ASSUME NEW l, NEW n \in Nat, NEW S \in SUBSET (1..n), NEW A \in SUBSET (1..n),
         NEW B \in SUBSET S, NEW k \in Nat, NEW m \in Nat
  PROVE  LET items == Take(l, Skip(l, S, k), m) IN
         /\ Cardinality(items \cap A) + Cardinality(Pushed(l, S, A \cup items, k + m))
              <= Cardinality(Pushed(l, S, A, k))
         /\ Cardinality(Pulled(l, S, B \ (A \cup items), k + m))
              <= Cardinality(Pulled(l, S, B \ A, k))
<1> DEFINE items == Take(l, Skip(l, S, k), m)
           I == items \cap A
           P == Pushed(l, S, A, k)
           Q == Pushed(l, S, A \cup items, k + m)
<1>1. \A x : x \in items <=> x \in S /\ Rank(l, S, x) >= k /\ Rank(l, S, x) < k + m
  BY Window
<1>2. \A x : Rank(l, S, x) \in Nat
  BY Ranks
<1>3. \A x : /\ x \in P <=> x \in S /\ x \in A /\ Rank(l, S, x) >= k
             /\ x \in Q <=> x \in S /\ (x \in A \/ x \in items) /\ Rank(l, S, x) >= k + m
  BY DEF Pushed
<1>4. \A x : x \in I <=> x \in items /\ x \in A
  OBVIOUS
<1>5. \A B1 \in SUBSET S : IsFiniteSet(Pulled(l, S, B1, k))
  BY PushedType
<1>6. \A x : (Rank(l, S, x) >= k + m => Rank(l, S, x) >= k /\ ~(Rank(l, S, x) < k + m))
             /\ (Rank(l, S, x) < k + m /\ ~(Rank(l, S, x) < k) => Rank(l, S, x) >= k)
  BY <1>2
<1> HIDE DEF items, I, P, Q
<1>7. Cardinality(I) + Cardinality(Q) <= Cardinality(P)
  <2>1. I \cup Q \in SUBSET P /\ I \cap Q = {} /\ P \in SUBSET (1..n)
    BY <1>1, <1>3, <1>4, <1>6
  <2>2. /\ IsFiniteSet(P) /\ Cardinality(P) \in Nat
        /\ IsFiniteSet(I) /\ Cardinality(I) \in Nat /\ IsFiniteSet(Q) /\ Cardinality(Q) \in Nat
    <3>1. I \in SUBSET (1..n) /\ Q \in SUBSET (1..n)
      BY <2>1
    <3> QED BY <2>1, <3>1, Finite
  <2>3. Cardinality(I \cup Q) = Cardinality(I) + Cardinality(Q) - Cardinality(I \cap Q)
    BY <2>2, FS_Union
  <2>4. Cardinality(I \cap Q) = 0
    BY <2>1, FS_EmptySet
  <2>5. Cardinality(I \cup Q) <= Cardinality(P)
    BY <2>1, <2>2, FS_Subset
  <2> QED BY <2>2, <2>3, <2>4, <2>5
<1>8. Pulled(l, S, B \ (A \cup items), k + m) \in SUBSET Pulled(l, S, B \ A, k)
  <2>1. \A x \in S : x \notin items /\ Rank(l, S, x) < k + m => Rank(l, S, x) < k
    BY <1>1, <1>6
  <2> QED BY <2>1 DEF Pulled
<1>9. IsFiniteSet(Pulled(l, S, B \ A, k))
  BY <1>5
<1>10. Cardinality(Pulled(l, S, B \ (A \cup items), k + m)) <= Cardinality(Pulled(l, S, B \ A, k))
  BY <1>8, <1>9, FS_Subset
<1> QED BY <1>7, <1>10 DEF I, P, Q, items

\* Of what was not shown, no more lies ahead than the list has beyond the place passed.
LEMMA Unseen ==
  ASSUME NEW l, NEW n \in Nat, NEW S \in SUBSET (1..n), NEW B \in SUBSET S, NEW k \in Nat,
         NEW d \in Nat, Cardinality(S) <= k + d
  PROVE  Cardinality(B) <= Cardinality(Pulled(l, S, B, k)) + d
<1> DEFINE T == Take(l, S, k)
           P == Pulled(l, S, B, k)
<1>1. /\ T \in SUBSET S /\ T \in SUBSET (1..n) /\ S \ T \in SUBSET (1..n)
      /\ B \in SUBSET (P \cup (S \ T)) /\ P \in SUBSET (1..n)
  BY DEF Take, Pulled
<1>2. Cardinality(T) \in Nat /\ (T = S \/ Cardinality(T) = k)
  BY TakeCount
<1> HIDE DEF T, P
<1>3. /\ IsFiniteSet(S) /\ Cardinality(S) \in Nat /\ IsFiniteSet(P) /\ Cardinality(P) \in Nat
      /\ IsFiniteSet(S \ T) /\ Cardinality(S \ T) \in Nat
  BY <1>1, Finite
<1>4. Cardinality(S \ T) <= d
  <2>1. CASE T = S
    <3>1. S \ T = {}
      BY <2>1
    <3>2. Cardinality(S \ T) = 0
      BY <3>1, FS_EmptySet
    <3> QED BY <3>2
  <2>2. CASE Cardinality(T) = k
    <3>1. Cardinality(S \ T) = Cardinality(S) - Cardinality(S \cap T)
      BY <1>3, FS_Difference
    <3>2. S \cap T = T
      BY <1>1
    <3>3. Cardinality(S \ T) = Cardinality(S) - k
      BY <2>2, <3>1, <3>2
    <3> QED BY <1>3, <3>3
  <2> QED BY <1>2, <2>1, <2>2
<1>5. /\ IsFiniteSet(P \cup (S \ T)) /\ Cardinality(P \cup (S \ T)) \in Nat
      /\ Cardinality(P \cup (S \ T)) <= Cardinality(P) + Cardinality(S \ T)
  <2>1. P \cup (S \ T) \in SUBSET (1..n) /\ P \cap (S \ T) \in SUBSET (1..n)
    BY <1>1
  <2>2. IsFiniteSet(P \cup (S \ T)) /\ Cardinality(P \cup (S \ T)) \in Nat
        /\ Cardinality(P \cap (S \ T)) \in Nat
    BY <2>1, Finite
  <2>3. Cardinality(P \cup (S \ T)) = Cardinality(P) + Cardinality(S \ T) - Cardinality(P \cap (S \ T))
    BY <1>3, FS_Union
  <2> QED BY <1>3, <2>2, <2>3
<1>6. Cardinality(B) <= Cardinality(P \cup (S \ T)) /\ Cardinality(B) \in Nat
  <2>1. B \in SUBSET (1..n)
    OBVIOUS
  <2>2. Cardinality(B) <= Cardinality(P \cup (S \ T))
    BY <1>1, <1>5, FS_Subset
  <2> QED BY <2>1, <2>2, Finite
<1> QED BY <1>3, <1>4, <1>5, <1>6 DEF P

-----------------------------------------------------------------------------
(* The inductive invariant of a walk by number.  Every row that came in pays  *)
(* for one that is shown again or may yet be, and every row that left for one *)
(* that is missed; the first of two queries counts as a page already passed.  *)

Walking == walk.pc \in {"offset", "count", "find"}
Shown == IF walk.pc = "count" THEN seen \cup walk.items ELSE seen
Passed == IF walk.pc = "count" THEN walk.page * PageSize ELSE OffsetSkip(walk.page)
Again == IF walk.pc = "count" THEN Cardinality(walk.items \cap seen) ELSE 0

Paid(S, shown, k, again, st, c) ==
  /\ c.repeated + again + Cardinality(Pushed("notifications", S, shown, k)) <= c.came
  /\ Cardinality(Pulled("notifications", S, st \ shown, k)) <= c.left

Counted == walk.pc = "find" => Cardinality(listed) + walk.came <= walk.total + count.came

NumberInv ==
  /\ RepeatsBounded /\ MissesBounded /\ Counted
  /\ Walking => walk.page # 0 /\ Paid(listed, Shown, Passed, Again, steady, count)

LEMMA Passing ==
  ASSUME NEW p \in Nat, p # 0
  PROVE  /\ OffsetSkip(p) \in Nat /\ p * PageSize \in Nat /\ PageSize \in Nat
         /\ p * PageSize = OffsetSkip(p) + PageSize
         /\ OffsetSkip(p + 1) = p * PageSize
<1>1. PageSize \in Nat /\ p - 1 \in Nat /\ (p + 1) - 1 = p
  BY PagesAssumption
<1>2. \A a, b \in Nat : a * b \in Nat /\ (a + 1) * b = a * b + b
  OBVIOUS
<1>3. p = (p - 1) + 1
  OBVIOUS
<1>4. p * PageSize = (p - 1) * PageSize + PageSize /\ (p - 1) * PageSize \in Nat
  BY <1>1, <1>2, <1>3
<1> QED BY <1>1, <1>2, <1>4 DEF OffsetSkip

LEMMA Facts ==
  ASSUME TypeOK, Phases
  PROVE  /\ created \in Nat /\ listed \in SUBSET (1..created) /\ seen \in SUBSET (1..created)
         /\ steady \in SUBSET listed
         /\ walk.items \in SUBSET (1..created) /\ walk.page \in Nat /\ walk.total \in Nat
         /\ walk.came \in Nat /\ walk.came <= count.came
         /\ count.repeated \in Nat /\ count.came \in Nat /\ count.left \in Nat /\ count.late \in Nat
         /\ Walking => walk.list = "notifications"
         /\ ByCursor <=> walk.list # "notifications"
         /\ Cardinality(listed) \in Nat /\ Again \in Nat
<1>1. /\ created \in Nat /\ listed \in SUBSET (1..created) /\ seen \in SUBSET (1..created)
      /\ steady \in SUBSET listed
      /\ walk.items \in SUBSET (1..created) /\ walk.page \in Nat /\ walk.total \in Nat
      /\ walk.came \in Nat
      /\ count.repeated \in Nat /\ count.came \in Nat /\ count.left \in Nat /\ count.late \in Nat
  BY DEF TypeOK
<1>2. Cardinality(listed) \in Nat
  BY <1>1, Finite
<1>3. walk.items \cap seen \in SUBSET (1..created)
  BY <1>1
<1>4. Cardinality(walk.items \cap seen) \in Nat
  BY <1>1, <1>3, Finite
<1> QED BY <1>1, <1>2, <1>4 DEF Phases, Walking, ByCursor, Again

\* The page is shown and the client asks for the next one, or is done.
LEMMA Turned ==
  ASSUME Inv, Inv', Walking, walk.page # 0, NEW total \in Nat, Turn(total),
         listed' = listed, steady' = steady,
         Paid(listed, seen', walk.page * PageSize, 0, steady, count'),
         Cardinality(listed) <= total + count'.late
  PROVE  NumberInv'
<1> DEFINE k == walk.page * PageSize
           P == Pushed("notifications", listed, seen', k)
<1>1. /\ created \in Nat /\ listed \in SUBSET (1..created) /\ steady \in SUBSET listed
      /\ walk.page \in Nat /\ walk.list = "notifications" /\ Cardinality(listed) \in Nat
      /\ k \in Nat /\ k = OffsetSkip(walk.page + 1)
  BY Facts, Passing DEF Inv
<1>2. /\ count'.repeated \in Nat /\ count'.came \in Nat /\ count'.left \in Nat /\ count'.late \in Nat
      /\ ByCursor' <=> walk'.list # "notifications"
  BY DEF Inv, TypeOK, ByCursor
<1>3. Cardinality(P) \in Nat
  BY <1>1, PushedType
<1>4. /\ count'.repeated + 0 + Cardinality(P) <= count'.came
      /\ Cardinality(Pulled("notifications", listed, steady \ seen', k)) <= count'.left
  BY DEF Paid
<1>5. count'.repeated <= count'.came
  BY <1>2, <1>3, <1>4
<1>6. CASE k < total
  <2>1. walk' = Ask("notifications", walk.page + 1)
    BY <1>1, <1>6 DEF Turn
  <2>2. walk'.pc = "offset" /\ walk'.page = walk.page + 1
    BY <2>1 DEF Ask
  <2>3. Passed' = k /\ Shown' = seen' /\ Again' = 0
    BY <1>1, <2>2 DEF Passed, Shown, Again, OffsetSkip
  <2>4. Paid(listed', Shown', Passed', Again', steady', count')
    BY <2>3
  <2> QED BY <1>1, <1>5, <2>2, <2>4
          DEF NumberInv, RepeatsBounded, MissesBounded, Counted, Paid
<1>7. CASE ~(k < total)
  <2>1. walk' = [walk EXCEPT !.pc = "done"]
    BY <1>7 DEF Turn
  <2>2. walk'.pc = "done"
    BY <2>1 DEF Inv, TypeOK
  <2>3. Cardinality(steady \ seen') <= count'.left + count'.late
    <3> HIDE DEF k
    <3>1. Cardinality(listed) <= k + count'.late
      <4>1. k \in Nat /\ Cardinality(listed) \in Nat /\ count'.late \in Nat
        BY <1>1, <1>2
      <4>2. total <= k
        BY <1>7, <4>1
      <4> QED BY <4>1, <4>2
    <3> DEFINE B == steady \ seen'
               d == count'.late
    <3>2. B \in SUBSET listed /\ d \in Nat /\ Cardinality(listed) <= k + d
      BY <1>1, <1>2, <3>1
    <3> HIDE DEF B, d
    <3>3. Cardinality(B) <= Cardinality(Pulled("notifications", listed, B, k)) + d
      BY <1>1, <3>2, Unseen
    <3>4. Cardinality(B) \in Nat /\ Cardinality(Pulled("notifications", listed, B, k)) \in Nat
      <4>1. B \in SUBSET (1..created)
        BY <1>1, <3>2
      <4>2. Cardinality(B) \in Nat
        BY <1>1, <4>1, Finite
      <4>3. Cardinality(Pulled("notifications", listed, B, k)) \in Nat
        BY <1>1, <3>2, PushedType
      <4> QED BY <4>2, <4>3
    <3>5. Cardinality(Pulled("notifications", listed, B, k)) <= count'.left
      BY <1>4 DEF B
    <3>6. Cardinality(B) <= count'.left + d
      BY <1>2, <3>2, <3>3, <3>4, <3>5
    <3> QED BY <3>6 DEF B, d
  <2> QED BY <1>5, <2>2, <2>3 DEF NumberInv, RepeatsBounded, MissesBounded, Counted, Walking
<1> QED BY <1>6, <1>7

\* The rows of a page by number, at the places it has passed and at those it passes.
LEMMA Paged ==
  ASSUME Inv, NumberInv, Walking, walk.pc # "count"
  PROVE  LET items == Take(walk.list, Skip(walk.list, listed, OffsetSkip(walk.page)), PageSize) IN
         /\ items \in SUBSET (1..created) /\ Cardinality(items \cap seen) \in Nat
         /\ Paid(listed, seen \cup items, walk.page * PageSize, Cardinality(items \cap seen),
                 steady, count)
<1> DEFINE l == "notifications"
           k == OffsetSkip(walk.page)
           items == Take(l, Skip(l, listed, k), PageSize)
<1>1. /\ created \in Nat /\ listed \in SUBSET (1..created) /\ seen \in SUBSET (1..created)
      /\ steady \in SUBSET listed /\ walk.page \in Nat /\ walk.list = l
      /\ count.repeated \in Nat /\ count.came \in Nat /\ count.left \in Nat
  BY Facts DEF Inv
<1>2. walk.page # 0 /\ Paid(listed, seen, k, 0, steady, count)
  BY DEF NumberInv, Walking, Shown, Passed, Again
<1>3. k \in Nat /\ PageSize \in Nat /\ walk.page * PageSize = k + PageSize
  BY <1>1, <1>2, Passing
<1>4. items \in SUBSET (1..created)
  BY <1>1 DEF Take, Skip
<1>5. /\ Cardinality(items \cap seen) + Cardinality(Pushed(l, listed, seen \cup items, k + PageSize))
           <= Cardinality(Pushed(l, listed, seen, k))
      /\ Cardinality(Pulled(l, listed, steady \ (seen \cup items), k + PageSize))
           <= Cardinality(Pulled(l, listed, steady \ seen, k))
  <2> HIDE DEF l, k
  <2> QED BY <1>1, <1>3, PageShown
<1>6. /\ count.repeated + 0 + Cardinality(Pushed(l, listed, seen, k)) <= count.came
      /\ Cardinality(Pulled(l, listed, steady \ seen, k)) <= count.left
  BY <1>2 DEF Paid
<1> HIDE DEF items, k
<1>7. Cardinality(items \cap seen) \in Nat
  <2>1. items \cap seen \in SUBSET (1..created)
    BY <1>4
  <2> QED BY <1>1, <2>1, Finite
<1>8. /\ Cardinality(Pushed(l, listed, seen \cup items, k + PageSize)) \in Nat
      /\ Cardinality(Pushed(l, listed, seen, k)) \in Nat
      /\ Cardinality(Pulled(l, listed, steady \ (seen \cup items), k + PageSize)) \in Nat
      /\ Cardinality(Pulled(l, listed, steady \ seen, k)) \in Nat
  <2>1. \A X \in SUBSET steady : X \in SUBSET listed
    BY <1>1
  <2>2. \A A, B, j : B \in SUBSET listed =>
          Cardinality(Pushed(l, listed, A, j)) \in Nat /\ Cardinality(Pulled(l, listed, B, j)) \in Nat
    BY <1>1, PushedType
  <2> QED BY <2>1, <2>2
<1>9. Paid(listed, seen \cup items, k + PageSize, Cardinality(items \cap seen), steady, count)
  <2>1. /\ count.repeated + Cardinality(items \cap seen)
             + Cardinality(Pushed(l, listed, seen \cup items, k + PageSize)) <= count.came
        /\ Cardinality(Pulled(l, listed, steady \ (seen \cup items), k + PageSize)) <= count.left
    BY <1>1, <1>5, <1>6, <1>7, <1>8
  <2> QED BY <2>1 DEF Paid
<1> QED BY <1>1, <1>3, <1>4, <1>7, <1>9 DEF items, k

LEMMA NumberStep == Inv /\ Inv' /\ NumberInv /\ [Next]_vars => NumberInv'
<1> SUFFICES ASSUME Inv, Inv', NumberInv, [Next]_vars PROVE NumberInv'
  OBVIOUS
<1> DEFINE l == "notifications"
<1>1. /\ created \in Nat /\ listed \in SUBSET (1..created) /\ seen \in SUBSET (1..created)
      /\ steady \in SUBSET listed
      /\ walk.items \in SUBSET (1..created) /\ walk.page \in Nat /\ walk.total \in Nat
      /\ walk.came \in Nat /\ walk.came <= count.came
      /\ count.repeated \in Nat /\ count.came \in Nat /\ count.left \in Nat /\ count.late \in Nat
      /\ Walking => walk.list = l
      /\ ByCursor <=> walk.list # l
      /\ Cardinality(listed) \in Nat /\ Again \in Nat
  BY Facts DEF Inv
<1>2. /\ created' \in Nat /\ count'.repeated \in Nat /\ count'.came \in Nat /\ count'.left \in Nat
      /\ ByCursor' <=> walk'.list # l
  BY DEF Inv, TypeOK, ByCursor
<1>3. /\ ~ByCursor => count.repeated <= count.came
      /\ ~ByCursor /\ walk.pc = "done" => Cardinality(steady \ seen) <= count.left + count.late
      /\ walk.pc = "find" => Cardinality(listed) + walk.came <= walk.total + count.came
      /\ Walking => walk.page # 0 /\ Paid(listed, Shown, Passed, Again, steady, count)
  BY DEF NumberInv, RepeatsBounded, MissesBounded, Counted
<1>4. ASSUME ByCursor', ~Walking' PROVE NumberInv'
  BY <1>4 DEF NumberInv, RepeatsBounded, MissesBounded, Counted, Walking
\* The client's own steps.
<1>5. ASSUME NEW L \in Lists, Start(L) PROVE NumberInv'
  <2>1. walk' = Ask(L, 1) /\ count' = NoCount /\ seen' = {} /\ steady' = listed /\ listed' = listed
    BY <1>5 DEF Start
  <2>2. /\ walk'.pc = IF L = l THEN "offset" ELSE "cursor"
        /\ walk'.list = L /\ walk'.page = 1
        /\ count'.repeated = 0 /\ count'.came = 0 /\ count'.left = 0
    BY <2>1 DEF Ask, NoCount
  <2>3. CASE L # l
    BY <1>2, <1>4, <2>2, <2>3 DEF Walking
  <2>4. CASE L = l
    <3>1. walk'.pc = "offset" /\ Shown' = {} /\ Again' = 0 /\ Passed' = 0
      <4>1. Passed' = (1 - 1) * PageSize
        BY <2>2, <2>4 DEF Passed, OffsetSkip
      <4> QED BY <2>1, <2>2, <2>4, <4>1, PagesAssumption DEF Shown, Again
    <3>2. \A x : Rank(l, listed, x) \in Nat
      BY <1>1, Ranks
    <3>3. Pushed(l, listed, {}, 0) = {} /\ Pulled(l, listed, listed \ {}, 0) = {}
      BY <3>2 DEF Pushed, Pulled
    <3>4. Cardinality({}) = 0
      BY FS_EmptySet
    <3>5. Paid(listed', Shown', Passed', Again', steady', count')
      BY <2>1, <2>2, <3>1, <3>3, <3>4 DEF Paid
    <3> QED BY <2>2, <3>1, <3>5 DEF NumberInv, RepeatsBounded, MissesBounded, Counted
  <2> QED BY <2>3, <2>4
<1>6. CASE CursorPage
  <2>1. ByCursor /\ walk'.list = walk.list /\ walk'.pc \in {"cursor", "done"}
    BY <1>6 DEF CursorPage, Inv, Phases, TypeOK
  <2> QED BY <1>1, <1>2, <1>4, <2>1 DEF Walking
<1> DEFINE items == Take(walk.list, Skip(walk.list, listed, OffsetSkip(walk.page)), PageSize)
<1>7. ASSUME Walking, walk.pc # "count"
      PROVE  /\ items \in SUBSET (1..created) /\ Cardinality(items \cap seen) \in Nat
             /\ Paid(listed, seen \cup items, walk.page * PageSize, Cardinality(items \cap seen),
                     steady, count)
  BY <1>7, Paged
<1>8. CASE FindFirst
  <2>1. /\ listed' = listed /\ seen' = seen /\ steady' = steady /\ count' = count
        /\ walk' = [walk EXCEPT !.pc = "count", !.items = items] /\ walk.pc = "offset"
    BY <1>8 DEF FindFirst
  <2> HIDE DEF items
  <2>2. /\ walk'.pc = "count" /\ walk'.items = items /\ walk'.list = walk.list
        /\ walk'.page = walk.page
    BY <2>1 DEF Inv, TypeOK
  <2>3. Shown' = seen \cup items /\ Passed' = walk.page * PageSize
        /\ Again' = Cardinality(items \cap seen)
    BY <2>1, <2>2 DEF Shown, Passed, Again
  <2>4. Walking /\ Paid(listed', Shown', Passed', Again', steady', count')
    BY <1>7, <2>1, <2>3 DEF Walking
  <2> QED BY <1>1, <1>2, <1>3, <2>1, <2>2, <2>4
          DEF NumberInv, RepeatsBounded, MissesBounded, Counted
<1>9. CASE CountFirst
  <2>1. /\ listed' = listed /\ seen' = seen /\ steady' = steady /\ count' = count
        /\ walk' = [walk EXCEPT !.pc = "find", !.total = Cardinality(listed), !.came = count.came]
        /\ walk.pc = "offset"
    BY <1>9 DEF CountFirst
  <2>2. /\ walk'.pc = "find" /\ walk'.list = walk.list /\ walk'.page = walk.page
        /\ walk'.total = Cardinality(listed) /\ walk'.came = count.came
    BY <2>1 DEF Inv, TypeOK
  <2>3. Shown' = Shown /\ Passed' = Passed /\ Again' = Again
    BY <2>1, <2>2 DEF Shown, Passed, Again
  <2>4. Walking /\ Paid(listed', Shown', Passed', Again', steady', count')
    BY <1>3, <2>1, <2>3 DEF Walking
  <2> QED BY <1>1, <1>2, <1>3, <2>1, <2>2, <2>4
          DEF NumberInv, RepeatsBounded, MissesBounded, Counted
<1>10. CASE CountSecond
  <2>1. /\ walk.pc = "count" /\ Turn(Cardinality(listed)) /\ listed' = listed /\ steady' = steady
        /\ seen' = seen \cup walk.items
        /\ count' = [Recount(walk.items) EXCEPT !.late = 0]
    BY <1>10 DEF CountSecond
  <2>2. Walking /\ Again = Cardinality(walk.items \cap seen) /\ Shown = seen'
        /\ Passed = walk.page * PageSize
    BY <2>1 DEF Walking, Again, Shown, Passed
  <2>3. /\ count'.repeated = count.repeated + Again /\ count'.came = count.came
        /\ count'.left = count.left /\ count'.late = 0
    BY <2>1, <2>2 DEF Recount, Inv, TypeOK
  <2>4. Paid(listed, seen', walk.page * PageSize, 0, steady, count')
    <3>1. walk.page # 0 /\ Paid(listed, seen', walk.page * PageSize, Again, steady, count)
      BY <1>3, <2>2
    <3> DEFINE n == Cardinality(Pushed(l, listed, seen', walk.page * PageSize))
    <3>2. n \in Nat
      BY <1>1, PushedType
    <3>3. /\ count.repeated + Again + n <= count.came
          /\ Cardinality(Pulled(l, listed, steady \ seen', walk.page * PageSize)) <= count.left
      BY <3>1 DEF Paid
    <3> HIDE DEF n
    <3>4. count'.repeated + 0 + n <= count'.came
      BY <1>1, <2>3, <3>2, <3>3
    <3> QED BY <2>3, <3>3, <3>4 DEF Paid, n
  <2>5. Cardinality(listed) <= Cardinality(listed) + count'.late
    BY <1>1, <2>3
  <2> QED BY <1>1, <1>3, <2>1, <2>2, <2>4, <2>5, Turned
<1>11. CASE FindSecond
  <2>1. /\ walk.pc = "find" /\ Turn(walk.total) /\ listed' = listed /\ steady' = steady
        /\ seen' = seen \cup items
        /\ count' = [Recount(items) EXCEPT !.late = count.came - walk.came]
    BY <1>11 DEF FindSecond
  <2>2. Walking /\ walk.page # 0
    BY <1>3, <2>1 DEF Walking
  <2>3. items \in SUBSET (1..created) /\ Cardinality(items \cap seen) \in Nat
        /\ Paid(listed, seen', walk.page * PageSize, Cardinality(items \cap seen), steady, count)
    BY <1>7, <2>1, <2>2
  <2> HIDE DEF items
  <2>4. /\ count'.repeated = count.repeated + Cardinality(items \cap seen)
        /\ count'.came = count.came /\ count'.left = count.left
        /\ count'.late = count.came - walk.came
    BY <2>1 DEF Recount, Inv, TypeOK
  <2>5. Paid(listed, seen', walk.page * PageSize, 0, steady, count')
    <3> DEFINE n == Cardinality(Pushed(l, listed, seen', walk.page * PageSize))
    <3>1. n \in Nat
      BY <1>1, PushedType
    <3>2. /\ count.repeated + Cardinality(items \cap seen) + n <= count.came
          /\ Cardinality(Pulled(l, listed, steady \ seen', walk.page * PageSize)) <= count.left
      BY <2>3 DEF Paid
    <3> HIDE DEF n
    <3>3. count'.repeated + 0 + n <= count'.came
      BY <1>1, <2>3, <2>4, <3>1, <3>2
    <3> QED BY <2>4, <3>2, <3>3 DEF Paid, n
  <2>6. Cardinality(listed) <= walk.total + count'.late
    BY <1>1, <1>3, <2>1, <2>4
  <2> QED BY <1>1, <2>1, <2>2, <2>5, <2>6, Turned
<1> HIDE DEF items
\* What other requests do: the client's own state is left alone.
<1>12. ASSUME walk' = walk, seen' = seen PROVE Shown' = Shown /\ Passed' = Passed /\ Again' = Again
              /\ (ByCursor' <=> ByCursor) /\ (Walking' <=> Walking)
  BY <1>12 DEF Shown, Passed, Again, ByCursor, Walking
<1>13. Walking => Passed \in Nat
  BY <1>1, <1>3, Passing DEF Passed
<1>14. ASSUME walk' = walk, seen' = seen, steady' = steady, count' = [count EXCEPT !.came = count.came + 1],
              NEW n \in Nat, listed \in SUBSET (1..n), NEW z \in (1..n) \ listed, listed' = listed \cup {z}
       PROVE  NumberInv'
  <2>1. /\ count'.repeated = count.repeated /\ count'.came = count.came + 1
        /\ count'.left = count.left /\ count'.late = count.late
    BY <1>14 DEF Inv, TypeOK
  <2>2. ASSUME Walking PROVE Paid(listed', Shown', Passed', Again', steady', count')
    <3>1. Passed \in Nat /\ steady \ Shown \in SUBSET listed
      BY <1>1, <1>13, <2>2
    <3> DEFINE p == Cardinality(Pushed(l, listed, Shown, Passed))
               q == Cardinality(Pushed(l, listed', Shown, Passed))
               b == Cardinality(Pulled(l, listed, steady \ Shown, Passed))
               c == Cardinality(Pulled(l, listed', steady \ Shown, Passed))
    <3>2. q <= p + 1 /\ c <= b
      BY <1>14, <3>1, RowIn
    <3>3. p \in Nat /\ b \in Nat /\ q \in Nat /\ c \in Nat
      <4>1. listed' \in SUBSET (1..n) /\ steady \ Shown \in SUBSET listed'
        BY <1>14, <3>1
      <4> QED BY <1>14, <3>1, <4>1, PushedType
    <3>4. count.repeated + Again + p <= count.came /\ b <= count.left
      BY <1>3, <2>2 DEF Paid
    <3> HIDE DEF p, q, b, c
    <3>5. count'.repeated + Again + q <= count'.came /\ c <= count'.left
      BY <1>1, <2>1, <3>2, <3>3, <3>4
    <3> QED BY <1>12, <1>14, <3>5 DEF Paid, q, c
  <2>3. IsFiniteSet(listed) /\ z \notin listed
    BY <1>14, Finite
  <2>4. Cardinality(listed') = Cardinality(listed) + 1
    BY <1>14, <2>3, FS_AddElement
  <2>5. RepeatsBounded' /\ Counted'
    BY <1>1, <1>3, <1>12, <1>14, <2>1, <2>4 DEF RepeatsBounded, Counted
  <2>6. MissesBounded'
    BY <1>3, <1>12, <1>14, <2>1 DEF MissesBounded
  <2> QED BY <1>3, <1>12, <1>14, <2>2, <2>5, <2>6 DEF NumberInv
<1>15. ASSUME NEW z \in listed, Lose(z) PROVE NumberInv'
  <2>1. walk' = walk /\ seen' = seen /\ steady' = steady \ {z} /\ listed' = listed \ {z}
        /\ count' = [count EXCEPT !.left = count.left + 1]
    BY <1>15 DEF Lose
  <2>2. /\ count'.repeated = count.repeated /\ count'.came = count.came
        /\ count'.left = count.left + 1 /\ count'.late = count.late
    BY <2>1 DEF Inv, TypeOK
  <2>3. ASSUME Walking PROVE Paid(listed', Shown', Passed', Again', steady', count')
    <3>1. Passed \in Nat /\ steady \ Shown \in SUBSET listed
      BY <1>1, <1>13, <2>3
    <3> DEFINE p == Cardinality(Pushed(l, listed, Shown, Passed))
               q == Cardinality(Pushed(l, listed \ {z}, Shown, Passed))
               b == Cardinality(Pulled(l, listed, steady \ Shown, Passed))
               c == Cardinality(Pulled(l, listed \ {z}, (steady \ Shown) \ {z}, Passed))
    <3>2. q <= p /\ c <= b + 1
      BY <1>1, <1>15, <3>1, RowOut
    <3>3. p \in Nat /\ b \in Nat /\ q \in Nat /\ c \in Nat
      <4>1. /\ listed \ {z} \in SUBSET (1..created)
            /\ (steady \ Shown) \ {z} \in SUBSET (listed \ {z})
        BY <1>1, <3>1
      <4> QED BY <1>1, <3>1, <4>1, PushedType
    <3>4. count.repeated + Again + p <= count.came /\ b <= count.left
      BY <1>3, <2>3 DEF Paid
    <3>5. (steady \ Shown) \ {z} = steady' \ Shown
      BY <2>1
    <3> HIDE DEF p, q, b, c
    <3>6. count'.repeated + Again + q <= count'.came /\ c <= count'.left
      BY <1>1, <2>2, <3>2, <3>3, <3>4
    <3> QED BY <1>12, <2>1, <3>5, <3>6 DEF Paid, q, c
  <2>4. IsFiniteSet(listed) /\ Cardinality(listed) \in Nat
    BY <1>1, Finite
  <2>5. Cardinality(listed') = Cardinality(listed) - 1
    BY <1>15, <2>1, <2>4, FS_RemoveElement
  <2>6. RepeatsBounded' /\ Counted'
    BY <1>1, <1>3, <1>12, <2>1, <2>2, <2>5 DEF RepeatsBounded, Counted
  <2>7. MissesBounded'
    <3>1. steady \ seen \in SUBSET (1..created) /\ steady' \ seen \in SUBSET (steady \ seen)
          /\ steady' \ seen \in SUBSET (1..created)
      BY <1>1, <2>1
    <3>2. /\ Cardinality(steady \ seen) \in Nat /\ Cardinality(steady' \ seen) \in Nat
          /\ Cardinality(steady' \ seen) <= Cardinality(steady \ seen)
      BY <1>1, <3>1, Finite, FS_Subset
    <3> QED BY <1>1, <1>3, <1>12, <2>1, <2>2, <3>2 DEF MissesBounded
  <2> QED BY <1>3, <1>12, <2>1, <2>3, <2>6, <2>7 DEF NumberInv
<1>16. CASE Create
  <2>1. /\ walk' = walk /\ seen' = seen /\ steady' = steady
        /\ count' = [count EXCEPT !.came = count.came + 1] /\ listed' = listed \cup {created + 1}
    BY <1>16 DEF Create
  <2>2. /\ created + 1 \in Nat /\ listed \in SUBSET (1..(created + 1))
        /\ created + 1 \in (1..(created + 1)) \ listed
    BY <1>1
  <2> QED BY <1>14, <2>1, <2>2
<1>17. ASSUME NEW z, ComeBack(z) PROVE NumberInv'
  <2>1. /\ walk' = walk /\ seen' = seen /\ steady' = steady /\ z \in table \ listed
        /\ count' = [count EXCEPT !.came = count.came + 1] /\ listed' = listed \cup {z}
    BY <1>17 DEF ComeBack
  <2>2. z \in (1..created) \ listed
    BY <2>1 DEF Inv, TypeOK
  <2> QED BY <1>1, <1>14, <2>1, <2>2
<1>18. CASE UNCHANGED vars
  <2>1. walk' = walk /\ seen' = seen /\ steady' = steady /\ listed' = listed /\ count' = count
    BY <1>18 DEF vars
  <2> QED BY <1>3, <1>12, <2>1 DEF NumberInv, RepeatsBounded, MissesBounded, Counted
<1>19. CASE Next
  BY <1>5, <1>6, <1>8, <1>9, <1>10, <1>11, <1>15, <1>16, <1>17, <1>19
     DEF Next, Read, Delete, Leave
<1> QED BY <1>18, <1>19

LEMMA NumberInvariance == Spec => []NumberInv
<1>1. Init => NumberInv
  BY DEF Init, Idle, NumberInv, RepeatsBounded, MissesBounded, Counted, ByCursor, Walking
<1> QED BY <1>1, Invariance, NumberStep, PTL DEF Spec

-----------------------------------------------------------------------------
(* The theorems. *)

\* Whatever is created, deleted or changes its status while a client walks a list by cursor
\* (baseRepository.ts:210), no page shows it a row that an earlier one did.
THEOREM NeverRepeats == Spec => []NoRepeats
<1>1. Inv => NoRepeats
  BY DEF Inv
<1> QED BY Invariance, <1>1, PTL

\* A walk by cursor that ended has shown every row that was in the list throughout, if the
\* rows it had for cursors were in the list when the next page was asked for.
THEOREM CursorsComplete == Spec => []CursorComplete
<1>1. Inv => CursorComplete
  BY DEF Inv
<1> QED BY Invariance, <1>1, PTL

\* However the list changes, a walk by number (baseRepository.ts:155) shows again at most one
\* row for each that came into the list while it went on.
THEOREM RepeatsPaid == Spec => []RepeatsBounded
<1>1. NumberInv => RepeatsBounded
  BY DEF NumberInv
<1> QED BY NumberInvariance, <1>1, PTL

\* And one that ended has missed, of the rows that were in the list throughout, at most one
\* for each that left it, and one for each that came between the count and the find of its
\* last page.
THEOREM MissesPaid == Spec => []MissesBounded
<1>1. NumberInv => MissesBounded
  BY DEF NumberInv
<1> QED BY NumberInvariance, <1>1, PTL
=============================================================================
