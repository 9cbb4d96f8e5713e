--------------------------- MODULE KeyLoop_proofs ---------------------------
(***************************************************************************)
(* Proofs about RangeOps and KeyLoop: the mark stays on its line, a key    *)
(* sequence is the documented command and no other, and a command is for   *)
(* exactly the files meant; for any number of files, keys and commands.    *)
(***************************************************************************)
EXTENDS KeyLoop, TLAPS, FiniteSetTheorems, SequenceTheorems, WellFoundedInduction

-----------------------------------------------------------------------------
(* Numbers.                                                                *)

LEMMA MaxOfTwo ==
  ASSUME NEW a \in Int, NEW b \in Int
  PROVE  Max({a, b}) = IF a >= b THEN a ELSE b
<1> DEFINE m == IF a >= b THEN a ELSE b
<1>1. m \in {a, b} /\ \A y \in {a, b} : m >= y
  OBVIOUS
<1>2. Max({a, b}) \in {a, b} /\ \A y \in {a, b} : Max({a, b}) >= y
  BY <1>1 DEF Max
<1> QED
  BY <1>1, <1>2

LEMMA MinOfTwo ==
  ASSUME NEW a \in Int, NEW b \in Int
  PROVE  Min({a, b}) = IF a <= b THEN a ELSE b
<1> DEFINE m == IF a <= b THEN a ELSE b
<1>1. m \in {a, b} /\ \A y \in {a, b} : m <= y
  OBVIOUS
<1>2. Min({a, b}) \in {a, b} /\ \A y \in {a, b} : Min({a, b}) <= y
  BY <1>1 DEF Min
<1> QED
  BY <1>1, <1>2

\* The smallest and the largest number of a set
LEMMA LeastIs ==
  ASSUME NEW S \in SUBSET Int, NEW x \in S, \A y \in S : x <= y
  PROVE  Min(S) = x
<1>1. Min(S) \in S /\ \A y \in S : Min(S) =< y
  BY DEF Min
<1>2. x \in Int /\ Min(S) \in Int
  BY <1>1
<1> QED
  BY <1>1, <1>2

LEMMA LargestIs ==
  ASSUME NEW S \in SUBSET Int, NEW x \in S, \A y \in S : x >= y
  PROVE  Max(S) = x
<1>1. Max(S) \in S /\ \A y \in S : Max(S) >= y
  BY DEF Max
<1>2. x \in Int /\ Max(S) \in Int
  BY <1>1
<1> QED
  BY <1>1, <1>2

\* A set of natural numbers that has one has a least one.
LEMMA LeastExists ==
  ASSUME NEW S \in SUBSET Nat, S # {}
  PROVE  \E x \in S : \A y \in S : x <= y
<1> DEFINE Less == {p \in Nat \X Nat : p[1] < p[2]}
<1>1. IsWellFoundedOn(Less, Nat)
  BY NatLessThanWellFounded, Zenon DEF OpToRel
<1>2. \E x \in S : \A y \in S : ~(<<y, x>> \in Less)
  <2> HIDE DEF Less
  <2> QED
    BY <1>1, WFMin, Zenon
<1>3. ASSUME NEW x \in S, NEW y \in S, ~(<<y, x>> \in Less)
      PROVE  x <= y
  <2>1. x \in Nat /\ y \in Nat
    OBVIOUS
  <2> QED
    BY <2>1, <1>3
<1> QED
  BY <1>2, <1>3

\* What holds before a loop and is kept by each of its n turns holds at the
\* end: the turns after which it holds are a set.
LEMMA AfterAllTurns ==
  ASSUME NEW n \in Nat, NEW P, 0 \in P,
         \A k \in 1..n : k - 1 \in P => k \in P
  PROVE  \A k \in 0..n : k \in P
<1> SUFFICES ASSUME {k \in 0..n : k \notin P} # {} PROVE FALSE
  OBVIOUS
<1>1. PICK k \in {i \in 0..n : i \notin P} : \A y \in {i \in 0..n : i \notin P} : k <= y
  <2>1. {i \in 0..n : i \notin P} \in SUBSET Nat
    OBVIOUS
  <2> QED
    BY <2>1, LeastExists
<1>2. k # 0 /\ k \in 0..n
  OBVIOUS
<1>3. k - 1 \in 0..n /\ k \in 1..n
  BY <1>2
<1>4. k - 1 \in P
  BY <1>1, <1>3
<1> QED
  BY <1>3, <1>4

-----------------------------------------------------------------------------
(* InOrder(S) has each number of S, and each once.                         *)
LEMMA RanksDiffer ==
  ASSUME NEW S \in SUBSET Int, IsFiniteSet(S), NEW x \in S, NEW y \in S, x < y
  PROVE  Cardinality({z \in S : z <= x}) < Cardinality({z \in S : z <= y})
<1> DEFINE A == {z \in S : z <= x}
           B == {z \in S : z <= y}
<1>1. IsFiniteSet(B)
  BY FS_Subset
<1>2. A \in SUBSET B /\ y \in B /\ y \notin A
  <2>1. x \in Int /\ y \in Int
    OBVIOUS
  <2>2. ASSUME NEW z \in S, z <= x PROVE z <= y
    <3>1. z \in Int
      OBVIOUS
    <3> QED
      BY <2>1, <2>2, <3>1
  <2>3. A \subseteq B
    BY <2>2
  <2>4. y \in B
    BY <2>1
  <2>5. y \notin A
    BY <2>1
  <2> QED
    BY <2>3, <2>4, <2>5
<1> HIDE DEF A, B
<1>3. Cardinality(A) <= Cardinality(B) /\ Cardinality(A) # Cardinality(B)
  BY <1>1, <1>2, FS_Subset
<1>4. Cardinality(A) \in Nat /\ Cardinality(B) \in Nat
  BY <1>1, <1>2, FS_Subset, FS_CardinalityType
<1> QED
  BY <1>3, <1>4 DEF A, B

LEMMA InOrderOf ==
  ASSUME NEW S \in SUBSET Int, IsFiniteSet(S)
  PROVE  /\ Cardinality(S) \in Nat
         /\ InOrder(S) \in [1..Cardinality(S) -> S] /\ InOrder(S) \in Seq(S)
         /\ Len(InOrder(S)) = Cardinality(S)
         /\ \A x \in S : \E i \in 1..Cardinality(S) : InOrder(S)[i] = x
         /\ \A i, j \in 1..Cardinality(S) : InOrder(S)[i] = InOrder(S)[j] => i = j
         /\ ToSet(InOrder(S)) = S
<1> DEFINE n == Cardinality(S)
           q == InOrder(S)
           R(x) == Cardinality({y \in S : y <= x})
           rank == [x \in S |-> R(x)]
<1>0. n \in Nat
  BY FS_CardinalityType
<1>1. ASSUME NEW x \in S PROVE R(x) \in 1..n
  <2>1. R(x) \in Nat /\ R(x) <= n
    BY <1>0, FS_Subset, FS_CardinalityType
  <2>2. {y \in S : y <= x} # {} /\ IsFiniteSet({y \in S : y <= x})
    BY FS_Subset
  <2>3. R(x) # 0
    BY <2>2, FS_EmptySet
  <2> QED
    BY <1>0, <2>1, <2>3
<1>2. ASSUME NEW x \in S, NEW y \in S, R(x) = R(y) PROVE x = y
  <2>1. R(x) \in 1..n /\ R(y) \in 1..n
    BY <1>1
  <2>2. x < y => R(x) < R(y)
    BY RanksDiffer
  <2>3. y < x => R(y) < R(x)
    BY RanksDiffer
  <2> QED
    BY <2>1, <2>2, <2>3, <1>2
<1>3. ASSUME NEW i \in 1..n PROVE \E x \in S : R(x) = i
  <2>1. rank \in Injection(S, 1..n)
    <3> HIDE DEF R
    <3>1. rank \in [S -> 1..n]
      BY <1>1
    <3>2. \A x, y \in S : rank[x] = rank[y] => x = y
      BY <1>2
    <3> QED
      BY <3>1, <3>2 DEF Injection, IsInjective
  <2>2. IsFiniteSet(1..n) /\ Cardinality(1..n) = n
    BY <1>0, FS_Interval
  <2>3. rank \in Surjection(S, 1..n)
    <3> HIDE DEF rank
    <3> QED
      BY <2>1, <2>2, FS_Injection
  <2>4. \E x \in S : rank[x] = i
    BY <2>3 DEF Surjection
  <2> QED
    BY <2>4
<1>4. ASSUME NEW i \in 1..n PROVE q[i] \in S /\ R(q[i]) = i
  <2>1. q[i] = CHOOSE x \in S : R(x) = i
    BY DEF InOrder
  <2> HIDE DEF R, q
  <2> QED
    BY <2>1, <1>3
<1>5. q \in [1..n -> S]
  BY <1>4 DEF InOrder
<1>6. ASSUME NEW x \in S PROVE \E i \in 1..n : q[i] = x
  <2>1. R(x) \in 1..n
    BY <1>1
  <2>2. q[R(x)] \in S /\ R(q[R(x)]) = R(x)
    BY <2>1, <1>4
  <2>3. q[R(x)] = x
    BY <2>2, <1>2
  <2> QED
    BY <2>1, <2>3
<1>7. ASSUME NEW i \in 1..n, NEW j \in 1..n, q[i] = q[j] PROVE i = j
  BY <1>4, <1>7
<1>8. q \in Seq(S) /\ Len(q) = n
  <2> HIDE DEF q, n
  <2> QED
    BY <1>0, <1>5
<1>9. ToSet(q) = S
  <2> HIDE DEF q, n
  <2> QED
    BY <1>5, <1>6 DEF ToSet
<1> QED
  BY <1>0, <1>5, <1>6, <1>7, <1>8, <1>9

-----------------------------------------------------------------------------
(* The list.  Made: its lines are those of diff_db_sort(); Marking: the    *)
(* mark is on its line, or is not in the list; Good: all that a command    *)
(* relies on.                                                              *)
Files2 == SUBSET (Entry \X {1, 2})
ListType ==
  [mode : {"bmode", "fmode", "diff"}, col : {0, 1}, disk : Files2, type : Files2,
   hidden : SUBSET Entry, list : Seq(Entry \cup {DotDot}), multi : SUBSET Entry,
   prev : {None} \cup 0..NumEntry, mark : Entry \cup {None, Global}, idx : Int, cur : Int]
Made(r)    == r.list = InOrder(Shown(r))
CurIn(r)   == r.cur \in 0..Max({0, db_num(r) - 1})
Unmarking(r) == r.mark \notin Entry => r.idx = None
Marking(r) == /\ Unmarking(r)
              /\ r.mark \in Entry => r.idx \in 0..(db_num(r) - 1) /\ At(r, r.idx) = r.mark
Good(r)    == r \in ListType /\ Made(r) /\ CurIn(r) /\ Marking(r)

LEMMA EntryIs ==
  /\ NumEntry \in Nat /\ Entry = 1..NumEntry /\ DotDot = 0 /\ None = -1 /\ Global = -2
  /\ Foreign = -3 /\ None \notin Entry /\ Global \notin Entry /\ DotDot \notin Entry
  /\ Entry \subseteq Int /\ None \in Int /\ Global \in Int
BY RangeOpsAssumption DEF Entry, DotDot, None, Global, Foreign

LEMMA ShownIs ==
  ASSUME NEW r \in ListType
  PROVE  /\ Shown(r) \subseteq Entry \cup {DotDot} /\ Shown(r) \in SUBSET Int
         /\ IsFiniteSet(Shown(r)) /\ Cardinality(Shown(r)) \in 0..(NumEntry + 1)
<1>1. Shown(r) \subseteq Entry \cup {DotDot}
  BY DEF Shown
<1>2. Shown(r) \in SUBSET (0..NumEntry)
  BY <1>1, EntryIs
<1>3. IsFiniteSet(0..NumEntry) /\ Cardinality(0..NumEntry) = NumEntry + 1
  <2>1. NumEntry \in Int /\ 0 \in Int /\ ~(0 > NumEntry)
    BY EntryIs
  <2> QED
    BY <2>1, FS_Interval
<1>4. IsFiniteSet(Shown(r)) /\ Cardinality(Shown(r)) <= NumEntry + 1
  BY <1>2, <1>3, FS_Subset
<1>5. Cardinality(Shown(r)) \in Nat
  BY <1>4, FS_CardinalityType
<1> QED
  BY <1>1, <1>2, <1>4, <1>5, EntryIs

\* The lines of a list are the entries that are shown, each on one line.
LEMMA LinesAre ==
  ASSUME NEW r \in ListType, Made(r)
  PROVE  /\ db_num(r) \in 0..(NumEntry + 1)
         /\ \A v \in 0..(db_num(r) - 1) : At(r, v) \in Shown(r)
         /\ \A e \in Shown(r) : \E v \in 0..(db_num(r) - 1) : At(r, v) = e
         /\ \A v, w \in 0..(db_num(r) - 1) : At(r, v) = At(r, w) => v = w
         /\ ToSet(r.list) = Shown(r)
<1> DEFINE S == Shown(r)
           n == Cardinality(S)
<1>1. S \in SUBSET Int /\ IsFiniteSet(S) /\ n \in 0..(NumEntry + 1)
  BY ShownIs
<1> HIDE DEF S
<1>2. /\ InOrder(S) \in [1..n -> S] /\ Len(InOrder(S)) = n
      /\ \A x \in S : \E i \in 1..n : InOrder(S)[i] = x
      /\ \A i, j \in 1..n : InOrder(S)[i] = InOrder(S)[j] => i = j
      /\ ToSet(InOrder(S)) = S
  BY <1>1, InOrderOf
<1>3. r.list = InOrder(S)
  BY DEF Made, S
<1>4. db_num(r) = n
  BY <1>2, <1>3 DEF db_num
<1> HIDE DEF n
<1>5. \A v \in 0..(n - 1) : v + 1 \in 1..n /\ At(r, v) = InOrder(S)[v + 1]
  BY <1>1, <1>3 DEF At
<1>6. \A i \in 1..n : i - 1 \in 0..(n - 1) /\ (i - 1) + 1 = i
  BY <1>1
<1>7. ASSUME NEW e \in S PROVE \E v \in 0..(n - 1) : At(r, v) = e
  <2>1. PICK i \in 1..n : InOrder(S)[i] = e
    BY <1>2
  <2>2. i - 1 \in 0..(n - 1) /\ (i - 1) + 1 = i
    BY <1>6
  <2>3. At(r, i - 1) = e
    BY <2>1, <2>2, <1>5
  <2> QED
    BY <2>2, <2>3
<1>8. ASSUME NEW v \in 0..(n - 1), NEW w \in 0..(n - 1), At(r, v) = At(r, w) PROVE v = w
  <2>1. v + 1 = w + 1
    BY <1>2, <1>5, <1>8
  <2> QED
    BY <1>1, <2>1
<1>9. \A v \in 0..(n - 1) : At(r, v) \in S
  BY <1>2, <1>5
<1> QED
  BY <1>1, <1>2, <1>3, <1>4, <1>7, <1>8, <1>9 DEF S

LEMMA ShownOfFields ==
  ASSUME NEW r, NEW s, r.type = s.type, r.hidden = s.hidden, r.mode = s.mode
  PROVE  Shown(r) = Shown(s)
BY DEF Shown, On

\* Changes that leave the lines and the marking alone.
LEMMA SameLines ==
  ASSUME NEW r \in ListType, NEW s \in ListType, Good(r),
         s.type = r.type, s.hidden = r.hidden, s.mode = r.mode, s.list = r.list
  PROVE  /\ Made(s) /\ db_num(s) = db_num(r) /\ \A v : At(s, v) = At(r, v)
         /\ s.mark = r.mark /\ s.idx = r.idx => Marking(s)
<1>1. Made(s)
  BY ShownOfFields DEF Good, Made
<1> QED
  BY <1>1 DEF Good, Marking, Unmarking, db_num, At

LEMMA SortedIs ==
  ASSUME NEW r \in ListType
  PROVE  /\ diff_db_sort(r) \in ListType /\ Made(diff_db_sort(r))
         /\ diff_db_sort(r) = [r EXCEPT !.list = InOrder(Shown(r))]
<1> DEFINE s == diff_db_sort(r)
<1>1. InOrder(Shown(r)) \in Seq(Entry \cup {DotDot})
  <2>1. InOrder(Shown(r)) \in Seq(Shown(r)) /\ Shown(r) \subseteq Entry \cup {DotDot}
    BY ShownIs, InOrderOf
  <2> QED
    BY <2>1
<1>2. s = [r EXCEPT !.list = InOrder(Shown(r))]
  BY DEF diff_db_sort
<1> HIDE DEF s
<1>3. s \in ListType
  BY <1>1, <1>2 DEF ListType
<1>4. s.list = InOrder(Shown(r)) /\ s.type = r.type /\ s.hidden = r.hidden /\ s.mode = r.mode
  BY <1>2 DEF ListType
<1>5. Made(s)
  BY <1>4, ShownOfFields DEF Made
<1> QED
  BY <1>2, <1>3, <1>5 DEF s

LEMMA ClampedIs ==
  ASSUME NEW r \in ListType, Made(r)
  PROVE  LET s == ClampCursor(r)
         IN  /\ s \in ListType /\ Made(s) /\ CurIn(s)
             /\ s = [r EXCEPT !.cur = s.cur]
<1> DEFINE m == db_num(r) - 1
           c == Max({0, Min({r.cur, m})})
           s == ClampCursor(r)
<1>1. m \in Int /\ r.cur \in Int
  BY LinesAre, EntryIs DEF ListType
<1>2. Min({r.cur, m}) \in Int /\ Min({r.cur, m}) <= m
  BY <1>1, MinOfTwo
<1>3. c \in 0..Max({0, m}) /\ c \in Int
  BY <1>1, <1>2, MaxOfTwo
<1>4. s = [r EXCEPT !.cur = c]
  BY DEF ClampCursor
<1> HIDE DEF s, c, m
<1>5. s \in ListType /\ s.cur = c
  BY <1>3, <1>4 DEF ListType
<1>6. s.list = r.list /\ s.type = r.type /\ s.hidden = r.hidden /\ s.mode = r.mode
  BY <1>4 DEF ListType
<1>7. Made(s) /\ db_num(s) = db_num(r)
  BY <1>6, ShownOfFields DEF Made, db_num
<1>8. CurIn(s)
  BY <1>3, <1>5, <1>7 DEF CurIn, m
<1> QED
  BY <1>4, <1>5, <1>7, <1>8 DEF s

LEMMA NamedIs ==
  ASSUME NEW r \in ListType, Made(r), NEW p
  PROVE  LET s == findlistname(r, p)
         IN  /\ s \in ListType /\ Made(s) /\ CurIn(s)
             /\ s = [r EXCEPT !.cur = s.cur]
<1> DEFINE at == {v \in 0..(db_num(r) - 1) : db_num(p) > 0 /\ At(r, v) = At(p, p.cur)}
           c == IF at = {} THEN 0 ELSE Min(at)
           s == findlistname(r, p)
<1>1. s = [r EXCEPT !.cur = c]
  BY DEF findlistname
<1>4. db_num(r) \in Nat
  BY LinesAre, EntryIs
<1>5. c \in Int /\ c \in 0..Max({0, db_num(r) - 1})
  <2>1. CASE at = {}
    <3>1. Max({0, db_num(r) - 1}) \in Nat
      BY <1>4, MaxOfTwo
    <3> QED
      BY <2>1, <3>1
  <2>2. CASE at # {}
    <3>1. at \in SUBSET Nat
      OBVIOUS
    <3> HIDE DEF at
    <3>2. Min(at) \in at
      BY <2>2, <3>1, LeastExists DEF Min
    <3>3. Min(at) \in 0..(db_num(r) - 1)
      BY <3>2 DEF at
    <3>4. Max({0, db_num(r) - 1}) >= db_num(r) - 1
      BY <1>4, MaxOfTwo
    <3>5. Max({0, db_num(r) - 1}) \in Int
      BY <1>4, MaxOfTwo
    <3> QED
      BY <1>4, <2>2, <3>3, <3>4, <3>5
  <2> QED
    BY <2>1, <2>2
<1> HIDE DEF s, c, at
<1>6. s \in ListType /\ s.cur = c
  BY <1>1, <1>5 DEF ListType
<1>7. s.list = r.list /\ s.type = r.type /\ s.hidden = r.hidden /\ s.mode = r.mode
  BY <1>1 DEF ListType
<1>8. Made(s) /\ db_num(s) = db_num(r)
  BY <1>7, ShownOfFields DEF Made, db_num
<1>9. CurIn(s)
  BY <1>5, <1>6, <1>8 DEF CurIn
<1> QED
  BY <1>1, <1>6, <1>8, <1>9 DEF s

LEMMA UnmarkedIs ==
  ASSUME NEW r \in ListType, Unmarking(r)
  PROVE  LET s == Unmarked(r)
         IN  /\ s \in ListType /\ s.mark \notin Entry /\ s.idx = None
             /\ s = [r EXCEPT !.mark = s.mark, !.idx = s.idx]
<1>0. None \in Int /\ Global \in Int /\ None \notin Entry /\ Global \notin Entry
  BY EntryIs
<1>1. CASE r.mark \in Entry
  BY <1>0, <1>1 DEF Unmarked, mark_global, clr_mark, ListType
<1>2. CASE r.mark \notin Entry
  BY <1>0, <1>2 DEF Unmarked, Unmarking, ListType
<1> QED
  BY <1>1, <1>2

\* The list that was read again: of what is on the disk, without marks.
LEMMA RebuiltIs ==
  ASSUME NEW r \in ListType, Unmarking(r)
  PROVE  LET s == rebuild_db(r)
         IN  /\ Good(s) /\ s.mark \notin Entry /\ s.multi = {} /\ s.type = r.disk
             /\ s.disk = r.disk /\ s.mode = r.mode /\ s.col = r.col
             /\ s.hidden = r.hidden /\ s.prev = r.prev
<1> DEFINE a == Unmarked(r)
           b == [a EXCEPT !.type = r.disk, !.multi = {}]
           c == diff_db_sort(b)
           s == ClampCursor(c)
<1>1. a \in ListType /\ a.mark \notin Entry /\ a.idx = None
      /\ a = [r EXCEPT !.mark = a.mark, !.idx = a.idx]
  BY UnmarkedIs
<1> HIDE DEF a
<1>2. b \in ListType /\ b.mark \notin Entry /\ b.idx = None /\ b.multi = {} /\ b.type = r.disk
      /\ b.disk = r.disk /\ b.mode = r.mode /\ b.col = r.col /\ b.hidden = r.hidden
      /\ b.prev = r.prev
  BY <1>1 DEF ListType
<1> HIDE DEF b
<1>3. c \in ListType /\ Made(c) /\ c = [b EXCEPT !.list = InOrder(Shown(b))]
  BY <1>2, SortedIs
<1> HIDE DEF c
<1>4. c.mark = b.mark /\ c.idx = b.idx /\ c.multi = b.multi /\ c.type = b.type
      /\ c.disk = b.disk /\ c.mode = b.mode /\ c.col = b.col /\ c.hidden = b.hidden
      /\ c.prev = b.prev
  BY <1>2, <1>3 DEF ListType
<1>5. s \in ListType /\ Made(s) /\ CurIn(s) /\ s = [c EXCEPT !.cur = s.cur]
  BY <1>3, ClampedIs
<1>6. rebuild_db(r) = s
  BY DEF rebuild_db, a, b, c, s
<1> HIDE DEF s
<1>7. s.mark = c.mark /\ s.idx = c.idx /\ s.multi = c.multi /\ s.type = c.type
      /\ s.disk = c.disk /\ s.mode = c.mode /\ s.col = c.col /\ s.hidden = c.hidden
      /\ s.prev = c.prev
  BY <1>3, <1>5 DEF ListType
<1>8. Good(s)
  BY <1>2, <1>4, <1>5, <1>7 DEF Good, Marking, Unmarking
<1> QED
  BY <1>2, <1>4, <1>6, <1>7, <1>8

\* The same with the cursor at its name.
LEMMA RereadIs ==
  ASSUME NEW r \in ListType, Unmarking(r)
  PROVE  LET s == rebuild_db_1(r)
         IN  /\ Good(s) /\ s.mark \notin Entry /\ s.multi = {} /\ s.type = r.disk
             /\ s.disk = r.disk /\ s.mode = r.mode /\ s.col = r.col
             /\ s.hidden = r.hidden /\ s.prev = r.prev
<1> DEFINE b == rebuild_db(r)
           s == findlistname(b, r)
<1>1. /\ Good(b) /\ b.mark \notin Entry /\ b.multi = {} /\ b.type = r.disk
      /\ b.disk = r.disk /\ b.mode = r.mode /\ b.col = r.col
      /\ b.hidden = r.hidden /\ b.prev = r.prev
  BY RebuiltIs
<1>2. rebuild_db_1(r) = s
  BY DEF rebuild_db_1
<1> HIDE DEF b
<1>3. b \in ListType /\ Made(b)
  BY <1>1 DEF Good
<1>4. s \in ListType /\ Made(s) /\ CurIn(s) /\ s = [b EXCEPT !.cur = s.cur]
  BY <1>3, NamedIs
<1> HIDE DEF s
<1>5. s.mark = b.mark /\ s.idx = b.idx /\ s.multi = b.multi /\ s.type = b.type
      /\ s.disk = b.disk /\ s.mode = b.mode /\ s.col = b.col /\ s.hidden = b.hidden
      /\ s.prev = b.prev
  BY <1>3, <1>4 DEF ListType
<1>6. Good(s)
  BY <1>1, <1>4, <1>5 DEF Good, Marking, Unmarking
<1> QED
  BY <1>1, <1>2, <1>5, <1>6

\* The list that was sorted or filtered again: with a local mark, its
\* entries have to be the same.
LEMMA ResortedIs ==
  ASSUME NEW r, Good(r), NEW h \in SUBSET Entry, h = r.hidden \/ r.idx < 0
  PROVE  LET s == re_sort_list([r EXCEPT !.hidden = h])
         IN  /\ Good(s) /\ s.mark = r.mark /\ s.multi = r.multi /\ s.type = r.type
             /\ s.disk = r.disk /\ s.mode = r.mode /\ s.col = r.col
             /\ s.hidden = h /\ s.prev = r.prev
<1> DEFINE a == [r EXCEPT !.hidden = h]
           b == diff_db_sort(a)
           s == findlistname(b, a)
<1>1. a \in ListType /\ a.mark = r.mark /\ a.idx = r.idx /\ a.multi = r.multi /\ a.type = r.type
      /\ a.disk = r.disk /\ a.mode = r.mode /\ a.col = r.col /\ a.hidden = h /\ a.prev = r.prev
      /\ a.list = r.list
  BY DEF Good, ListType
<1>6. re_sort_list(a) = s
  BY DEF re_sort_list
<1> HIDE DEF a
<1>2. b \in ListType /\ Made(b) /\ b = [a EXCEPT !.list = InOrder(Shown(a))]
  BY <1>1, SortedIs
<1> HIDE DEF b
<1>3. b.mark = r.mark /\ b.idx = r.idx /\ b.multi = r.multi /\ b.type = r.type
      /\ b.disk = r.disk /\ b.mode = r.mode /\ b.col = r.col /\ b.hidden = h /\ b.prev = r.prev
      /\ b.list = InOrder(Shown(a))
  BY <1>1, <1>2 DEF ListType
<1>5. s \in ListType /\ Made(s) /\ CurIn(s) /\ s = [b EXCEPT !.cur = s.cur]
  BY <1>2, NamedIs
<1> HIDE DEF s
<1>7. s.mark = b.mark /\ s.idx = b.idx /\ s.multi = b.multi
      /\ s.type = b.type /\ s.disk = b.disk /\ s.mode = b.mode /\ s.col = b.col
      /\ s.hidden = b.hidden /\ s.prev = b.prev /\ s.list = b.list
  BY <1>2, <1>5 DEF ListType
<1>8. Made(s) /\ CurIn(s)
  BY <1>5
<1>9. Marking(s)
  <2>1. CASE h = r.hidden
    <3>1. r.list = InOrder(Shown(r)) /\ Shown(a) = Shown(r)
      BY <1>1, <2>1, ShownOfFields DEF Good, Made
    <3>2. s.list = r.list
      BY <1>3, <1>7, <3>1
    <3> QED
      BY <1>3, <1>7, <3>2 DEF Good, Marking, Unmarking, db_num, At
  <2>2. CASE r.idx < 0
    <3>1. r.mark \notin Entry
      <4>1. r.mark \in Entry => r.idx \in 0..(db_num(r) - 1)
        BY DEF Good, Marking
      <4>2. r.idx \in Int
        BY DEF Good, ListType
      <4> QED
        BY <2>2, <4>1, <4>2
    <3> QED
      BY <1>3, <1>7, <3>1 DEF Good, Marking, Unmarking
  <2> QED
    BY <2>1, <2>2
<1> QED
  BY <1>3, <1>5, <1>6, <1>7, <1>8, <1>9 DEF a, Good

\* Marks.
LEMMA ClearedIs ==
  ASSUME NEW r, Good(r)
  PROVE  LET s == clr_mark(r)
         IN  /\ Good(s) /\ s.mark = None /\ s.idx = None
             /\ s = [r EXCEPT !.mark = None, !.idx = None]
<1> DEFINE s == clr_mark(r)
<1>1. s = [r EXCEPT !.mark = None, !.idx = None]
  BY DEF clr_mark
<1> HIDE DEF s
<1>2. s \in ListType /\ s.mark = None /\ s.idx = None /\ s.type = r.type /\ s.hidden = r.hidden
      /\ s.mode = r.mode /\ s.list = r.list /\ s.cur = r.cur
  BY <1>1, EntryIs DEF Good, ListType
<1>3. Made(s) /\ CurIn(s)
  BY <1>2, ShownOfFields DEF Good, Made, CurIn, db_num
<1> QED
  BY <1>1, <1>2, <1>3, EntryIs DEF Good, Marking, Unmarking, s

LEMMA MarkSetIs ==
  ASSUME NEW r, Good(r)
  PROVE  LET s == set_mark(r)
         IN  /\ Good(s) /\ s.multi = r.multi /\ s.type = r.type
             /\ s.disk = r.disk /\ s.mode = r.mode /\ s.col = r.col
             /\ s.hidden = r.hidden /\ s.prev = r.prev
<1> DEFINE s == [r EXCEPT !.mark = At(r, r.cur), !.idx = r.cur]
<1>1. CASE db_num(r) = 0 \/ At(r, r.cur) = DotDot
  BY <1>1 DEF set_mark
<1>2. CASE ~(db_num(r) = 0 \/ At(r, r.cur) = DotDot)
  <2>1. r.cur \in 0..(db_num(r) - 1)
    <3>1. db_num(r) \in Nat /\ db_num(r) # 0
      BY <1>2, LinesAre, EntryIs DEF Good
    <3>2. Max({0, db_num(r) - 1}) = db_num(r) - 1
      BY <3>1, MaxOfTwo
    <3> QED
      BY <3>1, <3>2 DEF Good, CurIn
  <2>2. At(r, r.cur) \in Entry
    <3>1. At(r, r.cur) \in Shown(r) /\ Shown(r) \subseteq Entry \cup {DotDot}
      BY <2>1, LinesAre, ShownIs DEF Good
    <3> QED
      BY <1>2, <3>1
  <2>3. set_mark(r) = s
    BY <1>2 DEF set_mark
  <2>4. s \in ListType /\ s.mark = At(r, r.cur) /\ s.idx = r.cur /\ s.multi = r.multi
        /\ s.type = r.type /\ s.disk = r.disk /\ s.mode = r.mode /\ s.col = r.col
        /\ s.hidden = r.hidden /\ s.prev = r.prev /\ s.list = r.list /\ s.cur = r.cur
    BY <2>2 DEF Good, ListType
  <2> HIDE DEF s
  <2>5. Made(s) /\ CurIn(s)
    BY <2>4, ShownOfFields DEF Good, Made, CurIn, db_num
  <2>6. Marking(s)
    BY <2>1, <2>2, <2>4 DEF Marking, Unmarking, db_num, At
  <2> QED
    BY <2>3, <2>4, <2>5, <2>6 DEF Good
<1> QED
  BY <1>1, <1>2

\* The entries of a range are in the list.
LEMMA EntriesOf ==
  ASSUME NEW r, Good(r), NEW a \in Int, NEW b \in Int, 0 <= a, b <= db_num(r) - 1
  PROVE  EntriesAt(r, a, b) \subseteq Shown(r)
<1>1. db_num(r) \in Int /\ \A v \in 0..(db_num(r) - 1) : At(r, v) \in Shown(r)
  BY LinesAre, EntryIs DEF Good
<1>2. \A v \in a..b : v \in 0..(db_num(r) - 1)
  BY <1>1
<1> QED
  BY <1>1, <1>2 DEF EntriesAt

LEMMA ToggledIs ==
  ASSUME NEW r, Good(r), NEW E, E \subseteq Shown(r)
  PROVE  LET s == tgl_mmrk(r, E)
         IN  /\ Good(s) /\ s = [r EXCEPT !.multi = s.multi] /\ db_num(s) = db_num(r)
             /\ s.mark = r.mark /\ s.idx = r.idx /\ s.cur = r.cur /\ s.type = r.type
             /\ s.disk = r.disk /\ s.mode = r.mode /\ s.col = r.col
             /\ s.hidden = r.hidden /\ s.prev = r.prev /\ s.list = r.list
<1> DEFINE F == E \ {DotDot}
           m == (r.multi \ F) \cup (F \ r.multi)
           s == [r EXCEPT !.multi = m]
<1>1. F \subseteq Entry
  BY ShownIs DEF Good
<1>2. m \in SUBSET Entry
  BY <1>1 DEF Good, ListType
<1> HIDE DEF F
<1>3. tgl_mmrk(r, E) = s
  BY DEF tgl_mmrk, F
<1> HIDE DEF m
<1>4. s \in ListType /\ s.mark = r.mark /\ s.idx = r.idx /\ s.multi = m /\ s.cur = r.cur
      /\ s.type = r.type /\ s.disk = r.disk /\ s.mode = r.mode /\ s.col = r.col
      /\ s.hidden = r.hidden /\ s.prev = r.prev /\ s.list = r.list
  BY <1>2 DEF Good, ListType
<1> HIDE DEF s
<1>5. Made(s) /\ CurIn(s) /\ Marking(s) /\ db_num(s) = db_num(r)
  BY <1>4, ShownOfFields DEF Good, Made, CurIn, db_num, Marking, Unmarking, At
<1> QED
  BY <1>3, <1>4, <1>5 DEF Good, s

\* Moving the cursor in the list.
LEMMA MovedIs ==
  ASSUME NEW r, Good(r), NEW c \in Int, c \in 0..Max({0, db_num(r) - 1})
  PROVE  LET s == [r EXCEPT !.cur = c]
         IN  /\ Good(s) /\ s.mark = r.mark /\ s.idx = r.idx /\ s.multi = r.multi /\ s.cur = c
             /\ s.type = r.type /\ s.disk = r.disk /\ s.mode = r.mode /\ s.col = r.col
             /\ s.hidden = r.hidden /\ s.prev = r.prev /\ s.list = r.list
<1> DEFINE s == [r EXCEPT !.cur = c]
<1>1. s \in ListType /\ s.mark = r.mark /\ s.idx = r.idx /\ s.multi = r.multi /\ s.cur = c
      /\ s.type = r.type /\ s.disk = r.disk /\ s.mode = r.mode /\ s.col = r.col
      /\ s.hidden = r.hidden /\ s.prev = r.prev /\ s.list = r.list
  BY DEF Good, ListType
<1> HIDE DEF s
<1>2. Made(s) /\ CurIn(s) /\ Marking(s)
  BY <1>1, ShownOfFields DEF Good, Made, CurIn, db_num, Marking, Unmarking, At
<1> QED
  BY <1>1, <1>2 DEF Good, s

LEMMA InLines ==
  ASSUME NEW r, Good(r)
  PROVE  /\ db_num(r) \in Nat /\ r.cur \in Int /\ 0 <= r.cur
         /\ db_num(r) > 0 => r.cur \in 0..(db_num(r) - 1) /\ Max({0, db_num(r) - 1}) = db_num(r) - 1
         /\ db_num(r) = 0 => r.cur = 0 /\ Max({0, db_num(r) - 1}) = 0
<1>1. db_num(r) \in Nat
  BY LinesAre, EntryIs DEF Good
<1>2. Max({0, db_num(r) - 1}) = IF db_num(r) > 0 THEN db_num(r) - 1 ELSE 0
  <2>1. db_num(r) - 1 \in Int /\ (0 >= db_num(r) - 1 <=> db_num(r) - 1 <= 0)
    BY <1>1
  <2>2. Max({0, db_num(r) - 1}) = IF 0 >= db_num(r) - 1 THEN 0 ELSE db_num(r) - 1
    BY <2>1, MaxOfTwo
  <2> QED
    BY <1>1, <2>2
<1>3. r.cur \in 0..Max({0, db_num(r) - 1})
  BY DEF Good, CurIn
<1> QED
  BY <1>1, <1>2, <1>3

LEMMA VIs ==
  ASSUME NEW r, Good(r), db_num(r) > 0
  PROVE  LET s == key_mmrk(r)
         IN  /\ Good(s) /\ s.type = r.type /\ s.disk = r.disk /\ s.mode = r.mode
             /\ s.col = r.col /\ s.hidden = r.hidden /\ s.prev = r.prev
<1>1. db_num(r) \in Nat /\ r.cur \in 0..(db_num(r) - 1) /\ Max({0, db_num(r) - 1}) = db_num(r) - 1
  BY InLines
<1>2. CASE r.idx < 0
  <2> DEFINE a == tgl_mmrk(r, {At(r, r.cur)})
             c == Min({a.cur + 1, db_num(r) - 1})
  <2>1. {At(r, r.cur)} \subseteq Shown(r)
    BY <1>1, LinesAre DEF Good
  <2>2. /\ Good(a) /\ db_num(a) = db_num(r) /\ a.cur = r.cur /\ a.type = r.type
        /\ a.disk = r.disk /\ a.mode = r.mode /\ a.col = r.col
        /\ a.hidden = r.hidden /\ a.prev = r.prev
    BY <2>1, ToggledIs
  <2> HIDE DEF a
  <2>3. c \in Int /\ c \in 0..Max({0, db_num(a) - 1})
    <3>1. a.cur + 1 \in Int /\ db_num(r) - 1 \in Int
      BY <1>1, <2>2
    <3>2. c = IF a.cur + 1 <= db_num(r) - 1 THEN a.cur + 1 ELSE db_num(r) - 1
      BY <3>1, MinOfTwo
    <3> QED
      BY <1>1, <2>2, <3>2
  <2>4. key_mmrk(r) = [a EXCEPT !.cur = c]
    <3>1. MmrkLine(r) = [a EXCEPT !.cur = Min({@ + 1, db_num(r) - 1})]
      BY DEF MmrkLine, a
    <3> QED
      BY <1>2, <3>1 DEF key_mmrk
  <2> HIDE DEF c
  <2> QED
    BY <2>2, <2>3, <2>4, MovedIs
<1>3. CASE ~(r.idx < 0)
  <2> DEFINE lo == Min({r.idx, r.cur})
             hi == Max({r.idx, r.cur})
             E == EntriesAt(r, lo, hi)
             a == tgl_mmrk(r, E)
  <2>1. r.idx \in Int /\ r.idx # None
    BY <1>3, EntryIs DEF Good, ListType
  <2>2. r.idx \in 0..(db_num(r) - 1)
    BY <2>1 DEF Good, Marking, Unmarking
  <2>3. lo \in Int /\ hi \in Int /\ 0 <= lo /\ hi <= db_num(r) - 1
    BY <1>1, <2>2, MinOfTwo, MaxOfTwo
  <2> HIDE DEF lo, hi
  <2>4. E \subseteq Shown(r)
    BY <2>3, EntriesOf
  <2> HIDE DEF E
  <2>5. /\ Good(a) /\ a.type = r.type /\ a.disk = r.disk /\ a.mode = r.mode /\ a.col = r.col
        /\ a.hidden = r.hidden /\ a.prev = r.prev
    BY <2>4, ToggledIs
  <2>6. key_mmrk(r) = clr_mark(a)
    BY <1>3 DEF key_mmrk, MmrkRange, a, E, lo, hi
  <2> HIDE DEF a
  <2>7. Good(clr_mark(a)) /\ clr_mark(a) = [a EXCEPT !.mark = None, !.idx = None]
    BY <2>5, ClearedIs
  <2>8. a \in ListType
    BY <2>5 DEF Good
  <2>9. \A s : s = [a EXCEPT !.mark = None, !.idx = None] =>
               s.type = a.type /\ s.disk = a.disk /\ s.mode = a.mode
               /\ s.col = a.col /\ s.hidden = a.hidden /\ s.prev = a.prev
    BY <2>8 DEF ListType
  <2> QED
    BY <2>5, <2>6, <2>7, <2>9
<1> QED
  BY <1>2, <1>3

LEMMA VGIs ==
  ASSUME NEW r, Good(r)
  PROVE  LET s == mmrktobot(r)
         IN  /\ Good(s) /\ s.type = r.type /\ s.disk = r.disk /\ s.mode = r.mode
             /\ s.col = r.col /\ s.hidden = r.hidden /\ s.prev = r.prev
<1>1. db_num(r) \in Nat /\ r.cur \in Int /\ 0 <= r.cur
  BY InLines
<1>2. EntriesAt(r, r.cur, db_num(r) - 1) \subseteq Shown(r)
  BY <1>1, EntriesOf
<1> QED
  BY <1>2, ToggledIs DEF mmrktobot

-----------------------------------------------------------------------------
(* No command changes the mode or the column.                              *)
Fields == {"mode", "col", "disk", "type", "hidden", "list", "multi", "prev", "mark", "idx", "cur"}
IsList(r)  == r = [x \in Fields |-> r[x]] /\ r.mode \in {"bmode", "fmode", "diff"} /\ r.col \in {0, 1}
Like(s, r) == IsList(s) /\ s.mode = r.mode /\ s.col = r.col

LEMMA ExceptLike ==
  ASSUME NEW r, IsList(r), NEW f \in Fields \ {"mode", "col"}, NEW v
  PROVE  Like([r EXCEPT ![f] = v], r)
<1> DEFINE s == [r EXCEPT ![f] = v]
<1>1. DOMAIN r = Fields
  BY DEF IsList
<1>2. s = [x \in Fields |-> IF x = f THEN v ELSE r[x]]
  BY <1>1, Zenon
<1>3. "mode" \in Fields /\ "col" \in Fields /\ f # "mode" /\ f # "col"
  BY DEF Fields
<1> HIDE DEF s
<1>4. \A x \in Fields : s[x] = IF x = f THEN v ELSE r[x]
  BY <1>2
<1>5. s.mode = r.mode /\ s.col = r.col
  BY <1>3, <1>4
<1>6. s = [x \in Fields |-> s[x]]
  BY <1>2
<1> QED
  BY <1>5, <1>6 DEF Like, IsList, s

LEMMA LikeTransitive ==
  ASSUME NEW r, NEW s, NEW x, Like(s, r), Like(x, s)
  PROVE  Like(x, r)
BY DEF Like

LEMMA EachFieldLike ==
  ASSUME NEW r, IsList(r), NEW v
  PROVE  /\ Like(r, r)
         /\ Like([r EXCEPT !.disk = v], r) /\ Like([r EXCEPT !.type = v], r)
         /\ Like([r EXCEPT !.hidden = v], r) /\ Like([r EXCEPT !.list = v], r)
         /\ Like([r EXCEPT !.multi = v], r) /\ Like([r EXCEPT !.prev = v], r)
         /\ Like([r EXCEPT !.mark = v], r) /\ Like([r EXCEPT !.idx = v], r)
         /\ Like([r EXCEPT !.cur = v], r)
<1>1. \A f \in Fields \ {"mode", "col"} : Like([r EXCEPT ![f] = v], r)
  BY ExceptLike
<1>2. {"disk", "type", "hidden", "list", "multi", "prev", "mark", "idx", "cur"}
        \subseteq Fields \ {"mode", "col"}
  BY DEF Fields
<1> QED
  BY <1>1, <1>2 DEF Like

LEMMA MarksLike ==
  ASSUME NEW r, IsList(r), NEW E
  PROVE  /\ Like(clr_mark(r), r) /\ Like(Unmarked(r), r) /\ Like(set_mark(r), r)
         /\ Like(tgl_mmrk(r, E), r) /\ Like(diff_db_sort(r), r) /\ Like(ClampCursor(r), r)
<1> DEFINE Two(v, w) == [r EXCEPT !.mark = v, !.idx = w]
<1>1. ASSUME NEW v, NEW w PROVE Like(Two(v, w), r)
  <2>1. Like([r EXCEPT !.mark = v], r)
    BY EachFieldLike
  <2>2. IsList([r EXCEPT !.mark = v])
    BY <2>1 DEF Like
  <2>3. Like([[r EXCEPT !.mark = v] EXCEPT !.idx = w], [r EXCEPT !.mark = v])
    BY <2>2, EachFieldLike
  <2>4. Two(v, w) = [[r EXCEPT !.mark = v] EXCEPT !.idx = w]
    OBVIOUS
  <2> HIDE DEF Two
  <2> QED
    BY <2>1, <2>3, <2>4, LikeTransitive
<1> HIDE DEF Two
<1>2. Like(r, r)
  BY EachFieldLike
<1>3. clr_mark(r) = Two(None, None)
  BY DEF clr_mark, Two
<1>4. mark_global(r) \in {clr_mark(r), Two(Global, None)}
  BY DEF mark_global, Two
<1>5. Unmarked(r) \in {r, mark_global(r)}
  BY DEF Unmarked
<1>6. set_mark(r) \in {r, Two(At(r, r.cur), r.cur)}
  BY DEF set_mark, Two
<1>7. Like(tgl_mmrk(r, E), r)
  BY EachFieldLike DEF tgl_mmrk
<1>8. Like(diff_db_sort(r), r)
  BY EachFieldLike DEF diff_db_sort
<1>9. Like(ClampCursor(r), r)
  BY EachFieldLike DEF ClampCursor
<1> QED
  BY <1>1, <1>2, <1>3, <1>4, <1>5, <1>6, <1>7, <1>8, <1>9

LEMMA RebuildLike ==
  ASSUME NEW r, IsList(r)
  PROVE  Like(rebuild_db(r), r)
<1> DEFINE a == Unmarked(r)
           b == [a EXCEPT !.type = r.disk]
           c == [b EXCEPT !.multi = {}]
           d == diff_db_sort(c)
<1>1. Like(a, r)
  BY MarksLike
<1>2. rebuild_db(r) = ClampCursor(d)
  BY DEF rebuild_db, a, b, c, d
<1>3. Like(b, a)
  BY <1>1, EachFieldLike DEF Like
<1>4. Like(c, b)
  BY <1>3, EachFieldLike DEF Like
<1>5. Like(d, c)
  BY <1>4, MarksLike DEF Like
<1>6. Like(ClampCursor(d), d)
  BY <1>5, MarksLike DEF Like
<1> HIDE DEF a, b, c, d
<1> QED
  BY <1>1, <1>2, <1>3, <1>4, <1>5, <1>6, LikeTransitive

LEMMA NamedLike ==
  ASSUME NEW r, IsList(r), NEW p
  PROVE  Like(findlistname(r, p), r)
BY EachFieldLike DEF findlistname

LEMMA RereadLike ==
  ASSUME NEW r, IsList(r)
  PROVE  Like(rebuild_db_1(r), r)
<1>1. Like(rebuild_db(r), r)
  BY RebuildLike
<1>2. Like(findlistname(rebuild_db(r), r), rebuild_db(r))
  BY <1>1, NamedLike DEF Like
<1> QED
  BY <1>1, <1>2, LikeTransitive DEF rebuild_db_1

LEMMA SortsLike ==
  ASSUME NEW r, IsList(r), NEW h
  PROVE  Like(re_sort_list([r EXCEPT !.hidden = h]), r)
<1> DEFINE a == [r EXCEPT !.hidden = h]
           b == diff_db_sort(a)
<1>1. Like(a, r)
  BY EachFieldLike
<1>2. Like(b, a)
  BY <1>1, MarksLike DEF Like
<1> HIDE DEF a
<1>3. re_sort_list(a) = findlistname(b, a)
  BY DEF re_sort_list, b
<1> HIDE DEF b
<1>4. Like(re_sort_list(a), b)
  BY <1>2, <1>3, NamedLike DEF Like
<1> QED
  BY <1>1, <1>2, <1>4, LikeTransitive DEF a

LEMMA KeysLike ==
  ASSUME NEW r, IsList(r)
  PROVE  Like(key_mmrk(r), r) /\ Like(mmrktobot(r), r)
<1>1. \A E : Like(tgl_mmrk(r, E), r)
  BY MarksLike
<1>2. Like(MmrkLine(r), r)
  <2> DEFINE a == tgl_mmrk(r, {At(r, r.cur)})
             b == [a EXCEPT !.cur = Min({@ + 1, db_num(r) - 1})]
  <2>1. Like(a, r)
    BY <1>1
  <2> HIDE DEF a
  <2>2. \E v : b = [a EXCEPT !.cur = v]
    OBVIOUS
  <2> HIDE DEF b
  <2>3. Like(b, a)
    <3>1. PICK v : b = [a EXCEPT !.cur = v]
      BY <2>2
    <3>2. IsList(a)
      BY <2>1 DEF Like
    <3>3. Like([a EXCEPT !.cur = v], a)
      BY <3>2, EachFieldLike
    <3> QED
      BY <3>1, <3>3
  <2>4. MmrkLine(r) = b
    BY DEF MmrkLine, a, b
  <2> QED
    BY <2>1, <2>3, <2>4, LikeTransitive
<1>3. Like(MmrkRange(r), r)
  <2> DEFINE a == tgl_mmrk(r, EntriesAt(r, Min({r.idx, r.cur}), Max({r.idx, r.cur})))
  <2>1. Like(a, r)
    BY <1>1
  <2>2. MmrkRange(r) = clr_mark(a)
    BY DEF MmrkRange
  <2> HIDE DEF a
  <2>3. Like(clr_mark(a), a)
    BY <2>1, MarksLike DEF Like
  <2> QED
    BY <2>1, <2>2, <2>3, LikeTransitive
<1>4. key_mmrk(r) \in {MmrkLine(r), MmrkRange(r)}
  BY DEF key_mmrk
<1>5. Like(mmrktobot(r), r)
  BY <1>1 DEF mmrktobot
<1> QED
  BY <1>2, <1>3, <1>4, <1>5

Returned(s, r) ==
  /\ Like(s.l, r) /\ (s.did = TRUE \/ (s.did = FALSE /\ r.multi # {} /\ s.ret = 1))
  /\ s.ret \in {0, 1} /\ (s.ret = 1 => r.multi # {})

LEMMA CommandsLike ==
  ASSUME NEW r, IsList(r), NEW op, NEW t, NEW v, NEW n, NEW a
  PROVE  Returned(ui_cmd(r, op, t, v, n, a), r)
<1>1. ASSUME NEW o, NEW acts PROVE Like(Effect(r, o, acts), r)
  <2>1. \E d : Effect(r, o, acts) = [r EXCEPT !.disk = d]
    BY DEF Effect
  <2> QED
    BY <2>1, EachFieldLike
<1>2. ASSUME NEW s, IsList(s), NEW o PROVE Like(Rebuild(s, o), s)
  BY <1>2, RebuildLike, MarksLike DEF Rebuild
<1>3. ASSUME NEW o, NEW w
      PROVE  LET s == OnLines(r, o, w, v, n, a)
             IN  Like(s.l, r) /\ s.did = TRUE /\ s.ret = 0
  <2> DEFINE s == OnLines(r, o, w, v, n, a)
  <2>1. \E acts, c \in {TRUE, FALSE} : \E f :
          s \in {Result(r, {}, TRUE, 0), Result(Rebuild(Effect(r, o, f), o), f, TRUE, 0),
                 Result(Effect(r, o, f), f, TRUE, 0)}
    BY DEF OnLines
  <2>2. PICK f : s \in {Result(r, {}, TRUE, 0), Result(Rebuild(Effect(r, o, f), o), f, TRUE, 0),
                        Result(Effect(r, o, f), f, TRUE, 0)}
    BY <2>1
  <2> HIDE DEF s
  <2>3. Like(r, r) /\ Like(Effect(r, o, f), r) /\ Like(Rebuild(Effect(r, o, f), o), r)
    <3>1. Like(Effect(r, o, f), r)
      BY <1>1
    <3>2. Like(Rebuild(Effect(r, o, f), o), Effect(r, o, f))
      BY <3>1, <1>2 DEF Like
    <3> QED
      BY <3>1, <3>2, LikeTransitive, EachFieldLike
  <2>4. Like(s.l, r) /\ s.did = TRUE /\ s.ret = 0
    <3>1. CASE s = Result(r, {}, TRUE, 0)
      BY <2>3, <3>1 DEF Result
    <3>2. CASE s = Result(Rebuild(Effect(r, o, f), o), f, TRUE, 0)
      BY <2>3, <3>2 DEF Result
    <3>3. CASE s = Result(Effect(r, o, f), f, TRUE, 0)
      BY <2>3, <3>3 DEF Result
    <3> QED
      BY <2>2, <3>1, <3>2, <3>3
  <2> QED
    BY <2>4 DEF s
<1>4. ASSUME NEW o, NEW w
      PROVE  LET s == OnMarked(r, o, w, a)
             IN  Like(s.l, r) /\ s.did \in {TRUE, FALSE} /\ s.ret = 1
  <2> DEFINE s == OnMarked(r, o, w, a)
             E(f, p) == [Effect(r, o, f) EXCEPT !.prev = p]
  <2>1. \E f, p : s \in {Result(r, {}, FALSE, 1), Result(rebuild_db(E(f, p)), f, TRUE, 1),
                         Result(Rebuild(E(f, p), o), f, TRUE, 1)}
    BY DEF OnMarked
  <2>2. PICK f, p : s \in {Result(r, {}, FALSE, 1), Result(rebuild_db(E(f, p)), f, TRUE, 1),
                           Result(Rebuild(E(f, p), o), f, TRUE, 1)}
    BY <2>1
  <2> HIDE DEF s
  <2>3. Like(E(f, p), r)
    <3>1. Like(Effect(r, o, f), r)
      BY <1>1
    <3>2. Like(E(f, p), Effect(r, o, f))
      BY <3>1, EachFieldLike DEF Like
    <3> HIDE DEF E
    <3> QED
      BY <3>1, <3>2, LikeTransitive
  <2> HIDE DEF E
  <2>4. Like(r, r) /\ Like(rebuild_db(E(f, p)), r) /\ Like(Rebuild(E(f, p), o), r)
    <3>1. Like(rebuild_db(E(f, p)), E(f, p)) /\ Like(Rebuild(E(f, p), o), E(f, p))
      BY <2>3, <1>2, RebuildLike DEF Like
    <3> QED
      BY <2>3, <3>1, LikeTransitive, EachFieldLike
  <2>5. Like(s.l, r) /\ s.did \in {TRUE, FALSE} /\ s.ret = 1
    <3>1. CASE s = Result(r, {}, FALSE, 1)
      BY <2>4, <3>1 DEF Result
    <3>2. CASE s = Result(rebuild_db(E(f, p)), f, TRUE, 1)
      BY <2>4, <3>2 DEF Result
    <3>3. CASE s = Result(Rebuild(E(f, p), o), f, TRUE, 1)
      BY <2>4, <3>3 DEF Result
    <3> QED
      BY <2>2, <3>1, <3>2, <3>3
  <2> QED
    BY <2>5 DEF s
<1>5. \E o, w : ui_cmd(r, op, t, v, n, a) = ui_op(r, o, w, v, n, a)
  BY DEF ui_cmd, ui_mv
<1>6. PICK o, w : ui_cmd(r, op, t, v, n, a) = ui_op(r, o, w, v, n, a)
  BY <1>5
<1> DEFINE s == ui_cmd(r, op, t, v, n, a)
<1>7. CASE r.multi # {}
  <2>1. s = OnMarked(r, o, w, a)
    BY <1>6, <1>7 DEF ui_op
  <2> HIDE DEF s
  <2>2. Like(s.l, r) /\ s.did \in {TRUE, FALSE} /\ s.ret = 1
    BY <1>4, <2>1
  <2> QED
    BY <1>7, <2>2 DEF s, Returned
<1>8. CASE r.multi = {}
  <2>1. s = OnLines(r, o, w, v, n, a)
    BY <1>6, <1>8 DEF ui_op
  <2> HIDE DEF s
  <2>2. Like(s.l, r) /\ s.did = TRUE /\ s.ret = 0
    BY <1>3, <2>1
  <2> QED
    BY <2>2 DEF s, Returned
<1> QED
  BY <1>7, <1>8

-----------------------------------------------------------------------------
(* The commands.  Fixed is the command of some keys where it has something *)
(* to do: Command may be NoCommand instead, but no other.                  *)
FixedSide(c, k0) ==
  CASE k0 = "d" -> <<"rm", SideKeys[c]>>
    [] k0 = "T" -> <<"mv", SideKeys[c]>>
    [] k0 = "@" -> <<"ln", SideKeys[c]>>
    [] k0 = "P" -> <<"mkdir", SideKeys[c]>>
    [] OTHER -> NoCommand
FixedCopy(q, c, k0) ==
  LET t == IF c = "<" THEN 1 ELSE 2
  IN  IF k0 # c \/ q.mode = "bmode" \/ (q.mode = "fmode" /\ q.col + 1 = t)
      THEN NoCommand ELSE <<"cp", t>>
FixedEdit(c, k0, k1) ==
  CASE k0 = "e" -> <<Edits[c], 3>>
    [] k0 # "e" /\ k1 = "e" /\ k0 \in DOMAIN SideKeys -> <<Edits[c], SideKeys[k0]>>
    [] OTHER -> NoCommand
FixedSingle(q, c, k0) ==
  CASE c \in DOMAIN Singles -> <<Singles[c], IF c = "DC" THEN 3 ELSE 0>>
    [] c = "T" -> <<"mv", 0>>
    [] c = "@" -> <<"ln", 0>>
    [] c = "X" /\ k0 # "S" /\ q.mode = "diff" -> <<"xchg", 0>>
    [] c = "P" /\ q.mode # "diff" -> <<"mkdir", 0>>
    [] OTHER -> NoCommand
Fixed(q, c, k0, k1) ==
  CASE c = "d" -> IF k0 = "d" THEN <<"rm", 3>> ELSE NoCommand
    [] c \in DOMAIN SideKeys -> FixedSide(c, k0)
    [] c \in DOMAIN Edits -> FixedEdit(c, k0, k1)
    [] c \in {"<", ">"} -> FixedCopy(q, c, k0)
    [] OTHER -> FixedSingle(q, c, k0)

LEMMA Tables ==
  /\ DOMAIN SideKeys = {"l", "r"} /\ SideKeys["l"] = 1 /\ SideKeys["r"] = 2
  /\ DOMAIN Edits = {"p", "n", "u", "g"} /\ Edits["p"] = "chmod" /\ Edits["n"] = "rename"
  /\ Edits["u"] = "chown" /\ Edits["g"] = "chgrp"
  /\ DOMAIN Singles = {"C", "B", "U", "DC"} /\ Singles["C"] = "cp" /\ Singles["B"] = "cpdir"
  /\ Singles["U"] = "update" /\ Singles["DC"] = "rm"
BY DEF SideKeys, Edits, Singles

LEMMA SingleIsFixed ==
  ASSUME NEW e
  PROVE  \/ OneKeyCommand(e) = FixedSingle(l, e.c, e.k0)
         \/ OneKeyCommand(e) = NoCommand /\ e.c \in {"T", "@"} /\ l.mode = "diff"
         \/ OneKeyCommand(e) = NoCommand /\ e.c = "X"
<1>1. CASE e.c \in DOMAIN Singles
  BY <1>1, Tables DEF OneKeyCommand, FixedSingle
<1>2. CASE e.c = "T"
  BY <1>2, Tables DEF OneKeyCommand, FixedSingle, AnyDst
<1>3. CASE e.c = "@"
  BY <1>3, Tables DEF OneKeyCommand, FixedSingle, AnyDst
<1>4. CASE e.c = "X"
  BY <1>4, Tables DEF OneKeyCommand, FixedSingle
<1>5. CASE e.c \notin DOMAIN Singles /\ e.c \notin {"T", "@", "X"}
  BY <1>5, Tables DEF OneKeyCommand, FixedSingle
<1> QED
  BY <1>1, <1>2, <1>3, <1>4, <1>5

LEMMA CommandIsFixed ==
  ASSUME NEW e
  PROVE  \/ Command(e) = Fixed(l, e.c, e.k0, e.k1)
         \/ Command(e) = NoCommand /\ e.c \in {"T", "@"} /\ l.mode = "diff"
         \/ Command(e) = NoCommand /\ e.c = "X"
         \/ Command(e) = NoCommand /\ e.c = "n" /\ regex
<1>1. CASE e.c \in {"d", "l", "r", "<", ">"}
  BY <1>1, Tables DEF Command, Fixed, FixedSide, FixedCopy, SideCommand, CopyCommand, OwnSide
<1>2. CASE e.c \in DOMAIN Edits
  <2>1. Command(e) = EditCommand(e) /\ Fixed(l, e.c, e.k0, e.k1) = FixedEdit(e.c, e.k0, e.k1)
    BY <1>2, Tables DEF Command, Fixed
  <2>2. CASE e.c = "n" /\ regex
    BY <2>1, <2>2 DEF EditCommand
  <2>3. CASE ~(e.c = "n" /\ regex) /\ e.k0 = "e"
    <3>1. EditCommand(e) = <<Edits[e.c], 3>>
      BY <2>3, Tables DEF EditCommand
    <3>2. FixedEdit(e.c, e.k0, e.k1) = <<Edits[e.c], 3>>
      BY <2>3 DEF FixedEdit
    <3> QED
      BY <2>1, <3>1, <3>2
  <2>4. CASE ~(e.c = "n" /\ regex) /\ e.k0 # "e" /\ e.k1 = "e" /\ e.k0 \in DOMAIN SideKeys
    <3>1. EditCommand(e) = <<Edits[e.c], SideKeys[e.k0]>>
      BY <2>4 DEF EditCommand
    <3>2. FixedEdit(e.c, e.k0, e.k1) = <<Edits[e.c], SideKeys[e.k0]>>
      BY <2>4 DEF FixedEdit
    <3> QED
      BY <2>1, <3>1, <3>2
  <2>5. CASE ~(e.c = "n" /\ regex) /\ e.k0 # "e" /\ ~(e.k1 = "e" /\ e.k0 \in DOMAIN SideKeys)
    <3>1. EditCommand(e) = NoCommand
      BY <2>5 DEF EditCommand
    <3>2. FixedEdit(e.c, e.k0, e.k1) = NoCommand
      BY <2>5 DEF FixedEdit
    <3> QED
      BY <2>1, <3>1, <3>2
  <2> QED
    BY <2>2, <2>3, <2>4, <2>5
<1>3. CASE e.c \notin {"d", "l", "r", "<", ">"} /\ e.c \notin DOMAIN Edits
  <2>1. Command(e) = OneKeyCommand(e) /\ Fixed(l, e.c, e.k0, e.k1) = FixedSingle(l, e.c, e.k0)
    BY <1>3, Tables DEF Command, Fixed
  <2> QED
    BY <2>1, SingleIsFixed
<1> QED
  BY <1>1, <1>2, <1>3

\* Which keys are a command, and of which row of the manual.
Keyed(c, k0, k1, r) ==
  \/ r.keys = <<c>>
  \/ r.keys = <<k0, c>> /\ k0 \in {"d", "T", "@", "P", "e", "<", ">"}
     /\ (k0 \in {"T", "@"} => c \in {"l", "r"})
  \/ r.keys = <<k1, k0, c>> /\ k1 = "e" /\ k0 \in {"l", "r"}

LEMMA ManualHas ==
  /\ \A k \in DOMAIN Edits : /\ row(<<"e", k>>, Edits[k], 3, AllModes) \in Manual
                             /\ row(<<"e", "l", k>>, Edits[k], 1, {"diff"}) \in Manual
                             /\ row(<<"e", "r", k>>, Edits[k], 2, {"diff"}) \in Manual
  /\ row(<<"d", "d">>, "rm", 3, AllModes) \in Manual
  /\ row(<<"d", "l">>, "rm", 1, {"diff"}) \in Manual
  /\ row(<<"d", "r">>, "rm", 2, {"diff"}) \in Manual /\ row(<<"DC">>, "rm", 3, AllModes) \in Manual
  /\ row(<<"<", "<">>, "cp", 1, {"diff"}) \in Manual
  /\ row(<<">", ">">>, "cp", 2, {"diff"}) \in Manual
  /\ row(<<"C">>, "cp", 0, AllModes) \in Manual /\ row(<<"B">>, "cpdir", 0, AllModes) \in Manual
  /\ row(<<"U">>, "update", 0, AllModes) \in Manual /\ row(<<"X">>, "xchg", 0, {"diff"}) \in Manual
  /\ row(<<"T">>, "mv", 0, AllModes) \in Manual /\ row(<<"T", "l">>, "mv", 1, {"diff"}) \in Manual
  /\ row(<<"T", "r">>, "mv", 2, {"diff"}) \in Manual
  /\ row(<<"@">>, "ln", 0, AllModes) \in Manual /\ row(<<"@", "l">>, "ln", 1, {"diff"}) \in Manual
  /\ row(<<"@", "r">>, "ln", 2, {"diff"}) \in Manual
  /\ row(<<"P">>, "mkdir", 0, {"bmode", "fmode"}) \in Manual
  /\ row(<<"P", "l">>, "mkdir", 1, {"diff"}) \in Manual
  /\ row(<<"P", "r">>, "mkdir", 2, {"diff"}) \in Manual
<1>1. ASSUME NEW k \in DOMAIN Edits
      PROVE  /\ row(<<"e", k>>, Edits[k], 3, AllModes) \in Manual
             /\ row(<<"e", "l", k>>, Edits[k], 1, {"diff"}) \in Manual
             /\ row(<<"e", "r", k>>, Edits[k], 2, {"diff"}) \in Manual
  <2>1. EditRows(k, Edits[k]) \in {EditRows(j, Edits[j]) : j \in DOMAIN Edits}
    OBVIOUS
  <2>2. EditRows(k, Edits[k]) \subseteq Manual
    BY <2>1, Zenon DEF Manual
  <2>3. /\ row(<<"e", k>>, Edits[k], 3, AllModes) \in EditRows(k, Edits[k])
        /\ row(<<"e", "l", k>>, Edits[k], 1, {"diff"}) \in EditRows(k, Edits[k])
        /\ row(<<"e", "r", k>>, Edits[k], 2, {"diff"}) \in EditRows(k, Edits[k])
    BY Zenon DEF EditRows
  <2> QED
    BY <2>2, <2>3, Zenon
<1> QED
  BY <1>1, Zenon DEF Manual

LEMMA RowIs ==
  ASSUME NEW keys, NEW op, NEW t, NEW modes
  PROVE  LET r == row(keys, op, t, modes)
         IN  r.keys = keys /\ r.op = op /\ r.t = t /\ r.modes = modes
BY DEF row

LEMMA FixedHasRow ==
  ASSUME NEW q, NEW c, NEW k0, NEW k1, Fixed(q, c, k0, k1) # NoCommand
  PROVE  \E r \in Manual : Keyed(c, k0, k1, r) /\ Fixed(q, c, k0, k1) = <<r.op, r.t>>
<1> DEFINE Is(keys, op, t) == \E r \in Manual : r.keys = keys /\ r.op = op /\ r.t = t
<1>0. ASSUME NEW keys, NEW op, NEW t, NEW modes, row(keys, op, t, modes) \in Manual
      PROVE  Is(keys, op, t)
  BY <1>0, RowIs
<1> HIDE DEF Is
<1>1. /\ \A k \in DOMAIN Edits : /\ Is(<<"e", k>>, Edits[k], 3)
                                 /\ Is(<<"e", "l", k>>, Edits[k], 1)
                                 /\ Is(<<"e", "r", k>>, Edits[k], 2)
      /\ Is(<<"d", "d">>, "rm", 3) /\ Is(<<"d", "l">>, "rm", 1) /\ Is(<<"d", "r">>, "rm", 2)
      /\ Is(<<"DC">>, "rm", 3) /\ Is(<<"<", "<">>, "cp", 1) /\ Is(<<">", ">">>, "cp", 2)
      /\ Is(<<"C">>, "cp", 0) /\ Is(<<"B">>, "cpdir", 0) /\ Is(<<"U">>, "update", 0)
      /\ Is(<<"X">>, "xchg", 0) /\ Is(<<"T">>, "mv", 0) /\ Is(<<"T", "l">>, "mv", 1)
      /\ Is(<<"T", "r">>, "mv", 2) /\ Is(<<"@">>, "ln", 0) /\ Is(<<"@", "l">>, "ln", 1)
      /\ Is(<<"@", "r">>, "ln", 2) /\ Is(<<"P">>, "mkdir", 0) /\ Is(<<"P", "l">>, "mkdir", 1)
      /\ Is(<<"P", "r">>, "mkdir", 2)
  BY <1>0, ManualHas, Zenon
<1>2. ASSUME NEW keys, NEW op, NEW t, Is(keys, op, t), Fixed(q, c, k0, k1) = <<op, t>>,
             \A r : r.keys = keys => Keyed(c, k0, k1, r)
      PROVE  \E r \in Manual : Keyed(c, k0, k1, r) /\ Fixed(q, c, k0, k1) = <<r.op, r.t>>
  BY <1>2 DEF Is
<1>3. CASE c = "d"
  <2>1. k0 = "d" /\ Fixed(q, c, k0, k1) = <<"rm", 3>>
    BY <1>3, Tables DEF Fixed
  <2>2. \A r : r.keys = <<"d", "d">> => Keyed(c, k0, k1, r)
    BY <1>3, <2>1 DEF Keyed
  <2> QED
    BY <1>1, <1>2, <2>1, <2>2
<1>4. CASE c \in DOMAIN SideKeys
  <2>1. Fixed(q, c, k0, k1) = FixedSide(c, k0) /\ SideKeys[c] \in {1, 2}
    BY <1>4, Tables DEF Fixed
  <2>2. k0 \in {"d", "T", "@", "P"}
    BY <1>4, <2>1 DEF FixedSide
  <2>3. \A r : r.keys = <<k0, c>> => Keyed(c, k0, k1, r)
    BY <1>4, <2>2, Tables DEF Keyed
  <2>4. CASE k0 = "d"
    <3>1. Fixed(q, c, k0, k1) = <<"rm", SideKeys[c]>>
      BY <2>1, <2>4 DEF FixedSide
    <3>2. Is(<<k0, c>>, "rm", SideKeys[c])
      BY <1>1, <1>4, <2>4, Tables
    <3> QED
      BY <1>2, <2>3, <3>1, <3>2
  <2>5. CASE k0 = "T"
    <3>1. Fixed(q, c, k0, k1) = <<"mv", SideKeys[c]>>
      BY <2>1, <2>5 DEF FixedSide
    <3>2. Is(<<k0, c>>, "mv", SideKeys[c])
      BY <1>1, <1>4, <2>5, Tables
    <3> QED
      BY <1>2, <2>3, <3>1, <3>2
  <2>6. CASE k0 = "@"
    <3>1. Fixed(q, c, k0, k1) = <<"ln", SideKeys[c]>>
      BY <2>1, <2>6 DEF FixedSide
    <3>2. Is(<<k0, c>>, "ln", SideKeys[c])
      BY <1>1, <1>4, <2>6, Tables
    <3> QED
      BY <1>2, <2>3, <3>1, <3>2
  <2>7. CASE k0 = "P"
    <3>1. Fixed(q, c, k0, k1) = <<"mkdir", SideKeys[c]>>
      BY <2>1, <2>7 DEF FixedSide
    <3>2. Is(<<k0, c>>, "mkdir", SideKeys[c])
      BY <1>1, <1>4, <2>7, Tables
    <3> QED
      BY <1>2, <2>3, <3>1, <3>2
  <2> QED
    BY <2>2, <2>4, <2>5, <2>6, <2>7
<1>5. CASE c \in DOMAIN Edits
  <2>1. Fixed(q, c, k0, k1) = FixedEdit(c, k0, k1)
    BY <1>5, Tables DEF Fixed
  <2>2. CASE k0 = "e"
    <3>1. Fixed(q, c, k0, k1) = <<Edits[c], 3>>
      BY <2>1, <2>2 DEF FixedEdit
    <3>2. \A r : r.keys = <<"e", c>> => Keyed(c, k0, k1, r)
      BY <2>2 DEF Keyed
    <3> QED
      BY <1>1, <1>2, <1>5, <3>1, <3>2
  <2>3. CASE k0 # "e"
    <3>1. k1 = "e" /\ k0 \in DOMAIN SideKeys /\ Fixed(q, c, k0, k1) = <<Edits[c], SideKeys[k0]>>
      BY <2>1, <2>3 DEF FixedEdit
    <3>2. \A r : r.keys = <<"e", k0, c>> => Keyed(c, k0, k1, r)
      BY <3>1, Tables DEF Keyed
    <3>3. Is(<<"e", k0, c>>, Edits[c], SideKeys[k0])
      BY <1>1, <1>5, <3>1, Tables
    <3> QED
      BY <1>2, <3>1, <3>2, <3>3
  <2> QED
    BY <2>2, <2>3
<1>6. CASE c \in {"<", ">"}
  <2>1. Fixed(q, c, k0, k1) = FixedCopy(q, c, k0)
    BY <1>6, Tables DEF Fixed
  <2>2. k0 = c /\ Fixed(q, c, k0, k1) = <<"cp", IF c = "<" THEN 1 ELSE 2>>
    BY <2>1 DEF FixedCopy
  <2>3. \A r : r.keys = <<k0, c>> => Keyed(c, k0, k1, r)
    BY <1>6, <2>2 DEF Keyed
  <2>4. Is(<<k0, c>>, "cp", IF c = "<" THEN 1 ELSE 2)
    BY <1>1, <1>6, <2>2
  <2> QED
    BY <1>2, <2>2, <2>3, <2>4
<1>7. CASE c \notin {"d", "l", "r", "<", ">"} /\ c \notin DOMAIN Edits
  <2>1. Fixed(q, c, k0, k1) = FixedSingle(q, c, k0)
    BY <1>7, Tables DEF Fixed
  <2>2. \A r : r.keys = <<c>> => Keyed(c, k0, k1, r)
    BY DEF Keyed
  <2>3. CASE c \in DOMAIN Singles
    <3>1. Fixed(q, c, k0, k1) = <<Singles[c], IF c = "DC" THEN 3 ELSE 0>>
      BY <2>1, <2>3, Tables DEF FixedSingle
    <3>2. Is(<<c>>, Singles[c], IF c = "DC" THEN 3 ELSE 0)
      BY <1>1, <2>3, Tables
    <3> QED
      BY <1>2, <2>2, <3>1, <3>2
  <2>4. CASE c \notin DOMAIN Singles
    <3>1. \/ c = "T" /\ Fixed(q, c, k0, k1) = <<"mv", 0>>
          \/ c = "@" /\ Fixed(q, c, k0, k1) = <<"ln", 0>>
          \/ c = "X" /\ Fixed(q, c, k0, k1) = <<"xchg", 0>>
          \/ c = "P" /\ Fixed(q, c, k0, k1) = <<"mkdir", 0>>
      BY <2>1, <2>4 DEF FixedSingle
    <3> QED
      BY <1>1, <1>2, <2>2, <3>1
  <2> QED
    BY <2>3, <2>4
<1> QED
  BY <1>3, <1>4, <1>5, <1>6, <1>7, Tables

LEMMA FixedSame ==
  ASSUME NEW q, NEW s, s.mode = q.mode, s.col = q.col, NEW c, NEW k0, NEW k1
  PROVE  Fixed(s, c, k0, k1) = Fixed(q, c, k0, k1)
<1>1. FixedCopy(s, c, k0) = FixedCopy(q, c, k0)
  BY DEF FixedCopy
<1>2. FixedSingle(s, c, k0) = FixedSingle(q, c, k0)
  BY DEF FixedSingle
<1> QED
  BY <1>1, <1>2 DEF Fixed

\* The keys that can complete a command.
CommandKeys == {"d", "l", "r", "p", "n", "u", "g", "<", ">", "C", "B", "U", "DC", "T", "@", "X", "P"}
LEMMA FixedKeys ==
  ASSUME NEW q, NEW c, NEW k0, NEW k1, Fixed(q, c, k0, k1) # NoCommand
  PROVE  /\ c \in CommandKeys
         /\ c = "d" => k0 = "d"
         /\ c \in {"l", "r"} => k0 \in {"d", "T", "@", "P"}
         /\ c \in {"p", "n", "u", "g"} => k0 \in {"e", "l", "r"}
         /\ c = "X" => k0 # "S" /\ q.mode = "diff"
<1>1. CASE c \in {"d", "l", "r"}
  BY <1>1, Tables DEF Fixed, FixedSide, CommandKeys
<1>2. CASE c \in {"p", "n", "u", "g"}
  BY <1>2, Tables DEF Fixed, FixedEdit, CommandKeys
<1>3. CASE c \in {"<", ">"}
  BY <1>3 DEF CommandKeys
<1>4. CASE c \notin {"d", "l", "r", "p", "n", "u", "g", "<", ">"}
  <2>1. Fixed(q, c, k0, k1) = FixedSingle(q, c, k0)
    BY <1>4, Tables DEF Fixed
  <2> QED
    BY <1>4, <2>1, Tables DEF FixedSingle, CommandKeys
<1> QED
  BY <1>1, <1>2, <1>3, <1>4

LEMMA DigitsAre ==
  /\ DigitKeys \subseteq {"1", "2", "3", "4", "5", "6", "7", "8", "9", "0"}
  /\ \A d \in Digit : Digits[d] \in DigitKeys /\ Value(Digits[d]) = d % 10
<1>1. Digit \subseteq 1..10
  BY KeyLoopAssumption
<1>2. \A a \in 1..10 : Digits[a] \in {"1", "2", "3", "4", "5", "6", "7", "8", "9", "0"}
  BY DEF Digits
<1>3. \A a, b \in 1..10 : Digits[a] = Digits[b] => a = b
  BY DEF Digits
<1>4. ASSUME NEW d \in Digit PROVE Value(Digits[d]) = d % 10
  <2> DEFINE c == CHOOSE a \in Digit : Digits[a] = Digits[d]
  <2>1. c \in Digit /\ Digits[c] = Digits[d]
    OBVIOUS
  <2>2. c = d
    BY <1>1, <1>3, <2>1
  <2> QED
    BY <2>2 DEF Value
<1> QED
  BY <1>1, <1>2, <1>4 DEF DigitKeys

-----------------------------------------------------------------------------
(* A key.                                                                  *)
LEMMA SeenIs ==
  ASSUME NEW k
  PROVE  LET e == Seen(k)
         IN  /\ ~Repeats(k) => e.c = k /\ e.k0 = key[1] /\ e.k1 = key[2] /\ e.num = num
             /\ Repeats(k) => /\ e.c = saved.c /\ e.k0 = saved.key[1] /\ e.k1 = saved.key[2]
                              /\ e.num = saved.num
             /\ e.u = IF us THEN u ELSE l.cur
<1>1. CASE Repeats(k)
  BY <1>1 DEF Seen
<1>2. CASE ~Repeats(k)
  BY <1>2 DEF Seen
<1> QED
  BY <1>1, <1>2

LEMMA PressIs ==
  ASSUME NEW k, Press(k)
  PROVE  /\ Typed(k)
         /\ \/ Number(k, Seen(k)) \/ QuoteMark(k, Seen(k)) \/ Quote(k, Seen(k))
            \/ FunctionKey(k, Seen(k)) \/ Execute(k, Seen(k)) \/ Wait(k, Seen(k))
            \/ Move(k, Seen(k)) \/ Mark(k, Seen(k)) \/ RemoveMark(k, Seen(k))
            \/ Multi(k, Seen(k)) \/ Sort(k, Seen(k)) \/ Filter(k, Seen(k))
            \/ Reread(k, Seen(k)) \/ Search(k, Seen(k)) \/ Inert(k, Seen(k))
BY Zenon DEF Press

\* Digits and function keys are as they are typed.
LEMMA NotRepeated ==
  ASSUME NEW k, k \in DigitKeys \/ k = "F1"
  PROVE  Seen(k).c = k
<1>1. k # "."
  BY DigitsAre
<1> QED
  BY <1>1, SeenIs DEF Repeats

\* Keys that complete a command do nothing else.
LEMMA OnlyExecute ==
  ASSUME NEW k, Press(k), Command(Seen(k)) # NoCommand
  PROVE  Execute(k, Seen(k))
<1> DEFINE e == Seen(k)
<1>1. Fixed(l, e.c, e.k0, e.k1) # NoCommand
  BY CommandIsFixed
<1>2. /\ e.c \in CommandKeys
      /\ e.c = "d" => e.k0 = "d"
      /\ e.c \in {"l", "r"} => e.k0 \in {"d", "T", "@", "P"}
      /\ e.c \in {"p", "n", "u", "g"} => e.k0 \in {"e", "l", "r"}
      /\ e.c = "X" => e.k0 # "S"
  BY <1>1, FixedKeys
<1>3. k \in DigitKeys \cup {"F1"} => e.c \in {"1", "2", "3", "4", "5", "6", "7", "8", "9", "0", "F1"}
  BY NotRepeated, DigitsAre
<1> HIDE DEF e
<1>4. ~Number(k, e) /\ ~FunctionKey(k, e)
  BY <1>2, <1>3 DEF Number, FunctionKey, CommandKeys
<1>5. ~QuoteMark(k, e) /\ ~Quote(k, e) /\ ~Move(k, e) /\ ~Mark(k, e) /\ ~Multi(k, e) /\ ~Search(k, e)
  BY <1>2 DEF QuoteMark, Quote, Move, Mark, Multi, Search, CommandKeys
<1>6. ~Wait(k, e) /\ ~RemoveMark(k, e) /\ ~Filter(k, e) /\ ~Reread(k, e) /\ ~Inert(k, e)
  BY DEF Wait, RemoveMark, Filter, Reread, Inert, e
<1>7. ~Sort(k, e)
  BY <1>2 DEF Sort, SortKeys, CommandKeys
<1> QED
  BY <1>4, <1>5, <1>6, <1>7, PressIs DEF e

\* What a key leaves in the loop.
LEMMA KeyIs ==
  ASSUME NEW k, Press(k)
  PROVE  LET e == Seen(k)
         IN  \/ key' = <<Zero, e.k0>> /\ num' = 1 /\ ns' = FALSE /\ us' = FALSE /\ span' = {}
             \/ /\ key' = <<e.c, e.k0>>
                /\ e.c \notin DigitKeys \cup {"'"} =>
                     num' = e.num /\ us' = us /\ ns' = ns /\ u' = u /\ span' = span
                /\ e.c \in DigitKeys =>
                     num' = (IF ns THEN num * 10 ELSE 0) + Value(e.c) /\ us' = us
<1> DEFINE e == Seen(k)
           New == key' = <<Zero, e.k0>> /\ num' = 1 /\ ns' = FALSE /\ us' = FALSE /\ span' = {}
           Old == /\ key' = <<e.c, e.k0>> /\ e.c \notin DigitKeys
                  /\ num' = e.num /\ us' = us /\ ns' = ns /\ u' = u /\ span' = span
<1>0. ASSUME NEW q, Read(e, Zero, q) PROVE New
  BY <1>0 DEF Read
<1>1. ASSUME NEW q, Read(e, e.c, q), e.c \notin DigitKeys PROVE New \/ Old
  BY <1>1 DEF Read
<1>2. ASSUME Number(k, e) \/ QuoteMark(k, e) \/ Quote(k, e)
      PROVE  \/ New
             \/ /\ key' = <<e.c, e.k0>> /\ e.c \in DigitKeys
                /\ num' = (IF ns THEN num * 10 ELSE 0) + Value(e.c) /\ us' = us
             \/ key' = <<e.c, e.k0>> /\ e.c = "'"
  <2>1. k \in DigitKeys => e.c = k
    BY NotRepeated
  <2> HIDE DEF e
  <2>2. CASE Number(k, e)
    BY <2>1, <2>2 DEF Number
  <2>3. CASE QuoteMark(k, e)
    BY <2>3 DEF QuoteMark
  <2>4. CASE Quote(k, e)
    <3>1. \E q : Read(e, Zero, q) \/ Read(e, e.c, q)
      BY <2>4, Zenon DEF Quote
    <3>2. e.c = "'"
      BY <2>4 DEF Quote
    <3>3. "'" \notin DigitKeys
      BY DigitsAre
    <3> HIDE DEF New
    <3> QED
      BY <3>1, <3>2, <3>3, <1>0, <1>1 DEF Old
  <2> QED
    BY <1>2, <2>2, <2>3, <2>4
<1>3. ASSUME ~Number(k, e), ~QuoteMark(k, e), ~Quote(k, e) PROVE New \/ Old
  <2> HIDE DEF e
  <2>1. CASE FunctionKey(k, e)
    BY <2>1 DEF FunctionKey
  <2>2. CASE Execute(k, e)
    <3>1. \E q : Read(e, Zero, q)
      BY <2>2, Zenon DEF Execute, Perform
    <3> QED
      BY <3>1, <1>0
  <2>3. CASE Wait(k, e)
    <3>1. \E q : Read(e, e.c, q)
      BY <2>3, Zenon DEF Wait
    <3>2. e.c \notin DigitKeys
      BY <2>3, DigitsAre, Tables DEF Wait, Waits
    <3> QED
      BY <3>1, <3>2, <1>1
  <2>4. CASE Move(k, e) \/ Mark(k, e) \/ RemoveMark(k, e)
    <3>1. \E q : Read(e, Zero, q)
      BY <2>4, Zenon DEF Move, Mark, RemoveMark
    <3> QED
      BY <3>1, <1>0
  <2>5. CASE Multi(k, e)
    <3>1. \E q : Read(e, Zero, q) \/ (Read(e, e.c, q) /\ e.c = "V")
      BY <2>5, Zenon DEF Multi
    <3>2. "V" \notin DigitKeys
      BY DigitsAre
    <3> QED
      BY <3>1, <3>2, <1>0, <1>1
  <2>6. CASE Sort(k, e) \/ Filter(k, e) \/ Reread(k, e) \/ Search(k, e) \/ Inert(k, e)
    <3>1. \E q : Read(e, Zero, q)
      BY <2>6, Zenon DEF Sort, Filter, Reread, Search, Inert
    <3> QED
      BY <3>1, <1>0
  <2> QED
    BY <1>3, <2>1, <2>2, <2>3, <2>4, <2>5, <2>6, PressIs DEF e
<1>4. ("'" \notin DigitKeys)
  BY DigitsAre
<1> DEFINE Kept == /\ key' = <<e.c, e.k0>>
                   /\ e.c \notin DigitKeys \cup {"'"} =>
                        num' = e.num /\ us' = us /\ ns' = ns /\ u' = u /\ span' = span
                   /\ e.c \in DigitKeys =>
                        num' = (IF ns THEN num * 10 ELSE 0) + Value(e.c) /\ us' = us
<1>5. Old => Kept
  BY Zenon
<1>6. /\ key' = <<e.c, e.k0>> /\ e.c \in DigitKeys
      /\ num' = (IF ns THEN num * 10 ELSE 0) + Value(e.c) /\ us' = us
      => Kept
  BY Zenon
<1>7. key' = <<e.c, e.k0>> /\ e.c = "'" => Kept
  BY <1>4, Zenon
<1>8. New \/ Kept
  <2> HIDE DEF New, Old, Kept
  <2> QED
    BY <1>2, <1>3, <1>5, <1>6, <1>7, Zenon
<1> QED
  BY <1>8, Zenon

-----------------------------------------------------------------------------
(* What a key does to the list.                                            *)
QuietList(r, s) ==
  \/ s = r \/ s = rebuild_db(r) \/ s = rebuild_db_1(r)
  \/ s = clr_mark(r) \/ s = set_mark(clr_mark(r))
  \/ \E i : s = [r EXCEPT !.cur = i] /\ (Good(r) => i \in Int /\ i \in 0..Max({0, db_num(r) - 1}))
  \/ \E h : /\ s = re_sort_list([r EXCEPT !.hidden = h])
            /\ r \in ListType => h \in SUBSET Entry
  \/ db_num(r) > 0 /\ s = key_mmrk(r)
  \/ s = mmrktobot(r)
NextList(r, s) == QuietList(r, s) \/ \E op, t, v, n, a : s = ui_cmd(r, op, t, v, n, a).l

LEMMA MoveIs ==
  ASSUME NEW r, Good(r)
  PROVE  /\ Max({0, Min({r.cur + 1, db_num(r) - 1})}) \in 0..Max({0, db_num(r) - 1})
         /\ Max({0, r.cur - 1}) \in 0..Max({0, db_num(r) - 1})
         /\ r.cur > r.idx /\ r.idx >= 0 => r.idx \in 0..Max({0, db_num(r) - 1})
<1>1. db_num(r) \in Nat /\ r.cur \in Int /\ 0 <= r.cur
      /\ (db_num(r) > 0 => r.cur \in 0..(db_num(r) - 1) /\ Max({0, db_num(r) - 1}) = db_num(r) - 1)
      /\ (db_num(r) = 0 => r.cur = 0 /\ Max({0, db_num(r) - 1}) = 0)
  BY InLines
<1>2. r.idx \in Int
  BY DEF Good, ListType
<1> DEFINE m == Min({r.cur + 1, db_num(r) - 1})
<1>3. m = IF r.cur + 1 <= db_num(r) - 1 THEN r.cur + 1 ELSE db_num(r) - 1
  BY <1>1, MinOfTwo
<1>4. m \in Int
  BY <1>1, <1>3
<1> HIDE DEF m
<1>5. Max({0, m}) = (IF 0 >= m THEN 0 ELSE m) /\ Max({0, r.cur - 1}) = IF 0 >= r.cur - 1 THEN 0 ELSE r.cur - 1
  BY <1>1, <1>4, MaxOfTwo
<1>6. Max({0, m}) \in 0..Max({0, db_num(r) - 1})
  BY <1>1, <1>3, <1>4, <1>5
<1>7. Max({0, r.cur - 1}) \in 0..Max({0, db_num(r) - 1})
  BY <1>1, <1>5
<1>8. r.cur > r.idx /\ r.idx >= 0 => r.idx \in 0..Max({0, db_num(r) - 1})
  BY <1>1, <1>2
<1> QED
  BY <1>6, <1>7, <1>8 DEF m

LEMMA FilteredIs ==
  ASSUME NEW r \in ListType
  PROVE  Filtered \ r.hidden \in SUBSET Entry /\ {} \in SUBSET Entry /\ Filtered \in SUBSET Entry
BY RangeOpsAssumption

LEMMA QuietIs ==
  ASSUME NEW k, Press(k), ~Execute(k, Seen(k))
  PROVE  QuietList(l, l')
<1> DEFINE e == Seen(k)
           Is(q) == \/ q = l \/ q = rebuild_db(l) \/ q = rebuild_db_1(l)
                    \/ q = clr_mark(l) \/ q = set_mark(clr_mark(l))
                    \/ \E i : q = [l EXCEPT !.cur = i] /\ (Good(l) => i \in Int /\ i \in 0..Max({0, db_num(l) - 1}))
                    \/ \E h : /\ q = re_sort_list([l EXCEPT !.hidden = h])
                              /\ l \in ListType => h \in SUBSET Entry
                    \/ db_num(l) > 0 /\ q = key_mmrk(l)
                    \/ q = mmrktobot(l)
<1>0. Is(l') => QuietList(l, l')
  BY Zenon DEF QuietList
<1>1. \A c, q : Read(e, c, q) => l' = q
  BY DEF Read
<1>2. ASSUME NEW i, Good(l) => i \in Int /\ i \in 0..Max({0, db_num(l) - 1})
      PROVE  Is([l EXCEPT !.cur = i])
  BY <1>2, Zenon
<1>3. ASSUME NEW i \in AnyLine PROVE Is([l EXCEPT !.cur = i])
  <2>1. Good(l) => i \in Int /\ i \in 0..Max({0, db_num(l) - 1})
    <3>1. ASSUME Good(l) PROVE Max({0, db_num(l) - 1}) \in Int
      BY <3>1, InLines
    <3> QED
      BY <3>1 DEF AnyLine
  <2> QED
    BY <1>2, <2>1
<1>4. ASSUME NEW h, l \in ListType => h \in SUBSET Entry
      PROVE  Is(re_sort_list([l EXCEPT !.hidden = h]))
  BY <1>4, Zenon
<1>5. Is(l) /\ Is(rebuild_db(l)) /\ Is(rebuild_db_1(l)) /\ Is(clr_mark(l))
      /\ Is(set_mark(clr_mark(l))) /\ Is(mmrktobot(l))
      /\ (db_num(l) > 0 => Is(key_mmrk(l)))
  BY Zenon
<1> HIDE DEF e, Is
<1>6. CASE Number(k, e)
  BY <1>0, <1>5, <1>6 DEF Number
<1>7. CASE QuoteMark(k, e)
  <2>1. l' = l \/ (~(l.cur <= l.idx) /\ l.idx >= 0 /\ l' = [l EXCEPT !.cur = l.idx])
    BY <1>7 DEF QuoteMark
  <2>2. ASSUME ~(l.cur <= l.idx), l.idx >= 0, Good(l)
        PROVE  l.idx \in Int /\ l.idx \in 0..Max({0, db_num(l) - 1})
    <3>1. l.cur \in Int /\ l.idx \in Int
      BY <2>2 DEF Good, ListType
    <3>2. l.cur > l.idx
      BY <2>2, <3>1
    <3> QED
      BY <2>2, <3>1, <3>2, MoveIs
  <2> QED
    BY <1>0, <1>2, <1>5, <2>1, <2>2
<1>8. CASE Quote(k, e)
  <2>1. l' = l \/ \E i \in AnyLine : l' = [l EXCEPT !.cur = i]
    BY <1>1, <1>8, Zenon DEF Quote
  <2> QED
    BY <1>0, <1>3, <1>5, <2>1
<1>9. CASE FunctionKey(k, e)
  <2>1. l' = l \/ l' = rebuild_db(l)
    BY <1>9 DEF FunctionKey
  <2> QED
    BY <1>0, <1>5, <2>1
<1>11. CASE Wait(k, e)
  <2>1. l' = l \/ l' = rebuild_db(l) \/ \E h \in {{}, Filtered} : l' = re_sort_list([l EXCEPT !.hidden = h])
    BY <1>1, <1>11, Zenon DEF Wait
  <2>2. \A h \in {{}, Filtered} : l \in ListType => h \in SUBSET Entry
    BY FilteredIs
  <2> QED
    BY <1>0, <1>4, <1>5, <2>1, <2>2
<1>12. CASE Move(k, e)
  <2>1. \/ l' = [l EXCEPT !.cur = Max({0, Min({@ + 1, db_num(l) - 1})})]
        \/ l' = [l EXCEPT !.cur = Max({0, @ - 1})]
        \/ l' = [l EXCEPT !.cur = 0]
        \/ \E i \in AnyLine : l' = [l EXCEPT !.cur = i]
    BY <1>1, <1>12, Zenon DEF Move
  <2>2. ASSUME Good(l)
        PROVE  /\ Max({0, db_num(l) - 1}) \in Int
               /\ Max({0, Min({l.cur + 1, db_num(l) - 1})}) \in 0..Max({0, db_num(l) - 1})
               /\ Max({0, l.cur - 1}) \in 0..Max({0, db_num(l) - 1})
    <3>1. /\ db_num(l) \in Nat
          /\ db_num(l) > 0 => Max({0, db_num(l) - 1}) = db_num(l) - 1
          /\ db_num(l) = 0 => Max({0, db_num(l) - 1}) = 0
      BY <2>2, InLines
    <3>2. Max({0, db_num(l) - 1}) \in Int
      BY <3>1
    <3> QED
      BY <2>2, <3>2, MoveIs, Zenon
  <2>3. Is([l EXCEPT !.cur = Max({0, Min({l.cur + 1, db_num(l) - 1})})])
    BY <1>2, <2>2
  <2>4. Is([l EXCEPT !.cur = Max({0, l.cur - 1})])
    BY <1>2, <2>2
  <2>5. Is([l EXCEPT !.cur = 0])
    <3>1. Good(l) => 0 \in Int /\ 0 \in 0..Max({0, db_num(l) - 1})
      BY <2>2, InLines
    <3> QED
      BY <1>2, <3>1
  <2> QED
    BY <1>0, <1>3, <2>1, <2>3, <2>4, <2>5
<1>13. CASE Mark(k, e)
  <2>1. l' = l \/ l' = rebuild_db_1(l) \/ l' = set_mark(clr_mark(l))
    BY <1>1, <1>13, Zenon DEF Mark
  <2> QED
    BY <1>0, <1>5, <2>1
<1>14. CASE RemoveMark(k, e)
  <2>1. l' = l \/ l' = clr_mark(l)
    BY <1>1, <1>14, Zenon DEF RemoveMark
  <2> QED
    BY <1>0, <1>5, <2>1
<1>15. CASE Multi(k, e)
  <2>1. (db_num(l) > 0 /\ l' = key_mmrk(l)) \/ l' = mmrktobot(l)
    BY <1>1, <1>15, Zenon DEF Multi
  <2> QED
    BY <1>0, <1>5, <2>1
<1>16. CASE Sort(k, e)
  <2>1. l' = l \/ l' = rebuild_db_1(l)
    BY <1>1, <1>16, Zenon DEF Sort
  <2> QED
    BY <1>0, <1>5, <2>1
<1>17. CASE Filter(k, e)
  <2>1. l' = re_sort_list([l EXCEPT !.hidden = Filtered \ @])
    BY <1>1, <1>17, Zenon DEF Filter
  <2>2. l' = re_sort_list([l EXCEPT !.hidden = Filtered \ l.hidden])
    BY <2>1
  <2> QED
    BY <1>0, <1>4, <2>2, FilteredIs
<1>18. CASE Reread(k, e) \/ Search(k, e) \/ Inert(k, e)
  <2>1. l' = l \/ l' = rebuild_db(l) \/ l' = rebuild_db_1(l)
    BY <1>1, <1>18, Zenon DEF Reread, Search, Inert
  <2> QED
    BY <1>0, <1>5, <2>1
<1> QED
  BY <1>6, <1>7, <1>8, <1>9, <1>11, <1>12, <1>13, <1>14, <1>15, <1>16, <1>17, <1>18, PressIs DEF e

\* The list that a command leaves
LEMMA RunList ==
  ASSUME NEW k, NEW e, Execute(k, e)
  PROVE  \E a \in Answers(TheirQuestion(e, Command(e)[1]), Files(e)) :
            /\ l' = Run(e, Command(e)[1], Command(e)[2], a).l
            /\ did' = IF Run(e, Command(e)[1], Command(e)[2], a).did
                      THEN [op |-> Command(e)[1], t |-> Command(e)[2], u |-> e.u, n |-> e.num,
                            acts |-> Run(e, Command(e)[1], Command(e)[2], a).acts,
                            whole |-> a.yes /\ a.esc = Nobody /\ a.bad = Nobody]
                      ELSE Nothing
<1>1. \A c, q : Read(e, c, q) => l' = q
  BY DEF Read
<1>2. PICK a \in Answers(TheirQuestion(e, Command(e)[1]), Files(e)) :
        Perform(e, Command(e)[1], Command(e)[2], a)
  BY Zenon DEF Execute
<1> DEFINE r == Run(e, Command(e)[1], Command(e)[2], a)
<1>3. /\ Read(e, Zero, r.l)
      /\ did' = IF r.did THEN [op |-> Command(e)[1], t |-> Command(e)[2], u |-> e.u, n |-> e.num,
                               acts |-> r.acts,
                               whole |-> a.yes /\ a.esc = Nobody /\ a.bad = Nobody]
                ELSE Nothing
  BY <1>2, Zenon DEF Perform
<1> QED
  BY <1>1, <1>3, Zenon

LEMMA ListIs ==
  ASSUME NEW k, Press(k)
  PROVE  NextList(l, l')
<1> DEFINE e == Seen(k)
<1>1. CASE Execute(k, e)
  <2>1. PICK a : l' = Run(e, Command(e)[1], Command(e)[2], a).l
    BY <1>1, RunList
  <2>2. ASSUME NEW op, NEW t
        PROVE  NextList(l, Run(e, op, t, a).l)
    <3>1. CASE op = "mkdir"
      <4>1. Run(e, op, t, a).l = IF a.yes THEN rebuild_db(l) ELSE l
        BY <3>1 DEF Run, Result
      <4>2. NextList(l, l) /\ NextList(l, rebuild_db(l))
        BY Zenon DEF NextList, QuietList
      <4> QED
        BY <4>1, <4>2
    <3>2. CASE op # "mkdir"
      <4> DEFINE q == ui_cmd(l, op, t, e.u, e.num, a).l
      <4>1. Run(e, op, t, a).l = q
        BY <3>2 DEF Run
      <4>2. \E o1, t1, v1, n1, a1 : q = ui_cmd(l, o1, t1, v1, n1, a1).l
        <5> WITNESS op, t, e.u, e.num, a
        <5> QED
          OBVIOUS
      <4> HIDE DEF q
      <4>3. NextList(l, q)
        BY <4>2 DEF NextList
      <4> QED
        BY <4>1, <4>3
    <3> QED
      BY <3>1, <3>2
  <2> QED
    BY <2>1, <2>2
<1>2. CASE ~Execute(k, e)
  BY <1>2, QuietIs DEF NextList
<1> QED
  BY <1>1, <1>2

LEMMA NextLike ==
  ASSUME NEW r, NEW s, IsList(r), NextList(r, s)
  PROVE  Like(s, r)
<1>1. Like(r, r) /\ Like(rebuild_db(r), r) /\ Like(rebuild_db_1(r), r) /\ Like(clr_mark(r), r)
  BY EachFieldLike, RebuildLike, RereadLike, MarksLike
<1>2. Like(set_mark(clr_mark(r)), r)
  <2> DEFINE a == clr_mark(r)
  <2>1. Like(set_mark(a), a)
    BY <1>1, MarksLike DEF Like
  <2> HIDE DEF a
  <2> QED
    BY <1>1, <2>1, LikeTransitive DEF a
<1>3. \A i : Like([r EXCEPT !.cur = i], r)
  BY EachFieldLike
<1>4. \A h : Like(re_sort_list([r EXCEPT !.hidden = h]), r)
  BY SortsLike
<1>5. Like(key_mmrk(r), r) /\ Like(mmrktobot(r), r)
  BY KeysLike
<1>6. \A op, t, v, n, a : Like(ui_cmd(r, op, t, v, n, a).l, r)
  BY CommandsLike DEF Returned
<1> QED
  <2>1. ASSUME NEW i, s = [r EXCEPT !.cur = i] PROVE Like(s, r)
    BY <1>3, <2>1
  <2>2. ASSUME NEW h, s = re_sort_list([r EXCEPT !.hidden = h]) PROVE Like(s, r)
    BY <1>4, <2>2
  <2>3. ASSUME NEW op, NEW t, NEW v, NEW n, NEW a, s = ui_cmd(r, op, t, v, n, a).l
        PROVE  Like(s, r)
    BY <1>6, <2>3
  <2> QED
    BY <1>1, <1>2, <1>5, <2>1, <2>2, <2>3, Zenon DEF NextList, QuietList

\* What a command leaves in the history, and what it saves for `.`
LEMMA RunIs ==
  ASSUME IsList(l), NEW e, NEW op, NEW t, NEW a
  PROVE  Returned(Run(e, op, t, a), l)
<1>1. CASE op = "mkdir"
  <2>1. Like(l, l) /\ Like(rebuild_db(l), l)
    BY EachFieldLike, RebuildLike
  <2> QED
    BY <1>1, <2>1 DEF Run, Result, Returned
<1>2. CASE op # "mkdir"
  <2>1. Run(e, op, t, a) = ui_cmd(l, op, t, e.u, e.num, a)
    BY <1>2 DEF Run
  <2> QED
    BY <2>1, CommandsLike
<1> QED
  BY <1>1, <1>2

LEMMA ExecuteIs ==
  ASSUME NEW k, NEW e, Execute(k, e), IsList(l)
  PROVE  LET cmd == Command(e)
         IN  /\ cmd # NoCommand /\ key' = <<Zero, e.k0>>
             /\ \E d \in {TRUE, FALSE}, ret \in {0, 1} :
                  /\ ret = 1 => l.multi # {}
                  /\ d = FALSE => l.multi # {} /\ ret = 1 /\ did' = Nothing
                  /\ d = TRUE => /\ did' # Nothing /\ did'.op = cmd[1] /\ did'.t = cmd[2]
                                 /\ did'.u = e.u /\ did'.n = e.num
                  /\ saved' = save_st(e, cmd[1], ret)
                  /\ last' = IF d = TRUE \/ e.c = "n"
                             THEN [op |-> cmd[1], t |-> cmd[2], n |-> e.num, multi |-> l.multi # {}]
                             ELSE last
<1> DEFINE cmd == Command(e)
           op == cmd[1]
<1>0. cmd # NoCommand
  BY DEF Execute
<1>1. PICK a : Perform(e, cmd[1], cmd[2], a)
  BY DEF Execute
<1> DEFINE r == Run(e, cmd[1], cmd[2], a)
<1>2. Returned(r, l)
  BY RunIs
<1>3. /\ Read(e, Zero, r.l) /\ saved' = save_st(e, cmd[1], r.ret)
      /\ did' = IF r.did THEN [op |-> cmd[1], t |-> cmd[2], u |-> e.u, n |-> e.num, acts |-> r.acts,
                               whole |-> a.yes /\ a.esc = Nobody /\ a.bad = Nobody]
                ELSE Nothing
      /\ last' = IF r.did \/ e.c = "n"
                 THEN [op |-> cmd[1], t |-> cmd[2], n |-> e.num, multi |-> l.multi # {}] ELSE last
  BY <1>1, Zenon DEF Perform
<1>4. key' = <<Zero, e.k0>>
  BY <1>3 DEF Read
<1> HIDE DEF r
<1>21. r.did = TRUE \/ (r.did = FALSE /\ l.multi # {} /\ r.ret = 1)
  BY <1>2 DEF Returned
<1>22. r.ret \in {0, 1} /\ (r.ret = 1 => l.multi # {})
  BY <1>2 DEF Returned
<1>5. cmd[1] # "none"
  <2>1. Fixed(l, e.c, e.k0, e.k1) # NoCommand /\ cmd = Fixed(l, e.c, e.k0, e.k1)
    BY <1>0, CommandIsFixed
  <2>2. PICK x \in Manual : cmd = <<x.op, x.t>>
    BY <2>1, FixedHasRow
  <2> HIDE DEF cmd
  <2>3. x.op # "none"
    BY Tables DEF Manual, EditRows, row
  <2> QED
    BY <2>2, <2>3
<1> HIDE DEF cmd
<1>6. CASE r.did = TRUE
  <2>1. did' # Nothing /\ did'.op = cmd[1] /\ did'.t = cmd[2] /\ did'.u = e.u /\ did'.n = e.num
    BY <1>3, <1>5, <1>6 DEF Nothing
  <2>2. last' = [op |-> cmd[1], t |-> cmd[2], n |-> e.num, multi |-> l.multi # {}]
    BY <1>3, <1>6
  <2>3. \E ret \in {0, 1} : (ret = 1 => l.multi # {}) /\ saved' = save_st(e, cmd[1], ret)
    BY <1>3, <1>22
  <2> QED
    BY <1>0, <1>4, <2>1, <2>2, <2>3, Zenon DEF cmd
<1>7. CASE r.did = FALSE
  <2>1. did' = Nothing /\ l.multi # {} /\ r.ret = 1
    BY <1>21, <1>3, <1>7
  <2>2. last' = IF e.c = "n" THEN [op |-> cmd[1], t |-> cmd[2], n |-> e.num, multi |-> l.multi # {}]
                ELSE last
    BY <1>3, <1>7
  <2>3. saved' = save_st(e, cmd[1], 1)
    BY <1>3, <2>1
  <2> QED
    BY <1>0, <1>4, <2>1, <2>2, <2>3, Zenon DEF cmd
<1> QED
  BY <1>21, <1>6, <1>7

\* Other keys leave the history alone.
LEMMA HistoryIs ==
  ASSUME NEW k, Press(k)
  PROVE  \/ NoRun
         \/ Execute(k, Seen(k))
         \/ /\ k = "F1" /\ saved' = NotSaved /\ (did' = Nothing \/ did'.op = "fkey")
            /\ last' = last \/ last'.multi = (l.multi # {})
<1>1. CASE FunctionKey(k, Seen(k))
  <2>1. k = "F1"
    BY <1>1, Zenon DEF FunctionKey
  <2>2. \/ \E v, n, a : /\ saved' = NotSaved
                       /\ did' = [op |-> "fkey", t |-> 0, u |-> v, n |-> n, acts |-> a, whole |-> TRUE]
                       /\ last' = [op |-> "fkey", t |-> 0, n |-> n, multi |-> l.multi # {}]
        \/ saved' \in {saved, NotSaved} /\ did' = Nothing /\ last' = last
    BY <1>1, Zenon DEF FunctionKey
  <2>3. CASE saved' \in {saved, NotSaved} /\ did' = Nothing /\ last' = last
    BY <2>1, <2>3 DEF NoRun
  <2>4. CASE \E v, n, a : /\ saved' = NotSaved
                         /\ did' = [op |-> "fkey", t |-> 0, u |-> v, n |-> n, acts |-> a, whole |-> TRUE]
                         /\ last' = [op |-> "fkey", t |-> 0, n |-> n, multi |-> l.multi # {}]
    BY <2>1, <2>4
  <2> QED
    BY <2>2, <2>3, <2>4
<1> QED
  BY <1>1, PressIs, Zenon DEF Number, QuoteMark, Quote, Wait, Move, Mark, RemoveMark, Multi,
     Sort, Filter, Reread, Search, Inert

-----------------------------------------------------------------------------
(* What is in c and key is what was typed; the number is the one typed; a  *)
(* saved command is the last one.                                          *)
Plain(from) == \A i \in from..Len(typed) : typed[i] \notin DigitKeys \cup {"'"}
Reset == num = 1 /\ ns = FALSE /\ us = FALSE /\ span = {}
KeyOK ==
  LET n == Len(typed)
  IN  /\ n >= 1
      /\ typed = <<".">> => key[1] \in {".", "T", "@"}
      /\ typed # <<".">> => key[1] = typed[n]
      /\ n = 1 /\ typed # <<".">> => key[2] = Zero
      /\ n >= 2 => key[2] = typed[n - 1] \/ (n = 2 /\ typed[1] = "." /\ key[2] \in {".", "T", "@"})
NumberOK ==
  /\ Plain(1) /\ typed[1] # "." => num = 1 /\ us = FALSE
  /\ typed[1] \in DigitKeys /\ Plain(2) => num = Value(typed[1]) /\ us = FALSE
KeysOK ==
  /\ IsList(l) /\ typed \in Seq(Keys) /\ key = <<key[1], key[2]>>
  /\ key[1] = Zero => Reset
  /\ key[1] # Zero => KeyOK /\ NumberOK
ModeOK == l.mode \in AllModes /\ (key[1] \in {"T", "@", "P"} => l.mode = "diff")
SavedIs(op, t) == Fixed(l, saved.c, saved.key[1], saved.key[2]) = <<op, t>>
SavedOK ==
  saved.c # Zero => /\ Fixed(l, saved.c, saved.key[1], saved.key[2]) # NoCommand
                    /\ last.multi = FALSE => SavedIs(last.op, last.t) /\ saved.num = last.n

LEMMA KeysAre == "." \notin DigitKeys /\ "'" \notin DigitKeys /\ Zero \notin DigitKeys
BY DigitsAre DEF Zero

LEMMA StartsOK ==
  ASSUME Init
  PROVE  KeysOK /\ SavedOK /\ ModeOK
<1>1. IsList(l) /\ l.mode \in AllModes
  <2>1. PICK mode \in {"bmode", "fmode", "diff"}, col \in {0, 1}, disk \in SUBSET (Entry \X {1, 2}) :
          l = diff_db_sort([mode |-> mode, col |-> col, disk |-> disk, type |-> disk,
                            hidden |-> {}, list |-> <<>>, multi |-> {}, prev |-> None,
                            mark |-> None, idx |-> None, cur |-> 0])
    BY Zenon DEF Init
  <2> DEFINE a == [mode |-> mode, col |-> col, disk |-> disk, type |-> disk,
                   hidden |-> {}, list |-> <<>>, multi |-> {}, prev |-> None,
                   mark |-> None, idx |-> None, cur |-> 0]
  <2>2. a = [x \in Fields |-> a[x]] /\ a.mode = mode /\ a.col = col
    BY DEF Fields
  <2> HIDE DEF a
  <2>3. IsList(a)
    BY <2>2 DEF IsList
  <2>4. l = diff_db_sort(a)
    BY <2>1 DEF a
  <2> QED
    BY <2>2, <2>3, <2>4, MarksLike DEF Like, AllModes
<1>2. key = <<Zero, Zero>> /\ typed = <<>> /\ num = 1 /\ ns = FALSE /\ us = FALSE /\ span = {}
      /\ saved = NotSaved
  BY DEF Init
<1>3. key[1] = Zero /\ key[2] = Zero /\ typed \in Seq(Keys)
  BY <1>2
<1> QED
  BY <1>1, <1>2, <1>3 DEF KeysOK, SavedOK, ModeOK, NotSaved, Reset, Zero

LEMMA TypedIs ==
  ASSUME NEW k, Press(k)
  PROVE  typed' = IF key[1] = Zero THEN <<k>> ELSE Append(typed, k)
BY PressIs DEF Typed

\* X and n, where they are no command, leave nothing in c; T and @ wait.
LEMMA ClearsIs ==
  ASSUME NEW k, Press(k), Seen(k).c \in {"X", "n"}
  PROVE  key'[1] = Zero
<1> DEFINE e == Seen(k)
<1>1. k \notin DigitKeys
  BY NotRepeated, DigitsAre
<1>2. ~Number(k, e) /\ ~QuoteMark(k, e) /\ ~Quote(k, e) /\ ~Multi(k, e)
  BY <1>1 DEF Number, QuoteMark, Quote, Multi
<1>3. ~Wait(k, e)
  BY Tables DEF Wait, Waits
<1>4. CASE FunctionKey(k, e)
  BY <1>4 DEF FunctionKey
<1>5. CASE ~FunctionKey(k, e)
  <2>1. \E q : Read(e, Zero, q)
    BY <1>2, <1>3, <1>5, PressIs, Zenon
       DEF Execute, Perform, Move, Mark, RemoveMark, Sort, Filter, Reread, Search, Inert
  <2> QED
    BY <2>1 DEF Read
<1> QED
  BY <1>4, <1>5

LEMMA TWaits ==
  ASSUME NEW k, Press(k), Seen(k).c \in {"T", "@"}, Command(Seen(k)) = NoCommand
  PROVE  key' = <<Seen(k).c, Seen(k).k0>>
<1> DEFINE e == Seen(k)
<1>1. k \notin DigitKeys /\ k # "F1"
  BY NotRepeated, DigitsAre
<1>2. ~Number(k, e) /\ ~QuoteMark(k, e) /\ ~Quote(k, e) /\ ~FunctionKey(k, e) /\ ~Execute(k, e)
  BY <1>1 DEF Number, QuoteMark, Quote, FunctionKey, Execute
<1>3. ~Move(k, e) /\ ~Mark(k, e) /\ ~RemoveMark(k, e) /\ ~Multi(k, e) /\ ~Sort(k, e)
  BY DEF Move, Mark, RemoveMark, Multi, Sort, SortKeys
<1>4. ~Filter(k, e) /\ ~Reread(k, e) /\ ~Search(k, e) /\ ~Inert(k, e)
  BY Tables DEF Filter, Reread, Search, Inert, Waits
<1>5. Wait(k, e)
  BY <1>2, <1>3, <1>4, PressIs
<1>6. \E q : Read(e, e.c, q)
  BY <1>5, Zenon DEF Wait
<1> QED
  BY <1>6 DEF Read

\* What `.` does: the saved command, or it waits as the command does.
LEMMA RepeatIs ==
  ASSUME SavedOK, NEW k, Press(k), Repeats(k), IsList(l)
  PROVE  /\ key'[1] = Zero \/ key'[1] \in {"T", "@"}
         /\ Command(Seen(k)) # NoCommand =>
              Command(Seen(k)) = Fixed(l, saved.c, saved.key[1], saved.key[2])
<1> DEFINE e == Seen(k)
<1>1. e.c = saved.c /\ e.k0 = saved.key[1] /\ e.k1 = saved.key[2] /\ saved.c # Zero
  BY SeenIs DEF Repeats
<1>2. Fixed(l, e.c, e.k0, e.k1) # NoCommand
  BY <1>1 DEF SavedOK
<1>3. \/ Command(e) = Fixed(l, e.c, e.k0, e.k1)
      \/ Command(e) = NoCommand /\ e.c \in {"T", "@"}
      \/ Command(e) = NoCommand /\ e.c \in {"X", "n"}
  BY CommandIsFixed
<1>4. CASE Command(e) # NoCommand
  <2>1. Execute(k, e)
    BY <1>4, OnlyExecute
  <2>2. key' = <<Zero, e.k0>>
    BY <2>1, ExecuteIs
  <2> QED
    BY <1>1, <1>3, <2>2
<1>5. CASE Command(e) = NoCommand /\ e.c \in {"T", "@"}
  BY <1>5, TWaits
<1>6. CASE Command(e) = NoCommand /\ e.c \in {"X", "n"}
  BY <1>6, ClearsIs
<1> QED
  BY <1>2, <1>3, <1>4, <1>5, <1>6

LEMMA KeysStep ==
  ASSUME KeysOK, SavedOK, NEW k \in Keys, Press(k)
  PROVE  KeysOK'
<1> DEFINE e == Seen(k)
<1>1. Like(l', l)
  BY ListIs, NextLike DEF KeysOK
<1>2. typed \in Seq(Keys) /\ Len(typed) \in Nat /\ key = <<key[1], key[2]>>
  BY DEF KeysOK
<1>3. typed' = IF key[1] = Zero THEN <<k>> ELSE Append(typed, k)
  BY TypedIs
<1>4. typed' \in Seq(Keys)
  BY <1>2, <1>3
<1>5. \/ key' = <<Zero, e.k0>> /\ num' = 1 /\ ns' = FALSE /\ us' = FALSE /\ span' = {}
      \/ /\ key' = <<e.c, e.k0>>
         /\ e.c \notin DigitKeys \cup {"'"} =>
              num' = e.num /\ us' = us /\ ns' = ns /\ u' = u /\ span' = span
         /\ e.c \in DigitKeys =>
              num' = (IF ns THEN num * 10 ELSE 0) + Value(e.c) /\ us' = us
  BY KeyIs
<1>6. key' = <<key'[1], key'[2]>>
  BY <1>5
<1>7. CASE key'[1] = Zero
  <2>1. Reset'
    <3>1. CASE key' = <<Zero, e.k0>> /\ num' = 1 /\ ns' = FALSE /\ us' = FALSE /\ span' = {}
      BY <3>1 DEF Reset
    <3>2. CASE ~(key' = <<Zero, e.k0>> /\ num' = 1 /\ ns' = FALSE /\ us' = FALSE /\ span' = {})
      <4>1. key' = <<e.c, e.k0>> /\ e.c = Zero
        BY <1>5, <1>7, <3>2
      <4>2. Zero \notin DigitKeys \cup {"'"}
        BY KeysAre DEF Zero
      <4>3. num' = e.num /\ us' = us /\ ns' = ns /\ span' = span
        BY <1>5, <3>2, <4>1, <4>2, Zenon
      <4>4. ~Repeats(k) /\ key[1] = Zero
        <5>1. Repeats(k) => e.c # Zero
          BY SeenIs DEF Repeats
        <5>2. ~Repeats(k) => e.c = k
          BY SeenIs
        <5>3. k # Zero
          BY DigitsAre, Tables DEF Keys, SortKeys, Zero
        <5> QED
          BY <4>1, <5>1, <5>2, <5>3
      <4>5. Reset /\ e.num = num
        BY <4>4, SeenIs DEF KeysOK
      <4> QED
        BY <4>3, <4>5 DEF Reset
    <3> QED
      BY <3>1, <3>2
  <2> QED
    BY <1>1, <1>4, <1>6, <1>7, <2>1 DEF KeysOK, Like
<1>8. CASE key'[1] # Zero
  <2>1. /\ key' = <<e.c, e.k0>> /\ e.c # Zero
        /\ e.c \notin DigitKeys \cup {"'"} => num' = e.num /\ us' = us
        /\ e.c \in DigitKeys => num' = (IF ns THEN num * 10 ELSE 0) + Value(e.c) /\ us' = us
    BY <1>5, <1>8
  <2>2. CASE Repeats(k)
    <3>1. typed' = <<".">> /\ key'[1] \in {"T", "@"}
      BY <1>3, <1>8, <2>2, RepeatIs DEF KeysOK, Repeats
    <3>2. KeyOK'
      BY <3>1 DEF KeyOK
    <3>3. typed'[1] = "."
      BY <3>1
    <3>4. NumberOK'
      BY <3>3, KeysAre DEF NumberOK
    <3> QED
      BY <1>1, <1>4, <1>6, <1>8, <3>2, <3>4 DEF KeysOK, Like
  <2>3. CASE ~Repeats(k) /\ key[1] = Zero
    <3>1. typed' = <<k>> /\ e.c = k /\ e.k0 = Zero /\ e.num = num
      BY <1>3, <2>3, SeenIs
    <3>2. typed'[1] = k /\ Len(typed') = 1 /\ key'[1] = k /\ key'[2] = Zero
      BY <2>1, <3>1
    <3>3. KeyOK'
      BY <3>1, <3>2 DEF KeyOK
    <3>4. num = 1 /\ ns = FALSE /\ us = FALSE
      BY <2>3 DEF KeysOK, Reset
    <3>5. Plain(1)' => k \notin DigitKeys \cup {"'"}
      BY <3>2 DEF Plain
    <3>6. k \in DigitKeys => num' = Value(k) /\ us' = us
      <4>1. ASSUME k \in DigitKeys PROVE num' = 0 + Value(k) /\ us' = us
        BY <2>1, <3>1, <3>4, <4>1
      <4>2. ASSUME k \in DigitKeys PROVE Value(k) \in Int
        BY <4>2, DigitsAre, KeyLoopAssumption DEF DigitKeys
      <4> QED
        BY <4>1, <4>2
    <3>7. NumberOK'
      BY <2>1, <3>1, <3>2, <3>4, <3>5, <3>6 DEF NumberOK
    <3> QED
      BY <1>1, <1>4, <1>6, <1>8, <3>3, <3>7 DEF KeysOK, Like
  <2>4. CASE ~Repeats(k) /\ key[1] # Zero
    <3> DEFINE n == Len(typed)
    <3>1. typed' = Append(typed, k) /\ e.c = k /\ e.k0 = key[1] /\ e.num = num
      BY <1>3, <2>4, SeenIs
    <3>2. KeyOK /\ NumberOK /\ n >= 1
      BY <2>4 DEF KeysOK, KeyOK
    <3>3. Len(typed') = n + 1 /\ typed'[n + 1] = k /\ \A i \in 1..n : typed'[i] = typed[i]
      BY <1>2, <3>1
    <3>4. key'[1] = k /\ key'[2] = key[1]
      BY <2>1, <3>1
    <3>5. KeyOK'
      <4>1. typed' # <<".">>
        BY <1>2, <3>2, <3>3
      <4>2. key'[1] = typed'[Len(typed')] /\ Len(typed') >= 2
        BY <1>2, <3>2, <3>3, <3>4
      <4>3. typed'[Len(typed') - 1] = typed[n]
        BY <1>2, <3>2, <3>3
      <4>4. CASE typed = <<".">>
        <5>1. n = 1 /\ typed[1] = "." /\ key[1] \in {".", "T", "@"}
          BY <3>2, <4>4 DEF KeyOK
        <5>2. typed'[1] = "." /\ Len(typed') = 2
          BY <3>3, <5>1
        <5> QED
          BY <3>4, <4>1, <4>2, <5>1, <5>2 DEF KeyOK
      <4>5. CASE typed # <<".">>
        <5>1. key'[2] = typed'[Len(typed') - 1]
          BY <3>2, <3>4, <4>3, <4>5 DEF KeyOK
        <5> QED
          BY <4>1, <4>2, <5>1 DEF KeyOK
      <4> QED
        BY <4>4, <4>5
    <3>6. ASSUME NEW from \in {1, 2}, Plain(from)'
          PROVE  Plain(from) /\ k \notin DigitKeys \cup {"'"}
      <4>1. \A i \in from..(n + 1) : typed'[i] \notin DigitKeys \cup {"'"}
        BY <3>3, <3>6 DEF Plain
      <4>2. n + 1 \in from..(n + 1) /\ \A i \in from..n : i \in from..(n + 1) /\ i \in 1..n
        BY <1>2, <3>2
      <4> QED
        BY <3>3, <4>1, <4>2 DEF Plain
    <3>7. typed'[1] = typed[1]
      BY <1>2, <3>2, <3>3
    <3>8. ASSUME k \notin DigitKeys \cup {"'"} PROVE num' = num /\ us' = us
      BY <2>1, <3>1, <3>8
    <3>9. NumberOK'
      BY <3>2, <3>6, <3>7, <3>8 DEF NumberOK
    <3> QED
      BY <1>1, <1>4, <1>6, <1>8, <3>5, <3>9 DEF KeysOK, Like
  <2> QED
    BY <2>2, <2>3, <2>4
<1> QED
  BY <1>7, <1>8

LEMMA SavedStep ==
  ASSUME KeysOK, SavedOK, NEW k \in Keys, Press(k)
  PROVE  SavedOK'
<1> DEFINE e == Seen(k)
<1>1. l'.mode = l.mode /\ l'.col = l.col
  BY ListIs, NextLike DEF KeysOK, Like
<1>2. \A c, k0, k1 : Fixed(l', c, k0, k1) = Fixed(l, c, k0, k1)
  BY <1>1, FixedSame
<1>3. CASE NoRun
  BY <1>2, <1>3 DEF NoRun, SavedOK, SavedIs
<1>4. CASE saved' = NotSaved
  BY <1>4 DEF SavedOK, NotSaved
<1>5. CASE Execute(k, e)
  <2> DEFINE cmd == Command(e)
  <2>1. cmd # NoCommand
    BY <1>5, ExecuteIs DEF KeysOK
  <2>2. PICK d \in {TRUE, FALSE}, ret \in {0, 1} :
                  /\ ret = 1 => l.multi # {}
                  /\ d = FALSE => l.multi # {} /\ ret = 1 /\ did' = Nothing
                  /\ d = TRUE => /\ did' # Nothing /\ did'.op = cmd[1] /\ did'.t = cmd[2]
                                 /\ did'.u = e.u /\ did'.n = e.num
                  /\ saved' = save_st(e, cmd[1], ret)
                  /\ last' = IF d = TRUE \/ e.c = "n"
                             THEN [op |-> cmd[1], t |-> cmd[2], n |-> e.num, multi |-> l.multi # {}]
                             ELSE last
    BY <1>5, ExecuteIs, Zenon DEF KeysOK
  <2>3. Fixed(l, e.c, e.k0, e.k1) = cmd /\ cmd = <<cmd[1], cmd[2]>>
    <3>1. Fixed(l, e.c, e.k0, e.k1) = cmd
      BY <2>1, CommandIsFixed
    <3>2. \E x \in Manual : cmd = <<x.op, x.t>>
      BY <2>1, <3>1, FixedHasRow
    <3> QED
      BY <3>1, <3>2
  <2> HIDE DEF cmd, e
  <2>4. saved' = IF ret # 0 /\ e.c # "n" THEN saved
                 ELSE IF Repeatable(e, cmd[1]) THEN [c |-> e.c, key |-> <<e.k0, e.k1>>, num |-> e.num]
                 ELSE NotSaved
    BY <2>2 DEF save_st
  <2>5. CASE ret # 0 /\ e.c # "n" /\ d = FALSE
    BY <1>2, <2>2, <2>4, <2>5 DEF SavedOK, SavedIs
  <2>6. CASE ret # 0 /\ e.c # "n" /\ d = TRUE
    <3>1. saved' = saved /\ last'.multi = TRUE
      BY <2>2, <2>4, <2>6
    <3> QED
      BY <1>2, <3>1 DEF SavedOK
  <2>7. CASE ~(ret # 0 /\ e.c # "n")
    <3>1. CASE ~Repeatable(e, cmd[1])
      BY <2>4, <2>7, <3>1 DEF SavedOK, NotSaved
    <3>2. CASE Repeatable(e, cmd[1])
      <4>1. saved' = [c |-> e.c, key |-> <<e.k0, e.k1>>, num |-> e.num]
        BY <2>4, <2>7, <3>2
      <4>2. saved'.c = e.c /\ saved'.key[1] = e.k0 /\ saved'.key[2] = e.k1 /\ saved'.num = e.num
        BY <4>1
      <4>3. last'.op = cmd[1] /\ last'.t = cmd[2] /\ last'.n = e.num
        BY <2>2, <2>7
      <4> QED
        BY <1>2, <2>1, <2>3, <4>2, <4>3 DEF SavedOK, SavedIs, cmd
    <3> QED
      BY <3>1, <3>2
  <2> QED
    BY <2>5, <2>6, <2>7
<1> QED
  BY <1>3, <1>4, <1>5, HistoryIs

LEMMA ModeStep ==
  ASSUME KeysOK, ModeOK, NEW k \in Keys, Press(k)
  PROVE  ModeOK'
<1> DEFINE e == Seen(k)
<1>1. l'.mode = l.mode
  BY ListIs, NextLike DEF KeysOK, Like
<1>2. key'[1] \in {Zero, e.c}
  <2>1. key' = <<Zero, e.k0>> \/ key' = <<e.c, e.k0>>
    BY KeyIs, Zenon
  <2> QED
    BY <2>1
<1>3. ASSUME e.c \in {"T", "@", "P"}, l.mode # "diff" PROVE key'[1] = Zero
  <2>1. Command(e) = OneKeyCommand(e)
    BY <1>3, Tables DEF Command
  <2>2. OneKeyCommand(e) \in {<<"mv", 0>>, <<"ln", 0>>, <<"mkdir", 0>>}
    BY <1>3, Tables DEF OneKeyCommand, AnyDst
  <2>3. Command(e) # NoCommand
    BY <2>1, <2>2 DEF NoCommand
  <2>4. Execute(k, e)
    BY <2>3, OnlyExecute
  <2> QED
    BY <2>4, ExecuteIs DEF KeysOK
<1>4. Zero \notin {"T", "@", "P"}
  BY DEF Zero
<1> HIDE DEF e
<1> QED
  BY <1>1, <1>2, <1>3, <1>4 DEF ModeOK

-----------------------------------------------------------------------------
(* A documented sequence of keys is its command.                           *)
Letters == {"d", "l", "r", "p", "n", "u", "g", "<", ">", "C", "B", "U", "DC", "T", "@", "X", "P", "e"}
Number0(d) == IF d = 0 THEN 1 ELSE d % 10
Prefix(d)  == IF d = 0 THEN <<>> ELSE <<Digits[d]>>

\* What the loop has of a sequence of letters, alone or after a digit.
Before(k, d) == /\ Seen(k).c = k /\ ~Repeats(k) /\ Seen(k).k0 = key[1] /\ Seen(k).k1 = key[2]
                /\ Seen(k).num = Number0(d) /\ Seen(k).u = l.cur
LEMMA LettersAre ==
  ASSUME NEW d \in Digit \cup {0}
  PROVE  /\ "." \notin Letters /\ "'" \notin Letters /\ Letters \cap DigitKeys = {}
         /\ d # 0 => /\ Digits[d] \in DigitKeys /\ Value(Digits[d]) = Number0(d)
                     /\ Digits[d] # "." /\ Digits[d] # "S" /\ Digits[d] \notin Letters
         /\ Zero \notin Letters /\ Zero # "S"
<1>1. 0 \notin Digit
  BY KeyLoopAssumption
<1> QED
  BY <1>1, DigitsAre DEF Letters, Number0, Zero

\* The number of what was typed before
LEMMA CountIs ==
  ASSUME KeysOK, NEW k \in Letters, NEW d \in Digit \cup {0},
         key[1] = Zero => d = 0,
         key[1] # Zero => /\ typed[1] = (IF d = 0 THEN typed[1] ELSE Digits[d])
                          /\ \A i \in (IF d = 0 THEN 1 ELSE 2)..Len(typed) : typed[i] \in Letters
                          /\ Len(typed) >= 1 /\ typed[1] # "."
  PROVE  Before(k, d)
<1>1. k # "." /\ ~Repeats(k)
  BY LettersAre DEF Repeats
<1>2. num = Number0(d) /\ us = FALSE
  <2>1. CASE key[1] = Zero
    BY <2>1 DEF KeysOK, Reset, Number0
  <2>2. CASE key[1] # Zero /\ d = 0
    <3>1. Plain(1)
      BY <2>2, LettersAre DEF Plain
    <3> QED
      BY <2>2, <3>1 DEF KeysOK, NumberOK, Number0
  <2>3. CASE key[1] # Zero /\ d # 0
    <3>1. Plain(2)
      BY <2>3, LettersAre DEF Plain
    <3>2. typed[1] \in DigitKeys /\ Value(typed[1]) = Number0(d)
      BY <2>3, LettersAre
    <3> QED
      BY <2>3, <3>1, <3>2 DEF KeysOK, NumberOK
  <2> QED
    BY <2>1, <2>2, <2>3
<1>3. Seen(k).u = l.cur
  BY <1>2, SeenIs
<1> QED
  BY <1>1, <1>2, <1>3, SeenIs DEF Before

\* Short sequences
LEMMA Joined ==
  ASSUME NEW S, NEW q \in Seq(S), NEW d \in Digit \cup {0}
  PROVE  LET t == Prefix(d) \o q
         IN  /\ d = 0 => t = q
             /\ d # 0 => /\ Len(t) = Len(q) + 1 /\ t[1] = Digits[d]
                         /\ \A i \in 2..(Len(q) + 1) : t[i] = q[i - 1]
<1> DEFINE R == S \cup {Digits[d]}
           a == <<Digits[d]>>
           t == a \o q
<1>1. q \in Seq(R) /\ Len(q) \in Nat
  OBVIOUS
<1>2. d = 0 => Prefix(d) \o q = q
  BY ConcatEmptySeq DEF Prefix
<1>3. a \in Seq(R) /\ Len(a) = 1 /\ a[1] = Digits[d] /\ (d # 0 => Prefix(d) = a)
  BY DEF Prefix
<1> HIDE DEF a, R
<1>4. /\ Len(t) = Len(a) + Len(q)
      /\ \A i \in 1..(Len(a) + Len(q)) : t[i] = IF i <= Len(a) THEN a[i] ELSE q[i - Len(a)]
  BY <1>1, <1>3, ConcatProperties
<1> HIDE DEF t
<1>5. /\ Len(t) = Len(q) + 1 /\ t[1] = Digits[d]
      /\ \A i \in 2..(Len(q) + 1) : t[i] = q[i - 1]
  BY <1>1, <1>3, <1>4
<1> QED
  BY <1>2, <1>3, <1>5 DEF t

\* The keys typed, one by one
Spelled(q, d) == typed' = Prefix(d) \o q

LEMMA JoinedOne ==
  ASSUME NEW c, NEW d \in Digit \cup {0}, Spelled(<<c>>, d)
  PROVE  /\ d = 0 => Len(typed') = 1 /\ typed'[1] = c
         /\ d # 0 => /\ Len(typed') = 2 /\ typed'[1] = Digits[d]
                     /\ typed'[2] = c
<1> DEFINE q == <<c>>
           t == Prefix(d) \o q
<1>1. q \in Seq({c}) /\ Len(q) = 1 /\ q[1] = c
  OBVIOUS
<1>2. typed' = t
  BY DEF Spelled
<1> HIDE DEF q
<1>3. /\ d = 0 => t = q
      /\ d # 0 => Len(t) = Len(q) + 1 /\ t[1] = Digits[d] /\ \A i \in 2..(Len(q) + 1) : t[i] = q[i - 1]
  BY <1>1, Joined
<1> HIDE DEF t
<1>4. d = 0 => Len(t) = 1 /\ t[1] = c
  BY <1>1, <1>3
<1>5. d # 0 => Len(t) = 2 /\ t[1] = Digits[d] /\ t[2] = c
  BY <1>1, <1>3
<1> QED
  BY <1>2, <1>4, <1>5

LEMMA JoinedTwo ==
  ASSUME NEW a, NEW c, NEW d \in Digit \cup {0}, Spelled(<<a, c>>, d)
  PROVE  /\ d = 0 => Len(typed') = 2 /\ typed'[1] = a /\ typed'[2] = c
         /\ d # 0 => /\ Len(typed') = 3 /\ typed'[1] = Digits[d]
                     /\ typed'[2] = a /\ typed'[3] = c
<1> DEFINE q == <<a, c>>
           t == Prefix(d) \o q
<1>1. q \in Seq({a, c}) /\ Len(q) = 2 /\ q[1] = a /\ q[2] = c
  OBVIOUS
<1>2. typed' = t
  BY DEF Spelled
<1> HIDE DEF q
<1>3. /\ d = 0 => t = q
      /\ d # 0 => Len(t) = Len(q) + 1 /\ t[1] = Digits[d] /\ \A i \in 2..(Len(q) + 1) : t[i] = q[i - 1]
  BY <1>1, Joined
<1> HIDE DEF t
<1>4. d = 0 => Len(t) = 2 /\ t[1] = a /\ t[2] = c
  BY <1>1, <1>3
<1>5. d # 0 => Len(t) = 3 /\ t[1] = Digits[d] /\ t[2] = a /\ t[3] = c
  BY <1>1, <1>3
<1> QED
  BY <1>2, <1>4, <1>5

LEMMA JoinedThree ==
  ASSUME NEW a, NEW b, NEW c, NEW d \in Digit \cup {0}, Spelled(<<a, b, c>>, d)
  PROVE  /\ d = 0 => Len(typed') = 3 /\ typed'[1] = a /\ typed'[2] = b /\ typed'[3] = c
         /\ d # 0 => /\ Len(typed') = 4 /\ typed'[1] = Digits[d]
                     /\ typed'[2] = a /\ typed'[3] = b /\ typed'[4] = c
<1> DEFINE q == <<a, b, c>>
           t == Prefix(d) \o q
<1>1. q \in Seq({a, b, c}) /\ Len(q) = 3 /\ q[1] = a /\ q[2] = b /\ q[3] = c
  OBVIOUS
<1>2. typed' = t
  BY DEF Spelled
<1> HIDE DEF q
<1>3. /\ d = 0 => t = q
      /\ d # 0 => Len(t) = Len(q) + 1 /\ t[1] = Digits[d] /\ \A i \in 2..(Len(q) + 1) : t[i] = q[i - 1]
  BY <1>1, Joined
<1> HIDE DEF t
<1>4. d = 0 => Len(t) = 3 /\ t[1] = a /\ t[2] = b /\ t[3] = c
  BY <1>1, <1>3
<1>5. d # 0 => Len(t) = 4 /\ t[1] = Digits[d] /\ t[2] = a /\ t[3] = b /\ t[4] = c
  BY <1>1, <1>3
<1> QED
  BY <1>2, <1>4, <1>5

LEMMA Appended ==
  ASSUME NEW S, NEW s \in Seq(S), NEW x \in S, NEW t, t = Append(s, x)
  PROVE  /\ Len(t) = Len(s) + 1 /\ t[Len(s) + 1] = x /\ Len(s) \in Nat
         /\ \A i \in 1..Len(s) : t[i] = s[i]
OBVIOUS

LEMMA AppendedToOne ==
  ASSUME NEW a, NEW x
  PROVE  Append(<<a>>, x) = <<a, x>>
<1> DEFINE S == {a, x}
           s == <<a>>
           t == Append(s, x)
           v == <<a, x>>
<1>1. s \in Seq(S) /\ Len(s) = 1 /\ s[1] = a
  OBVIOUS
<1>2. v \in Seq(S) /\ Len(v) = 2 /\ v[1] = a /\ v[2] = x
  OBVIOUS
<1> HIDE DEF s
<1>3. t \in Seq(S) /\ Len(t) = 2 /\ t[1] = a /\ t[2] = x
  <2>1. t \in Seq(S) /\ x \in S
    BY <1>1
  <2>2. Len(t) = Len(s) + 1 /\ t[Len(s) + 1] = x /\ \A i \in 1..Len(s) : t[i] = s[i]
    BY <1>1, <2>1, Appended, SMTT(30)
  <2>3. Len(s) + 1 = 2 /\ 1 \in 1..Len(s)
    BY <1>1
  <2> QED
    BY <1>1, <2>1, <2>2, <2>3
<1>4. \A i \in 1..2 : i = 1 \/ i = 2
  OBVIOUS
<1> HIDE DEF t, v, S
<1>5. t = v
  <2>1. \A i \in 1..Len(t) : t[i] = v[i]
    BY <1>2, <1>3, <1>4
  <2> QED
    BY <1>2, <1>3, <2>1, SeqEqual
<1> QED
  BY <1>5 DEF t, v, s

\* What was typed before the last key of a short sequence
LEMMA BeforeLast ==
  ASSUME KeysOK, NEW k \in Keys, Press(k), Len(typed') # 1
  PROVE  /\ key[1] # Zero /\ Len(typed') = Len(typed) + 1 /\ k = typed'[Len(typed')]
         /\ Len(typed) \in Nat /\ \A i \in 1..Len(typed) : typed[i] = typed'[i]
<1>1. typed' = IF key[1] = Zero THEN <<k>> ELSE Append(typed, k)
  BY TypedIs
<1>2. key[1] # Zero
  BY <1>1
<1>3. Len(typed') = Len(typed) + 1 /\ typed'[Len(typed) + 1] = k /\ Len(typed) \in Nat
      /\ \A i \in 1..Len(typed) : typed'[i] = typed[i]
  BY <1>1, <1>2, Appended DEF KeysOK
<1> QED
  BY <1>2, <1>3

LEMMA OneTyped ==
  ASSUME KeysOK, NEW k \in Keys, Press(k), NEW c \in Letters, NEW d \in Digit \cup {0},
         Spelled(<<c>>, d)
  PROVE  k = c /\ Before(k, d) /\ Seen(k).k0 # "S"
<1>1. typed' = IF key[1] = Zero THEN <<k>> ELSE Append(typed, k)
  BY TypedIs
<1>2. typed \in Seq(Keys) /\ Len(typed) \in Nat /\ (key[1] # Zero => Len(typed) >= 1)
  BY DEF KeysOK, KeyOK
<1>3. CASE d = 0
  <2>1. Len(typed') = 1 /\ typed'[1] = c
    BY <1>3, JoinedOne
  <2>2. key[1] = Zero /\ k = c
    <3>1. key[1] = Zero
      BY <1>1, <1>2, <2>1, Appended
    <3> QED
      BY <1>1, <2>1, <3>1
  <2>3. Before(k, d)
    BY <1>3, <2>2, CountIs
  <2> QED
    BY <2>2, <2>3, LettersAre DEF Before
<1>4. CASE d # 0
  <2>1. Len(typed') = 2 /\ typed'[1] = Digits[d] /\ typed'[2] = c
    BY <1>4, JoinedOne
  <2>2. key[1] # Zero /\ Len(typed) = 1 /\ typed[1] = Digits[d] /\ k = c
    <3>1. Len(typed') # 1
      BY <2>1
    <3>2. /\ key[1] # Zero /\ Len(typed') = Len(typed) + 1 /\ k = typed'[Len(typed')]
          /\ Len(typed) \in Nat /\ \A i \in 1..Len(typed) : typed[i] = typed'[i]
      BY <3>1, BeforeLast
    <3>3. Len(typed) = 1
      <4>1. \A i, j \in Nat : j = i + 1 /\ j = 2 => i = 1
        OBVIOUS
      <4>2. Len(typed') = 2 /\ Len(typed') = Len(typed) + 1 /\ Len(typed) \in Nat
        BY <2>1, <3>2
      <4> QED
        BY <4>1, <4>2
    <3>4. 1 \in 1..Len(typed)
      BY <3>3
    <3> QED
      BY <2>1, <3>2, <3>3, <3>4
  <2>3. typed[1] # "." /\ typed # <<".">>
    BY <1>4, <2>2, LettersAre
  <2>4. Before(k, d)
    BY <1>4, <2>2, <2>3, CountIs
  <2>5. key[1] = Digits[d]
    BY <2>2, <2>3 DEF KeysOK, KeyOK
  <2> QED
    BY <1>4, <2>2, <2>4, <2>5, LettersAre DEF Before
<1> QED
  BY <1>3, <1>4

LEMMA TwoTyped ==
  ASSUME KeysOK, NEW k \in Keys, Press(k), NEW a \in Letters, NEW c \in Letters, NEW d \in Digit \cup {0},
         Spelled(<<a, c>>, d)
  PROVE  k = c /\ Before(k, d) /\ Seen(k).k0 = a
<1>1. typed' = IF key[1] = Zero THEN <<k>> ELSE Append(typed, k)
  BY TypedIs
<1>2. typed \in Seq(Keys) /\ Len(typed) \in Nat
  BY DEF KeysOK
<1>3. CASE d = 0
  <2>1. Len(typed') = 2 /\ typed'[1] = a /\ typed'[2] = c
    BY <1>3, JoinedTwo
  <2>2. key[1] # Zero /\ Len(typed) = 1 /\ typed[1] = a /\ k = c
    <3>1. Len(typed') # 1
      BY <2>1
    <3>2. /\ key[1] # Zero /\ Len(typed') = Len(typed) + 1 /\ k = typed'[Len(typed')]
          /\ Len(typed) \in Nat /\ \A i \in 1..Len(typed) : typed[i] = typed'[i]
      BY <3>1, BeforeLast
    <3>3. Len(typed) = 1
      <4>1. \A i, j \in Nat : j = i + 1 /\ j = 2 => i = 1
        OBVIOUS
      <4>2. Len(typed') = 2 /\ Len(typed') = Len(typed) + 1 /\ Len(typed) \in Nat
        BY <2>1, <3>2
      <4> QED
        BY <4>1, <4>2
    <3>4. 1 \in 1..Len(typed)
      BY <3>3
    <3> QED
      BY <2>1, <3>2, <3>3, <3>4
  <2>3. typed[1] # "." /\ typed # <<".">>
    BY <2>2, LettersAre
  <2>4. Before(k, d)
    BY <1>3, <2>2, <2>3, CountIs
  <2>5. key[1] = a
    BY <2>2, <2>3 DEF KeysOK, KeyOK
  <2> QED
    BY <2>2, <2>4, <2>5 DEF Before
<1>4. CASE d # 0
  <2>1. Len(typed') = 3 /\ typed'[1] = Digits[d] /\ typed'[2] = a /\ typed'[3] = c
    BY <1>4, JoinedTwo
  <2>2. key[1] # Zero /\ Len(typed) = 2 /\ typed[1] = Digits[d] /\ typed[2] = a /\ k = c
    <3>1. Len(typed') # 1
      BY <2>1
    <3>2. /\ key[1] # Zero /\ Len(typed') = Len(typed) + 1 /\ k = typed'[Len(typed')]
          /\ Len(typed) \in Nat /\ \A i \in 1..Len(typed) : typed[i] = typed'[i]
      BY <3>1, BeforeLast
    <3>3. Len(typed) = 2
      <4>1. \A i, j \in Nat : j = i + 1 /\ j = 3 => i = 2
        OBVIOUS
      <4>2. Len(typed') = 3 /\ Len(typed') = Len(typed) + 1 /\ Len(typed) \in Nat
        BY <2>1, <3>2
      <4> QED
        BY <4>1, <4>2
    <3>4. 1 \in 1..Len(typed) /\ 2 \in 1..Len(typed)
      BY <3>3
    <3> QED
      BY <2>1, <3>2, <3>3, <3>4
  <2>3. typed[1] # "." /\ typed # <<".">>
    BY <1>4, <2>2, LettersAre
  <2>4. \A i \in 2..Len(typed) : typed[i] \in Letters
    <3>1. \A i \in 2..2 : i = 2
      OBVIOUS
    <3> QED
      BY <2>2, <3>1
  <2>5. Before(k, d)
    BY <1>4, <2>2, <2>3, <2>4, CountIs
  <2>6. key[1] = a
    BY <2>2, <2>3 DEF KeysOK, KeyOK
  <2> QED
    BY <2>2, <2>5, <2>6 DEF Before
<1> QED
  BY <1>3, <1>4

LEMMA ThreeTyped ==
  ASSUME KeysOK, NEW k \in Keys, Press(k), NEW a \in Letters, NEW b \in Letters, NEW c \in Letters,
         NEW d \in Digit \cup {0}, Spelled(<<a, b, c>>, d)
  PROVE  k = c /\ Before(k, d) /\ Seen(k).k0 = b /\ Seen(k).k1 = a
<1>1. typed' = IF key[1] = Zero THEN <<k>> ELSE Append(typed, k)
  BY TypedIs
<1>2. typed \in Seq(Keys) /\ Len(typed) \in Nat
  BY DEF KeysOK
<1>3. CASE d = 0
  <2>1. Len(typed') = 3 /\ typed'[1] = a /\ typed'[2] = b /\ typed'[3] = c
    BY <1>3, JoinedThree
  <2>2. key[1] # Zero /\ Len(typed) = 2 /\ typed[1] = a /\ typed[2] = b /\ k = c
    <3>1. Len(typed') # 1
      BY <2>1
    <3>2. /\ key[1] # Zero /\ Len(typed') = Len(typed) + 1 /\ k = typed'[Len(typed')]
          /\ Len(typed) \in Nat /\ \A i \in 1..Len(typed) : typed[i] = typed'[i]
      BY <3>1, BeforeLast
    <3>3. Len(typed) = 2
      <4>1. \A i, j \in Nat : j = i + 1 /\ j = 3 => i = 2
        OBVIOUS
      <4>2. Len(typed') = 3 /\ Len(typed') = Len(typed) + 1 /\ Len(typed) \in Nat
        BY <2>1, <3>2
      <4> QED
        BY <4>1, <4>2
    <3>4. 1 \in 1..Len(typed) /\ 2 \in 1..Len(typed)
      BY <3>3
    <3> QED
      BY <2>1, <3>2, <3>3, <3>4
  <2>3. typed[1] # "." /\ typed # <<".">>
    BY <2>2, LettersAre
  <2>4. \A i \in 1..Len(typed) : typed[i] \in Letters
    <3>1. \A i \in 1..2 : i = 1 \/ i = 2
      OBVIOUS
    <3> QED
      BY <2>2, <3>1
  <2>5. Before(k, d)
    BY <1>3, <2>2, <2>3, <2>4, CountIs
  <2>6. key[1] = b /\ key[2] = a
    BY <2>2, <2>3 DEF KeysOK, KeyOK
  <2> QED
    BY <2>2, <2>5, <2>6 DEF Before
<1>4. CASE d # 0
  <2>1. Len(typed') = 4 /\ typed'[1] = Digits[d] /\ typed'[2] = a /\ typed'[3] = b /\ typed'[4] = c
    BY <1>4, JoinedThree
  <2>2. key[1] # Zero /\ Len(typed) = 3 /\ typed[1] = Digits[d] /\ typed[2] = a /\ typed[3] = b /\ k = c
    <3>1. Len(typed') # 1
      BY <2>1
    <3>2. /\ key[1] # Zero /\ Len(typed') = Len(typed) + 1 /\ k = typed'[Len(typed')]
          /\ Len(typed) \in Nat /\ \A i \in 1..Len(typed) : typed[i] = typed'[i]
      BY <3>1, BeforeLast
    <3>3. Len(typed) = 3
      <4>1. \A i, j \in Nat : j = i + 1 /\ j = 4 => i = 3
        OBVIOUS
      <4>2. Len(typed') = 4 /\ Len(typed') = Len(typed) + 1 /\ Len(typed) \in Nat
        BY <2>1, <3>2
      <4> QED
        BY <4>1, <4>2
    <3>4. 1 \in 1..Len(typed) /\ 2 \in 1..Len(typed) /\ 3 \in 1..Len(typed)
      BY <3>3
    <3> QED
      BY <2>1, <3>2, <3>3, <3>4
  <2>3. typed[1] # "." /\ typed # <<".">>
    BY <1>4, <2>2, LettersAre
  <2>4. \A i \in 2..Len(typed) : typed[i] \in Letters
    <3>1. \A i \in 2..3 : i = 2 \/ i = 3
      OBVIOUS
    <3> QED
      BY <2>2, <3>1
  <2>5. Before(k, d)
    BY <1>4, <2>2, <2>3, <2>4, CountIs
  <2>6. key[1] = b /\ key[2] = a
    BY <2>2, <2>3 DEF KeysOK, KeyOK
  <2> QED
    BY <2>2, <2>5, <2>6 DEF Before
<1> QED
  BY <1>3, <1>4

\* The rows of the manual, by the number of their keys.
OneRow(r)   == \E c \in Letters : /\ r.keys = <<c>>
                                  /\ \A k0, k1 : k0 # "S" => Fixed(l, c, k0, k1) = <<r.op, r.t>>
TwoRow(r)   == \E a, c \in Letters : /\ r.keys = <<a, c>> /\ c \notin {"T", "@", "X"}
                                     /\ \A k1 : Fixed(l, c, a, k1) = <<r.op, r.t>>
ThreeRow(r) == \E b, c \in Letters : /\ r.keys = <<"e", b, c>> /\ c \notin {"T", "@", "X"}
                                     /\ Fixed(l, c, b, "e") = <<r.op, r.t>>
LEMMA RowShapes ==
  ASSUME NEW r \in Manual, l.mode \in r.modes
  PROVE  OneRow(r) \/ TwoRow(r) \/ ThreeRow(r)
<1>1. CASE \E k \in DOMAIN Edits : r \in EditRows(k, Edits[k])
  <2>1. PICK k \in DOMAIN Edits : r \in EditRows(k, Edits[k])
    BY <1>1
  <2>2. k \in {"p", "n", "u", "g"} /\ k \in Letters /\ "e" \in Letters /\ "l" \in Letters /\ "r" \in Letters
    BY Tables DEF Letters
  <2>3. \A k0, k1 : Fixed(l, k, k0, k1) = FixedEdit(k, k0, k1)
    BY <2>2, Tables DEF Fixed
  <2>4. CASE r = row(<<"e", k>>, Edits[k], 3, AllModes)
    <3>1. r.keys = <<"e", k>> /\ r.op = Edits[k] /\ r.t = 3
      BY <2>4, RowIs
    <3>2. \A k1 : Fixed(l, k, "e", k1) = <<r.op, r.t>>
      BY <2>3, <3>1 DEF FixedEdit
    <3>3. TwoRow(r)
      BY <2>2, <3>1, <3>2 DEF TwoRow
    <3> QED
      BY <3>3
  <2>5. CASE r = row(<<"e", "l", k>>, Edits[k], 1, {"diff"})
    <3>1. r.keys = <<"e", "l", k>> /\ r.op = Edits[k] /\ r.t = 1
      BY <2>5, RowIs
    <3>2. Fixed(l, k, "l", "e") = <<r.op, r.t>>
      BY <2>3, <3>1, Tables DEF FixedEdit
    <3>3. ThreeRow(r)
      BY <2>2, <3>1, <3>2 DEF ThreeRow
    <3> QED
      BY <3>3
  <2>6. CASE r = row(<<"e", "r", k>>, Edits[k], 2, {"diff"})
    <3>1. r.keys = <<"e", "r", k>> /\ r.op = Edits[k] /\ r.t = 2
      BY <2>6, RowIs
    <3>2. Fixed(l, k, "r", "e") = <<r.op, r.t>>
      BY <2>3, <3>1, Tables DEF FixedEdit
    <3>3. ThreeRow(r)
      BY <2>2, <3>1, <3>2 DEF ThreeRow
    <3> QED
      BY <3>3
  <2> QED
    BY <2>1, <2>4, <2>5, <2>6 DEF EditRows
<1>2. ASSUME NEW c \in Letters, NEW op, NEW t, NEW modes, r = row(<<c>>, op, t, modes),
             \A k0, k1 : k0 # "S" => Fixed(l, c, k0, k1) = <<op, t>>
      PROVE  OneRow(r)
  BY <1>2, RowIs DEF OneRow
<1>3. ASSUME NEW a \in Letters, NEW c \in Letters, NEW op, NEW t, NEW modes,
             r = row(<<a, c>>, op, t, modes), c \notin {"T", "@", "X"},
             \A k1 : Fixed(l, c, a, k1) = <<op, t>>
      PROVE  TwoRow(r)
  BY <1>3, RowIs DEF TwoRow
<1>4. l.mode \in r.modes
  OBVIOUS
<1>5. CASE \/ r = row(<<"d", "d">>, "rm", 3, AllModes) \/ r = row(<<"d", "l">>, "rm", 1, {"diff"})
           \/ r = row(<<"d", "r">>, "rm", 2, {"diff"})
  <2>1. /\ \A k1 : Fixed(l, "d", "d", k1) = <<"rm", 3>> /\ Fixed(l, "l", "d", k1) = <<"rm", 1>>
                   /\ Fixed(l, "r", "d", k1) = <<"rm", 2>>
        /\ "d" \in Letters /\ "l" \in Letters /\ "r" \in Letters
    BY Tables DEF Fixed, FixedSide, Letters
  <2> QED
    BY <1>3, <1>5, <2>1
<1>6. CASE \/ r = row(<<"<", "<">>, "cp", 1, {"diff"}) \/ r = row(<<">", ">">>, "cp", 2, {"diff"})
  <2>1. l.mode = "diff"
    BY <1>4, <1>6, RowIs
  <2>2. /\ \A k1 : Fixed(l, "<", "<", k1) = <<"cp", 1>> /\ Fixed(l, ">", ">", k1) = <<"cp", 2>>
        /\ "<" \in Letters /\ ">" \in Letters
    BY <2>1, Tables DEF Fixed, FixedCopy, Letters
  <2> QED
    BY <1>3, <1>6, <2>2
<1>7. CASE \/ r = row(<<"T", "l">>, "mv", 1, {"diff"}) \/ r = row(<<"T", "r">>, "mv", 2, {"diff"})
           \/ r = row(<<"@", "l">>, "ln", 1, {"diff"}) \/ r = row(<<"@", "r">>, "ln", 2, {"diff"})
           \/ r = row(<<"P", "l">>, "mkdir", 1, {"diff"}) \/ r = row(<<"P", "r">>, "mkdir", 2, {"diff"})
  <2>1. /\ \A k1 : /\ Fixed(l, "l", "T", k1) = <<"mv", 1>> /\ Fixed(l, "r", "T", k1) = <<"mv", 2>>
                   /\ Fixed(l, "l", "@", k1) = <<"ln", 1>> /\ Fixed(l, "r", "@", k1) = <<"ln", 2>>
                   /\ Fixed(l, "l", "P", k1) = <<"mkdir", 1>> /\ Fixed(l, "r", "P", k1) = <<"mkdir", 2>>
        /\ "T" \in Letters /\ "@" \in Letters /\ "P" \in Letters /\ "l" \in Letters /\ "r" \in Letters
    BY Tables DEF Fixed, FixedSide, Letters
  <2> QED
    BY <1>3, <1>7, <2>1
<1>8. CASE \/ r = row(<<"DC">>, "rm", 3, AllModes) \/ r = row(<<"C">>, "cp", 0, AllModes)
           \/ r = row(<<"B">>, "cpdir", 0, AllModes) \/ r = row(<<"U">>, "update", 0, AllModes)
           \/ r = row(<<"T">>, "mv", 0, AllModes) \/ r = row(<<"@">>, "ln", 0, AllModes)
  <2>1. /\ \A k0, k1 : /\ Fixed(l, "DC", k0, k1) = <<"rm", 3>> /\ Fixed(l, "C", k0, k1) = <<"cp", 0>>
                       /\ Fixed(l, "B", k0, k1) = <<"cpdir", 0>> /\ Fixed(l, "U", k0, k1) = <<"update", 0>>
                       /\ Fixed(l, "T", k0, k1) = <<"mv", 0>> /\ Fixed(l, "@", k0, k1) = <<"ln", 0>>
        /\ "DC" \in Letters /\ "C" \in Letters /\ "B" \in Letters /\ "U" \in Letters
        /\ "T" \in Letters /\ "@" \in Letters
    BY Tables DEF Fixed, FixedSingle, Letters
  <2> QED
    BY <1>2, <1>8, <2>1
<1>9. CASE r = row(<<"X">>, "xchg", 0, {"diff"})
  <2>1. l.mode = "diff"
    BY <1>4, <1>9, RowIs
  <2>2. "X" \in Letters /\ \A k0, k1 : k0 # "S" => Fixed(l, "X", k0, k1) = <<"xchg", 0>>
    BY <2>1, Tables DEF Fixed, FixedSingle, Letters
  <2> QED
    BY <1>2, <1>9, <2>2
<1>10. CASE r = row(<<"P">>, "mkdir", 0, {"bmode", "fmode"})
  <2>1. l.mode # "diff"
    BY <1>4, <1>10, RowIs
  <2>2. "P" \in Letters /\ \A k0, k1 : k0 # "S" => Fixed(l, "P", k0, k1) = <<"mkdir", 0>>
    BY <2>1, Tables DEF Fixed, FixedSingle, Letters
  <2> QED
    BY <1>2, <1>10, <2>2
<1>11. \/ r \in UNION {EditRows(k, Edits[k]) : k \in DOMAIN Edits}
       \/ r = row(<<"d", "d">>, "rm", 3, AllModes) \/ r = row(<<"d", "l">>, "rm", 1, {"diff"})
       \/ r = row(<<"d", "r">>, "rm", 2, {"diff"}) \/ r = row(<<"DC">>, "rm", 3, AllModes)
       \/ r = row(<<"<", "<">>, "cp", 1, {"diff"}) \/ r = row(<<">", ">">>, "cp", 2, {"diff"})
       \/ r = row(<<"C">>, "cp", 0, AllModes) \/ r = row(<<"B">>, "cpdir", 0, AllModes)
       \/ r = row(<<"U">>, "update", 0, AllModes) \/ r = row(<<"X">>, "xchg", 0, {"diff"})
       \/ r = row(<<"T">>, "mv", 0, AllModes) \/ r = row(<<"T", "l">>, "mv", 1, {"diff"})
       \/ r = row(<<"T", "r">>, "mv", 2, {"diff"})
       \/ r = row(<<"@">>, "ln", 0, AllModes) \/ r = row(<<"@", "l">>, "ln", 1, {"diff"})
       \/ r = row(<<"@", "r">>, "ln", 2, {"diff"})
       \/ r = row(<<"P">>, "mkdir", 0, {"bmode", "fmode"})
       \/ r = row(<<"P", "l">>, "mkdir", 1, {"diff"}) \/ r = row(<<"P", "r">>, "mkdir", 2, {"diff"})
  BY Zenon DEF Manual
<1>12. r \in UNION {EditRows(k, Edits[k]) : k \in DOMAIN Edits}
       => \E k \in DOMAIN Edits : r \in EditRows(k, Edits[k])
  BY Zenon
<1> QED
  BY <1>1, <1>5, <1>6, <1>7, <1>8, <1>9, <1>10, <1>11, <1>12

Ops == {"rm", "rename", "chmod", "chown", "chgrp", "cp", "cpdir", "ln", "update", "mv", "xchg"}
LEMMA RowOps ==
  ASSUME NEW r \in Manual
  PROVE  /\ r.op # "none" /\ r.op \in Ops \cup {"mkdir"} /\ r.t \in {0, 1, 2, 3}
         /\ r.op = "rm" => r.t \in {1, 2, 3}
<1>1. CASE r \in UNION {EditRows(k, Edits[k]) : k \in DOMAIN Edits}
  <2>1. PICK k \in DOMAIN Edits : r \in EditRows(k, Edits[k])
    BY <1>1
  <2>2. r.op = Edits[k] /\ r.t \in {1, 2, 3}
    BY <2>1, RowIs DEF EditRows
  <2> QED
    BY <2>2, Tables DEF Ops
<1>2. CASE r \notin UNION {EditRows(k, Edits[k]) : k \in DOMAIN Edits}
  <2>1. \/ r = row(<<"d", "d">>, "rm", 3, AllModes) \/ r = row(<<"d", "l">>, "rm", 1, {"diff"})
        \/ r = row(<<"d", "r">>, "rm", 2, {"diff"}) \/ r = row(<<"DC">>, "rm", 3, AllModes)
        \/ r = row(<<"<", "<">>, "cp", 1, {"diff"}) \/ r = row(<<">", ">">>, "cp", 2, {"diff"})
        \/ r = row(<<"C">>, "cp", 0, AllModes) \/ r = row(<<"B">>, "cpdir", 0, AllModes)
        \/ r = row(<<"U">>, "update", 0, AllModes) \/ r = row(<<"X">>, "xchg", 0, {"diff"})
        \/ r = row(<<"T">>, "mv", 0, AllModes) \/ r = row(<<"T", "l">>, "mv", 1, {"diff"})
        \/ r = row(<<"T", "r">>, "mv", 2, {"diff"})
        \/ r = row(<<"@">>, "ln", 0, AllModes) \/ r = row(<<"@", "l">>, "ln", 1, {"diff"})
        \/ r = row(<<"@", "r">>, "ln", 2, {"diff"})
        \/ r = row(<<"P">>, "mkdir", 0, {"bmode", "fmode"})
        \/ r = row(<<"P", "l">>, "mkdir", 1, {"diff"}) \/ r = row(<<"P", "r">>, "mkdir", 2, {"diff"})
    BY <1>2, Zenon DEF Manual
  <2>2. /\ r.op \in {"rm", "cp", "cpdir", "update", "xchg", "mv", "ln", "mkdir"} /\ r.t \in {0, 1, 2, 3}
        /\ r.op = "rm" => r.t \in {1, 2, 3}
    BY <2>1, RowIs
  <2> QED
    BY <2>2 DEF Ops
<1> QED
  BY <1>1, <1>2

LEMMA SuffixIs ==
  ASSUME NEW S, NEW s \in Seq(S), NEW t \in Seq(S), Len(s) <= Len(t),
         \A i \in 1..Len(s) : s[i] = t[Len(t) - Len(s) + i]
  PROVE  IsSuffix(s, t)
<1> DEFINE n == Len(s)
           a == Reverse(s)
           b == Reverse(t)
<1>1. n \in Nat /\ Len(t) \in Nat
  OBVIOUS
<1>2. a \in Seq(S) /\ Len(a) = n /\ \A i \in 1..n : a[i] = s[(n - i) + 1] /\ a[i] \in S
  BY <1>1 DEF Reverse
<1>3. b \in Seq(S) /\ Len(b) = Len(t) /\ \A i \in 1..Len(t) : b[i] = t[(Len(t) - i) + 1] /\ b[i] \in S
  BY <1>1 DEF Reverse
<1>4. \A i \in 1..n : a[i] = b[i] /\ i \in 1..Len(t)
  <2> SUFFICES ASSUME NEW i \in 1..n PROVE a[i] = b[i] /\ i \in 1..Len(t)
    OBVIOUS
  <2> DEFINE j == (n - i) + 1
  <2>1. j \in 1..n /\ Len(t) - n + j = (Len(t) - i) + 1 /\ i \in 1..Len(t)
    BY <1>1
  <2>2. s[j] = t[Len(t) - n + j]
    BY <2>1
  <2> QED
    BY <1>2, <1>3, <2>1, <2>2
<1> HIDE DEF a, b
<1>5. /\ SubSeq(a, 1, n) \in Seq(S) /\ Len(SubSeq(a, 1, n)) = n
      /\ \A i \in 1..n : SubSeq(a, 1, n)[i] = a[i]
  <2>1. \A i \in 1..n : a[i] \in S
    BY <1>2
  <2> QED
    BY <1>1, <2>1, SubSeqProperties
<1>6. /\ SubSeq(b, 1, n) \in Seq(S) /\ Len(SubSeq(b, 1, n)) = n
      /\ \A i \in 1..n : SubSeq(b, 1, n)[i] = b[i]
  <2>1. \A i \in 1..n : b[i] \in S
    BY <1>3, <1>4
  <2> QED
    BY <1>1, <2>1, SubSeqProperties
<1>7. SubSeq(a, 1, n) = SubSeq(b, 1, n)
  BY <1>4, <1>5, <1>6, SeqEqual
<1> QED
  BY <1>2, <1>3, <1>7 DEF IsSuffix, IsPrefix, a, b

\* The row of a command was typed last.
LEMMA KeyedTyped ==
  ASSUME KeysOK, NEW k \in Keys, Press(k), ~Repeats(k), NEW r, Keyed(k, key[1], key[2], r)
  PROVE  typed' \in {<<".", "l">>, <<".", "r">>} \/ IsSuffix(r.keys, typed')
<1> DEFINE n == Len(typed)
           t == typed'
<1>1. t = IF key[1] = Zero THEN <<k>> ELSE Append(typed, k)
  BY TypedIs
<1>2. typed \in Seq(Keys) /\ n \in Nat /\ t \in Seq(Keys)
  BY <1>1 DEF KeysOK
<1>3. key[1] # Zero => KeyOK
  BY DEF KeysOK
<1>4. /\ key[1] = Zero => Len(t) = 1 /\ t[1] = k
      /\ key[1] # Zero => Len(t) = n + 1 /\ t[n + 1] = k /\ \A i \in 1..n : t[i] = typed[i]
  BY <1>1, <1>2, Appended
<1>5. Len(t) \in Nat /\ Len(t) >= 1 /\ t[Len(t)] = k
  BY <1>2, <1>4
<1> HIDE DEF t, n
<1>6. CASE r.keys = <<k>>
  <2> DEFINE s == <<k>>
  <2>1. s \in Seq(Keys) /\ Len(s) = 1 /\ s[1] = k
    OBVIOUS
  <2>2. \A i \in 1..1 : i = 1
    OBVIOUS
  <2>3. Len(s) <= Len(t) /\ \A i \in 1..Len(s) : s[i] = t[Len(t) - Len(s) + i]
    BY <1>5, <2>1, <2>2
  <2> HIDE DEF s
  <2>4. IsSuffix(s, t)
    BY <1>2, <2>1, <2>3, SuffixIs
  <2> QED
    BY <1>6, <2>4 DEF s, t
<1>7. CASE r.keys = <<key[1], k>> /\ key[1] \in {"d", "T", "@", "P", "e", "<", ">"}
           /\ (key[1] \in {"T", "@"} => k \in {"l", "r"})
  <2>1. key[1] # Zero
    BY <1>7 DEF Zero
  <2>2. CASE typed = <<".">>
    <3>1. key[1] \in {"T", "@"}
      BY <1>3, <1>7, <2>1, <2>2 DEF KeyOK
    <3>2. t = <<".", k>>
      <4>1. Append(<<".">>, k) = <<".", k>>
        BY AppendedToOne
      <4>2. t = Append(typed, k)
        BY <1>1, <2>1
      <4> QED
        BY <2>2, <4>1, <4>2
    <3> QED
      BY <1>7, <3>1, <3>2 DEF t
  <2>3. CASE typed # <<".">>
    <3> DEFINE s == <<key[1], k>>
    <3>1. key[1] = typed[n] /\ n >= 1
      BY <1>3, <2>1, <2>3 DEF KeyOK, n
    <3>2. key[1] \in Keys
      BY <1>2, <3>1 DEF n
    <3>3. s \in Seq(Keys) /\ Len(s) = 2 /\ s[1] = key[1] /\ s[2] = k
      BY <3>2
    <3>4. Len(t) = n + 1 /\ t[n + 1] = k /\ t[n] = key[1]
      BY <1>2, <1>4, <2>1, <3>1
    <3>5. \A i \in 1..2 : i = 1 \/ i = 2
      OBVIOUS
    <3> HIDE DEF s
    <3>6. Len(s) <= Len(t) /\ \A i \in 1..Len(s) : s[i] = t[Len(t) - Len(s) + i]
      <4>1. n + 1 - 2 + 1 = n /\ n + 1 - 2 + 2 = n + 1 /\ 2 <= n + 1
        BY <1>2, <3>1
      <4> QED
        BY <1>2, <3>3, <3>4, <3>5, <4>1
    <3>7. IsSuffix(s, t)
      BY <1>2, <3>3, <3>6, SuffixIs
    <3> QED
      BY <1>7, <3>7 DEF s, t
  <2> QED
    BY <2>2, <2>3
<1>8. CASE r.keys = <<key[2], key[1], k>> /\ key[2] = "e" /\ key[1] \in {"l", "r"}
  <2> DEFINE s == <<key[2], key[1], k>>
  <2>1. key[1] # Zero
    BY <1>8 DEF Zero
  <2>2. typed # <<".">> /\ key[1] = typed[n] /\ n >= 1
    BY <1>3, <1>8, <2>1 DEF KeyOK, n
  <2>3. n >= 2
    <3>1. key[2] # Zero
      BY <1>8 DEF Zero
    <3>2. n # 1
      BY <1>3, <2>1, <2>2, <3>1 DEF KeyOK, n
    <3> QED
      BY <1>2, <2>2, <3>2
  <2>4. key[2] = typed[n - 1]
    BY <1>3, <1>8, <2>1, <2>3 DEF KeyOK, n
  <2>5. key[1] \in Keys /\ key[2] \in Keys
    BY <1>2, <2>2, <2>3, <2>4 DEF n
  <2>6. s \in Seq(Keys) /\ Len(s) = 3 /\ s[1] = key[2] /\ s[2] = key[1] /\ s[3] = k
    BY <2>5
  <2>7. Len(t) = n + 1 /\ t[n + 1] = k /\ t[n] = key[1] /\ t[n - 1] = key[2]
    BY <1>2, <1>4, <2>1, <2>2, <2>3, <2>4
  <2>8. \A i \in 1..3 : i = 1 \/ i = 2 \/ i = 3
    OBVIOUS
  <2> HIDE DEF s
  <2>9. Len(s) <= Len(t) /\ \A i \in 1..Len(s) : s[i] = t[Len(t) - Len(s) + i]
    <3>1. n + 1 - 3 + 1 = n - 1 /\ n + 1 - 3 + 2 = n /\ n + 1 - 3 + 3 = n + 1 /\ 3 <= n + 1
      BY <1>2, <2>3
    <3> QED
      BY <1>2, <2>6, <2>7, <2>8, <3>1
  <2>10. IsSuffix(s, t)
    BY <1>2, <2>6, <2>9, SuffixIs
  <2> QED
    BY <1>8, <2>10 DEF s, t
<1> QED
  BY <1>6, <1>7, <1>8 DEF Keyed

\* A row the code runs is one for this mode, or one of Elsewhere.
LEMMA RowModes ==
  ASSUME NEW r \in Manual
  PROVE  /\ r.op \in {"mv", "ln", "cp"} => r.modes = IF r.t = 0 THEN AllModes ELSE {"diff"}
         /\ r.op \in {"cpdir", "update"} => r.modes = AllModes
         /\ r.op = "xchg" => r.modes = {"diff"}
         /\ r.op = "mkdir" => r.modes = IF r.t = 0 THEN {"bmode", "fmode"} ELSE {"diff"}
<1>1. CASE r \in UNION {EditRows(k, Edits[k]) : k \in DOMAIN Edits}
  <2>1. PICK k \in DOMAIN Edits : r \in EditRows(k, Edits[k])
    BY <1>1
  <2>2. r.op = Edits[k]
    BY <2>1, RowIs DEF EditRows
  <2> QED
    BY <2>2, Tables
<1>2. CASE r \notin UNION {EditRows(k, Edits[k]) : k \in DOMAIN Edits}
  <2>1. \/ r = row(<<"d", "d">>, "rm", 3, AllModes) \/ r = row(<<"d", "l">>, "rm", 1, {"diff"})
        \/ r = row(<<"d", "r">>, "rm", 2, {"diff"}) \/ r = row(<<"DC">>, "rm", 3, AllModes)
        \/ r = row(<<"<", "<">>, "cp", 1, {"diff"}) \/ r = row(<<">", ">">>, "cp", 2, {"diff"})
        \/ r = row(<<"C">>, "cp", 0, AllModes) \/ r = row(<<"B">>, "cpdir", 0, AllModes)
        \/ r = row(<<"U">>, "update", 0, AllModes) \/ r = row(<<"X">>, "xchg", 0, {"diff"})
        \/ r = row(<<"T">>, "mv", 0, AllModes) \/ r = row(<<"T", "l">>, "mv", 1, {"diff"})
        \/ r = row(<<"T", "r">>, "mv", 2, {"diff"})
        \/ r = row(<<"@">>, "ln", 0, AllModes) \/ r = row(<<"@", "l">>, "ln", 1, {"diff"})
        \/ r = row(<<"@", "r">>, "ln", 2, {"diff"})
        \/ r = row(<<"P">>, "mkdir", 0, {"bmode", "fmode"})
        \/ r = row(<<"P", "l">>, "mkdir", 1, {"diff"}) \/ r = row(<<"P", "r">>, "mkdir", 2, {"diff"})
    BY <1>2, Zenon DEF Manual
  <2> QED
    BY <2>1, RowIs
<1> QED
  BY <1>1, <1>2

LEMMA FixedModes ==
  ASSUME NEW c, NEW k0, NEW k1, NEW op, NEW t, Fixed(l, c, k0, k1) = <<op, t>>, op # "none",
         l.mode \in AllModes, k0 \in {"T", "@", "P"} => l.mode = "diff"
  PROVE  /\ op \in {"mv", "ln"} => t = 0 \/ l.mode = "diff"
         /\ op = "xchg" => l.mode = "diff"
         /\ op = "mkdir" => IF t = 0 THEN l.mode # "diff" ELSE l.mode = "diff"
         /\ op = "cp" => t = 0 \/ l.mode = "diff" \/ (l.mode = "fmode" /\ t # OwnSide)
<1>1. CASE c \in {"d"} \cup DOMAIN SideKeys \cup DOMAIN Edits
  <2>1. CASE c = "d"
    BY <2>1, Tables DEF Fixed, NoCommand
  <2>2. CASE c \in DOMAIN SideKeys
    <3>1. SideKeys[c] \in {1, 2} /\ FixedSide(c, k0) = <<op, t>>
      BY <2>2, Tables DEF Fixed
    <3> QED
      BY <3>1 DEF FixedSide, NoCommand
  <2>3. CASE c \in DOMAIN Edits
    <3>1. Edits[c] \in {"chmod", "rename", "chown", "chgrp"} /\ FixedEdit(c, k0, k1) = <<op, t>>
      BY <2>3, Tables DEF Fixed
    <3>2. op \in {"chmod", "rename", "chown", "chgrp"}
      BY <3>1 DEF FixedEdit, NoCommand
    <3> QED
      BY <3>2
  <2> QED
    BY <1>1, <2>1, <2>2, <2>3
<1>2. CASE c \in {"<", ">"}
  <2>1. FixedCopy(l, c, k0) = <<op, t>>
    BY <1>2, Tables DEF Fixed
  <2>2. op = "cp" /\ l.mode # "bmode" /\ ~(l.mode = "fmode" /\ OwnSide = t)
    BY <2>1 DEF FixedCopy, NoCommand, OwnSide
  <2> QED
    BY <2>2 DEF AllModes
<1>3. CASE c \notin {"d", "<", ">"} \cup DOMAIN SideKeys \cup DOMAIN Edits
  <2>1. FixedSingle(l, c, k0) = <<op, t>>
    BY <1>3 DEF Fixed
  <2>2. CASE c \in DOMAIN Singles
    <3>1. op \in {"cp", "cpdir", "update", "rm"} /\ (op = "cp" => t = 0)
      BY <2>1, <2>2, Tables DEF FixedSingle
    <3> QED
      BY <3>1
  <2>3. CASE c \notin DOMAIN Singles
    BY <2>1, <2>3 DEF FixedSingle, NoCommand
  <2> QED
    BY <2>2, <2>3
<1> QED
  BY <1>1, <1>2, <1>3

LEMMA RowFits ==
  ASSUME NEW r \in Manual, NEW c, NEW k0, NEW k1, Fixed(l, c, k0, k1) = <<r.op, r.t>>,
         l.mode \in AllModes, k0 \in {"T", "@", "P"} => l.mode = "diff"
  PROVE  r \in Here \cup Elsewhere
<1>1. r.op # "none" /\ r.op \in Ops \cup {"mkdir"}
  BY RowOps
<1>2. /\ r.op \in {"mv", "ln"} => r.t = 0 \/ l.mode = "diff"
      /\ r.op = "xchg" => l.mode = "diff"
      /\ r.op = "mkdir" => IF r.t = 0 THEN l.mode # "diff" ELSE l.mode = "diff"
      /\ r.op = "cp" => r.t = 0 \/ l.mode = "diff" \/ (l.mode = "fmode" /\ r.t # OwnSide)
  BY <1>1, FixedModes
<1>3. {"chmod", "rename", "chown", "chgrp"} = {Edits[k] : k \in DOMAIN Edits}
  BY Tables
<1>4. CASE r.op \in {"rm", "chmod", "rename", "chown", "chgrp"}
  BY <1>3, <1>4 DEF Elsewhere
<1>5. CASE r.op \in {"mv", "ln", "cpdir", "update", "xchg", "mkdir"}
  <2>1. l.mode \in r.modes
    BY <1>2, <1>5, RowModes DEF AllModes
  <2> QED
    BY <2>1 DEF Here
<1>6. CASE r.op = "cp"
  <2>1. l.mode \in r.modes \/ (l.mode = "fmode" /\ r.t # OwnSide)
    BY <1>2, <1>6, RowModes DEF AllModes
  <2> QED
    BY <1>6, <2>1 DEF Here, Elsewhere
<1> QED
  BY <1>1, <1>4, <1>5, <1>6 DEF Ops

\* What Execute() did, for a command whose keys are fixed.
LEMMA RunsFixed ==
  ASSUME KeysOK, NEW k, Press(k), Command(Seen(k)) # NoCommand
  PROVE  /\ Command(Seen(k)) = Fixed(l, Seen(k).c, Seen(k).k0, Seen(k).k1)
         /\ \/ did' = Nothing /\ l.multi # {}
            \/ did'.op = Command(Seen(k))[1] /\ did'.t = Command(Seen(k))[2]
               /\ did'.u = Seen(k).u /\ did'.n = Seen(k).num
<1>1. Execute(k, Seen(k))
  BY OnlyExecute
<1>2. IsList(l)
  BY DEF KeysOK
<1> QED
  BY <1>1, <1>2, CommandIsFixed, ExecuteIs

\* A command was completed by the keys of its row, or repeated.
LEMMA LastTyped ==
  ASSUME KeysOK, SavedOK, ModeOK, NEW k \in Keys, Press(k), did'.op \notin {"none", "fkey"}
  PROVE  \/ typed' \in {<<".">>, <<".", "l">>, <<".", "r">>}
         \/ \E r \in Here \cup Elsewhere : did'.op = r.op /\ did'.t = r.t /\ IsSuffix(r.keys, typed')
<1> DEFINE e == Seen(k)
<1>1. Nothing.op = "none"
  BY DEF Nothing
<1>2. Execute(k, e)
  BY <1>1, HistoryIs DEF NoRun
<1>3. Command(e) # NoCommand
  BY <1>2, ExecuteIs DEF KeysOK
<1>4. CASE Repeats(k)
  <2>1. key[1] = Zero /\ k = "."
    BY <1>4 DEF Repeats
  <2> QED
    BY <2>1, TypedIs
<1>5. CASE ~Repeats(k)
  <2>1. e.c = k /\ e.k0 = key[1] /\ e.k1 = key[2]
    BY <1>5, SeenIs
  <2>2. Command(e) = Fixed(l, k, key[1], key[2])
    BY <1>3, <2>1, RunsFixed
  <2>3. did'.op = Command(e)[1] /\ did'.t = Command(e)[2]
    BY <1>1, <1>3, RunsFixed
  <2>4. PICK r \in Manual : Keyed(k, key[1], key[2], r) /\ Fixed(l, k, key[1], key[2]) = <<r.op, r.t>>
    BY <1>3, <2>2, FixedHasRow
  <2>5. did'.op = r.op /\ did'.t = r.t
    BY <2>2, <2>3, <2>4
  <2>6. r \in Here \cup Elsewhere
    BY <1>3, <2>2, <2>4, RowFits DEF ModeOK
  <2> QED
    BY <1>5, <2>4, <2>5, <2>6, KeyedTyped
<1> QED
  BY <1>4, <1>5

\* A row of the manual does what the manual says.
LEMMA RowDone ==
  ASSUME KeysOK, NEW k, Press(k), NEW d \in Digit \cup {0}, Before(k, d), NEW op, NEW t, op # "none",
         Fixed(l, k, Seen(k).k0, Seen(k).k1) = <<op, t>>
  PROVE  \/ did'.op = op /\ did'.t = t /\ did'.u = l.cur /\ did'.n = Number0(d)
         \/ Declined
         \/ k \in {"T", "@"} /\ l.mode = "diff" /\ key'[1] = k
         \/ k = "X" /\ l.mode = "diff" /\ key'[1] = Zero
         \/ k = "n" /\ regex
<1> DEFINE e == Seen(k)
<1>1. e.c = k /\ e.num = Number0(d) /\ e.u = l.cur
  BY DEF Before
<1>2. <<op, t>> # NoCommand
  BY DEF NoCommand
<1>3. CASE Command(e) # NoCommand
  <2>1. Command(e) = <<op, t>>
    BY <1>1, <1>3, RunsFixed
  <2>2. Command(e)[1] = op /\ Command(e)[2] = t
    BY <2>1
  <2>3. did' = Nothing /\ l.multi # {} => Declined
    BY DEF Declined, Nothing
  <2> QED
    BY <1>1, <1>3, <2>2, <2>3, RunsFixed
<1>4. CASE Command(e) = NoCommand
  <2>1. \/ k \in {"T", "@"} /\ l.mode = "diff"
        \/ k = "X"
        \/ k = "n" /\ regex
    BY <1>1, <1>2, <1>4, CommandIsFixed
  <2>2. k \in {"T", "@"} => key'[1] = k
    BY <1>1, <1>4, TWaits
  <2>3. k = "X" => key'[1] = Zero /\ l.mode = "diff"
    BY <1>1, <1>2, ClearsIs, FixedKeys
  <2> QED
    BY <2>1, <2>2, <2>3
<1> QED
  BY <1>3, <1>4

LEMMA RowTyped ==
  ASSUME KeysOK, NEW k \in Keys, Press(k), NEW r \in Manual, l.mode \in r.modes,
         NEW d \in Digit \cup {0}, Spelled(r.keys, d), ~(regex /\ "n" = Last(r.keys))
  PROVE  \/ did'.op = r.op /\ did'.t = r.t /\ did'.u = l.cur /\ did'.n = Number0(d)
         \/ Declined \/ Waiting(r)
<1>1. r.op # "none"
  BY RowOps
<1>2. CASE OneRow(r)
  <2>1. PICK c \in Letters : r.keys = <<c>> /\ \A k0, k1 : k0 # "S" => Fixed(l, c, k0, k1) = <<r.op, r.t>>
    BY <1>2 DEF OneRow
  <2>2. k = c /\ Before(k, d) /\ Seen(k).k0 # "S"
    BY <2>1, OneTyped
  <2>3. Fixed(l, k, Seen(k).k0, Seen(k).k1) = <<r.op, r.t>>
    BY <2>1, <2>2
  <2>4. Last(r.keys) = k /\ Head(r.keys) = k
    BY <2>1, <2>2 DEF Last
  <2>5. /\ k \in {"T", "@"} /\ l.mode = "diff" /\ key'[1] = k => Waiting(r)
        /\ k = "X" /\ l.mode = "diff" /\ key'[1] = Zero => Waiting(r)
    BY <2>1, <2>2, <2>4 DEF Waiting
  <2> QED
    BY <1>1, <2>2, <2>3, <2>4, <2>5, RowDone
<1>3. CASE TwoRow(r)
  <2>1. PICK a \in Letters, c \in Letters : /\ r.keys = <<a, c>> /\ c \notin {"T", "@", "X"}
                                            /\ \A k1 : Fixed(l, c, a, k1) = <<r.op, r.t>>
    BY <1>3 DEF TwoRow
  <2>2. k = c /\ Before(k, d) /\ Seen(k).k0 = a
    BY <2>1, TwoTyped
  <2>3. Fixed(l, k, Seen(k).k0, Seen(k).k1) = <<r.op, r.t>>
    BY <2>1, <2>2
  <2>4. Last(r.keys) = k
    BY <2>1, <2>2 DEF Last
  <2> QED
    BY <1>1, <2>1, <2>2, <2>3, <2>4, RowDone
<1>4. CASE ThreeRow(r)
  <2>1. PICK b \in Letters, c \in Letters : /\ r.keys = <<"e", b, c>> /\ c \notin {"T", "@", "X"}
                                            /\ Fixed(l, c, b, "e") = <<r.op, r.t>>
    BY <1>4 DEF ThreeRow
  <2>2. "e" \in Letters
    BY DEF Letters
  <2>3. k = c /\ Before(k, d) /\ Seen(k).k0 = b /\ Seen(k).k1 = "e"
    BY <2>1, <2>2, ThreeTyped
  <2>4. Fixed(l, k, Seen(k).k0, Seen(k).k1) = <<r.op, r.t>>
    BY <2>1, <2>3
  <2>5. Last(r.keys) = k
    BY <2>1, <2>3 DEF Last
  <2> QED
    BY <1>1, <2>1, <2>3, <2>4, <2>5, RowDone
<1> QED
  BY <1>2, <1>3, <1>4, RowShapes

\* `.` alone repeats the last command, if that was not for marked entries.
LEMMA DotStep ==
  ASSUME KeysOK, SavedOK, last.multi \in BOOLEAN, NEW k \in Keys, Press(k), typed' = <<".">>,
         did'.op # "none", ~DotAfterMany
  PROVE  did'.op = last.op /\ did'.t = last.t /\ did'.n = last.n
<1> DEFINE e == Seen(k)
<1>1. did' # Nothing /\ ~last.multi
  BY DEF Nothing, DotAfterMany
<1>2. key[1] = Zero /\ k = "."
  <2>1. key[1] = Zero
    <3>1. ASSUME key[1] # Zero PROVE FALSE
      <4>1. typed \in Seq(Keys) /\ Len(typed) \in Nat /\ Len(typed) >= 1
        BY <3>1 DEF KeysOK, KeyOK
      <4>2. typed' = Append(typed, k)
        BY <3>1, TypedIs
      <4>3. Len(typed') = Len(typed) + 1
        BY <4>1, <4>2
      <4>4. Len(typed') = 1
        OBVIOUS
      <4> QED
        BY <4>1, <4>3, <4>4
    <3> QED
      BY <3>1
  <2>2. typed' = <<k>>
    BY <2>1, TypedIs
  <2> QED
    BY <2>1, <2>2
<1>3. Execute(k, e)
  BY <1>1, <1>2, HistoryIs DEF NoRun
<1>4. Command(e) # NoCommand
  BY <1>3, ExecuteIs DEF KeysOK
<1>5. Repeats(k)
  <2>1. CASE ~Repeats(k)
    <3>1. e.c = "."
      BY <1>2, <2>1, SeenIs
    <3>2. Fixed(l, e.c, e.k0, e.k1) # NoCommand
      BY <1>4, RunsFixed
    <3> QED
      BY <3>1, <3>2, FixedKeys DEF CommandKeys
  <2> QED
    BY <2>1
<1>6. saved.c # Zero
  BY <1>5 DEF Repeats
<1>7. last.multi = FALSE
  BY <1>1
<1>8. Fixed(l, saved.c, saved.key[1], saved.key[2]) = <<last.op, last.t>> /\ saved.num = last.n
  BY <1>1, <1>6, <1>7 DEF SavedOK, SavedIs
<1>9. Command(e) = <<last.op, last.t>> /\ e.num = last.n
  BY <1>4, <1>5, <1>8, RepeatIs, SeenIs DEF KeysOK
<1> QED
  BY <1>1, <1>4, <1>9, RunsFixed

\* What the loop keeps of the keys, and of the last command.
HistoryOK == KeysOK /\ SavedOK /\ ModeOK /\ last.multi \in BOOLEAN

LEMMA HistoryStarts ==
  ASSUME Init
  PROVE  HistoryOK
BY StartsOK DEF HistoryOK, Init

LEMMA LastStep ==
  ASSUME KeysOK, NEW k, Press(k), last.multi \in BOOLEAN
  PROVE  last'.multi \in BOOLEAN
<1>1. (l.multi # {}) \in BOOLEAN
  OBVIOUS
<1>2. CASE Execute(k, Seen(k))
  <2> DEFINE cmd == Command(Seen(k))
  <2>1. PICK d \in {TRUE, FALSE} :
             last' = IF d = TRUE \/ Seen(k).c = "n"
                     THEN [op |-> cmd[1], t |-> cmd[2], n |-> Seen(k).num, multi |-> l.multi # {}]
                     ELSE last
    BY <1>2, ExecuteIs, Zenon DEF KeysOK
  <2>2. last' = last \/ last'.multi = (l.multi # {})
    BY <2>1
  <2> QED
    BY <1>1, <2>2
<1>3. CASE last' = last \/ last'.multi = (l.multi # {})
  BY <1>1, <1>3
<1> QED
  BY <1>2, <1>3, HistoryIs DEF NoRun

LEMMA HistoryStep ==
  ASSUME HistoryOK, [Next]_vars
  PROVE  HistoryOK'
<1>1. CASE UNCHANGED vars
  BY <1>1 DEF HistoryOK, KeysOK, SavedOK, ModeOK, SavedIs, KeyOK, NumberOK, Plain, Reset, IsList, vars
<1>2. CASE Next
  <2>1. PICK k \in Keys : Press(k)
    BY <1>2 DEF Next
  <2> QED
    BY <2>1, KeysStep, SavedStep, ModeStep, LastStep DEF HistoryOK
<1> QED
  BY <1>1, <1>2

\* A sequence of keys of the manual is its command, with the number typed before it
\* and from the cursor on; and no command runs whose keys were not the last ones
\* typed, or in a mode that its row is not for, those of Elsewhere apart.  (Tl, @l
\* and Pl do not run outside of diff mode only because T, @ and P do not wait
\* there, which is the invariant ModeOK.)  The loop only keeps the last two keys and what a key did not clear.
THEOREM KeysAreTheManual == Spec => AsDocumented
<1>1. ASSUME HistoryOK, [Next]_vars
      PROVE  [/\ \A r \in Here :
                   \A d \in Digit \cup {0} :
                      /\ typed' = (IF d = 0 THEN <<>> ELSE <<Digits[d]>>) \o r.keys
                      /\ ~(regex /\ "n" = Last(r.keys)) /\ typed' # <<".">>
                      => \/ did'.op = r.op /\ did'.t = r.t /\ did'.u = l.cur
                            /\ did'.n = (IF d = 0 THEN 1 ELSE d % 10)
                         \/ Declined \/ Waiting(r)
              /\ did'.op \notin {"none", "fkey"}
                   => \/ typed' \in {<<".">>, <<".", "l">>, <<".", "r">>}
                      \/ \E r \in Here \cup Elsewhere :
                           did'.op = r.op /\ did'.t = r.t /\ IsSuffix(r.keys, typed')]_vars
  <2>1. CASE Next
    <3>1. PICK k \in Keys : Press(k)
      BY <2>1 DEF Next
    <3>2. KeysOK /\ SavedOK /\ ModeOK
      BY <1>1 DEF HistoryOK
    <3>3. ASSUME NEW r \in Here, NEW d \in Digit \cup {0},
                 typed' = (IF d = 0 THEN <<>> ELSE <<Digits[d]>>) \o r.keys,
                 ~(regex /\ "n" = Last(r.keys))
          PROVE  \/ did'.op = r.op /\ did'.t = r.t /\ did'.u = l.cur
                    /\ did'.n = (IF d = 0 THEN 1 ELSE d % 10)
                 \/ Declined \/ Waiting(r)
      <4>1. Spelled(r.keys, d)
        BY <3>3 DEF Spelled, Prefix
      <4>2. r \in Manual /\ l.mode \in r.modes
        BY DEF Here
      <4> QED
        BY <3>1, <3>2, <3>3, <4>1, <4>2, RowTyped DEF Number0
    <3>4. ASSUME did'.op \notin {"none", "fkey"}
          PROVE  \/ typed' \in {<<".">>, <<".", "l">>, <<".", "r">>}
                 \/ \E r \in Here \cup Elsewhere :
                      did'.op = r.op /\ did'.t = r.t /\ IsSuffix(r.keys, typed')
      BY <3>1, <3>2, <3>4, LastTyped
    <3> QED
      BY <3>3, <3>4, Zenon
  <2>2. CASE UNCHANGED vars
    BY <2>2
  <2> QED
    BY <1>1, <2>1, <2>2
<1> QED
  BY HistoryStarts, HistoryStep, <1>1, PTL DEF Spec, AsDocumented

\* `.` runs what ran last, on as many files: for any commands, keys and numbers in
\* between.  A command for marked entries is excepted, of which save_st() keeps
\* nothing (README).
THEOREM DotIsTheLast == Init /\ [][Next /\ ~DotAfterMany]_vars => DotRepeats
<1>1. ASSUME HistoryOK, [Next /\ ~DotAfterMany]_vars
      PROVE  [typed' = <<".">> /\ did'.op # "none"
                => did'.op = last.op /\ did'.t = last.t /\ did'.n = last.n]_vars
  <2>1. CASE Next /\ ~DotAfterMany
    <3>1. PICK k \in Keys : Press(k)
      BY <2>1 DEF Next
    <3> QED
      BY <1>1, <2>1, <3>1, DotStep DEF HistoryOK
  <2> QED
    BY <1>1, <2>1
<1>2. HistoryOK /\ [Next /\ ~DotAfterMany]_vars => HistoryOK'
  BY HistoryStep
<1> QED
  BY HistoryStarts, <1>1, <1>2, PTL DEF DotRepeats

-----------------------------------------------------------------------------
(* The two loops of a command, as turns: over lines, and over the marked   *)
(* entries.                                                                *)
Turn(m, r, op, t, a, v, i) ==
  IF m = "marked" THEN NextMarked(r, op, t, a, v, i) ELSE File(op, r, a, v, At(r, i))
\* The state after the numbers of q at the places in s
Turns(m, r, op, t, a, b, q, g, n) ==
  g = [s \in SUBSET (1..n) |->
         IF s = {} THEN b ELSE Turn(m, r, op, t, a, g[s \ {Max(s)}], q[Max(s)])]

LEMMA TurnsExist ==
  ASSUME NEW m, NEW r, NEW op, NEW t, NEW a, NEW b, NEW q
  PROVE  \A n \in Nat : \E g : Turns(m, r, op, t, a, b, q, g, n)
<1> DEFINE Is(g, n) == Turns(m, r, op, t, a, b, q, g, n)
           T(v, i) == Turn(m, r, op, t, a, v, i)
           Bad == {n \in Nat : ~\E g : Is(g, n)}
<1>0. \A g, n : Is(g, n) <=> g = [s \in SUBSET (1..n) |-> IF s = {} THEN b ELSE T(g[s \ {Max(s)}], q[Max(s)])]
  BY DEF Turns
<1> HIDE DEF Is, T
<1> SUFFICES ASSUME Bad # {} PROVE FALSE
  BY DEF Is
<1>1. PICK n \in Bad : \A y \in Bad : n <= y
  BY LeastExists
<1>2. n # 0
  <2> SUFFICES \E g : Is(g, 0)
    BY <1>1
  <2> DEFINE g0 == [s \in SUBSET (1..0) |-> b]
  <2>1. \A s \in SUBSET (1..0) : s = {}
    OBVIOUS
  <2>2. Is(g0, 0)
    BY <1>0, <2>1
  <2> QED
    BY <2>2
<1>3. n - 1 \in Nat /\ n - 1 \notin Bad
  BY <1>1, <1>2
<1>4. PICK g : Is(g, n - 1)
  BY <1>3
<1> DEFINE F(s) == IF n \in s THEN T(g[s \ {n}], q[n]) ELSE g[s]
           f == [s \in SUBSET (1..n) |-> F(s)]
<1>5. ASSUME NEW s \in SUBSET (1..n)
      PROVE  f[s] = IF s = {} THEN b ELSE T(f[s \ {Max(s)}], q[Max(s)])
  <2>1. CASE n \in s
    <3>1. Max(s) = n
      BY <2>1, LargestIs
    <3>2. s \ {n} \in SUBSET (1..n) /\ n \notin s \ {n}
      OBVIOUS
    <3>3. f[s \ {n}] = g[s \ {n}]
      BY <3>2
    <3> HIDE DEF F
    <3>4. f[s] = F(s)
      OBVIOUS
    <3> QED
      BY <2>1, <3>1, <3>3, <3>4 DEF F
  <2>2. CASE n \notin s
    <3>1. s \in SUBSET (1..(n - 1))
      BY <2>2
    <3>2. f[s] = g[s]
      BY <2>2
    <3>3. g[s] = IF s = {} THEN b ELSE T(g[s \ {Max(s)}], q[Max(s)])
      BY <3>1, <1>4, <1>0
    <3>4. f[s \ {Max(s)}] = g[s \ {Max(s)}]
      BY <2>2
    <3> QED
      BY <3>2, <3>3, <3>4
  <2> QED
    BY <2>1, <2>2
<1>6. Is(f, n)
  BY <1>5, <1>0
<1> QED
  BY <1>1, <1>6

\* One turn after the other
InTurn(m, r, op, t, a, b, q, h) ==
  /\ h[0] = b
  /\ \A k \in 1..Len(q) : h[k] = Turn(m, r, op, t, a, h[k - 1], q[k])

LEMMA TurnsInTurn ==
  ASSUME NEW m, NEW r, NEW op, NEW t, NEW a, NEW b, NEW q, Len(q) \in Nat, NEW g,
         Turns(m, r, op, t, a, b, q, g, Len(q))
  PROVE  InTurn(m, r, op, t, a, b, q, [k \in 0..Len(q) |-> g[1..k]])
<1> DEFINE n == Len(q)
           h == [k \in 0..n |-> g[1..k]]
           T(v, i) == Turn(m, r, op, t, a, v, i)
<1>1. \A s \in SUBSET (1..n) : g[s] = IF s = {} THEN b ELSE T(g[s \ {Max(s)}], q[Max(s)])
  BY DEF Turns
<1> HIDE DEF T
<1>2. h[0] = b
  <2>1. 1..0 = {} /\ 1..0 \in SUBSET (1..n)
    OBVIOUS
  <2>2. g[1..0] = b
    BY <1>1, <2>1
  <2> QED
    BY <2>2
<1>3. ASSUME NEW k \in 1..n
      PROVE  h[k] = T(h[k - 1], q[k])
  <2>1. k - 1 \in 0..n /\ k \in 0..n /\ k \in Int /\ k \in 1..k
    OBVIOUS
  <2>2. 1..k \in SUBSET (1..n) /\ 1..k # {}
    <3>1. \A y \in 1..k : y \in 1..n
      BY <2>1
    <3> QED
      BY <2>1, <3>1
  <2>3. (1..k) \ {k} = 1..(k - 1)
    OBVIOUS
  <2>4. Max(1..k) = k
    <3>1. 1..k \in SUBSET Int /\ \A y \in 1..k : k >= y
      OBVIOUS
    <3> QED
      BY <2>1, <3>1, LargestIs
  <2>5. g[1..k] = T(g[1..(k - 1)], q[k])
    <3>1. g[1..k] = T(g[(1..k) \ {Max(1..k)}], q[Max(1..k)])
      BY <1>1, <2>2
    <3> QED
      BY <3>1, <2>3, <2>4
  <2>6. h[k] = g[1..k] /\ h[k - 1] = g[1..(k - 1)]
    BY <2>1
  <2> QED
    BY <2>5, <2>6
<1> HIDE DEF h
<1>4. \A k \in 1..n : h[k] = Turn(m, r, op, t, a, h[k - 1], q[k])
  BY <1>3 DEF T
<1> QED
  BY <1>2, <1>4 DEF InTurn, h

\* What the loops of OnLines and OnMarked leave
LinesWork(r, op, t, u0, n, a) ==
  FoldLeft(LAMBDA v, i : File(op, r, a, v, At(r, i)),
           Begin(t, op = "rm" /\ n > 1, op = "rm" /\ n > 1), Lines(r, u0, n))
MarkedWork(r, op, t, a) ==
  FoldLeft(LAMBDA x, i : NextMarked(r, op, t, a, x, i),
           [w |-> Begin(t, FALSE, FALSE), at |-> None, left |-> FALSE], Marked(r))

LEMMA LinesInTurn ==
  ASSUME NEW r, NEW op, NEW t, NEW v, NEW n, NEW a, Lines(r, v, n) \in Seq(Int)
  PROVE  \E h : /\ InTurn("lines", r, op, t, a, Begin(t, op = "rm" /\ n > 1, op = "rm" /\ n > 1), Lines(r, v, n), h)
                /\ LinesWork(r, op, t, v, n, a) = h[Len(Lines(r, v, n))]
<1> DEFINE q == Lines(r, v, n)
           b == Begin(t, op = "rm" /\ n > 1, op = "rm" /\ n > 1)
           N == Len(q)
<1>1. N \in Nat /\ DOMAIN q = 1..N
  OBVIOUS
<1>2. LinesWork(r, op, t, v, n, a) =
        (CHOOSE g : g = [s \in SUBSET (DOMAIN q) |->
            IF s = {} THEN b ELSE File(op, r, a, g[s \ {Max(s)}], At(r, q[Max(s)]))])[DOMAIN q]
  BY DEF LinesWork, FoldLeft, MapThenFoldSet
<1> HIDE DEF q, b
<1> DEFINE Is(g) == g = [s \in SUBSET (1..N) |->
                          IF s = {} THEN b ELSE File(op, r, a, g[s \ {Max(s)}], At(r, q[Max(s)]))]
<1>3. LinesWork(r, op, t, v, n, a) = (CHOOSE g : Is(g))[1..N]
  BY <1>1, <1>2
<1>4. \A g : Turns("lines", r, op, t, a, b, q, g, N) <=> Is(g)
  BY DEF Turns, Turn
<1>5. \E g : Is(g)
  BY <1>1, <1>4, TurnsExist
<1> DEFINE g == CHOOSE g : Is(g)
<1>6. Is(g)
  BY <1>5
<1> HIDE DEF g, Is
<1> DEFINE h == [k \in 0..N |-> g[1..k]]
<1>7. InTurn("lines", r, op, t, a, b, q, h)
  BY <1>1, <1>4, <1>6, TurnsInTurn
<1>8. h[N] = g[1..N]
  BY <1>1
<1>9. LinesWork(r, op, t, v, n, a) = h[N]
  BY <1>3, <1>8 DEF g
<1> QED
  BY <1>7, <1>9 DEF q, b

LEMMA MarkedInTurn ==
  ASSUME NEW r, NEW op, NEW t, NEW a, Marked(r) \in Seq(Int)
  PROVE  \E h : /\ InTurn("marked", r, op, t, a, [w |-> Begin(t, FALSE, FALSE), at |-> None, left |-> FALSE], Marked(r), h)
                /\ MarkedWork(r, op, t, a) = h[Len(Marked(r))]
<1> DEFINE q == Marked(r)
           b == [w |-> Begin(t, FALSE, FALSE), at |-> None, left |-> FALSE]
           N == Len(q)
<1>1. N \in Nat /\ DOMAIN q = 1..N
  OBVIOUS
<1>2. MarkedWork(r, op, t, a) =
        (CHOOSE g : g = [s \in SUBSET (DOMAIN q) |->
            IF s = {} THEN b ELSE NextMarked(r, op, t, a, g[s \ {Max(s)}], q[Max(s)])])[DOMAIN q]
  BY DEF MarkedWork, FoldLeft, MapThenFoldSet
<1> HIDE DEF q, b
<1> DEFINE Is(g) == g = [s \in SUBSET (1..N) |->
                          IF s = {} THEN b ELSE NextMarked(r, op, t, a, g[s \ {Max(s)}], q[Max(s)])]
<1>3. MarkedWork(r, op, t, a) = (CHOOSE g : Is(g))[1..N]
  BY <1>1, <1>2
<1>4. \A g : Turns("marked", r, op, t, a, b, q, g, N) <=> Is(g)
  BY DEF Turns, Turn
<1>5. \E g : Is(g)
  BY <1>1, <1>4, TurnsExist
<1> DEFINE g == CHOOSE g : Is(g)
<1>6. Is(g)
  BY <1>5
<1> HIDE DEF g, Is
<1> DEFINE h == [k \in 0..N |-> g[1..k]]
<1>7. InTurn("marked", r, op, t, a, b, q, h)
  BY <1>1, <1>4, <1>6, TurnsInTurn
<1>8. h[N] = g[1..N]
  BY <1>1
<1>9. MarkedWork(r, op, t, a) = h[N]
  BY <1>3, <1>8 DEF g
<1> QED
  BY <1>7, <1>9 DEF q, b

LEMMA OnLinesIs ==
  ASSUME NEW r, NEW op, NEW t, NEW v, NEW n, NEW a
  PROVE  LET w == LinesWork(r, op, t, v, n, a)
             s == Effect(r, op, w.acts)
             rebuilt == ~w.stop /\ (w.acts # {} \/ op = "rename" \/ Asks(op) \/ (op = "rm" /\ w.err))
         IN  OnLines(r, op, t, v, n, a) =
               IF db_num(r) = 0 \/ (n > 1 /\ ~a.yes) THEN Result(r, {}, TRUE, 0)
               ELSE Result(IF rebuilt THEN Rebuild(s, op) ELSE s, w.acts, TRUE, 0)
BY DEF OnLines, LinesWork

LEMMA OnMarkedIs ==
  ASSUME NEW r, NEW op, NEW t, NEW a
  PROVE  LET v == MarkedWork(r, op, t, a)
             s == [Effect(r, op, v.w.acts) EXCEPT !.prev = IF v.left THEN v.at ELSE None]
         IN  OnMarked(r, op, t, a) =
               IF ~a.yes THEN Result(r, {}, FALSE, 1)
               ELSE Result(IF v.at = None THEN rebuild_db(s) ELSE Rebuild(s, op), v.w.acts, TRUE, 1)
BY DEF OnMarked, MarkedWork

-----------------------------------------------------------------------------
(* The state of a loop: its types, and that what is done was asked for.    *)
Acted == (Entry \cup {Foreign}) \X {1, 2} \X BOOLEAN
Work  == [tree : {0, 1, 2, 3}, ntr : {0, 2, 3}, have : BOOLEAN, asked : BOOLEAN, acts : SUBSET Acted,
          again : BOOLEAN, stop : BOOLEAN, err : BOOLEAN]
Sound(op, w) == /\ w \in Work /\ (op = "rm" => w.tree \in {1, 2, 3})
                /\ op # "rm" => \A x \in w.acts : x[1] \in Entry
Asking(w) == (w.have = TRUE => w.asked = TRUE) /\ \A x \in w.acts : x[3] = TRUE

Begun(op, t, have, asked, w) ==
  /\ Sound(op, w) /\ w.acts = {} /\ w.tree = t /\ w.ntr = 0 /\ w.have = have
  /\ w.asked = asked /\ w.again = FALSE /\ w.stop = FALSE /\ w.err = FALSE
  /\ (have = TRUE => asked = TRUE) => Asking(w)
LEMMA BeginIs ==
  ASSUME NEW op, NEW t \in {0, 1, 2, 3}, op = "rm" => t \in {1, 2, 3}, NEW have \in BOOLEAN, NEW asked \in BOOLEAN
  PROVE  Begun(op, t, have, asked, Begin(t, have, asked))
BY DEF Begin, Begun, Work, Sound, Asking

\* v is w with the next tree
Advanced(op, w, v) ==
  /\ v.acts = w.acts /\ v.have = w.have /\ v.asked = w.asked /\ v.stop = w.stop /\ v.err = w.err
  /\ w.ntr = 0 => v.tree = w.tree /\ v.ntr = 0 /\ v.again = FALSE
  /\ w.ntr = 2 => v.tree = 2 /\ v.again = TRUE /\ v.ntr = IF op = "rename" THEN 0 ELSE 3
  /\ w.ntr = 3 => v.tree = 3 /\ v.ntr = 0 /\ v.again = FALSE

LEMMA NextTreeIs ==
  ASSUME NEW op, NEW w \in Work
  PROVE  NextTree(op, w) \in Work /\ Advanced(op, w, NextTree(op, w))
<1>1. CASE w.ntr = 0
  <2> DEFINE v == [w EXCEPT !.again = FALSE]
  <2>1. NextTree(op, w) = v
    BY <1>1 DEF NextTree
  <2>2. v \in Work
    BY DEF Work
  <2>3. v.acts = w.acts /\ v.have = w.have /\ v.asked = w.asked /\ v.stop = w.stop /\ v.err = w.err
    BY DEF Work
  <2>4. v.tree = w.tree /\ v.ntr = w.ntr /\ v.again = FALSE
    BY DEF Work
  <2> HIDE DEF v
  <2>5. Advanced(op, w, v)
    BY <1>1, <2>3, <2>4 DEF Advanced
  <2> QED
    BY <2>1, <2>2, <2>5 DEF v
<1>2. CASE w.ntr = 2
  <2> DEFINE n == IF op = "rename" THEN 0 ELSE 3
             v == [w EXCEPT !.tree = 2, !.ntr = n, !.again = TRUE]
  <2>1. NextTree(op, w) = v
    BY <1>2 DEF NextTree
  <2>0. n \in {0, 3}
    OBVIOUS
  <2> HIDE DEF n
  <2>2. v \in Work
    BY <2>0 DEF Work
  <2>3. v.acts = w.acts /\ v.have = w.have /\ v.asked = w.asked /\ v.stop = w.stop /\ v.err = w.err
    BY DEF Work
  <2>4. v.tree = 2 /\ v.ntr = n /\ v.again = TRUE
    BY DEF Work
  <2> HIDE DEF v
  <2>5. Advanced(op, w, v)
    BY <1>2, <2>3, <2>4 DEF Advanced, n
  <2> QED
    BY <2>1, <2>2, <2>5 DEF v, n
<1>3. CASE w.ntr = 3
  <2> DEFINE v == [w EXCEPT !.tree = 3, !.ntr = 0, !.again = FALSE]
  <2>1. NextTree(op, w) = v
    BY <1>3 DEF NextTree
  <2>2. v \in Work
    BY DEF Work
  <2>3. v.acts = w.acts /\ v.have = w.have /\ v.asked = w.asked /\ v.stop = w.stop /\ v.err = w.err
    BY DEF Work
  <2>4. v.tree = 3 /\ v.ntr = 0 /\ v.again = FALSE
    BY DEF Work
  <2> HIDE DEF v
  <2>5. Advanced(op, w, v)
    BY <1>3, <2>3, <2>4 DEF Advanced
  <2> QED
    BY <2>1, <2>2, <2>5 DEF v
<1> QED
  BY <1>1, <1>2, <1>3 DEF Work

\* The ways one file can go: left out, left with <ESC>, failed, or done.
Asked2(w) == w.asked \/ ~w.have
Outcome(op, r, a, w, e, s, v) ==
  /\ v.again = TRUE => v.tree = 2
  /\ \/ /\ Skipped(op, r, e, s) /\ v.acts = w.acts /\ v.have = w.have /\ v.asked = w.asked
        /\ v.tree = w.tree /\ v.ntr = w.ntr /\ v.again = FALSE /\ v.stop = w.stop /\ v.err = w.err
     \/ /\ ~Skipped(op, r, e, s) /\ a.esc = <<e, s>> /\ w.have = FALSE /\ v.acts = w.acts
        /\ v.have = w.have /\ v.asked = w.asked /\ v.tree = w.tree /\ v.stop = TRUE /\ v.again = FALSE
     \/ /\ ~Skipped(op, r, e, s) /\ a.bad = <<e, s>> /\ v.acts = w.acts
        /\ v.have = (w.have \/ Asks(op)) /\ v.asked = Asked2(w) /\ v.tree = w.tree
        /\ v.stop = (op # "rm") /\ v.err = TRUE /\ v.again = FALSE
     \/ /\ ~Skipped(op, r, e, s) /\ ~(a.esc = <<e, s>> /\ w.have = FALSE)
        /\ v.acts = w.acts \cup {<<e, s, Asked2(w)>>}
        /\ v.have = (w.have \/ Asks(op)) /\ v.asked = Asked2(w) /\ v.stop = w.stop /\ v.err = w.err
        /\ w.ntr = 0 => v.tree = w.tree /\ v.ntr = 0 /\ v.again = FALSE
        /\ w.ntr = 2 => v.tree = 2 /\ v.again = TRUE /\ v.ntr = IF op = "rename" THEN 0 ELSE 3
        /\ w.ntr = 3 => v.tree = 3 /\ v.ntr = 0 /\ v.again = FALSE

LEMMA OneSideIs ==
  ASSUME NEW op, NEW r, NEW a, NEW w \in Work, NEW e \in Entry, NEW s \in {1, 2}, Side(op, r, w, e) = s
  PROVE  OneSide(op, r, a, w, e) \in Work /\ Outcome(op, r, a, w, e, s, OneSide(op, r, a, w, e))
<1> DEFINE v == OneSide(op, r, a, w, e)
           q == [w EXCEPT !.have = @ \/ Asks(op), !.asked = @ \/ ~w.have]
<1>1. /\ (w.have \/ Asks(op)) \in BOOLEAN /\ Asked2(w) \in BOOLEAN /\ (op # "rm") \in BOOLEAN
      /\ w.have \in BOOLEAN
  BY DEF Work, Asked2
<1>2. q = [w EXCEPT !.have = (w.have \/ Asks(op)), !.asked = Asked2(w)]
  BY DEF Asked2
<1>3. /\ q \in Work /\ q.have = (w.have \/ Asks(op)) /\ q.asked = Asked2(w) /\ q.acts = w.acts
      /\ q.tree = w.tree /\ q.ntr = w.ntr /\ q.stop = w.stop /\ q.err = w.err
  <2> DEFINE h == (w.have \/ Asks(op))
             k == Asked2(w)
             p == [w EXCEPT !.have = h, !.asked = k]
  <2>1. h \in BOOLEAN /\ k \in BOOLEAN
    BY <1>1
  <2> HIDE DEF h, k
  <2>2. /\ p \in Work /\ p.have = h /\ p.asked = k /\ p.acts = w.acts
        /\ p.tree = w.tree /\ p.ntr = w.ntr /\ p.stop = w.stop /\ p.err = w.err
    BY <2>1 DEF Work
  <2> QED
    BY <1>2, <2>2 DEF h, k
<1>4. \/ Skipped(op, r, e, s) /\ v = [w EXCEPT !.again = FALSE]
      \/ /\ ~Skipped(op, r, e, s) /\ a.esc = <<e, s>> /\ ~w.have
         /\ v = [w EXCEPT !.stop = TRUE, !.again = FALSE]
      \/ /\ ~Skipped(op, r, e, s) /\ a.bad = <<e, s>>
         /\ v = [q EXCEPT !.err = TRUE, !.stop = op # "rm", !.again = FALSE]
      \/ /\ ~Skipped(op, r, e, s) /\ ~(a.esc = <<e, s>> /\ ~w.have)
         /\ v = NextTree(op, [q EXCEPT !.acts = @ \cup {<<e, s, q.asked>>}])
  BY DEF OneSide
<1> HIDE DEF v, q
<1>5. CASE Skipped(op, r, e, s) /\ v = [w EXCEPT !.again = FALSE]
  <2>1. v \in Work /\ v.acts = w.acts /\ v.have = w.have /\ v.asked = w.asked
        /\ v.tree = w.tree /\ v.ntr = w.ntr /\ v.again = FALSE /\ v.stop = w.stop /\ v.err = w.err
    BY <1>5 DEF Work
  <2> QED
    BY <1>5, <2>1 DEF v, Outcome
<1>6. CASE /\ ~Skipped(op, r, e, s) /\ a.esc = <<e, s>> /\ ~w.have
           /\ v = [w EXCEPT !.stop = TRUE, !.again = FALSE]
  <2>1. v \in Work /\ v.acts = w.acts /\ v.have = w.have /\ v.asked = w.asked
        /\ v.tree = w.tree /\ v.stop = TRUE /\ v.again = FALSE
    BY <1>6 DEF Work
  <2>2. w.have = FALSE
    BY <1>1, <1>6
  <2> QED
    BY <1>6, <2>1, <2>2 DEF v, Outcome
<1>7. CASE /\ ~Skipped(op, r, e, s) /\ a.bad = <<e, s>>
           /\ v = [q EXCEPT !.err = TRUE, !.stop = op # "rm", !.again = FALSE]
  <2> DEFINE o == (op # "rm")
             p == [q EXCEPT !.err = TRUE, !.stop = o, !.again = FALSE]
  <2>1. o \in BOOLEAN
    BY <1>1
  <2> HIDE DEF o
  <2>2. p \in Work /\ p.acts = q.acts /\ p.have = q.have /\ p.asked = q.asked
        /\ p.tree = q.tree /\ p.stop = o /\ p.err = TRUE /\ p.again = FALSE
    BY <1>3, <2>1 DEF Work
  <2>3. v = p
    BY <1>7 DEF o
  <2> HIDE DEF p
  <2> QED
    BY <1>3, <1>7, <2>2, <2>3 DEF v, o, Outcome
<1>8. CASE /\ ~Skipped(op, r, e, s) /\ ~(a.esc = <<e, s>> /\ ~w.have)
           /\ v = NextTree(op, [q EXCEPT !.acts = @ \cup {<<e, s, q.asked>>}])
  <2> DEFINE x == <<e, s, q.asked>>
             p == [q EXCEPT !.acts = q.acts \cup {x}]
  <2>1. x \in Acted
    BY <1>1, <1>3 DEF Acted
  <2>2. v = NextTree(op, p)
    BY <1>8
  <2>3. p \in Work /\ p.acts = q.acts \cup {x} /\ p.have = q.have /\ p.asked = q.asked
        /\ p.tree = q.tree /\ p.ntr = q.ntr /\ p.stop = q.stop /\ p.err = q.err
    <3> HIDE DEF x
    <3>1. q.acts \cup {x} \in SUBSET Acted
      BY <1>3, <2>1 DEF Work
    <3> DEFINE y == q.acts \cup {x}
    <3> HIDE DEF y
    <3>2. LET z == [q EXCEPT !.acts = y]
          IN  z \in Work /\ z.acts = y /\ z.have = q.have /\ z.asked = q.asked
              /\ z.tree = q.tree /\ z.ntr = q.ntr /\ z.stop = q.stop /\ z.err = q.err
      BY <1>3, <3>1 DEF Work, y
    <3> QED
      BY <3>2 DEF y
  <2> HIDE DEF p
  <2>4. v \in Work /\ Advanced(op, p, v)
    BY <2>2, <2>3, NextTreeIs
  <2>5. p.ntr = w.ntr /\ p.tree = w.tree /\ p.ntr \in {0, 2, 3}
    BY <1>3, <2>3 DEF Work
  <2>6. v.again = TRUE => v.tree = 2
    BY <2>4, <2>5 DEF Advanced
  <2>7. x = <<e, s, Asked2(w)>>
    BY <1>3
  <2>8. ~(a.esc = <<e, s>> /\ w.have = FALSE)
    BY <1>8
  <2> HIDE DEF x
  <2> QED
    BY <1>3, <1>8, <2>3, <2>4, <2>5, <2>6, <2>7, <2>8 DEF v, Outcome, Advanced
<1> QED
  BY <1>4, <1>5, <1>6, <1>7, <1>8

LEMMA SideSound ==
  ASSUME NEW op, NEW r, NEW a, NEW w, Sound(op, w), NEW e \in Entry, NEW s \in {1, 2}, Side(op, r, w, e) = s
  PROVE  LET v == OneSide(op, r, a, w, e)
         IN  Sound(op, v) /\ (v.again = TRUE => v.tree = 2) /\ (Asking(w) => Asking(v))
<1> DEFINE v == OneSide(op, r, a, w, e)
<1>1. v \in Work /\ Outcome(op, r, a, w, e, s, v)
  BY OneSideIs DEF Sound
<1> HIDE DEF v
<1>2. v.again = TRUE => v.tree = 2
  BY <1>1 DEF Outcome
<1>3. v.tree \in {w.tree, 2, 3}
  <2>1. w.ntr \in {0, 2, 3}
    BY DEF Sound, Work
  <2> QED
    BY <1>1, <2>1 DEF Outcome
<1>4. v.acts = w.acts \/ v.acts = w.acts \cup {<<e, s, Asked2(w)>>}
  BY <1>1 DEF Outcome
<1>5. op # "rm" => \A x \in v.acts : x[1] \in Entry
  BY <1>4 DEF Sound
<1>6. Sound(op, v)
  BY <1>1, <1>3, <1>5 DEF Sound
<1>7. ASSUME Asking(w) PROVE Asking(v)
  <2>1. w.have \in BOOLEAN /\ w.asked \in BOOLEAN
    BY DEF Sound, Work
  <2>2. Asked2(w) = TRUE
    BY <1>7, <2>1 DEF Asking, Asked2
  <2> DEFINE y == <<e, s, Asked2(w)>>
  <2>6. y[3] = TRUE
    BY <2>2
  <2>7. v.acts = w.acts \/ v.acts = w.acts \cup {y}
    BY <1>4
  <2> HIDE DEF y
  <2>3. \A x \in v.acts : x[3] = TRUE
    BY <1>7, <2>6, <2>7 DEF Asking
  <2>4. (v.have = w.have /\ v.asked = w.asked) \/ v.asked = Asked2(w)
    BY <1>1 DEF Outcome
  <2>5. v.have = TRUE => v.asked = TRUE
    BY <1>7, <2>2, <2>4 DEF Asking
  <2> QED
    BY <2>3, <2>5 DEF Asking
<1> QED
  BY <1>2, <1>6, <1>7 DEF v

LEMMA SideIs ==
  ASSUME NEW op, NEW r, NEW w, NEW e, op = "rm" /\ r.mode # "bmode" => w.tree \in {1, 2}
  PROVE  Side(op, r, w, e) \in {1, 2}
BY DEF Side

LEMMA BothSound ==
  ASSUME NEW op, NEW r, NEW a, NEW w, Sound(op, w), NEW e \in Entry,
         op = "rm" /\ r.mode # "bmode" => w.tree \in {1, 2}
  PROVE  LET v == BothSides(op, r, a, w, e)
         IN  Sound(op, v) /\ (Asking(w) => Asking(v))
<1> DEFINE v == OneSide(op, r, a, w, e)
           x == OneSide(op, r, a, v, e)
<1>1. Sound(op, v) /\ (v.again = TRUE => v.tree = 2) /\ (Asking(w) => Asking(v))
  BY SideIs, SideSound
<1>2. v.again \in BOOLEAN
  BY <1>1 DEF Sound, Work
<1>3. BothSides(op, r, a, w, e) = IF v.again THEN x ELSE v
  BY DEF BothSides
<1> HIDE DEF v
<1>4. ASSUME v.again = TRUE PROVE Sound(op, x) /\ (Asking(v) => Asking(x))
  <2>1. Side(op, r, v, e) \in {1, 2}
    BY <1>1, <1>4, SideIs
  <2> QED
    BY <1>1, <2>1, SideSound
<1> HIDE DEF x
<1> QED
  BY <1>1, <1>2, <1>3, <1>4

\* The sides of a file in the list: one or both.
LEMMA SidesAre ==
  ASSUME NEW r \in ListType, NEW e, Sides(r, e) # {}
  PROVE  /\ Sides(r, e) \in {{1}, {2}, {1, 2}}
         /\ Cardinality(Sides(r, e)) = 2 <=> Sides(r, e) = {1, 2}
         /\ Cardinality(Sides(r, e)) < 2 <=> Sides(r, e) # {1, 2}
         /\ Cardinality(Sides(r, e)) = 1 <=> Sides(r, e) # {1, 2}
<1>1. Sides(r, e) \in {{1}, {2}, {1, 2}}
  <2>1. Sides(r, e) \subseteq {1, 2}
    BY DEF Sides, On
  <2> QED
    BY <2>1
<1>2. Cardinality({1}) = 1 /\ Cardinality({2}) = 1
  BY FS_Singleton
<1>3. Cardinality({1, 2}) = 2
  <2>0. IsFiniteSet({1})
    BY FS_Singleton
  <2>1. {1, 2} = {1} \cup {2} /\ 2 \notin {1} /\ IsFiniteSet({1})
    BY <2>0
  <2>2. Cardinality({1} \cup {2}) = Cardinality({1}) + 1
    BY <2>1, FS_AddElement
  <2> QED
    BY <1>2, <2>1, <2>2
<1>4. {1} # {1, 2} /\ {2} # {1, 2}
  OBVIOUS
<1> DEFINE S == Sides(r, e)
<1> HIDE DEF S
<1>5. S \in {{1}, {2}, {1, 2}}
  BY <1>1 DEF S
<1>6. CASE S = {1}
  <2>1. Cardinality(S) = 1 /\ S # {1, 2}
    BY <1>2, <1>4, <1>6
  <2> QED
    BY <1>5, <2>1 DEF S
<1>7. CASE S = {2}
  <2>1. Cardinality(S) = 1 /\ S # {1, 2}
    BY <1>2, <1>4, <1>7
  <2> QED
    BY <1>5, <2>1 DEF S
<1>8. CASE S = {1, 2}
  <2>1. Cardinality(S) = 2
    BY <1>3, <1>8
  <2> QED
    BY <1>5, <1>8, <2>1 DEF S
<1> QED
  BY <1>5, <1>6, <1>7, <1>8

\* v is w with the tree for one file
Narrowed(op, r, w, e, v) ==
  /\ v.acts = w.acts /\ v.have = w.have /\ v.asked = w.asked /\ v.stop = w.stop /\ v.err = w.err
  /\ v.again = w.again
  /\ w.tree # 3 => v.tree = w.tree /\ v.ntr = w.ntr
  /\ w.tree = 3 /\ Sides(r, e) = {1, 2} => v.tree = 1 /\ v.ntr = 2
  /\ w.tree = 3 /\ Sides(r, e) # {1, 2} => v.ntr = w.ntr
  /\ w.tree = 3 /\ Sides(r, e) # {1, 2} /\ op = "rm" => v.tree \in {1, 2} /\ Sides(r, e) = {v.tree}
  /\ w.tree = 3 /\ Sides(r, e) # {1, 2} /\ op # "rm" => v.tree = 3

LEMMA NarrowIs ==
  ASSUME NEW op, NEW r \in ListType, NEW w \in Work, NEW e, Sides(r, e) # {}
  PROVE  Narrow(op, r, w, e) \in Work /\ Narrowed(op, r, w, e, Narrow(op, r, w, e))
<1>1. CASE w.tree # 3
  <2>1. Narrow(op, r, w, e) = w
    BY <1>1 DEF Narrow
  <2> QED
    BY <1>1, <2>1 DEF Narrowed
<1>2. CASE w.tree = 3 /\ Sides(r, e) = {1, 2}
  <2> DEFINE v == [w EXCEPT !.tree = 1, !.ntr = 2]
  <2>1. Narrow(op, r, w, e) = v
    BY <1>2, SidesAre DEF Narrow
  <2>2. v \in Work
    BY DEF Work
  <2>3. v.acts = w.acts /\ v.have = w.have /\ v.asked = w.asked /\ v.stop = w.stop /\ v.err = w.err
        /\ v.again = w.again
    BY DEF Work
  <2>4. v.tree = 1 /\ v.ntr = 2
    BY DEF Work
  <2> HIDE DEF v
  <2>5. Narrowed(op, r, w, e, v)
    BY <1>2, <2>3, <2>4 DEF Narrowed
  <2> QED
    BY <2>1, <2>2, <2>5 DEF v
<1>3. CASE w.tree = 3 /\ Sides(r, e) # {1, 2} /\ op # "rm"
  <2>1. Narrow(op, r, w, e) = w
    BY <1>3, SidesAre DEF Narrow
  <2> QED
    BY <1>3, <2>1 DEF Narrowed
<1>4. CASE w.tree = 3 /\ Sides(r, e) # {1, 2} /\ op = "rm"
  <2> DEFINE s == CHOOSE s \in Sides(r, e) : TRUE
             v == [w EXCEPT !.tree = s]
  <2>1. Narrow(op, r, w, e) = v
    <3>1. Cardinality(Sides(r, e)) < 2 /\ ~(Cardinality(Sides(r, e)) = 2)
      BY <1>4, SidesAre
    <3> QED
      BY <1>4, <3>1 DEF Narrow
  <2>2. s \in {1, 2} /\ Sides(r, e) = {s}
    BY <1>4, SidesAre
  <2> HIDE DEF s
  <2>3. v \in Work
    BY <2>2 DEF Work
  <2>4. v.acts = w.acts /\ v.have = w.have /\ v.asked = w.asked /\ v.stop = w.stop /\ v.err = w.err
        /\ v.again = w.again /\ v.ntr = w.ntr /\ v.tree = s
    BY DEF Work
  <2> HIDE DEF v
  <2>5. Narrowed(op, r, w, e, v)
    BY <1>4, <2>2, <2>4 DEF Narrowed
  <2> QED
    BY <2>1, <2>3, <2>5 DEF v
<1> QED
  BY <1>1, <1>2, <1>3, <1>4

LEMMA NarrowSound ==
  ASSUME NEW op, NEW r \in ListType, NEW w, Sound(op, w), NEW e, Sides(r, e) # {}
  PROVE  LET v == Narrow(op, r, w, e)
         IN  Sound(op, v) /\ (op = "rm" => v.tree \in {1, 2}) /\ (Asking(w) => Asking(v))
<1> DEFINE v == Narrow(op, r, w, e)
<1>1. v \in Work /\ Narrowed(op, r, w, e, v)
  BY NarrowIs DEF Sound
<1> HIDE DEF v
<1>2. op = "rm" => v.tree \in {1, 2}
  BY <1>1 DEF Narrowed, Sound
<1>3. v.acts = w.acts /\ v.have = w.have /\ v.asked = w.asked
  BY <1>1 DEF Narrowed
<1>4. Sound(op, v)
  BY <1>1, <1>2, <1>3 DEF Sound
<1>5. Asking(w) => Asking(v)
  BY <1>3 DEF Asking
<1> QED
  BY <1>2, <1>4, <1>5 DEF v

\* The file of a line
LEMMA LineHasSides ==
  ASSUME NEW r, Good(r), NEW i \in 0..(db_num(r) - 1), At(r, i) # DotDot
  PROVE  At(r, i) \in Entry /\ Sides(r, At(r, i)) # {} /\ r \in ListType
<1>1. r \in ListType /\ At(r, i) \in Shown(r)
  BY LinesAre DEF Good
<1> QED
  BY <1>1 DEF Shown, Sides

LEMMA OpsAre ==
  ASSUME NEW op \in Ops
  PROVE  \/ op = "rm" /\ ~Asks(op) /\ ~Copies(op)
         \/ op = "rename" /\ ~Asks(op) /\ ~Copies(op)
         \/ op \notin {"rm", "rename"} /\ Asks(op) /\ ~Copies(op)
         \/ op \notin {"rm", "rename"} /\ ~Asks(op) /\ Copies(op)
BY DEF Ops, Asks, Copies


LEMMA DestinationIs ==
  ASSUME NEW r \in ListType, NEW op, NEW e \in Entry
  PROVE  fs_get_dst(r, op, e) \in {0, 1, 2, 3}
<1>1. r.mode \in {"bmode", "fmode", "diff"} /\ r.col \in {0, 1} /\ Newer[e] \in {0, 1, 2}
  BY RangeOpsAssumption DEF ListType
<1>2. CASE r.mode = "bmode"
  BY <1>2 DEF fs_get_dst
<1>3. CASE r.mode = "fmode"
  <2>1. 2 - r.col \in {1, 2}
    BY <1>1
  <2> QED
    BY <1>3, <2>1 DEF fs_get_dst
<1>4. CASE r.mode = "diff"
  BY <1>1, <1>4 DEF fs_get_dst
<1> QED
  BY <1>1, <1>2, <1>3, <1>4

\* A record of the state with other acts, or an error
LEMMA WithActs ==
  ASSUME NEW w \in Work, NEW acts \in SUBSET Acted
  PROVE  LET v == [w EXCEPT !.acts = acts]
         IN  /\ v \in Work /\ v.acts = acts /\ v.have = w.have /\ v.asked = w.asked
             /\ v.tree = w.tree /\ v.ntr = w.ntr /\ v.stop = w.stop /\ v.err = w.err
BY DEF Work

LEMMA CopySound ==
  ASSUME NEW op, NEW r \in ListType, NEW a, NEW w, Sound(op, w), NEW e \in Entry \cup {DotDot}
  PROVE  LET v == fs_cp(op, r, a, w, e)
         IN  /\ Sound(op, v) /\ (Asking(w) => Asking(v))
             /\ \A x \in v.acts : x \in w.acts \/ x[1] = e
<1> DEFINE v == fs_cp(op, r, a, w, e)
           to == IF w.tree # 0 THEN w.tree ELSE fs_get_dst(r, op, e)
           T == IF to = 3 THEN {1, 2} ELSE {to}
           new == {<<e, s, TRUE>> : s \in T}
           f == [w EXCEPT !.err = TRUE]
           g == [w EXCEPT !.acts = w.acts \cup new]
<1>1. v = w \/ v = f \/ (to # 0 /\ e # DotDot /\ v = g)
  BY DEF fs_cp
<1>2. w \in Work
  BY DEF Sound
<1>3. CASE v = w
  BY <1>3
<1>4. CASE v = f
  <2>1. f \in Work /\ f.acts = w.acts /\ f.have = w.have /\ f.asked = w.asked /\ f.tree = w.tree
    BY <1>2 DEF Work
  <2> HIDE DEF f
  <2>2. Sound(op, f) /\ (Asking(w) => Asking(f))
    BY <2>1 DEF Sound, Asking
  <2> QED
    BY <1>4, <2>1, <2>2
<1>5. CASE to # 0 /\ e # DotDot /\ v = g
  <2>1. e \in Entry /\ w.tree \in {0, 1, 2, 3}
    BY <1>2, <1>5 DEF Work
  <2>2. to \in {1, 2, 3}
    BY <1>5, <2>1, DestinationIs
  <2> HIDE DEF to
  <2>3. T \subseteq {1, 2}
    BY <2>2
  <2> HIDE DEF T
  <2>4. new \subseteq Acted /\ \A x \in new : x[1] = e /\ x[3] = TRUE
    <3>1. ASSUME NEW s \in T PROVE LET x == <<e, s, TRUE>> IN x \in Acted /\ x[1] = e /\ x[3] = TRUE
      <4>1. s \in {1, 2}
        BY <2>3, <3>1
      <4>2. <<e, s, TRUE>> \in Acted
        BY <2>1, <4>1 DEF Acted
      <4> QED
        BY <4>2
    <3> QED
      BY <3>1
  <2> HIDE DEF new
  <2>5. w.acts \cup new \in SUBSET Acted
    BY <1>2, <2>4 DEF Work
  <2>6. g \in Work /\ g.acts = w.acts \cup new /\ g.have = w.have /\ g.asked = w.asked /\ g.tree = w.tree
    BY <1>2, <2>5, WithActs
  <2> HIDE DEF g
  <2>7. Sound(op, g)
    BY <2>1, <2>4, <2>6 DEF Sound
  <2>8. Asking(w) => Asking(g)
    BY <2>4, <2>6 DEF Asking
  <2>9. \A x \in g.acts : x \in w.acts \/ x[1] = e
    BY <2>4, <2>6
  <2> QED
    BY <1>5, <2>7, <2>8, <2>9
<1> QED
  BY <1>1, <1>3, <1>4, <1>5

LEMMA EntrySound ==
  ASSUME NEW op, NEW r \in ListType, NEW a, NEW w, Sound(op, w), NEW e \in Entry, Sides(r, e) # {}
  PROVE  LET v == BothSides(op, r, a, Narrow(op, r, w, e), e)
         IN  Sound(op, v) /\ (Asking(w) => Asking(v))
<1> DEFINE n == Narrow(op, r, w, e)
<1>1. Sound(op, n) /\ (op = "rm" => n.tree \in {1, 2}) /\ (Asking(w) => Asking(n))
  BY NarrowSound
<1> HIDE DEF n
<1>2. LET v == BothSides(op, r, a, n, e)
      IN  Sound(op, v) /\ (Asking(n) => Asking(v))
  BY <1>1, BothSound
<1> QED
  BY <1>1, <1>2 DEF n

\* What a command does with a file keeps the types, and what it does was asked for.
LEMMA FileSound ==
  ASSUME NEW r, Good(r), NEW i \in 0..(db_num(r) - 1), NEW op \in Ops, NEW a, NEW w, Sound(op, w)
  PROVE  LET v == File(op, r, a, w, At(r, i))
         IN  Sound(op, v) /\ (Asking(w) => Asking(v))
<1> DEFINE e == At(r, i)
           v == File(op, r, a, w, e)
           b == BothSides(op, r, a, Narrow(op, r, w, e), e)
           f == [w EXCEPT !.stop = TRUE]
           new == w.acts \cup {<<Foreign, w.tree, TRUE>>}
           g == [w EXCEPT !.acts = new]
<1>1. w \in Work /\ w.stop \in BOOLEAN /\ r \in ListType
  BY DEF Sound, Work, Good
<1>2. e # DotDot => e \in Entry /\ Sides(r, e) # {}
  BY LineHasSides
<1>3. e \in Entry \cup {DotDot}
  BY <1>2
<1>0. /\ w.stop = TRUE => File(op, r, a, w, e) = w
      /\ w.stop = FALSE => /\ op = "rm" => File(op, r, a, w, e) = fs_rm(r, a, w, e)
                           /\ op = "rename" => File(op, r, a, w, e) = fs_rename(r, a, w, e)
                           /\ Asks(op) => File(op, r, a, w, e) = Change(op, r, a, w, e)
                           /\ Copies(op) => File(op, r, a, w, e) = fs_cp(op, r, a, w, e)
  <2> HIDE DEF e, b, f, g, new
  <2> QED
    BY <1>1, OpsAre DEF File
<1>4. \/ v = w
      \/ v = b /\ e # DotDot
      \/ v = f
      \/ op = "rm" /\ v = g
      \/ v = fs_cp(op, r, a, w, e)
  <2> HIDE DEF e
  <2>1. /\ w.stop = TRUE => v = w
        /\ w.stop = FALSE => /\ op = "rm" => v = fs_rm(r, a, w, e)
                             /\ op = "rename" => v = fs_rename(r, a, w, e)
                             /\ Asks(op) => v = Change(op, r, a, w, e)
                             /\ Copies(op) => v = fs_cp(op, r, a, w, e)
    BY <1>0
  <2>6. op = "rm" => fs_rm(r, a, w, e) \in {w, g} \/ (fs_rm(r, a, w, e) = b /\ e # DotDot)
    BY DEF fs_rm
  <2>7. op = "rename" => fs_rename(r, a, w, e) = f \/ (fs_rename(r, a, w, e) = b /\ e # DotDot)
    BY DEF fs_rename
  <2>8. Change(op, r, a, w, e) = w \/ (Change(op, r, a, w, e) = b /\ e # DotDot)
    BY DEF Change
  <2> HIDE DEF v, b, f, g
  <2> QED
    BY <1>1, <2>1, <2>6, <2>7, <2>8, OpsAre
<1> HIDE DEF e, v
<1>5. CASE v = w
  BY <1>5 DEF v, e
<1>6. CASE v = b /\ e # DotDot
  <2>1. e \in Entry /\ Sides(r, e) # {}
    BY <1>2, <1>6
  <2>2. Sound(op, b) /\ (Asking(w) => Asking(b))
    BY <1>1, <2>1, EntrySound
  <2> QED
    BY <1>6, <2>2 DEF v, e
<1>7. CASE v = f
  <2>1. f \in Work /\ f.acts = w.acts /\ f.have = w.have /\ f.asked = w.asked /\ f.tree = w.tree
    BY <1>1 DEF Work
  <2> HIDE DEF f
  <2>2. Sound(op, f) /\ (Asking(w) => Asking(f))
    BY <2>1 DEF Sound, Asking
  <2> QED
    BY <1>7, <2>2 DEF v, e
<1>8. CASE op = "rm" /\ v = g
  <2> DEFINE x == <<Foreign, w.tree, TRUE>>
  <2>1. w.tree \in {1, 2}  \/ w.tree = 3
    BY <1>8 DEF Sound
  <2>2. CASE w.tree = 3
    <3>1. v \in {w, f} \/ (v = b /\ e # DotDot)
      <4>1. w.stop = TRUE => v = w
        BY <1>0 DEF v
      <4>2. w.stop = FALSE => v = fs_rm(r, a, w, e)
        BY <1>0, <1>8 DEF v
      <4>3. fs_rm(r, a, w, e) = w \/ (fs_rm(r, a, w, e) = b /\ e # DotDot)
        BY <1>8, <2>2 DEF fs_rm
      <4> QED
        BY <1>1, <4>1, <4>2, <4>3
    <3> QED
      BY <3>1, <1>5, <1>6, <1>7
  <2>3. CASE w.tree \in {1, 2}
    <3>1. x \in Acted /\ x[3] = TRUE
      BY <2>3 DEF Acted
    <3>2. new = w.acts \cup {x}
      OBVIOUS
    <3> HIDE DEF x
    <3>3. new \in SUBSET Acted
      BY <1>1, <3>1, <3>2 DEF Work
    <3> HIDE DEF new
    <3>4. g \in Work /\ g.acts = new /\ g.have = w.have /\ g.asked = w.asked /\ g.tree = w.tree
      BY <1>1, <3>3, WithActs
    <3> HIDE DEF g
    <3>5. Sound(op, g)
      BY <1>8, <3>4 DEF Sound
    <3>6. Asking(w) => Asking(g)
      BY <3>1, <3>2, <3>4 DEF Asking
    <3> QED
      BY <1>8, <3>5, <3>6 DEF v, e
  <2> QED
    BY <2>1, <2>2, <2>3
<1>9. CASE v = fs_cp(op, r, a, w, e)
  <2>1. Sound(op, fs_cp(op, r, a, w, e)) /\ (Asking(w) => Asking(fs_cp(op, r, a, w, e)))
    BY <1>1, <1>3, CopySound
  <2> QED
    BY <1>9, <2>1 DEF v, e
<1> QED
  BY <1>4, <1>5, <1>6, <1>7, <1>8, <1>9

\* The lines of a command and the marked lines, each once
Listed(q, S, m) ==
  /\ q \in Seq(Int) /\ Len(q) \in Nat /\ ToSet(q) = S /\ S \subseteq 0..(m - 1) /\ m \in Nat
  /\ \A k \in 1..Len(q) : q[k] \in S /\ q[k] \in 0..(m - 1)
  /\ \A x \in S : \E k \in 1..Len(q) : q[k] = x
  /\ \A j, k \in 1..Len(q) : q[j] = q[k] => j = k
LEMMA InOrderIn ==
  ASSUME NEW S, NEW m \in Nat, S \subseteq 0..(m - 1)
  PROVE  Listed(InOrder(S), S, m)
<1>1. IsFiniteSet(0..(m - 1)) /\ S \in SUBSET Int
  BY FS_Interval
<1>2. IsFiniteSet(S)
  BY <1>1, FS_Subset
<1> DEFINE q == InOrder(S)
<1>3. /\ Cardinality(S) \in Nat /\ q \in [1..Cardinality(S) -> S] /\ q \in Seq(S)
      /\ Len(q) = Cardinality(S) /\ \A x \in S : \E i \in 1..Cardinality(S) : q[i] = x
      /\ \A i, j \in 1..Cardinality(S) : q[i] = q[j] => i = j
      /\ ToSet(q) = S
  BY <1>1, <1>2, InOrderOf
<1> HIDE DEF q
<1>4. q \in Seq(Int)
  <2>1. \A i \in 1..Len(q) : q[i] \in Int
    BY <1>1, <1>3
  <2> QED
    BY <1>1, <1>3, <2>1
<1>5. \A k \in 1..Len(q) : q[k] \in S /\ q[k] \in 0..(m - 1)
  BY <1>3
<1>6. Listed(q, S, m)
  BY <1>3, <1>4, <1>5 DEF Listed
<1> QED
  BY <1>6 DEF q

LineSet(r, u0, n) == {v \in u0..(u0 + n - 1) : v < db_num(r)}
LEMMA LinesOf ==
  ASSUME NEW r, Good(r), NEW u0 \in Nat, NEW n \in Nat
  PROVE  Listed(Lines(r, u0, n), LineSet(r, u0, n), db_num(r))
<1>1. db_num(r) \in Nat
  BY InLines
<1>2. Lines(r, u0, n) = InOrder(LineSet(r, u0, n))
  BY DEF Lines, LineSet
<1>3. LineSet(r, u0, n) \subseteq 0..(db_num(r) - 1)
  BY <1>1 DEF LineSet
<1> QED
  BY <1>1, <1>2, <1>3, InOrderIn

MarkedSet(r) == {v \in 0..(db_num(r) - 1) : v > r.prev /\ At(r, v) \in r.multi}
LEMMA MarkedOf ==
  ASSUME NEW r, Good(r)
  PROVE  Listed(Marked(r), MarkedSet(r), db_num(r))
<1>1. db_num(r) \in Nat
  BY InLines
<1>2. Marked(r) = InOrder(MarkedSet(r))
  BY DEF Marked, MarkedSet
<1>3. MarkedSet(r) \subseteq 0..(db_num(r) - 1)
  BY DEF MarkedSet
<1> QED
  BY <1>1, <1>2, <1>3, InOrderIn

\* The lines of a command, one after the other
LEMMA LinesSound ==
  ASSUME NEW r, Good(r), NEW op \in Ops, NEW t \in {0, 1, 2, 3}, op = "rm" => t \in {1, 2, 3},
         NEW u0 \in Nat, NEW n \in Nat, NEW a
  PROVE  Sound(op, LinesWork(r, op, t, u0, n, a)) /\ Asking(LinesWork(r, op, t, u0, n, a))
<1> DEFINE q == Lines(r, u0, n)
           N == Len(q)
           b == Begin(t, op = "rm" /\ n > 1, op = "rm" /\ n > 1)
<1>1. /\ q \in Seq(Int) /\ N \in Nat
      /\ \A k \in 1..N : q[k] \in 0..(db_num(r) - 1)
  BY LinesOf DEF Listed
<1>2. PICK h : InTurn("lines", r, op, t, a, b, q, h) /\ LinesWork(r, op, t, u0, n, a) = h[N]
  BY <1>1, LinesInTurn
<1>3. Sound(op, b) /\ Asking(b)
  <2> DEFINE have == op = "rm" /\ n > 1
  <2>1. have \in BOOLEAN /\ b = Begin(t, have, have)
    OBVIOUS
  <2> HIDE DEF have, b
  <2>2. op = "rm" => t \in {1, 2, 3}
    OBVIOUS
  <2>3. Begun(op, t, have, have, b)
    BY <2>1, <2>2, BeginIs
  <2> QED
    BY <2>3 DEF Begun
<1> HIDE DEF b, q
<1>4. h[0] = b /\ \A k \in 1..N : h[k] = File(op, r, a, h[k - 1], At(r, q[k]))
  BY <1>2 DEF InTurn, Turn
<1> DEFINE P == {k \in 0..N : Sound(op, h[k]) /\ Asking(h[k])}
<1>5. 0 \in P
  BY <1>1, <1>3, <1>4
<1>6. ASSUME NEW k \in 1..N, k - 1 \in P PROVE k \in P
  <2>1. Sound(op, h[k - 1]) /\ Asking(h[k - 1])
    BY <1>6
  <2>2. q[k] \in 0..(db_num(r) - 1)
    BY <1>1
  <2> DEFINE w == h[k - 1]
  <2> HIDE DEF w
  <2>3. Sound(op, File(op, r, a, w, At(r, q[k]))) /\ Asking(File(op, r, a, w, At(r, q[k])))
    BY <2>1, <2>2, FileSound DEF w
  <2> QED
    BY <1>1, <1>4, <2>3 DEF w
<1> HIDE DEF P
<1>7. \A k \in 0..N : k \in P
  BY <1>1, <1>5, <1>6, AfterAllTurns
<1> QED
  BY <1>1, <1>2, <1>7 DEF P

\* The state of the loop over the marked entries, and that of the loop of fs.c
\* for the next of them
MarkState(r, op, v) ==
  /\ Sound(op, v.w) /\ v.at \in {None} \cup 0..(db_num(r) - 1) /\ v.left \in BOOLEAN
Fresh(op, t, v) ==
  [Begin(t, Settled(op, v.at = None), op = "rm" \/ v.w.asked) EXCEPT !.acts = v.w.acts, !.err = v.w.err]

Freshly(op, t, v, b) ==
  /\ Sound(op, b) /\ b.acts = v.w.acts /\ b.err = v.w.err /\ b.tree = t /\ b.ntr = 0
  /\ b.again = FALSE /\ b.stop = FALSE /\ b.have = Settled(op, v.at = None)
  /\ b.asked = (op = "rm" \/ v.w.asked)
LEMMA FreshIs ==
  ASSUME NEW r, NEW op, NEW t \in {0, 1, 2, 3}, op = "rm" => t \in {1, 2, 3}, NEW v, MarkState(r, op, v)
  PROVE  Freshly(op, t, v, Fresh(op, t, v))
<1> DEFINE have == Settled(op, v.at = None)
           asked == op = "rm" \/ v.w.asked
           c == Begin(t, have, asked)
           acts == v.w.acts
           err == v.w.err
           b == [c EXCEPT !.acts = acts, !.err = err]
<1>1. have \in BOOLEAN /\ asked \in BOOLEAN
  BY DEF Settled
<1>2. /\ acts \in SUBSET Acted /\ err \in BOOLEAN
      /\ op # "rm" => \A x \in acts : x[1] \in Entry
  BY DEF MarkState, Sound, Work
<1>3. Fresh(op, t, v) = b
  BY DEF Fresh
<1> HIDE DEF have, asked
<1>4. /\ c \in Work /\ c.tree = t /\ c.ntr = 0 /\ c.have = have /\ c.asked = asked
      /\ c.again = FALSE /\ c.stop = FALSE
  <2>1. Begun(op, t, have, asked, c)
    BY <1>1, BeginIs
  <2> HIDE DEF c
  <2> QED
    BY <2>1 DEF Begun, Sound
<1> HIDE DEF c, acts, err
<1>5. /\ b \in Work /\ b.acts = acts /\ b.err = err /\ b.tree = t /\ b.ntr = 0 /\ b.have = have
      /\ b.asked = asked /\ b.again = FALSE /\ b.stop = FALSE
  BY <1>2, <1>4 DEF Work
<1> HIDE DEF b
<1>6. Sound(op, b)
  BY <1>2, <1>5 DEF Sound
<1>7. Freshly(op, t, v, b)
  BY <1>5, <1>6 DEF Freshly, have, asked, acts, err
<1> QED
  BY <1>3, <1>7

LEMMA NextMarkedIs ==
  ASSUME NEW r, NEW op, NEW t, NEW a, NEW v, NEW i
  PROVE  LET w == File(op, r, a, Fresh(op, t, v), At(r, i))
         IN  NextMarked(r, op, t, a, v, i) =
               IF v.left \/ (op \in {"chown", "chgrp"} /\ v.w.stop /\ ~v.w.asked) THEN v
               ELSE [w |-> w, at |-> i, left |-> w.err /\ op \in {"rm", "mv"}]
BY DEF NextMarked, Fresh

LEMMA MarkTurn ==
  ASSUME NEW r, Good(r), NEW op \in Ops, NEW t \in {0, 1, 2, 3}, op = "rm" => t \in {1, 2, 3}, NEW a,
         NEW i \in 0..(db_num(r) - 1), NEW v, MarkState(r, op, v)
  PROVE  MarkState(r, op, NextMarked(r, op, t, a, v, i))
<1> DEFINE b == Fresh(op, t, v)
           w == File(op, r, a, b, At(r, i))
           x == [w |-> w, at |-> i, left |-> w.err /\ op \in {"rm", "mv"}]
<1>1. Sound(op, b)
  BY FreshIs DEF Freshly
<1>2. NextMarked(r, op, t, a, v, i) \in {v, x}
  BY NextMarkedIs
<1> HIDE DEF b
<1>3. Sound(op, w)
  BY <1>1, FileSound
<1> HIDE DEF w
<1>4. x.w = w /\ x.at = i /\ x.left \in BOOLEAN
  OBVIOUS
<1> HIDE DEF x
<1>5. MarkState(r, op, x)
  BY <1>3, <1>4 DEF MarkState
<1> QED
  BY <1>2, <1>5

MarkBegin(t) == [w |-> Begin(t, FALSE, FALSE), at |-> None, left |-> FALSE]
LEMMA MarkBeginIs ==
  ASSUME NEW r, NEW op, NEW t \in {0, 1, 2, 3}, op = "rm" => t \in {1, 2, 3}
  PROVE  LET b == MarkBegin(t)
         IN  /\ MarkState(r, op, b) /\ b.at = None /\ b.left = FALSE /\ b.w.acts = {}
             /\ b.w.stop = FALSE /\ b.w.err = FALSE /\ b.w.asked = FALSE /\ b.w.have = FALSE
<1> DEFINE c == Begin(t, FALSE, FALSE)
           b == [w |-> c, at |-> None, left |-> FALSE]
<1>1. /\ Sound(op, c) /\ c.acts = {} /\ c.stop = FALSE /\ c.err = FALSE /\ c.asked = FALSE
      /\ c.have = FALSE
  <2>1. Begun(op, t, FALSE, FALSE, c)
    BY BeginIs
  <2> HIDE DEF c
  <2> QED
    BY <2>1 DEF Begun
<1> HIDE DEF c
<1>2. b.w = c /\ b.at = None /\ b.left = FALSE
  OBVIOUS
<1>3. b = MarkBegin(t)
  BY DEF MarkBegin, c
<1> HIDE DEF b
<1>4. MarkState(r, op, b)
  BY <1>1, <1>2 DEF MarkState
<1> QED
  BY <1>1, <1>2, <1>3, <1>4

\* The turns of the loop over the marked entries
MarkTurns(r, op, t, a, h) ==
  /\ h[0] = MarkBegin(t) /\ Len(Marked(r)) \in Nat
  /\ \A k \in 1..Len(Marked(r)) : h[k] = NextMarked(r, op, t, a, h[k - 1], Marked(r)[k])
LEMMA MarkTurnsExist ==
  ASSUME NEW r, Good(r), NEW op, NEW t, NEW a
  PROVE  \E h : MarkTurns(r, op, t, a, h) /\ MarkedWork(r, op, t, a) = h[Len(Marked(r))]
<1>1. Marked(r) \in Seq(Int) /\ Len(Marked(r)) \in Nat
  BY MarkedOf DEF Listed
<1>2. PICK h : /\ InTurn("marked", r, op, t, a, MarkBegin(t), Marked(r), h)
               /\ MarkedWork(r, op, t, a) = h[Len(Marked(r))]
  BY <1>1, MarkedInTurn DEF MarkBegin
<1>3. MarkTurns(r, op, t, a, h)
  BY <1>1, <1>2 DEF MarkTurns, InTurn, Turn
<1> QED
  BY <1>2, <1>3

LEMMA MarkedSound ==
  ASSUME NEW r, Good(r), NEW op \in Ops, NEW t \in {0, 1, 2, 3}, op = "rm" => t \in {1, 2, 3}, NEW a,
         NEW h, MarkTurns(r, op, t, a, h)
  PROVE  \A k \in 0..Len(Marked(r)) : MarkState(r, op, h[k])
<1> DEFINE q == Marked(r)
           N == Len(q)
           P == {k \in 0..N : MarkState(r, op, h[k])}
<1>1. N \in Nat /\ \A k \in 1..N : q[k] \in 0..(db_num(r) - 1)
  BY MarkedOf DEF Listed
<1>2. h[0] = MarkBegin(t) /\ \A k \in 1..N : h[k] = NextMarked(r, op, t, a, h[k - 1], q[k])
  BY DEF MarkTurns
<1> HIDE DEF q
<1>3. 0 \in P
  <2>1. MarkState(r, op, MarkBegin(t))
    BY MarkBeginIs
  <2> QED
    BY <1>1, <1>2, <2>1
<1>4. ASSUME NEW k \in 1..N, k - 1 \in P PROVE k \in P
  <2>1. MarkState(r, op, h[k - 1])
    BY <1>4
  <2>2. q[k] \in 0..(db_num(r) - 1)
    BY <1>1
  <2> DEFINE v == h[k - 1]
             i == q[k]
  <2> HIDE DEF v, i
  <2>3. MarkState(r, op, NextMarked(r, op, t, a, v, i))
    BY <2>1, <2>2, MarkTurn DEF v, i
  <2> QED
    BY <1>1, <1>2, <2>3 DEF v, i
<1> HIDE DEF P
<1>5. \A k \in 0..N : k \in P
  BY <1>1, <1>3, <1>4, AfterAllTurns
<1> QED
  BY <1>5 DEF P, q

\* What a command does to the list: its lines stay, until it is read again.
LEMMA EffectIs ==
  ASSUME NEW r, Good(r), NEW op, NEW acts \in SUBSET Acted, op # "rm" => \A x \in acts : x[1] \in Entry
  PROVE  LET s == Effect(r, op, acts)
         IN  Good(s) /\ s = [r EXCEPT !.disk = s.disk]
<1> DEFINE made == IF r.mode = "diff" /\ Copies(op) THEN Done(acts) ELSE {}
           gone == CASE op = "rm" -> Done(acts)
                     [] op = "mv" -> {<<f[1], 3 - f[2]>> : f \in Done(acts)}
                     [] OTHER -> {}
           d == (r.disk \ gone) \cup made
           s == [r EXCEPT !.disk = d]
<1>1. Effect(r, op, acts) = s
  BY DEF Effect
<1>2. r \in ListType
  BY DEF Good
<1>3. made \subseteq Entry \X {1, 2}
  <2>1. CASE Copies(op)
    <3>1. \A x \in acts : x[1] \in Entry /\ x[2] \in {1, 2}
      BY <2>1 DEF Copies, Acted
    <3>2. Done(acts) \subseteq Entry \X {1, 2}
      BY <3>1 DEF Done
    <3> QED
      BY <3>2
  <2>2. CASE ~Copies(op)
    BY <2>2
  <2> QED
    BY <2>1, <2>2
<1> HIDE DEF made, gone
<1>4. d \in Files2
  <2>1. r.disk \in Files2
    BY <1>2 DEF ListType
  <2> QED
    BY <1>3, <2>1 DEF Files2
<1> HIDE DEF d
<1>5. s \in ListType
  BY <1>2, <1>4 DEF ListType
<1>6. /\ s.type = r.type /\ s.hidden = r.hidden /\ s.mode = r.mode /\ s.list = r.list
      /\ s.mark = r.mark /\ s.idx = r.idx /\ s.cur = r.cur /\ s.disk = d
  BY <1>2 DEF ListType
<1> HIDE DEF s
<1>7. Made(s) /\ db_num(s) = db_num(r) /\ Marking(s)
  BY <1>2, <1>5, <1>6, SameLines
<1>8. CurIn(s)
  BY <1>6, <1>7 DEF Good, CurIn
<1> QED
  BY <1>1, <1>5, <1>6, <1>7, <1>8 DEF Good, s

LEMMA RebuildIs ==
  ASSUME NEW r, Good(r), NEW op
  PROVE  /\ Good(Rebuild(r, op)) /\ Good(rebuild_db(r))
<1>1. r \in ListType /\ Unmarking(r)
  BY DEF Good, Marking
<1>2. Good(rebuild_db(r))
  BY <1>1, RebuiltIs
<1> DEFINE s == Unmarked(r)
<1>3. s \in ListType /\ s.mark \notin Entry /\ s.idx = None /\ s = [r EXCEPT !.mark = s.mark, !.idx = s.idx]
  BY <1>1, UnmarkedIs
<1> HIDE DEF s
<1>4. /\ s.type = r.type /\ s.hidden = r.hidden /\ s.mode = r.mode /\ s.list = r.list /\ s.cur = r.cur
  BY <1>1, <1>3 DEF ListType
<1>5. Made(s) /\ db_num(s) = db_num(r)
  BY <1>1, <1>3, <1>4, SameLines
<1>6. CurIn(s) /\ Marking(s)
  BY <1>3, <1>4, <1>5 DEF Good, CurIn, Marking, Unmarking
<1>7. Good(s)
  BY <1>3, <1>5, <1>6 DEF Good
<1> QED
  BY <1>2, <1>7 DEF Rebuild, s

\* A command leaves a list as the loop relies on it.
LEMMA LinesGood ==
  ASSUME NEW r, Good(r), NEW op \in Ops, NEW t \in {0, 1, 2, 3}, op = "rm" => t \in {1, 2, 3},
         NEW u0 \in Nat, NEW n \in Nat, NEW a
  PROVE  Good(OnLines(r, op, t, u0, n, a).l)
<1> DEFINE w == LinesWork(r, op, t, u0, n, a)
           s == Effect(r, op, w.acts)
           z == OnLines(r, op, t, u0, n, a)
<1>1. Sound(op, w)
  BY LinesSound
<1>2. z \in {Result(r, {}, TRUE, 0), Result(s, w.acts, TRUE, 0), Result(Rebuild(s, op), w.acts, TRUE, 0)}
  BY OnLinesIs
<1>3. z.l \in {r, s, Rebuild(s, op)}
  BY <1>2 DEF Result
<1> HIDE DEF w, z
<1>4. Good(s)
  <2>1. w.acts \in SUBSET Acted /\ (op # "rm" => \A x \in w.acts : x[1] \in Entry)
    BY <1>1 DEF Sound, Work
  <2> QED
    BY <2>1, EffectIs
<1> HIDE DEF s
<1>5. Good(Rebuild(s, op))
  BY <1>4, RebuildIs
<1> QED
  BY <1>3, <1>4, <1>5 DEF z

LEMMA MarkedGood ==
  ASSUME NEW r, Good(r), NEW op \in Ops, NEW t \in {0, 1, 2, 3}, op = "rm" => t \in {1, 2, 3}, NEW a
  PROVE  Good(OnMarked(r, op, t, a).l)
<1> DEFINE v == MarkedWork(r, op, t, a)
           f == Effect(r, op, v.w.acts)
           p == IF v.left THEN v.at ELSE None
           s == [f EXCEPT !.prev = p]
           z == OnMarked(r, op, t, a)
<1>1. MarkState(r, op, v)
  <2>1. PICK h : MarkTurns(r, op, t, a, h) /\ v = h[Len(Marked(r))]
    BY MarkTurnsExist
  <2>2. Len(Marked(r)) \in 0..Len(Marked(r))
    BY <2>1 DEF MarkTurns
  <2> HIDE DEF v
  <2> QED
    BY <2>1, <2>2, MarkedSound
<1>2. z \in {Result(r, {}, FALSE, 1), Result(rebuild_db(s), v.w.acts, TRUE, 1), Result(Rebuild(s, op), v.w.acts, TRUE, 1)}
  BY OnMarkedIs
<1>3. z.l \in {r, rebuild_db(s), Rebuild(s, op)}
  BY <1>2 DEF Result
<1> HIDE DEF v, z
<1>4. Good(f)
  <2>1. v.w.acts \in SUBSET Acted /\ (op # "rm" => \A x \in v.w.acts : x[1] \in Entry)
    BY <1>1 DEF MarkState, Sound, Work
  <2> QED
    BY <2>1, EffectIs
<1> HIDE DEF f
<1>5. p \in {None} \cup 0..NumEntry
  <2>1. r \in ListType /\ db_num(r) \in 0..(NumEntry + 1) /\ NumEntry \in Nat
    BY LinesAre, EntryIs DEF Good
  <2>2. v.at \in {None} \cup 0..(db_num(r) - 1)
    BY <1>1 DEF MarkState
  <2> QED
    BY <2>1, <2>2
<1> HIDE DEF p
<1>6. s \in ListType /\ f \in ListType
  BY <1>4, <1>5 DEF Good, ListType
<1>7. /\ s.type = f.type /\ s.hidden = f.hidden /\ s.mode = f.mode /\ s.list = f.list
      /\ s.mark = f.mark /\ s.idx = f.idx /\ s.cur = f.cur
  BY <1>6 DEF ListType
<1> HIDE DEF s
<1>8. Made(s) /\ db_num(s) = db_num(f) /\ Marking(s)
  BY <1>4, <1>6, <1>7, SameLines
<1>9. CurIn(s)
  BY <1>4, <1>7, <1>8 DEF Good, CurIn
<1>10. Good(s)
  BY <1>6, <1>8, <1>9 DEF Good
<1>11. Good(rebuild_db(s)) /\ Good(Rebuild(s, op))
  BY <1>10, RebuildIs
<1> QED
  BY <1>3, <1>11 DEF z

LEMMA OpGood ==
  ASSUME NEW r, Good(r), NEW op \in Ops, NEW t \in {0, 1, 2, 3}, op = "rm" => t \in {1, 2, 3},
         NEW u0 \in Nat, NEW n \in Nat, NEW a
  PROVE  Good(ui_op(r, op, t, u0, n, a).l)
BY LinesGood, MarkedGood DEF ui_op

LEMMA CommandGood ==
  ASSUME NEW r, Good(r), NEW op \in Ops, NEW t \in {0, 1, 2, 3}, op = "rm" => t \in {1, 2, 3},
         NEW u0 \in Nat, NEW n \in Nat, NEW a
  PROVE  Good(ui_cmd(r, op, t, u0, n, a).l)
<1>1. CASE op = "mv" /\ r.mode = "bmode"
  <2>1. ui_cmd(r, op, t, u0, n, a) = ui_op(r, "rename", 3, u0, n, a)
    BY <1>1 DEF ui_cmd, ui_mv
  <2>2. "rename" \in Ops /\ 3 \in {0, 1, 2, 3} /\ "rename" # "rm"
    BY DEF Ops
  <2>3. Good(ui_op(r, "rename", 3, u0, n, a).l)
    BY <2>2, OpGood
  <2> QED
    BY <2>1, <2>3
<1>2. CASE ~(op = "mv" /\ r.mode = "bmode")
  <2>1. ui_cmd(r, op, t, u0, n, a) = ui_op(r, op, t, u0, n, a)
    BY <1>2 DEF ui_cmd, ui_mv
  <2> QED
    BY <2>1, OpGood
<1> QED
  BY <1>1, <1>2

-----------------------------------------------------------------------------
(* The list and the numbers, as every key finds them.                      *)
LEMMA CommandTyped ==
  ASSUME NEW e, Command(e) # NoCommand
  PROVE  LET cmd == Command(e)
         IN  /\ cmd[1] \in Ops \cup {"mkdir"} /\ cmd[2] \in {0, 1, 2, 3}
             /\ cmd[1] = "rm" => cmd[2] \in {1, 2, 3}
<1>1. Command(e) = Fixed(l, e.c, e.k0, e.k1)
  BY CommandIsFixed
<1>2. PICK r \in Manual : Command(e) = <<r.op, r.t>>
  BY <1>1, FixedHasRow
<1> QED
  BY <1>2, RowOps

LEMMA NumIs ==
  ASSUME NEW k, Press(k)
  PROVE  LET e == Seen(k)
         IN  \/ num' = 1 /\ us' = FALSE
             \/ num' = e.num /\ us' = us /\ u' = u
             \/ Number(k, e)
             \/ QuoteMark(k, e)
<1> DEFINE e == Seen(k)
           One == num' = 1 /\ us' = FALSE
           Same == num' = e.num /\ us' = us /\ u' = u
           Some == \E c, q : Read(e, c, q)
<1>0. Some => One \/ Same
  BY DEF Read
<1> HIDE DEF e
<1>1. CASE Quote(k, e)
  <2>1. Some
    BY <1>1, Zenon DEF Quote
  <2> QED
    BY <1>0, <2>1 DEF e
<1>2. CASE FunctionKey(k, e)
  BY <1>2 DEF FunctionKey
<1>3. CASE Execute(k, e)
  <2>1. Some
    BY <1>3, Zenon DEF Execute, Perform
  <2> QED
    BY <1>0, <2>1 DEF e
<1>4. CASE Wait(k, e)
  <2>1. Some
    BY <1>4, Zenon DEF Wait
  <2> QED
    BY <1>0, <2>1 DEF e
<1>5. CASE Move(k, e) \/ Mark(k, e) \/ RemoveMark(k, e) \/ Multi(k, e)
  <2>1. Some
    BY <1>5, Zenon DEF Move, Mark, RemoveMark, Multi
  <2> QED
    BY <1>0, <2>1 DEF e
<1>6. CASE Sort(k, e) \/ Filter(k, e) \/ Reread(k, e) \/ Search(k, e) \/ Inert(k, e)
  <2>1. Some
    BY <1>6, Zenon DEF Sort, Filter, Reread, Search, Inert
  <2> QED
    BY <1>0, <2>1 DEF e
<1> QED
  BY <1>1, <1>2, <1>3, <1>4, <1>5, <1>6, PressIs DEF e

LEMMA HiddenIs ==
  ASSUME NEW r \in ListType, NEW h \in SUBSET Entry
  PROVE  re_sort_list([r EXCEPT !.hidden = h]).hidden = h
<1> DEFINE x == [r EXCEPT !.hidden = h]
           y == diff_db_sort(x)
<1>1. x \in ListType /\ x.hidden = h
  BY DEF ListType
<1> HIDE DEF x
<1>2. y \in ListType /\ y = [x EXCEPT !.list = InOrder(Shown(x))]
  BY <1>1, SortedIs
<1>3. y.hidden = h
  BY <1>1, <1>2 DEF ListType
<1> HIDE DEF y
<1>4. \E c : re_sort_list(x) = [y EXCEPT !.cur = c]
  BY Zenon DEF re_sort_list, findlistname, y
<1> QED
  BY <1>2, <1>3, <1>4 DEF ListType, x

LEMMA QuietGood ==
  ASSUME NEW r, Good(r), NEW s, QuietList(r, s), ~(s.hidden # r.hidden /\ r.idx >= 0)
  PROVE  Good(s)
<1>1. r \in ListType /\ Unmarking(r)
  BY DEF Good, Marking
<1>2. CASE s = r
  BY <1>2
<1>3. CASE s = rebuild_db(r) \/ s = rebuild_db_1(r)
  BY <1>1, <1>3, RebuiltIs, RereadIs
<1>4. CASE s = clr_mark(r)
  BY <1>4, ClearedIs
<1>5. CASE s = set_mark(clr_mark(r))
  <2> DEFINE c == clr_mark(r)
  <2>1. Good(c)
    BY ClearedIs
  <2> HIDE DEF c
  <2>2. Good(set_mark(c))
    BY <2>1, MarkSetIs
  <2> QED
    BY <1>5, <2>2 DEF c
<1>6. CASE \E i : s = [r EXCEPT !.cur = i] /\ (Good(r) => i \in Int /\ i \in 0..Max({0, db_num(r) - 1}))
  <2>1. PICK i : s = [r EXCEPT !.cur = i] /\ i \in Int /\ i \in 0..Max({0, db_num(r) - 1})
    BY <1>6
  <2> QED
    BY <2>1, MovedIs
<1>7. CASE \E h : /\ s = re_sort_list([r EXCEPT !.hidden = h])
                  /\ r \in ListType => h \in SUBSET Entry
  <2>1. PICK h \in SUBSET Entry : s = re_sort_list([r EXCEPT !.hidden = h])
    BY <1>1, <1>7
  <2>2. s.hidden = h
    BY <1>1, <2>1, HiddenIs
  <2>3. r.idx \in Int
    BY <1>1 DEF ListType
  <2>4. h = r.hidden \/ r.idx < 0
    BY <2>2, <2>3
  <2> QED
    BY <2>1, <2>4, ResortedIs
<1>8. CASE db_num(r) > 0 /\ s = key_mmrk(r)
  BY <1>8, VIs
<1>9. CASE s = mmrktobot(r)
  BY <1>9, VGIs
<1> QED
  BY <1>2, <1>3, <1>4, <1>5, <1>6, <1>7, <1>8, <1>9 DEF QuietList

\* The numbers: of lines, and of the line a ' command begins with.  They may be
\* those of a list that has become shorter since.
Counted(n) == n \in 0..MaxNum \/ n \in 0..(NumEntry + 1)
NumsOK == Counted(num) /\ Counted(saved.num) /\ (us = TRUE => u \in 0..NumEntry) /\ us \in BOOLEAN /\ ns \in BOOLEAN
LoopOK == HistoryOK /\ Good(l) /\ NumsOK

LEMMA SeenNums ==
  ASSUME LoopOK, NEW k
  PROVE  /\ Counted(Seen(k).num) /\ Seen(k).num \in Nat
         /\ Seen(k).u \in Nat /\ Seen(k).u \in 0..NumEntry
<1>1. MaxNum \in Nat /\ NumEntry \in Nat
  BY KeyLoopAssumption, EntryIs
<1>2. Counted(Seen(k).num)
  BY SeenIs DEF LoopOK, NumsOK
<1>3. Seen(k).u \in 0..NumEntry
  <2>1. l.cur \in 0..NumEntry
    <3>1. /\ db_num(l) \in 0..(NumEntry + 1) /\ l.cur \in Int /\ 0 <= l.cur
          /\ db_num(l) > 0 => l.cur \in 0..(db_num(l) - 1)
          /\ db_num(l) = 0 => l.cur = 0
      BY LinesAre, InLines DEF LoopOK, Good
    <3> QED
      BY <1>1, <3>1
  <2>2. Seen(k).u = IF us THEN u ELSE l.cur
    BY SeenIs
  <2> QED
    BY <2>1, <2>2 DEF LoopOK, NumsOK
<1> QED
  BY <1>1, <1>2, <1>3 DEF Counted

LEMMA MarkRange ==
  ASSUME Good(l), NEW k, NEW e, QuoteMark(k, e)
  PROVE  /\ l.mark \in Entry /\ l.idx \in 0..(db_num(l) - 1) /\ l.cur \in 0..(db_num(l) - 1)
         /\ At(l, l.idx) = l.mark /\ db_num(l) \in 0..(NumEntry + 1)
         /\ Count(l.cur, l.idx) \in 1..db_num(l)
         /\ Count(l.cur, l.idx) = IF l.cur <= l.idx THEN l.idx - l.cur + 1 ELSE l.cur - l.idx + 1
<1>1. l.idx >= 0
  BY DEF QuoteMark
<1>2. l.mark \in Entry
  BY <1>1, EntryIs DEF Good, Marking, Unmarking
<1>3. l.idx \in 0..(db_num(l) - 1) /\ At(l, l.idx) = l.mark
  BY <1>2 DEF Good, Marking
<1>4. db_num(l) \in 0..(NumEntry + 1) /\ NumEntry \in Nat
  BY LinesAre, EntryIs DEF Good
<1>5. db_num(l) > 0
  BY <1>3, <1>4
<1>6. l.cur \in 0..(db_num(l) - 1)
  BY <1>5, InLines
<1>7. Count(l.cur, l.idx) = IF l.cur <= l.idx THEN l.idx - l.cur + 1 ELSE l.cur - l.idx + 1
  <2>1. l.cur \in Int /\ l.idx \in Int
    BY <1>3, <1>4, <1>6
  <2> QED
    BY <2>1, MaxOfTwo, MinOfTwo DEF Count
<1> QED
  BY <1>2, <1>3, <1>4, <1>6, <1>7

LEMMA NumsStep ==
  ASSUME LoopOK, NEW k, Press(k), ns' \in BOOLEAN, us' \in BOOLEAN
  PROVE  NumsOK'
<1> DEFINE e == Seen(k)
<1>1. Counted(e.num) /\ Counted(num) /\ NumEntry \in Nat /\ MaxNum \in Nat
  BY SeenNums, KeyLoopAssumption, EntryIs DEF LoopOK, NumsOK
<1>2. us = TRUE => u \in 0..NumEntry
  BY DEF LoopOK, NumsOK
<1> HIDE DEF e
<1>3. Counted(num') /\ (us' = TRUE => u' \in 0..NumEntry)
  <2>1. CASE num' = 1 /\ us' = FALSE
    BY <1>1, <2>1 DEF Counted
  <2>2. CASE num' = e.num /\ us' = us /\ u' = u
    BY <1>1, <1>2, <2>2
  <2>3. CASE Number(k, e)
    <3>1. k \in DigitKeys /\ num' = (IF ns THEN num * 10 ELSE 0) + Value(k) /\ num' <= MaxNum /\ us' = us /\ u' = u
      BY <2>3 DEF Number
    <3>2. Value(k) \in Nat
      <4>1. PICK d \in Digit : k = Digits[d]
        BY <3>1 DEF DigitKeys
      <4>2. Value(k) = d % 10 /\ d \in 1..10
        BY <4>1, DigitsAre, KeyLoopAssumption
      <4> QED
        BY <4>2
    <3>3. num \in Nat /\ ns \in BOOLEAN
      BY <1>1 DEF Counted, LoopOK, NumsOK
    <3>4. num' \in Nat
      BY <3>1, <3>2, <3>3
    <3>5. num' \in 0..MaxNum
      BY <1>1, <3>1, <3>4
    <3> QED
      BY <1>2, <3>1, <3>5 DEF Counted
  <2>4. CASE QuoteMark(k, e)
    <3>1. num' = Count(l.cur, l.idx) /\ u' \in {l.cur, l.idx}
      BY <2>4 DEF QuoteMark
    <3>2. /\ Count(l.cur, l.idx) \in 1..db_num(l) /\ db_num(l) \in 0..(NumEntry + 1)
          /\ l.idx \in 0..(db_num(l) - 1)
      BY <2>4, MarkRange DEF LoopOK
    <3>3. num' \in 0..(NumEntry + 1) /\ l.idx \in 0..NumEntry
      BY <1>1, <3>1, <3>2
    <3>4. l.cur \in 0..NumEntry
      <4>1. Good(l) /\ db_num(l) > 0
        BY <3>2 DEF LoopOK
      <4>2. l.cur \in 0..(db_num(l) - 1)
        BY <4>1, InLines
      <4> QED
        BY <3>2, <4>2, EntryIs
    <3> QED
      BY <1>2, <3>1, <3>3, <3>4 DEF Counted
  <2> QED
    BY <2>1, <2>2, <2>3, <2>4, NumIs DEF e
<1>4. Counted(saved'.num)
  <2>1. CASE NoRun
    BY <2>1 DEF NoRun, LoopOK, NumsOK
  <2>2. CASE saved' = NotSaved
    BY <1>1, <2>2 DEF NotSaved, Counted
  <2>3. CASE Execute(k, e)
    <3>1. \E op, ret : saved' = save_st(e, op, ret)
      BY <2>3, ExecuteIs, Zenon DEF LoopOK, HistoryOK, KeysOK
    <3>2. saved' = saved \/ saved' = NotSaved \/ saved'.num = e.num
      BY <3>1 DEF save_st
    <3>3. Counted(NotSaved.num) /\ Counted(saved.num)
      BY <1>1 DEF NotSaved, Counted, LoopOK, NumsOK
    <3> QED
      BY <1>1, <3>2, <3>3
  <2> QED
    BY <2>1, <2>2, <2>3, HistoryIs DEF e
<1> QED
  BY <1>3, <1>4 DEF NumsOK, Counted

LEMMA FlagsStep ==
  ASSUME LoopOK, NEW k, Press(k)
  PROVE  ns' \in BOOLEAN /\ us' \in BOOLEAN
<1> DEFINE e == Seen(k)
<1>1. ns \in BOOLEAN /\ us \in BOOLEAN
  BY DEF LoopOK, NumsOK
<1>2. \A c, q : Read(e, c, q) => ns' \in {ns, FALSE} /\ us' \in {us, FALSE}
  BY DEF Read
<1> HIDE DEF e
<1>3. \/ \E c, q : Read(e, c, q)
      \/ ns' \in {ns, FALSE, TRUE} /\ us' \in {us, FALSE, TRUE}
  <2>1. CASE Number(k, e) \/ QuoteMark(k, e) \/ FunctionKey(k, e)
    BY <2>1 DEF Number, QuoteMark, FunctionKey
  <2>2. CASE Quote(k, e)
    BY <2>2, Zenon DEF Quote
  <2>3. CASE Execute(k, e)
    BY <2>3, Zenon DEF Execute, Perform
  <2>4. CASE Wait(k, e)
    BY <2>4, Zenon DEF Wait
  <2>5. CASE Move(k, e) \/ Mark(k, e) \/ RemoveMark(k, e) \/ Multi(k, e)
    BY <2>5, Zenon DEF Move, Mark, RemoveMark, Multi
  <2>6. CASE Sort(k, e) \/ Filter(k, e) \/ Reread(k, e) \/ Search(k, e) \/ Inert(k, e)
    BY <2>6, Zenon DEF Sort, Filter, Reread, Search, Inert
  <2> QED
    BY <2>1, <2>2, <2>3, <2>4, <2>5, <2>6, PressIs DEF e
<1>4. CASE \E c, q : Read(e, c, q)
  BY <1>1, <1>2, <1>4
<1> QED
  BY <1>1, <1>3, <1>4

LEMMA GoodStep ==
  ASSUME LoopOK, NEW k, Press(k), ~MarkFiltered
  PROVE  Good(l')
<1> DEFINE e == Seen(k)
<1>1. Good(l)
  BY DEF LoopOK
<1>2. CASE ~Execute(k, e)
  <2>1. QuietList(l, l')
    BY <1>2, QuietIs
  <2> QED
    BY <1>1, <2>1, QuietGood DEF MarkFiltered
<1>3. CASE Execute(k, e)
  <2> DEFINE op == Command(e)[1]
             t == Command(e)[2]
  <2>1. PICK a : l' = Run(e, op, t, a).l
    BY <1>3, RunList
  <2>2. op \in Ops \cup {"mkdir"} /\ t \in {0, 1, 2, 3} /\ (op = "rm" => t \in {1, 2, 3})
    BY <1>3, CommandTyped DEF Execute
  <2>3. e.u \in Nat /\ e.num \in Nat
    BY SeenNums
  <2> HIDE DEF op, t, e
  <2>4. CASE op = "mkdir"
    <3>1. l' \in {l, rebuild_db(l)}
      BY <2>1, <2>4 DEF Run, Result
    <3> QED
      BY <1>1, <3>1, RebuildIs
  <2>5. CASE op # "mkdir"
    <3>1. op \in Ops /\ l' = ui_cmd(l, op, t, e.u, e.num, a).l
      BY <2>1, <2>2, <2>5 DEF Run
    <3> QED
      BY <1>1, <2>2, <2>3, <3>1, CommandGood
  <2> QED
    BY <2>4, <2>5
<1> QED
  BY <1>2, <1>3

LEMMA GoodStarts ==
  ASSUME Init
  PROVE  Good(l)
<1>1. PICK mode \in {"bmode", "fmode", "diff"}, col \in {0, 1}, disk \in SUBSET (Entry \X {1, 2}) :
        l = diff_db_sort([mode |-> mode, col |-> col, disk |-> disk, type |-> disk,
                          hidden |-> {}, list |-> <<>>, multi |-> {}, prev |-> None,
                          mark |-> None, idx |-> None, cur |-> 0])
  BY Zenon DEF Init
<1> DEFINE a == [mode |-> mode, col |-> col, disk |-> disk, type |-> disk,
                 hidden |-> {}, list |-> <<>>, multi |-> {}, prev |-> None,
                 mark |-> None, idx |-> None, cur |-> 0]
<1>2. <<>> \in Seq(Entry \cup {DotDot})
  OBVIOUS
<1>3. a \in ListType
  BY <1>2, EntryIs DEF ListType, Files2
<1>4. a.mark = None /\ a.idx = None /\ a.cur = 0
  OBVIOUS
<1> HIDE DEF a
<1>5. l = diff_db_sort(a)
  BY <1>1 DEF a
<1>6. l \in ListType /\ Made(l) /\ l = [a EXCEPT !.list = InOrder(Shown(a))]
  BY <1>3, <1>5, SortedIs
<1>7. l.mark = None /\ l.idx = None /\ l.cur = 0
  BY <1>3, <1>4, <1>6 DEF ListType
<1>8. CurIn(l)
  <2>1. db_num(l) \in Nat
    BY <1>6, LinesAre
  <2>2. Max({0, db_num(l) - 1}) \in Nat
    BY <2>1, MaxOfTwo
  <2> QED
    BY <1>7, <2>2 DEF CurIn
<1> QED
  BY <1>6, <1>7, <1>8, EntryIs DEF Good, Marking, Unmarking

LEMMA LoopStarts ==
  ASSUME Init
  PROVE  LoopOK
<1>1. num = 1 /\ ns = FALSE /\ us = FALSE /\ saved.num = 0
  BY DEF Init, NotSaved
<1>2. NumEntry \in Nat /\ MaxNum \in Nat
  BY EntryIs, KeyLoopAssumption
<1>3. Counted(1) /\ Counted(0)
  BY <1>2 DEF Counted
<1>4. Counted(num) /\ Counted(saved.num)
  BY <1>1, <1>3
<1>5. us \in BOOLEAN /\ ns \in BOOLEAN /\ ~(us = TRUE)
  BY <1>1
<1>6. NumsOK
  BY <1>4, <1>5 DEF NumsOK
<1> QED
  BY <1>6, GoodStarts, HistoryStarts DEF LoopOK

LEMMA LoopStep ==
  ASSUME LoopOK, [Next /\ ~MarkFiltered]_vars
  PROVE  LoopOK'
<1>1. CASE UNCHANGED vars
  <2>1. l' = l /\ num' = num /\ ns' = ns /\ us' = us /\ u' = u /\ saved' = saved
    BY <1>1 DEF vars
  <2>2. HistoryOK'
    BY <1>1, HistoryStep DEF LoopOK
  <2> QED
    BY <2>1, <2>2 DEF LoopOK, NumsOK
<1>2. CASE Next /\ ~MarkFiltered
  <2>1. PICK k \in Keys : Press(k)
    BY <1>2 DEF Next
  <2>2. HistoryOK'
    BY <1>2, HistoryStep DEF LoopOK
  <2> QED
    BY <1>2, <2>1, <2>2, GoodStep, FlagsStep, NumsStep DEF LoopOK
<1> QED
  BY <1>1, <1>2

\* The cursor is in the list, the marks are entries, and no number or first line of
\* a range is beyond the longest list; a cleared key has cleared the number with it.
THEOREM LoopTypes == Init /\ [][Next /\ ~MarkFiltered]_vars => []TypeOK
<1>1. ASSUME LoopOK PROVE TypeOK
  <2>1. l \in ListType /\ CurIn(l)
    BY <1>1 DEF LoopOK, Good
  <2>2. key[1] = Zero => ~ns /\ ~us /\ num = 1
    BY <1>1 DEF LoopOK, HistoryOK, KeysOK, Reset
  <2>3. (num \in 0..MaxNum \/ num \in 0..(NumEntry + 1)) /\ (us => u \in 0..NumEntry)
    BY <1>1 DEF LoopOK, NumsOK, Counted
  <2>4. /\ l.disk \subseteq Entry \X {1, 2} /\ l.type \subseteq Entry \X {1, 2}
        /\ l.multi \subseteq Entry /\ l.mark \in Entry \cup {None, Global}
        /\ l.prev \in {None} \cup 0..NumEntry
    BY <2>1 DEF ListType, Files2
  <2> QED
    BY <2>1, <2>2, <2>3, <2>4 DEF TypeOK, CurIn
<1> QED
  BY <1>1, LoopStarts, LoopStep, PTL

\* The local mark is on the line whose number is kept beside it, whatever sorts,
\* reads again, deletes or renames in between; only filtering a list with a mark is
\* excepted (README).
THEOREM MarkStays == Init /\ [][Next /\ ~MarkFiltered]_vars => []MarkOnItsLine
<1>1. ASSUME LoopOK PROVE MarkOnItsLine
  BY <1>1 DEF LoopOK, Good, Marking, MarkOnItsLine
<1> QED
  BY <1>1, LoopStarts, LoopStep, PTL

-----------------------------------------------------------------------------
(* A range: the lines from the cursor to the mark, while letters are typed *)
(* after the '.                                                            *)
First(r, v, fixed) == IF fixed THEN v ELSE r.cur
RangeIs(r, f, n, E) ==
  f \in Nat /\ n \in Nat /\ n >= 1 /\ f + n <= db_num(r) /\ E = {At(r, v) : v \in f..(f + n - 1)}
Quoted == key[1] # Zero /\ typed[1] = "'" /\ \A i \in 2..Len(typed) : typed[i] \in Letters
QuotedOK == Quoted /\ span # {} => RangeIs(l, First(l, u, us), num, span)

\* A letter that is waited after leaves the list alone.
LEMMA WaitKeeps ==
  ASSUME NEW k, Press(k), Seen(k).c \in Letters, key'[1] # Zero
  PROVE  l' = l
<1> DEFINE e == Seen(k)
<1>1. e.c \notin DigitKeys /\ e.c \notin {"'", "V", "s", "&"} /\ k \notin DigitKeys
  <2>1. e.c \notin DigitKeys
    BY DigitsAre DEF Letters
  <2>2. k \in DigitKeys => e.c = k
    BY NotRepeated
  <2> QED
    BY <2>1, <2>2 DEF Letters
<1>2. \A q : ~Read(e, Zero, q)
  BY DEF Read
<1>3. \A q : Read(e, e.c, q) => l' = q
  BY DEF Read
<1> HIDE DEF e
<1>4. ~Number(k, e) /\ ~QuoteMark(k, e) /\ ~Quote(k, e)
  BY <1>1 DEF Number, QuoteMark, Quote
<1>5. ~FunctionKey(k, e)
  <2>1. ASSUME FunctionKey(k, e) PROVE FALSE
    <3>1. key' = <<Zero, e.k0>>
      BY <2>1, Zenon DEF FunctionKey
    <3> QED
      BY <3>1
  <2> QED
    BY <2>1
<1>6. ~Execute(k, e)
  BY <1>2, Zenon DEF Execute, Perform
<1>7. CASE Wait(k, e)
  <2>1. Read(e, e.c, l)
    BY <1>1, <1>7, Zenon DEF Wait
  <2> QED
    BY <1>3, <2>1
<1>8. ~Move(k, e) /\ ~Mark(k, e) /\ ~RemoveMark(k, e)
  BY <1>2, Zenon DEF Move, Mark, RemoveMark
<1>9. ~Multi(k, e)
  BY <1>1, <1>2, Zenon DEF Multi
<1>10. ~Sort(k, e) /\ ~Filter(k, e) /\ ~Reread(k, e) /\ ~Search(k, e) /\ ~Inert(k, e)
  BY <1>2, Zenon DEF Sort, Filter, Reread, Search, Inert
<1> QED
  BY <1>4, <1>5, <1>6, <1>7, <1>8, <1>9, <1>10, PressIs DEF e

\* Where the mark is
LEMMA PositionIs ==
  ASSUME Good(l), NEW i \in 0..(db_num(l) - 1), At(l, i) = l.mark
  PROVE  Position(l, l.mark) = i
<1>1. \A v, w \in 0..(db_num(l) - 1) : At(l, v) = At(l, w) => v = w
  BY LinesAre DEF Good
<1> DEFINE Is(v) == v \in 0..(db_num(l) - 1) /\ At(l, v) = l.mark
<1>2. Position(l, l.mark) = CHOOSE v \in 0..(db_num(l) - 1) : At(l, v) = l.mark
  BY DEF Position
<1>3. \A v \in 0..(db_num(l) - 1) : At(l, v) = l.mark => v = i
  BY <1>1
<1> QED
  BY <1>2, <1>3

LEMMA QuoteIs ==
  ASSUME Good(l), us = FALSE, NEW k, NEW e, QuoteMark(k, e), span' # {}
  PROVE  RangeIs(l', First(l', u', us'), num', span')
<1>1. /\ l.mark \in Entry /\ l.idx \in 0..(db_num(l) - 1) /\ l.cur \in 0..(db_num(l) - 1)
      /\ At(l, l.idx) = l.mark /\ db_num(l) \in 0..(NumEntry + 1)
      /\ Count(l.cur, l.idx) = IF l.cur <= l.idx THEN l.idx - l.cur + 1 ELSE l.cur - l.idx + 1
  BY MarkRange
<1>2. Position(l, l.mark) = l.idx
  BY <1>1, PositionIs
<1>3. NumEntry \in Nat /\ db_num(l) \in Nat /\ l.idx \in Nat /\ l.cur \in Nat
  BY <1>1, EntryIs
<1>4. span' = Between(l.cur, l.idx)
  BY <1>2 DEF QuoteMark
<1>5. num' = Count(l.cur, l.idx)
  BY DEF QuoteMark
<1>6. CASE l.cur <= l.idx
  <2>1. l' = l /\ us' = FALSE
    BY <1>6 DEF QuoteMark
  <2>2. First(l', u', us') = l.cur
    BY <2>1 DEF First
  <2>3. num' = l.idx - l.cur + 1
    BY <1>1, <1>5, <1>6
  <2>4. Min({l.cur, l.idx}) = l.cur /\ Max({l.cur, l.idx}) = l.idx
    BY <1>3, <1>6, MaxOfTwo, MinOfTwo
  <2>5. span' = {At(l, v) : v \in (l.cur)..(l.idx)}
    BY <1>4, <2>4 DEF Between
  <2>6. l.cur + num' - 1 = l.idx /\ num' \in Nat /\ num' >= 1 /\ l.cur + num' <= db_num(l)
    BY <1>1, <1>3, <1>6, <2>3
  <2>7. RangeIs(l, l.cur, num', span')
    BY <1>3, <2>5, <2>6 DEF RangeIs
  <2> QED
    BY <2>1, <2>2, <2>7
<1>7. CASE ~(l.cur <= l.idx)
  <2>1. l' = [l EXCEPT !.cur = l.idx] /\ us' = TRUE /\ u' = l.idx
    BY <1>7 DEF QuoteMark
  <2>2. First(l', u', us') = l.idx
    BY <2>1 DEF First
  <2>3. num' = l.cur - l.idx + 1
    BY <1>1, <1>5, <1>7
  <2>4. Min({l.cur, l.idx}) = l.idx /\ Max({l.cur, l.idx}) = l.cur
    BY <1>3, <1>7, MaxOfTwo, MinOfTwo
  <2>5. span' = {At(l, v) : v \in (l.idx)..(l.cur)}
    BY <1>4, <2>4 DEF Between
  <2>6. l.idx + num' - 1 = l.cur /\ num' \in Nat /\ num' >= 1 /\ l.idx + num' <= db_num(l)
    BY <1>1, <1>3, <1>7, <2>3
  <2>7. RangeIs(l, l.idx, num', span')
    BY <1>3, <2>5, <2>6 DEF RangeIs
  <2>8. l'.list = l.list
    BY <2>1 DEF Good, ListType
  <2>9. RangeIs(l', l.idx, num', span')
    BY <2>7, <2>8 DEF RangeIs, db_num, At
  <2> QED
    BY <2>2, <2>9
<1> QED
  BY <1>6, <1>7

LEMMA QuotedStep ==
  ASSUME LoopOK, QuotedOK, NEW k \in Keys, Press(k)
  PROVE  QuotedOK'
<1> SUFFICES ASSUME key'[1] # Zero, typed'[1] = "'", \A i \in 2..Len(typed') : typed'[i] \in Letters, span' # {}
             PROVE  RangeIs(l', First(l', u', us'), num', span')
  BY DEF QuotedOK, Quoted
<1> DEFINE e == Seen(k)
<1>0. KeysOK /\ Good(l)
  BY DEF LoopOK, HistoryOK
<1>1. CASE key[1] = Zero
  <2>1. typed' = <<k>>
    BY <1>1, TypedIs
  <2>2. k = "'"
    BY <2>1
  <2>3. span = {} /\ ns = FALSE /\ us = FALSE
    BY <1>0, <1>1 DEF KeysOK, Reset
  <2>4. ~Repeats(k) /\ e.c = "'" /\ e.k0 = Zero
    BY <1>1, <2>2, SeenIs DEF Repeats
  <2>5. "'" \notin DigitKeys /\ Zero # "'"
    BY DigitsAre DEF Zero
  <2>6. ~Quote(k, e)
    <3>1. ASSUME Quote(k, e) PROVE FALSE
      <4>1. Read(e, e.c, l)
        BY <2>3, <2>4, <2>5, <3>1, Zenon DEF Quote
      <4>2. span' = span
        BY <2>4, <2>5, <4>1 DEF Read
      <4> QED
        BY <2>3, <4>2
    <3> QED
      BY <3>1
  <2>7. QuoteMark(k, e)
    <3>1. ~Number(k, e) /\ ~FunctionKey(k, e)
      BY <2>2, <2>5 DEF Number, FunctionKey
    <3>2. Command(e) = NoCommand
      <4>1. CASE Command(e) # NoCommand
        <5>1. Fixed(l, e.c, e.k0, e.k1) # NoCommand
          BY <4>1, CommandIsFixed
        <5>2. e.c \in CommandKeys
          BY <5>1, FixedKeys
        <5> QED
          BY <2>4, <5>2 DEF CommandKeys
      <4> QED
        BY <4>1
    <3> HIDE DEF e
    <3>3. ~Execute(k, e)
      BY <3>2 DEF Execute
    <3>4. ~Wait(k, e)
      BY <2>4, Tables DEF Wait, Waits
    <3>5. ~Move(k, e) /\ ~Mark(k, e) /\ ~RemoveMark(k, e) /\ ~Multi(k, e)
      BY <2>4 DEF Move, Mark, RemoveMark, Multi
    <3>6. ~Sort(k, e) /\ ~Filter(k, e) /\ ~Reread(k, e) /\ ~Search(k, e) /\ ~Inert(k, e)
      BY <2>4, Tables DEF Sort, Filter, Reread, Search, Inert, SortKeys
    <3> QED
      BY <2>6, <3>1, <3>3, <3>4, <3>5, <3>6, PressIs DEF e
  <2> QED
    BY <1>0, <2>3, <2>7, QuoteIs
<1>2. CASE key[1] # Zero
  <2>1. typed' = Append(typed, k) /\ typed \in Seq(Keys)
    BY <1>0, <1>2, TypedIs DEF KeysOK
  <2>2. Len(typed) >= 1
    BY <1>0, <1>2 DEF KeysOK, KeyOK
  <2>3. /\ Len(typed') = Len(typed) + 1 /\ typed'[Len(typed) + 1] = k /\ Len(typed) \in Nat
        /\ \A i \in 1..Len(typed) : typed'[i] = typed[i]
    BY <2>1, Appended
  <2>4. k \in Letters
    BY <2>2, <2>3
  <2>5. typed[1] = "'" /\ \A i \in 2..Len(typed) : typed[i] \in Letters
    <3>1. 1 \in 1..Len(typed) /\ \A i \in 2..Len(typed) : i \in 1..Len(typed) /\ i \in 2..Len(typed')
      BY <2>2, <2>3
    <3> QED
      BY <2>3, <3>1
  <2>6. Quoted
    BY <1>2, <2>5 DEF Quoted
  <2>7. ~Repeats(k) /\ e.c = k /\ e.num = num
    <3>1. ~Repeats(k)
      BY <2>4 DEF Repeats, Letters
    <3> QED
      BY <3>1, SeenIs
  <2>8. l' = l
    BY <2>4, <2>7, WaitKeeps
  <2>9. num' = num /\ us' = us /\ u' = u /\ span' = span
    <3>1. k \notin DigitKeys \cup {"'"}
      BY <2>4, DigitsAre DEF Letters
    <3>2. key' # <<Zero, e.k0>>
      OBVIOUS
    <3> QED
      BY <2>7, <3>1, <3>2, KeyIs
  <2> QED
    BY <2>6, <2>8, <2>9 DEF QuotedOK
<1> QED
  BY <1>1, <1>2

LEMMA RowSpelled ==
  ASSUME NEW r \in Manual, l.mode \in r.modes
  PROVE  \E q \in Seq(Letters) : r.keys = q /\ Len(q) >= 1
<1>1. \A a, b, c \in Letters : <<c>> \in Seq(Letters) /\ <<a, c>> \in Seq(Letters) /\ <<a, b, c>> \in Seq(Letters)
  OBVIOUS
<1>2. "e" \in Letters
  BY DEF Letters
<1>3. CASE OneRow(r)
  <2>1. PICK c \in Letters : r.keys = <<c>>
    BY <1>3 DEF OneRow
  <2>2. <<c>> \in Seq(Letters) /\ Len(<<c>>) >= 1
    OBVIOUS
  <2> QED
    BY <2>1, <2>2
<1>4. CASE TwoRow(r)
  <2>1. PICK a, c \in Letters : r.keys = <<a, c>>
    BY <1>4 DEF TwoRow
  <2>2. <<a, c>> \in Seq(Letters) /\ Len(<<a, c>>) >= 1
    OBVIOUS
  <2> QED
    BY <2>1, <2>2
<1>5. CASE ThreeRow(r)
  <2>1. PICK b, c \in Letters : r.keys = <<"e", b, c>>
    BY <1>5 DEF ThreeRow
  <2>2. <<"e", b, c>> \in Seq(Letters) /\ Len(<<"e", b, c>>) >= 1
    BY <1>2
  <2> QED
    BY <2>1, <2>2
<1> QED
  BY <1>3, <1>4, <1>5, RowShapes

LEMMA RangeStep ==
  ASSUME LoopOK, QuotedOK, NEW k \in Keys, Press(k), did'.op # "none", span # {},
         NEW r \in Manual, l.mode \in r.modes, typed' = <<"'">> \o r.keys
  PROVE  Covered(did'.n) = span \ {DotDot}
<1> DEFINE e == Seen(k)
<1>0. KeysOK /\ Good(l)
  BY DEF LoopOK, HistoryOK
<1>1. PICK q \in Seq(Letters) : r.keys = q /\ Len(q) >= 1
  BY RowSpelled
<1>2. /\ Len(typed') = Len(q) + 1 /\ typed'[1] = "'" /\ Len(q) \in Nat
      /\ \A i \in 2..(Len(q) + 1) : typed'[i] = q[i - 1]
  <2>1. typed' = <<"'">> \o q /\ Len(q) \in Nat
    BY <1>1
  <2> QED
    BY <2>1
<1>3. \A i \in 2..(Len(q) + 1) : typed'[i] \in Letters
  BY <1>2
<1>4. /\ key[1] # Zero /\ Len(typed') = Len(typed) + 1 /\ k = typed'[Len(typed')]
      /\ Len(typed) \in Nat /\ \A i \in 1..Len(typed) : typed[i] = typed'[i]
  <2>1. Len(typed') # 1
    BY <1>1, <1>2
  <2> QED
    BY <1>0, <2>1, BeforeLast
<1>5. k \in Letters
  BY <1>1, <1>2, <1>3, <1>4
<1>6. Quoted
  <2>1. Len(typed) = Len(q) /\ Len(typed) >= 1
    BY <1>1, <1>2, <1>4
  <2>2. typed[1] = "'" /\ \A i \in 2..Len(typed) : typed[i] \in Letters
    BY <1>2, <1>3, <1>4, <2>1
  <2> QED
    BY <1>4, <2>2 DEF Quoted
<1>7. e.c = k /\ e.num = num /\ e.u = First(l, u, us)
  <2>1. ~Repeats(k)
    BY <1>5 DEF Repeats, Letters
  <2> QED
    BY <2>1, SeenIs DEF First
<1>8. did'.u = First(l, u, us) /\ did'.n = num
  <2>1. Nothing.op = "none"
    BY DEF Nothing
  <2>2. k # "F1"
    BY <1>5 DEF Letters
  <2>3. Execute(k, e)
    BY <2>1, <2>2, HistoryIs DEF NoRun
  <2>4. Command(e) # NoCommand
    BY <2>3 DEF Execute
  <2> QED
    BY <1>0, <1>7, <2>1, <2>4, RunsFixed
<1> DEFINE f == First(l, u, us)
<1>9. f \in Nat /\ num \in Nat /\ num >= 1 /\ f + num <= db_num(l) /\ span = {At(l, v) : v \in f..(f + num - 1)}
  BY <1>6 DEF QuotedOK, RangeIs
<1> HIDE DEF f
<1>10. ToSet(Lines(l, f, num)) = LineSet(l, f, num)
  BY <1>0, <1>9, LinesOf DEF Listed
<1>11. LineSet(l, f, num) = f..(f + num - 1)
  <2>1. db_num(l) \in Nat
    BY <1>0, InLines
  <2>2. \A v \in f..(f + num - 1) : v < db_num(l)
    BY <1>9, <2>1
  <2> QED
    BY <2>2 DEF LineSet
<1> QED
  BY <1>8, <1>9, <1>10, <1>11 DEF Covered, f

\* A ' command is for the entries from the cursor to the marked one, both included.
THEOREM RangeIsCursorToMark == Init /\ [][Next /\ ~MarkFiltered]_vars => RangeIsBetween
<1>1. ASSUME Init PROVE LoopOK /\ QuotedOK
  <2>1. key[1] = Zero
    BY <1>1 DEF Init
  <2> QED
    BY <1>1, <2>1, LoopStarts DEF QuotedOK, Quoted
<1>2. ASSUME LoopOK /\ QuotedOK, [Next /\ ~MarkFiltered]_vars
      PROVE  (LoopOK /\ QuotedOK)'
  <2>1. LoopOK'
    BY <1>2, LoopStep
  <2>2. CASE UNCHANGED vars
    BY <1>2, <2>1, <2>2 DEF QuotedOK, Quoted, vars
  <2>3. CASE Next
    BY <1>2, <2>1, <2>3, QuotedStep DEF Next
  <2> QED
    BY <1>2, <2>2, <2>3
<1>3. ASSUME LoopOK /\ QuotedOK, [Next /\ ~MarkFiltered]_vars
      PROVE  [did'.op # "none" /\ l.multi = {} /\ Head(typed') = "'" /\ span # {}
                /\ (\E r \in Here : typed' = <<"'">> \o r.keys)
              => Covered(did'.n) = span \ {DotDot}]_vars
  <2>1. CASE Next
    <3>1. PICK k \in Keys : Press(k)
      BY <2>1 DEF Next
    <3>2. ASSUME did'.op # "none", span # {}, NEW r \in Here, typed' = <<"'">> \o r.keys
          PROVE  Covered(did'.n) = span \ {DotDot}
      <4>1. r \in Manual /\ l.mode \in r.modes
        BY DEF Here
      <4> QED
        BY <1>3, <3>1, <3>2, <4>1, RangeStep
    <3> QED
      BY <3>2
  <2> QED
    BY <1>3, <2>1
<1> QED
  BY <1>1, <1>2, <1>3, PTL DEF RangeIsBetween

-----------------------------------------------------------------------------
(* The questions.                                                          *)
LEMMA SideAsked ==
  ASSUME NEW op, NEW r, NEW a, NEW w \in Work, NEW e \in Entry, NEW s \in {1, 2}, Side(op, r, w, e) = s
  PROVE  LET v == OneSide(op, r, a, w, e)
         IN  \/ w.asked = TRUE
             \/ ~Skipped(op, r, e, s) /\ a.esc # <<e, s>> /\ w.have = FALSE
             => v.asked = TRUE
<1> DEFINE v == OneSide(op, r, a, w, e)
<1>1. v \in Work /\ Outcome(op, r, a, w, e, s, v)
  BY OneSideIs
<1> HIDE DEF v
<1>2. w.asked \in BOOLEAN /\ w.have \in BOOLEAN /\ v.asked \in BOOLEAN
  BY <1>1 DEF Work
<1>3. ASSUME w.asked = TRUE PROVE v.asked = TRUE
  <2>1. v.asked = w.asked \/ v.asked = Asked2(w)
    BY <1>1 DEF Outcome
  <2>2. Asked2(w) = TRUE
    BY <1>2, <1>3 DEF Asked2
  <2> QED
    BY <1>3, <2>1, <2>2
<1>4. ASSUME ~Skipped(op, r, e, s), a.esc # <<e, s>>, w.have = FALSE PROVE v.asked = TRUE
  <2>1. v.asked = Asked2(w)
    BY <1>1, <1>4 DEF Outcome
  <2>2. Asked2(w) = TRUE
    BY <1>2, <1>4 DEF Asked2
  <2> QED
    BY <2>1, <2>2
<1> QED
  BY <1>3, <1>4 DEF v

LEMMA BothAsked ==
  ASSUME NEW op, op # "rm", NEW r, NEW a, NEW w, Sound(op, w), NEW e \in Entry,
         \/ w.asked = TRUE
         \/ ~Skipped(op, r, e, Side(op, r, w, e)) /\ a.esc # <<e, Side(op, r, w, e)>> /\ w.have = FALSE
  PROVE  BothSides(op, r, a, w, e).asked = TRUE
<1> DEFINE s == Side(op, r, w, e)
           v == OneSide(op, r, a, w, e)
           x == OneSide(op, r, a, v, e)
<1>1. s \in {1, 2}
  BY SideIs
<1>2. Sound(op, v) /\ w \in Work
  BY <1>1, SideSound DEF Sound
<1>3. v.asked = TRUE
  BY <1>1, <1>2, SideAsked
<1>4. BothSides(op, r, a, w, e) = IF v.again THEN x ELSE v
  BY DEF BothSides
<1> HIDE DEF v
<1>5. x.asked = TRUE
  <2>1. Side(op, r, v, e) \in {1, 2} /\ v \in Work
    BY <1>2, SideIs DEF Sound
  <2> QED
    BY <1>3, <2>1, SideAsked
<1> HIDE DEF x
<1>6. v.again \in BOOLEAN
  BY <1>2 DEF Sound, Work
<1> QED
  BY <1>3, <1>4, <1>5, <1>6

\* A file that is not absent is changed on a side it has.
LEMMA SideIn ==
  ASSUME NEW op, op # "rm", NEW r \in ListType, NEW w \in Work, NEW e, Sides(r, e) # {}, ~Absent(r, w, e)
  PROVE  LET n == Narrow(op, r, w, e) IN Side(op, r, n, e) \in Sides(r, e)
<1> DEFINE n == Narrow(op, r, w, e)
<1>1. n \in Work /\ Narrowed(op, r, w, e, n)
  BY NarrowIs
<1> HIDE DEF n
<1>2. w.tree = 3 \/ w.tree \in Sides(r, e)
  BY DEF Absent
<1>3. Sides(r, e) \in {{1}, {2}, {1, 2}}
  BY SidesAre
<1>4. CASE w.tree # 3
  <2>1. n.tree = w.tree /\ w.tree \in Sides(r, e)
    BY <1>1, <1>2, <1>4 DEF Narrowed
  <2> QED
    BY <1>3, <2>1 DEF Side, n
<1>5. CASE w.tree = 3 /\ Sides(r, e) = {1, 2}
  <2>1. n.tree = 1
    BY <1>1, <1>5 DEF Narrowed
  <2> QED
    BY <1>5, <2>1 DEF Side, n
<1>6. CASE w.tree = 3 /\ Sides(r, e) # {1, 2}
  <2>1. n.tree = 3
    BY <1>1, <1>6 DEF Narrowed
  <2> QED
    BY <1>3, <1>6, <2>1 DEF Side, n
<1> QED
  BY <1>4, <1>5, <1>6

LEMMA ChangeIs ==
  ASSUME NEW op \in Ops, Asks(op), NEW r, NEW a, NEW w, w.stop = FALSE, NEW e, e # DotDot
  PROVE  File(op, r, a, w, e) = IF Absent(r, w, e) THEN w ELSE BothSides(op, r, a, Narrow(op, r, w, e), e)
<1>1. op # "rm" /\ op # "rename" /\ ~Copies(op)
  BY DEF Asks, Copies
<1>2. ~w.stop
  OBVIOUS
<1>3. File(op, r, a, w, e) = Change(op, r, a, w, e)
  BY <1>1, <1>2 DEF File
<1> QED
  BY <1>3 DEF Change

AllAsked(w)   == \A x \in w.acts : x[3] = TRUE
NotThere(r, t) == t # 3 /\ \A e \in r.multi : t \notin Sides(r, e)
Told(r, op, t, v) ==
  AllAsked(v.w) /\ (Asks(op) /\ v.at # None => v.w.asked = TRUE \/ NotThere(r, t))

LEMMA ToldTurn ==
  ASSUME NEW r, Good(r), NEW op \in Ops, NEW t \in {0, 1, 2, 3}, op = "rm" => t \in {1, 2, 3}, NEW a,
         NEW i \in 0..(db_num(r) - 1), At(r, i) \in r.multi, NEW v, MarkState(r, op, v), Told(r, op, t, v)
  PROVE  AllAsked(NextMarked(r, op, t, a, v, i).w)
<1> DEFINE b == Fresh(op, t, v)
           e == At(r, i)
           w == File(op, r, a, b, e)
           x == [w |-> w, at |-> i, left |-> w.err /\ op \in {"rm", "mv"}]
<1>1. /\ Sound(op, b) /\ b.acts = v.w.acts /\ b.tree = t /\ b.stop = FALSE
      /\ b.have = Settled(op, v.at = None) /\ b.asked = (op = "rm" \/ v.w.asked)
  <2>1. Freshly(op, t, v, b)
    BY FreshIs
  <2> HIDE DEF b
  <2> QED
    BY <2>1 DEF Freshly
<1>2. NextMarked(r, op, t, a, v, i) \in {v, x}
  BY NextMarkedIs
<1>3. e \in Entry /\ e # DotDot
  <2>1. r.multi \subseteq Entry
    BY DEF Good, ListType
  <2> QED
    BY <2>1, EntryIs
<1>4. v.w.asked \in BOOLEAN
  BY DEF MarkState, Sound, Work
<1> HIDE DEF b, e
<1>5. AllAsked(w)
  <2>1. CASE Asks(op) /\ NotThere(r, t)
    <3>1. Absent(r, b, e)
      BY <1>1, <2>1 DEF NotThere, Absent, e
    <3>2. w = b
      BY <1>1, <1>3, <2>1, <3>1, ChangeIs
    <3> QED
      BY <1>1, <3>2 DEF Told, AllAsked
  <2>2. CASE ~(Asks(op) /\ NotThere(r, t))
    <3>1. b.have = TRUE => b.asked = TRUE
      <4>1. CASE op = "rm"
        BY <1>1, <4>1
      <4>2. CASE op # "rm" /\ ~Asks(op)
        <5>1. b.have = FALSE
          BY <1>1, <4>2 DEF Settled
        <5> QED
          BY <5>1
      <4>3. CASE op # "rm" /\ Asks(op) /\ v.at = None
        <5>1. b.have = FALSE
          BY <1>1, <4>3 DEF Settled
        <5> QED
          BY <5>1
      <4>4. CASE op # "rm" /\ Asks(op) /\ v.at # None
        <5>1. v.w.asked = TRUE
          BY <2>2, <4>4 DEF Told
        <5> QED
          BY <1>1, <5>1
      <4> QED
        BY <4>1, <4>2, <4>3, <4>4
    <3>2. Asking(b)
      BY <1>1, <3>1 DEF Asking, Told, AllAsked
    <3>3. Asking(w)
      BY <1>1, <3>2, FileSound DEF e
    <3> QED
      BY <3>3 DEF Asking, AllAsked
  <2> QED
    BY <2>1, <2>2
<1> HIDE DEF w
<1>6. x.w = w
  OBVIOUS
<1> HIDE DEF x
<1> QED
  BY <1>2, <1>5, <1>6 DEF Told

\* With a mode or an owner for several entries the first of them asks, if they are
\* on the same sides and no links.
Alike(r) == /\ \A e, f \in r.multi : Sides(r, e) = Sides(r, f)
            /\ \A e \in r.multi : On(Link, e) \cap Sides(r, e) = {}
LEMMA FirstAsks ==
  ASSUME NEW r, Good(r), NEW op \in Ops, Asks(op), NEW t \in {0, 1, 2, 3}, NEW a, a.esc = Nobody,
         Alike(r), NEW i \in 0..(db_num(r) - 1), At(r, i) \in r.multi,
         NEW v, MarkState(r, op, v), Told(r, op, t, v)
  PROVE  LET x == NextMarked(r, op, t, a, v, i)
         IN  x.at # None => x.w.asked = TRUE \/ NotThere(r, t)
<1> DEFINE b == Fresh(op, t, v)
           e == At(r, i)
           w == File(op, r, a, b, e)
           x == [w |-> w, at |-> i, left |-> w.err /\ op \in {"rm", "mv"}]
           n == Narrow(op, r, b, e)
           s == Side(op, r, n, e)
<1>0. op # "rm" /\ r \in ListType
  BY DEF Asks, Good
<1>1. /\ Sound(op, b) /\ b.tree = t /\ b.stop = FALSE
      /\ b.have = Settled(op, v.at = None) /\ b.asked = (op = "rm" \/ v.w.asked)
  <2>1. Freshly(op, t, v, b)
    BY <1>0, FreshIs
  <2> HIDE DEF b
  <2> QED
    BY <2>1 DEF Freshly
<1>2. NextMarked(r, op, t, a, v, i) \in {v, x}
  BY NextMarkedIs
<1>3. e \in Entry /\ e # DotDot /\ Sides(r, e) # {}
  <2>1. r.multi \subseteq Entry
    BY <1>0 DEF ListType
  <2>2. e \in Entry /\ e # DotDot
    BY <2>1, EntryIs
  <2> QED
    BY <2>2, LineHasSides
<1>4. v.w.asked \in BOOLEAN /\ e \in r.multi
  BY DEF MarkState, Sound, Work
<1> HIDE DEF b, e
<1>5. w.asked = TRUE \/ NotThere(r, t)
  <2>1. CASE Absent(r, b, e)
    <3>1. t # 3 /\ t \notin Sides(r, e)
      BY <1>1, <2>1 DEF Absent
    <3> QED
      BY <1>4, <3>1 DEF Alike, NotThere
  <2>2. CASE ~Absent(r, b, e) /\ ~NotThere(r, t)
    <3>1. w = BothSides(op, r, a, n, e)
      BY <1>1, <1>3, <2>2, ChangeIs
    <3>2. s \in Sides(r, e) /\ b \in Work
      BY <1>0, <1>1, <1>3, <2>2, SideIn DEF Sound
    <3>3. Sound(op, n) /\ n.have = b.have /\ n.asked = b.asked
      BY <1>0, <1>1, <1>3, <3>2, NarrowSound, NarrowIs DEF Narrowed
    <3> HIDE DEF n
    <3>4. ~Skipped(op, r, e, s)
      <4>1. s \notin On(Link, e) /\ s \in {1, 2}
        BY <1>4, <3>2 DEF Alike, Sides, On
      <4> QED
        BY <1>0, <4>1 DEF Skipped, On
    <3>5. a.esc # <<e, s>>
      <4>1. Nobody[1] = None /\ None # e
        BY <1>3, EntryIs DEF Nobody
      <4>2. <<e, s>>[1] = e
        OBVIOUS
      <4> QED
        BY <4>1, <4>2
    <3>6. n.asked = TRUE \/ n.have = FALSE
      <4>1. CASE v.at = None
        <5>1. b.have = FALSE
          BY <1>0, <1>1, <4>1 DEF Settled
        <5> QED
          BY <3>3, <5>1
      <4>2. CASE v.at # None
        <5>1. v.w.asked = TRUE
          BY <2>2, <4>2 DEF Told
        <5>2. b.asked = TRUE
          BY <1>1, <5>1
        <5> QED
          BY <3>3, <5>2
      <4> QED
        BY <4>1, <4>2
    <3>7. BothSides(op, r, a, n, e).asked = TRUE
      BY <1>0, <1>3, <3>3, <3>4, <3>5, <3>6, BothAsked
    <3> QED
      BY <3>1, <3>7
  <2> QED
    BY <2>1, <2>2
<1> HIDE DEF w
<1>6. x.w = w
  OBVIOUS
<1> HIDE DEF x
<1> QED
  BY <1>2, <1>5, <1>6 DEF Told

LEMMA MarkedLines ==
  ASSUME NEW r, Good(r)
  PROVE  /\ Len(Marked(r)) \in Nat
         /\ \A k \in 1..Len(Marked(r)) : /\ Marked(r)[k] \in 0..(db_num(r) - 1)
                                         /\ At(r, Marked(r)[k]) \in r.multi
         /\ Cardinality(r.multi) \in Nat
         /\ Cardinality(r.multi) <= 1 => Len(Marked(r)) <= 1
<1> DEFINE q == Marked(r)
<1>1. Listed(q, MarkedSet(r), db_num(r))
  BY MarkedOf
<1> HIDE DEF q
<1>2. Len(q) \in Nat /\ \A k \in 1..Len(q) : q[k] \in 0..(db_num(r) - 1) /\ At(r, q[k]) \in r.multi
  BY <1>1 DEF Listed, MarkedSet
<1>3. IsFiniteSet(r.multi) /\ Cardinality(r.multi) \in Nat
  <2>1. r.multi \subseteq 1..NumEntry /\ NumEntry \in Nat
    BY EntryIs DEF Good, ListType
  <2>2. IsFiniteSet(1..NumEntry)
    BY <2>1, FS_Interval
  <2> QED
    BY <2>1, <2>2, FS_Subset, FS_CardinalityType
<1>4. ASSUME Len(q) >= 2 PROVE Cardinality(r.multi) >= 2
  <2> DEFINE x == At(r, q[1])
             y == At(r, q[2])
  <2>1. 1 \in 1..Len(q) /\ 2 \in 1..Len(q)
    BY <1>2, <1>4
  <2>2. q[1] # q[2]
    BY <1>1, <2>1 DEF Listed
  <2>3. x # y
    BY <1>2, <2>1, <2>2, LinesAre DEF Good
  <2>4. x \in r.multi /\ y \in r.multi
    BY <1>2, <2>1
  <2> HIDE DEF x, y
  <2>5. IsFiniteSet({x}) /\ Cardinality({x}) = 1
    BY FS_Singleton
  <2>6. y \notin {x}
    BY <2>3
  <2>7. Cardinality({x} \cup {y}) = 2
    BY <2>5, <2>6, FS_AddElement
  <2>8. {x} \cup {y} \subseteq r.multi
    BY <2>4
  <2> QED
    BY <1>3, <2>7, <2>8, FS_Subset
<1> QED
  BY <1>2, <1>3, <1>4 DEF q

LEMMA MarkedAsked ==
  ASSUME NEW r, Good(r), NEW op \in Ops, NEW t \in {0, 1, 2, 3}, op = "rm" => t \in {1, 2, 3}, NEW a,
         \/ ~Asks(op)
         \/ Cardinality(r.multi) <= 1
         \/ a.esc = Nobody /\ Alike(r)
  PROVE  AllAsked(MarkedWork(r, op, t, a).w)
<1> DEFINE q == Marked(r)
           N == Len(q)
<1>1. PICK h : MarkTurns(r, op, t, a, h) /\ MarkedWork(r, op, t, a) = h[N]
  BY MarkTurnsExist
<1>2. h[0] = MarkBegin(t) /\ \A k \in 1..N : h[k] = NextMarked(r, op, t, a, h[k - 1], q[k])
  BY <1>1 DEF MarkTurns
<1>3. /\ N \in Nat /\ \A k \in 1..N : q[k] \in 0..(db_num(r) - 1) /\ At(r, q[k]) \in r.multi
      /\ Cardinality(r.multi) <= 1 => N <= 1
  BY MarkedLines
<1>4. \A k \in 0..N : MarkState(r, op, h[k])
  BY <1>1, MarkedSound
<1> HIDE DEF q
<1>5. Told(r, op, t, h[0])
  <2> DEFINE b == MarkBegin(t)
  <2>1. b.at = None /\ b.w.acts = {}
    BY MarkBeginIs
  <2> HIDE DEF b
  <2> QED
    BY <1>2, <2>1 DEF Told, AllAsked, b
<1>6. ASSUME NEW k \in 1..N, Told(r, op, t, h[k - 1]) PROVE AllAsked(h[k].w)
  <2> DEFINE v == h[k - 1]
             i == q[k]
  <2>1. MarkState(r, op, v) /\ i \in 0..(db_num(r) - 1) /\ At(r, i) \in r.multi
    BY <1>3, <1>4
  <2>2. Told(r, op, t, v) /\ h[k] = NextMarked(r, op, t, a, v, i)
    BY <1>2, <1>6
  <2> HIDE DEF v, i
  <2> QED
    BY <2>1, <2>2, ToldTurn
<1>7. CASE Cardinality(r.multi) <= 1
  <2>1. N = 0 \/ N = 1
    <3>1. N \in Nat /\ N <= 1
      BY <1>3, <1>7
    <3> HIDE DEF N
    <3> QED
      BY <3>1
  <2>2. CASE N = 0
    BY <1>1, <1>5, <2>2 DEF Told
  <2>3. CASE N = 1
    <3>1. 1 \in 1..N /\ 1 - 1 = 0
      BY <2>3
    <3>2. Told(r, op, t, h[1 - 1])
      BY <1>5, <3>1
    <3>3. AllAsked(h[1].w)
      BY <1>6, <3>1, <3>2
    <3> QED
      BY <1>1, <2>3, <3>3
  <2> QED
    BY <2>1, <2>2, <2>3
<1>8. CASE ~Asks(op) \/ (a.esc = Nobody /\ Alike(r))
  <2> DEFINE P == {k \in 0..N : Told(r, op, t, h[k])}
  <2>1. 0 \in P
    BY <1>3, <1>5
  <2>2. ASSUME NEW k \in 1..N, k - 1 \in P PROVE k \in P
    <3> DEFINE v == h[k - 1]
               i == q[k]
    <3>1. MarkState(r, op, v) /\ i \in 0..(db_num(r) - 1) /\ At(r, i) \in r.multi
      BY <1>3, <1>4
    <3>2. Told(r, op, t, v) /\ h[k] = NextMarked(r, op, t, a, v, i)
      BY <1>2, <2>2
    <3>3. AllAsked(h[k].w)
      BY <1>6, <3>2
    <3> HIDE DEF v, i
    <3>4. ASSUME Asks(op) PROVE h[k].at # None => h[k].w.asked = TRUE \/ NotThere(r, t)
      <4>1. a.esc = Nobody /\ Alike(r)
        BY <1>8, <3>4
      <4> DEFINE y == NextMarked(r, op, t, a, v, i)
      <4>2. h[k] = y
        BY <3>2
      <4>3. y.at # None => y.w.asked = TRUE \/ NotThere(r, t)
        BY <3>1, <3>2, <3>4, <4>1, FirstAsks
      <4> HIDE DEF y
      <4> QED
        BY <4>2, <4>3
    <3>5. Told(r, op, t, h[k])
      BY <3>3, <3>4 DEF Told
    <3> QED
      BY <1>3, <3>5
  <2> HIDE DEF P
  <2>3. \A k \in 0..N : k \in P
    BY <1>3, <2>1, <2>2, AfterAllTurns
  <2>4. Told(r, op, t, h[N])
    BY <1>3, <2>3 DEF P
  <2> QED
    BY <1>1, <2>4 DEF Told
<1> QED
  BY <1>7, <1>8

\* What a command does, with lines and with marked entries
OpActs(r, op, t, u0, n, a) ==
  IF r.multi # {} THEN MarkedWork(r, op, t, a).w.acts ELSE LinesWork(r, op, t, u0, n, a).acts
LEMMA OpActsAre ==
  ASSUME NEW r, NEW op, NEW t, NEW u0, NEW n, NEW a
  PROVE  ui_op(r, op, t, u0, n, a).acts \in {{}, OpActs(r, op, t, u0, n, a)}
<1>1. CASE r.multi # {}
  <2> DEFINE v == MarkedWork(r, op, t, a)
             z == OnMarked(r, op, t, a)
  <2>1. \E s : z \in {Result(r, {}, FALSE, 1), Result(s, v.w.acts, TRUE, 1)}
    BY OnMarkedIs
  <2> HIDE DEF v, z
  <2>2. z.acts \in {{}, v.w.acts}
    BY <2>1 DEF Result
  <2> QED
    BY <1>1, <2>2 DEF ui_op, OpActs, v, z
<1>2. CASE r.multi = {}
  <2> DEFINE w == LinesWork(r, op, t, u0, n, a)
             z == OnLines(r, op, t, u0, n, a)
  <2>1. \E s : z \in {Result(r, {}, TRUE, 0), Result(s, w.acts, TRUE, 0)}
    BY OnLinesIs
  <2> HIDE DEF w, z
  <2>2. z.acts \in {{}, w.acts}
    BY <2>1 DEF Result
  <2> QED
    BY <1>2, <2>2 DEF ui_op, OpActs, w, z
<1> QED
  BY <1>1, <1>2

LEMMA OpAsked ==
  ASSUME NEW r, Good(r), NEW op \in Ops, NEW t \in {0, 1, 2, 3}, op = "rm" => t \in {1, 2, 3},
         NEW u0 \in Nat, NEW n \in Nat, NEW a,
         \/ ~Asks(op)
         \/ Cardinality(r.multi) <= 1
         \/ a.esc = Nobody /\ Alike(r)
  PROVE  \A x \in ui_op(r, op, t, u0, n, a).acts : x[3] = TRUE
<1>1. \A x \in MarkedWork(r, op, t, a).w.acts : x[3] = TRUE
  BY MarkedAsked DEF AllAsked
<1>2. \A x \in LinesWork(r, op, t, u0, n, a).acts : x[3] = TRUE
  BY LinesSound DEF Asking
<1>3. \A x \in OpActs(r, op, t, u0, n, a) : x[3] = TRUE
  BY <1>1, <1>2 DEF OpActs
<1> QED
  BY <1>3, OpActsAre

LEMMA CommandAsked ==
  ASSUME NEW r, Good(r), NEW op \in Ops, NEW t \in {0, 1, 2, 3}, op = "rm" => t \in {1, 2, 3},
         NEW u0 \in Nat, NEW n \in Nat, NEW a,
         \/ ~Asks(op)
         \/ Cardinality(r.multi) <= 1
         \/ a.esc = Nobody /\ Alike(r)
  PROVE  \A x \in ui_cmd(r, op, t, u0, n, a).acts : x[3] = TRUE
<1>1. CASE op = "mv" /\ r.mode = "bmode"
  <2>1. ui_cmd(r, op, t, u0, n, a) = ui_op(r, "rename", 3, u0, n, a)
    BY <1>1 DEF ui_cmd, ui_mv
  <2>2. "rename" \in Ops /\ 3 \in {0, 1, 2, 3} /\ "rename" # "rm" /\ ~Asks("rename")
    BY DEF Ops, Asks
  <2> DEFINE z == ui_op(r, "rename", 3, u0, n, a)
  <2>3. \A x \in z.acts : x[3] = TRUE
    BY <2>2, OpAsked
  <2> QED
    BY <2>1, <2>3
<1>2. CASE ~(op = "mv" /\ r.mode = "bmode")
  <2>1. ui_cmd(r, op, t, u0, n, a) = ui_op(r, op, t, u0, n, a)
    BY <1>2 DEF ui_cmd, ui_mv
  <2> DEFINE z == ui_op(r, op, t, u0, n, a)
  <2>2. \A x \in z.acts : x[3] = TRUE
    BY OpAsked
  <2> QED
    BY <2>1, <2>2
<1> QED
  BY <1>1, <1>2

\* What a key did: nothing, a function key, or a command with some answers
LEMMA DidIs ==
  ASSUME NEW k, Press(k)
  PROVE  \/ did' = Nothing
         \/ FunctionKey(k, Seen(k))
         \/ Execute(k, Seen(k))
<1> DEFINE e == Seen(k)
<1>1. NoRun => did' = Nothing
  BY DEF NoRun
<1> HIDE DEF e
<1>2. ASSUME Number(k, e) \/ QuoteMark(k, e) \/ Quote(k, e) \/ Wait(k, e) \/ Move(k, e) \/ Mark(k, e)
             \/ RemoveMark(k, e) \/ Multi(k, e) \/ Sort(k, e) \/ Filter(k, e) \/ Reread(k, e)
             \/ Search(k, e) \/ Inert(k, e)
      PROVE  NoRun
  <2>1. CASE Number(k, e) \/ QuoteMark(k, e) \/ Quote(k, e) \/ Wait(k, e)
    BY <2>1, Zenon DEF Number, QuoteMark, Quote, Wait
  <2>2. CASE Move(k, e) \/ Mark(k, e) \/ RemoveMark(k, e) \/ Multi(k, e)
    BY <2>2, Zenon DEF Move, Mark, RemoveMark, Multi
  <2>3. CASE Sort(k, e) \/ Filter(k, e) \/ Reread(k, e) \/ Search(k, e) \/ Inert(k, e)
    BY <2>3, Zenon DEF Sort, Filter, Reread, Search, Inert
  <2> QED
    BY <1>2, <2>1, <2>2, <2>3
<1> QED
  BY <1>1, <1>2, PressIs DEF e

LEMMA KeyActs ==
  ASSUME NEW k, FunctionKey(k, Seen(k))
  PROVE  /\ did' = Nothing \/ did'.op = "fkey"
         /\ \A x \in did'.acts : /\ x[3] = TRUE
                                 /\ l.multi # {} => \E i \in ToSet(Marked(l)) : x[1] = At(l, i)
<1> DEFINE lines == IF l.multi # {} THEN Marked(l) ELSE Lines(l, l.cur, num)
           acts  == {<<At(l, i), l.col + 1, TRUE>> : i \in ToSet(lines)}
           d == [op |-> "fkey", t |-> 0, u |-> l.cur, n |-> num, acts |-> acts, whole |-> TRUE]
<1>1. did' \in {Nothing, d}
  BY DEF FunctionKey
<1>2. \A x \in acts : x[3] = TRUE /\ (l.multi # {} => \E i \in ToSet(Marked(l)) : x[1] = At(l, i))
  <2>1. ASSUME NEW i \in ToSet(lines)
        PROVE  LET x == <<At(l, i), l.col + 1, TRUE>>
               IN  x[3] = TRUE /\ x[1] = At(l, i) /\ (l.multi # {} => i \in ToSet(Marked(l)))
    BY <2>1
  <2> HIDE DEF lines
  <2> QED
    BY <2>1
<1> HIDE DEF acts
<1>3. d.acts = acts /\ d.op = "fkey" /\ Nothing.acts = {}
  BY DEF Nothing
<1> HIDE DEF d
<1> QED
  BY <1>1, <1>2, <1>3

\* What Execute() did, in terms of the command and the answers
Did(e, op, t, a) ==
  /\ op = Command(e)[1] /\ t = Command(e)[2]
  /\ did'.op = op /\ did'.t = t /\ did'.u = e.u /\ did'.n = e.num
  /\ did'.whole = (a.yes /\ a.esc = Nobody /\ a.bad = Nobody)
  /\ did'.acts = Run(e, op, t, a).acts
LEMMA ExecuteDid ==
  ASSUME NEW k, NEW e, Execute(k, e)
  PROVE  \/ did' = Nothing
         \/ \E op, t : \E a \in Answers(TheirQuestion(e, op), Files(e)) : Did(e, op, t, a)
<1> DEFINE op == Command(e)[1]
           t == Command(e)[2]
<1>1. PICK a \in Answers(TheirQuestion(e, op), Files(e)) :
        did' = IF Run(e, op, t, a).did
               THEN [op |-> op, t |-> t, u |-> e.u, n |-> e.num, acts |-> Run(e, op, t, a).acts,
                     whole |-> a.yes /\ a.esc = Nobody /\ a.bad = Nobody]
               ELSE Nothing
  BY RunList
<1>2. CASE Run(e, op, t, a).did
  <2> DEFINE acts == Run(e, op, t, a).acts
             whole == a.yes /\ a.esc = Nobody /\ a.bad = Nobody
             op0 == op
             t0 == t
  <2>0. did' = [op |-> op0, t |-> t0, u |-> e.u, n |-> e.num, acts |-> acts, whole |-> whole]
    BY <1>1, <1>2
  <2> HIDE DEF acts, whole, op0, t0
  <2>1. /\ did'.op = op0 /\ did'.t = t0 /\ did'.u = e.u /\ did'.n = e.num /\ did'.whole = whole
        /\ did'.acts = acts
    BY <2>0
  <2>2. Did(e, op, t, a)
    BY <2>1 DEF Did, acts, whole, op0, t0
  <2> QED
    BY <2>2
<1>3. CASE ~Run(e, op, t, a).did
  BY <1>1, <1>3
<1> QED
  BY <1>2, <1>3

LEMMA AskedStep ==
  ASSUME LoopOK, NEW k, Press(k), ~Unasked
  PROVE  \A x \in did'.acts : x[3] = TRUE
<1> DEFINE e == Seen(k)
<1>1. CASE did' = Nothing
  BY <1>1 DEF Nothing
<1>2. CASE FunctionKey(k, e)
  BY <1>2, KeyActs
<1>3. CASE Execute(k, e) /\ did' # Nothing
  <2>1. PICK op, t : \E a \in Answers(TheirQuestion(e, op), Files(e)) : Did(e, op, t, a)
    BY <1>3, ExecuteDid
  <2>2. PICK a \in Answers(TheirQuestion(e, op), Files(e)) : Did(e, op, t, a)
    BY <2>1
  <2>3. op \in Ops \cup {"mkdir"} /\ t \in {0, 1, 2, 3} /\ (op = "rm" => t \in {1, 2, 3})
    BY <1>3, <2>2, CommandTyped DEF Did, Execute
  <2>4. e.u \in Nat /\ e.num \in Nat /\ Good(l)
    BY SeenNums DEF LoopOK
  <2> HIDE DEF e
  <2>5. CASE op = "mkdir"
    <3>1. did'.acts = {}
      BY <2>2, <2>5 DEF Did, Run, Result
    <3> QED
      BY <3>1
  <2>6. CASE op # "mkdir"
    <3>1. op \in Ops /\ did'.acts = ui_cmd(l, op, t, e.u, e.num, a).acts
      BY <2>2, <2>3, <2>6 DEF Did, Run
    <3>2. ~Asks(op) \/ Cardinality(l.multi) <= 1 \/ (a.esc = Nobody /\ Alike(l))
      <4>1. ASSUME Asks(op), Cardinality(l.multi) > 1 PROVE a.esc = Nobody /\ Alike(l)
        <5>1. Asks(did'.op) /\ Cardinality(l.multi) > 1
          BY <2>2, <4>1 DEF Did
        <5>2. did'.whole /\ ~Uneven(l.multi) /\ ~\E f \in l.multi : Links(f) # {}
          BY <5>1 DEF Unasked
        <5>3. a.esc = Nobody
          BY <2>2, <5>2 DEF Did
        <5>4. Alike(l)
          BY <5>2 DEF Alike, Uneven, Links
        <5> QED
          BY <5>3, <5>4
      <4>2. Cardinality(l.multi) \in Nat
        BY <2>4, MarkedLines
      <4> QED
        BY <4>1, <4>2
    <3>3. \A x \in ui_cmd(l, op, t, e.u, e.num, a).acts : x[3] = TRUE
      BY <2>3, <2>4, <3>1, <3>2, CommandAsked
    <3> QED
      BY <3>1, <3>3
  <2> QED
    BY <2>5, <2>6
<1> QED
  BY <1>1, <1>2, <1>3, DidIs

\* No file is deleted, copied or changed without the question for it, or for the
\* command, having been asked in this command: `have` is not one of the command
\* before.  Questions that are not asked before the first of several marked entries
\* are excepted (README).
THEOREM NothingUnasked == Init /\ [][Next /\ ~MarkFiltered /\ ~Unasked]_vars => AskedFirst
<1>1. ASSUME LoopOK, [Next /\ ~MarkFiltered /\ ~Unasked]_vars
      PROVE  [\A x \in did'.acts : x[3]]_vars
  <2>1. CASE Next /\ ~Unasked
    <3>1. PICK k \in Keys : Press(k)
      BY <2>1 DEF Next
    <3>2. \A x \in did'.acts : x[3] = TRUE
      BY <1>1, <2>1, <3>1, AskedStep
    <3> QED
      BY <3>2
  <2> QED
    BY <1>1, <2>1
<1>2. LoopOK /\ [Next /\ ~MarkFiltered /\ ~Unasked]_vars => LoopOK'
  BY LoopStep
<1> QED
  BY LoopStarts, <1>1, <1>2, PTL DEF AskedFirst
-----------------------------------------------------------------------------
(* Every side a command is due on: one file, with no answer but yes.       *)
Unhurt(a) == a.esc = Nobody /\ a.bad = Nobody
\* A file that is on the disk as the list has it, and linked on all its sides or on none
WholeFile(r, e) ==
  /\ e \in Entry /\ Sides(r, e) # {} /\ On(r.disk, e) = Sides(r, e)
  /\ On(Link, e) \cap Sides(r, e) \in {{}, Sides(r, e)}
  /\ r.mode # "diff" => Sides(r, e) = {r.col + 1}
DueIn(r, op, t, e) ==
  {s \in Sides(r, e) : /\ s = t \/ t = 3 \/ (op = "rm" /\ r.mode = "bmode")
                       /\ ~(Asks(op) /\ <<e, s>> \in Link)}
Pairs(e, S) == {<<e, s>> : s \in S}
\* tree and ntr before and after a file that has the sides S
Place(op, t, S, w) ==
  /\ t # 3 => w.tree = t /\ w.ntr = 0
  /\ t = 3 /\ S = {1, 2} => (w.tree = 3 /\ w.ntr = 0) \/ (w.tree = 1 /\ w.ntr = 2)
  /\ t = 3 /\ S # {1, 2} => w.ntr = 0 /\ (w.tree = 3 \/ (op = "rm" /\ w.tree \in S))
Going(op, w) == Sound(op, w) /\ w.stop = FALSE /\ w.err = FALSE


SideDone(op, r, w, e, s, v) ==
  /\ v \in Work /\ v.stop = w.stop /\ v.err = w.err
  /\ Skipped(op, r, e, s) => Done(v.acts) = Done(w.acts) /\ v.tree = w.tree /\ v.ntr = w.ntr
                             /\ v.again = FALSE
  /\ ~Skipped(op, r, e, s) =>
       /\ Done(v.acts) = Done(w.acts) \cup {<<e, s>>}
       /\ w.ntr = 0 => v.tree = w.tree /\ v.ntr = 0 /\ v.again = FALSE
       /\ w.ntr = 2 => v.tree = 2 /\ v.again = TRUE /\ v.ntr = IF op = "rename" THEN 0 ELSE 3
       /\ w.ntr = 3 => v.tree = 3 /\ v.ntr = 0 /\ v.again = FALSE
LEMMA OneSideDone ==
  ASSUME NEW op, NEW r, NEW a, Unhurt(a), NEW w \in Work, NEW e \in Entry, NEW s \in {1, 2},
         Side(op, r, w, e) = s
  PROVE  SideDone(op, r, w, e, s, OneSide(op, r, a, w, e))
<1> DEFINE v == OneSide(op, r, a, w, e)
           new == w.acts \cup {<<e, s, Asked2(w)>>}
<1>1. v \in Work /\ Outcome(op, r, a, w, e, s, v)
  BY OneSideIs
<1>2. a.esc # <<e, s>> /\ a.bad # <<e, s>>
  BY EntryIs DEF Unhurt, Nobody
<1>3. Done(new) = Done(w.acts) \cup {<<e, s>>}
  <2> DEFINE y == <<e, s, Asked2(w)>>
  <2>1. y[1] = e /\ y[2] = s
    OBVIOUS
  <2> HIDE DEF y
  <2>2. Done(w.acts \cup {y}) = Done(w.acts) \cup {<<y[1], y[2]>>}
    BY DEF Done
  <2> QED
    BY <2>1, <2>2 DEF y
<1> HIDE DEF v
<1>4. CASE Skipped(op, r, e, s)
  BY <1>1, <1>2, <1>4 DEF Outcome, SideDone, v
<1>5. CASE ~Skipped(op, r, e, s)
  <2>1. v.acts = new /\ v.stop = w.stop /\ v.err = w.err
    BY <1>1, <1>2, <1>5 DEF Outcome
  <2>2. /\ w.ntr = 0 => v.tree = w.tree /\ v.ntr = 0 /\ v.again = FALSE
        /\ w.ntr = 2 => v.tree = 2 /\ v.again = TRUE /\ v.ntr = IF op = "rename" THEN 0 ELSE 3
        /\ w.ntr = 3 => v.tree = 3 /\ v.ntr = 0 /\ v.again = FALSE
    BY <1>1, <1>2, <1>5 DEF Outcome
  <2>3. Done(v.acts) = Done(w.acts) \cup {<<e, s>>}
    BY <1>3, <2>1
  <2> HIDE DEF new
  <2>4. SideDone(op, r, w, e, s, v)
    BY <1>1, <1>5, <2>1, <2>2, <2>3 DEF SideDone
  <2> QED
    BY <2>4 DEF v
<1> QED
  BY <1>4, <1>5

\* One side, or both one after the other
OnceIs(op, r, w, e, s, v) ==
  /\ v.stop = w.stop /\ v.err = w.err /\ v.tree = w.tree /\ v.ntr = 0
  /\ Skipped(op, r, e, s) => Done(v.acts) = Done(w.acts)
  /\ ~Skipped(op, r, e, s) => Done(v.acts) = Done(w.acts) \cup {<<e, s>>}
LEMMA DoneOnce ==
  ASSUME NEW op, NEW r, NEW a, Unhurt(a), NEW w \in Work, w.ntr = 0, NEW e \in Entry, NEW s \in {1, 2},
         Side(op, r, w, e) = s
  PROVE  OnceIs(op, r, w, e, s, BothSides(op, r, a, w, e))
<1> DEFINE v == OneSide(op, r, a, w, e)
<1>1. SideDone(op, r, w, e, s, v)
  BY OneSideDone
<1>2. BothSides(op, r, a, w, e) = IF v.again THEN OneSide(op, r, a, v, e) ELSE v
  BY DEF BothSides
<1> HIDE DEF v
<1>3. v.again = FALSE /\ v.ntr = 0
  BY <1>1 DEF SideDone
<1>4. BothSides(op, r, a, w, e) = v
  BY <1>2, <1>3
<1>5. OnceIs(op, r, w, e, s, v)
  BY <1>1, <1>3 DEF SideDone, OnceIs
<1> QED
  BY <1>4, <1>5

TwiceIs(op, r, w, e, v) ==
  /\ v.stop = w.stop /\ v.err = w.err
  /\ Skipped(op, r, e, 1) => Done(v.acts) = Done(w.acts) /\ v.tree = 1 /\ v.ntr = 2
  /\ ~Skipped(op, r, e, 1) => /\ Done(v.acts) = Done(w.acts) \cup {<<e, 1>>, <<e, 2>>}
                              /\ op # "rename" => v.tree = 3 /\ v.ntr = 0
LEMMA DoneTwice ==
  ASSUME NEW op, NEW r, NEW a, Unhurt(a), NEW w \in Work, w.tree = 1, w.ntr = 2, NEW e \in Entry,
         2 \in Sides(r, e), op = "rm" => r.mode # "bmode",
         Skipped(op, r, e, 1) <=> Skipped(op, r, e, 2)
  PROVE  TwiceIs(op, r, w, e, BothSides(op, r, a, w, e))
<1> DEFINE v == OneSide(op, r, a, w, e)
           x == OneSide(op, r, a, v, e)
           b == BothSides(op, r, a, w, e)
<1>1. Side(op, r, w, e) = 1
  BY DEF Side
<1>2. SideDone(op, r, w, e, 1, v)
  BY <1>1, OneSideDone
<1>3. b = IF v.again THEN x ELSE v
  BY DEF BothSides
<1> HIDE DEF v, b
<1>4. CASE Skipped(op, r, e, 1)
  <2>1. v.again = FALSE
    BY <1>2, <1>4 DEF SideDone
  <2>2. b = v
    BY <1>3, <2>1
  <2> QED
    BY <1>2, <1>4, <2>2 DEF SideDone, TwiceIs, b
<1>5. CASE ~Skipped(op, r, e, 1)
  <2>1. v.again = TRUE /\ v.tree = 2 /\ v \in Work /\ v.ntr = IF op = "rename" THEN 0 ELSE 3
    BY <1>2, <1>5 DEF SideDone
  <2>2. b = x
    BY <1>3, <2>1
  <2>3. Side(op, r, v, e) = 2
    BY <2>1 DEF Side
  <2>4. SideDone(op, r, v, e, 2, x)
    BY <2>1, <2>3, OneSideDone
  <2> HIDE DEF x
  <2>5. Done(x.acts) = Done(v.acts) \cup {<<e, 2>>} /\ Done(v.acts) = Done(w.acts) \cup {<<e, 1>>}
    BY <1>2, <1>5, <2>4 DEF SideDone
  <2>6. op # "rename" => x.tree = 3 /\ x.ntr = 0
    BY <1>5, <2>1, <2>4 DEF SideDone
  <2>7. x.stop = w.stop /\ x.err = w.err
    BY <1>2, <2>4 DEF SideDone
  <2>8. Done(x.acts) = Done(w.acts) \cup {<<e, 1>>, <<e, 2>>}
    BY <2>5
  <2>9. TwiceIs(op, r, w, e, x)
    BY <1>5, <2>6, <2>7, <2>8 DEF TwiceIs
  <2> QED
    BY <2>2, <2>9 DEF b
<1> QED
  BY <1>4, <1>5

Turned == {"rm", "rename", "chmod", "chown", "chgrp"}
LEMMA TurnedIs ==
  ASSUME NEW op \in Turned
  PROVE  op \in Ops /\ ~Copies(op) /\ (Asks(op) <=> op \notin {"rm", "rename"})
BY DEF Turned, Ops, Copies, Asks

\* A side that is left out
LEMMA SkippedIs ==
  ASSUME NEW r, NEW e, WholeFile(r, e), NEW op \in Turned, NEW s \in {1, 2}
  PROVE  /\ s \in Sides(r, e) => (Skipped(op, r, e, s) <=> (Asks(op) /\ <<e, s>> \in Link))
         /\ s \notin Sides(r, e) /\ op = "rm" => Skipped(op, r, e, s)
         /\ \A v \in Sides(r, e) : s \in Sides(r, e) => (<<e, s>> \in Link <=> <<e, v>> \in Link)
<1>1. s \in On(r.disk, e) <=> <<e, s>> \in r.disk
  BY DEF On
<1>2. \A v \in Sides(r, e) : v \in {1, 2} /\ (v \in On(Link, e) <=> <<e, v>> \in Link)
  BY DEF On, Sides
<1>3. On(Link, e) \cap Sides(r, e) \in {{}, Sides(r, e)} /\ On(r.disk, e) = Sides(r, e)
  BY DEF WholeFile
<1>4. s \in Sides(r, e) => (Skipped(op, r, e, s) <=> (Asks(op) /\ <<e, s>> \in Link))
  BY <1>1, <1>3 DEF Skipped
<1>5. s \notin Sides(r, e) /\ op = "rm" => Skipped(op, r, e, s)
  BY <1>1, <1>3 DEF Skipped
<1>6. ASSUME NEW v \in Sides(r, e), s \in Sides(r, e) PROVE <<e, s>> \in Link <=> <<e, v>> \in Link
  BY <1>2, <1>3, <1>6
<1> QED
  BY <1>4, <1>5, <1>6

\* One file: every side it is due on, and the tree as it was for the next
FileIs(r, op, t, e, w, v) ==
  /\ v.err = FALSE /\ Done(v.acts) = Done(w.acts) \cup Pairs(e, DueIn(r, op, t, e))
  /\ op # "rename" => v.stop = FALSE /\ Place(op, t, Sides(r, e), v)
\* s is the only side the command is due on, if there is one
OnlySide(r, op, t, e, s) ==
  /\ \A x \in Sides(r, e) : (x = t \/ t = 3 \/ (op = "rm" /\ r.mode = "bmode")) => x = s
  /\ s \in Sides(r, e) => (s = t \/ t = 3 \/ (op = "rm" /\ r.mode = "bmode"))
  /\ s \in Sides(r, e) \/ op = "rm"
DueDone(r, op, t, e, w, v) ==
  v.err = FALSE /\ v.stop = FALSE /\ Done(v.acts) = Done(w.acts) \cup Pairs(e, DueIn(r, op, t, e))
SameWork(n, w) == n.acts = w.acts /\ n.stop = w.stop /\ n.err = w.err
LEMMA OnceDue ==
  ASSUME NEW r, NEW op \in Turned, NEW t, NEW e, WholeFile(r, e), NEW w, Going(op, w),
         NEW n, SameWork(n, w), NEW s \in {1, 2}, OnlySide(r, op, t, e, s), NEW v,
         OnceIs(op, r, n, e, s, v)
  PROVE  DueDone(r, op, t, e, w, v)
<1> DEFINE D == DueIn(r, op, t, e)
<1>0. /\ \A x \in Sides(r, e) : (x = t \/ t = 3 \/ (op = "rm" /\ r.mode = "bmode")) => x = s
      /\ s \in Sides(r, e) => (s = t \/ t = 3 \/ (op = "rm" /\ r.mode = "bmode"))
      /\ s \in Sides(r, e) \/ op = "rm"
  BY DEF OnlySide
<1>1. v.err = FALSE /\ v.stop = FALSE /\ n.acts = w.acts
  BY DEF OnceIs, Going, SameWork
<1>2. CASE s \in Sides(r, e) /\ ~Skipped(op, r, e, s)
  <2>1. ~(Asks(op) /\ <<e, s>> \in Link)
    BY <1>2, SkippedIs
  <2>2. D = {s}
    BY <1>0, <1>2, <2>1 DEF DueIn
  <2> HIDE DEF D
  <2>3. Pairs(e, D) = {<<e, s>>}
    BY <2>2 DEF Pairs
  <2> QED
    BY <1>1, <1>2, <2>3 DEF OnceIs, DueDone, D
<1>3. CASE s \in Sides(r, e) /\ Skipped(op, r, e, s)
  <2>1. Asks(op) /\ <<e, s>> \in Link
    BY <1>3, SkippedIs
  <2>2. D = {}
    BY <1>0, <1>3, <2>1 DEF DueIn
  <2> HIDE DEF D
  <2>3. Pairs(e, D) = {}
    BY <2>2 DEF Pairs
  <2> QED
    BY <1>1, <1>3, <2>3 DEF OnceIs, DueDone, D
<1>4. CASE s \notin Sides(r, e)
  <2>1. Skipped(op, r, e, s)
    BY <1>0, <1>4, SkippedIs
  <2>2. D = {}
    BY <1>0, <1>4 DEF DueIn
  <2> HIDE DEF D
  <2>3. Pairs(e, D) = {}
    BY <2>2 DEF Pairs
  <2> QED
    BY <1>1, <2>1, <2>3 DEF OnceIs, DueDone, D
<1> QED
  BY <1>2, <1>3, <1>4

LEMMA TwiceDue ==
  ASSUME NEW r, NEW op \in Turned, NEW e, WholeFile(r, e), Sides(r, e) = {1, 2}, NEW w, Going(op, w),
         NEW n, SameWork(n, w), NEW v, TwiceIs(op, r, n, e, v)
  PROVE  FileIs(r, op, 3, e, w, v)
<1> DEFINE D == DueIn(r, op, 3, e)
<1>1. v.err = FALSE /\ v.stop = FALSE /\ n.acts = w.acts
  BY DEF TwiceIs, Going, SameWork
<1>2. /\ Skipped(op, r, e, 1) <=> (Asks(op) /\ <<e, 1>> \in Link)
      /\ <<e, 1>> \in Link <=> <<e, 2>> \in Link
  BY SkippedIs
<1>3. CASE Skipped(op, r, e, 1)
  <2>1. D = {}
    BY <1>2, <1>3 DEF DueIn
  <2> HIDE DEF D
  <2>2. Pairs(e, D) = {}
    BY <2>1 DEF Pairs
  <2>3. Done(v.acts) = Done(w.acts) \cup Pairs(e, D) /\ v.tree = 1 /\ v.ntr = 2
    BY <1>1, <1>3, <2>2 DEF TwiceIs
  <2> QED
    BY <1>1, <2>3 DEF FileIs, Place, D
<1>4. CASE ~Skipped(op, r, e, 1)
  <2>1. D = {1, 2}
    BY <1>2, <1>4 DEF DueIn
  <2> HIDE DEF D
  <2>2. Pairs(e, D) = {<<e, 1>>, <<e, 2>>}
    BY <2>1 DEF Pairs
  <2>3. Done(v.acts) = Done(w.acts) \cup Pairs(e, D) /\ (op # "rename" => v.tree = 3 /\ v.ntr = 0)
    BY <1>1, <1>4, <2>2 DEF TwiceIs
  <2> QED
    BY <1>1, <2>3 DEF FileIs, Place, D
<1> QED
  BY <1>3, <1>4

\* What a command may be for a file without a question that is left open
Open(r, op, t) == /\ op = "rm" => t # 0
                  /\ op = "rm" /\ r.mode = "fmode" => t \in {3, r.col + 1}
                  /\ r.mode = "bmode" => r.col = 0


LEMMA FileDone ==
  ASSUME NEW r \in ListType, NEW a, Unhurt(a), NEW op \in Turned, NEW t \in {0, 1, 2, 3}, Open(r, op, t),
         NEW e, WholeFile(r, e), NEW w, Going(op, w), Place(op, t, Sides(r, e), w)
  PROVE  FileIs(r, op, t, e, w, File(op, r, a, w, e))
<1> DEFINE S == Sides(r, e)
           n == Narrow(op, r, w, e)
           b == BothSides(op, r, a, n, e)
           v == File(op, r, a, w, e)
<1>1. /\ e \in Entry /\ S # {} /\ w \in Work /\ e # DotDot
      /\ S \in {{1}, {2}, {1, 2}}
  BY SidesAre, EntryIs DEF WholeFile, Going, Sound
<1>2. n \in Work /\ Narrowed(op, r, w, e, n)
  BY <1>1, NarrowIs
<1>3. SameWork(n, w)
  BY <1>2 DEF Narrowed, SameWork
<1>0. /\ op = "rm" => v = fs_rm(r, a, w, e)
      /\ op = "rename" => v = fs_rename(r, a, w, e)
  <2>1. ~w.stop /\ ~Copies(op) /\ (Asks(op) <=> op \notin {"rm", "rename"})
    BY TurnedIs DEF Going
  <2> QED
    BY <2>1 DEF File
<1>4. w.tree \in {0, 1, 2, 3}
  BY <1>1 DEF Work
<1>5. r.mode # "diff" => S = {r.col + 1}
  BY DEF WholeFile
<1>6. r.mode \in {"bmode", "fmode", "diff"} /\ r.col \in {0, 1}
  BY DEF ListType
<1> DEFINE Gone == op # "rm" /\ t # 3 /\ t \notin S
<1>7. CASE Gone
  <2>1. Absent(r, w, e)
    BY <1>7 DEF Absent, Place
  <2>2. v = w \/ (op = "rename" /\ v = [w EXCEPT !.stop = TRUE])
    <3>1. w.stop = FALSE
      BY DEF Going
    <3>2. CASE op = "rename"
      <4>1. v = fs_rename(r, a, w, e)
        BY <1>0, <3>2
      <4> QED
        BY <2>1, <3>2, <4>1 DEF fs_rename
    <3>3. CASE op # "rename"
      <4>1. Asks(op) /\ op # "rm" /\ op \in Ops
        BY <1>7, <3>3, TurnedIs
      <4> HIDE DEF v
      <4>2. w.stop = FALSE
        BY DEF Going
      <4> QED
        BY <1>1, <2>1, <4>1, <4>2, ChangeIs DEF v
    <3> QED
      BY <3>2, <3>3
  <2>3. DueIn(r, op, t, e) = {}
    BY <1>7 DEF DueIn
  <2>4. Pairs(e, DueIn(r, op, t, e)) = {}
    BY <2>3 DEF Pairs
  <2>5. v.acts = w.acts /\ v.err = w.err /\ (op # "rename" => v = w)
    <3> HIDE DEF v
    <3> QED
      BY <1>1, <2>2 DEF Work
  <2> HIDE DEF v
  <2>6. FileIs(r, op, t, e, w, v)
    BY <2>4, <2>5 DEF FileIs, Going
  <2> QED
    BY <2>6 DEF v
<1>8. ASSUME ~Gone PROVE v = b
  <2>1. w.stop = FALSE /\ ~w.err
    BY DEF Going
  <2>2. CASE op = "rm"
    <3>1. v = fs_rm(r, a, w, e)
      BY <1>0, <2>2
    <3>2. ~(r.mode = "fmode" /\ w.tree \notin {3, r.col + 1})
      <4>1. CASE t # 3
        BY <2>2, <4>1 DEF Place, Open
      <4>2. CASE t = 3 /\ r.mode = "fmode"
        <5>1. S = {r.col + 1} /\ S # {1, 2}
          BY <1>5, <4>2
        <5> QED
          BY <4>2, <5>1 DEF Place
      <4> QED
        BY <4>1, <4>2
    <3> QED
      BY <1>1, <2>1, <2>2, <3>1, <3>2 DEF fs_rm
  <2>3. ASSUME op # "rm" PROVE ~Absent(r, w, e)
    <3>1. CASE t # 3
      BY <1>8, <2>3, <3>1 DEF Absent, Place
    <3>2. CASE t = 3 /\ S = {1, 2}
      BY <3>2 DEF Absent, Place
    <3>3. CASE t = 3 /\ S # {1, 2}
      BY <2>3, <3>3 DEF Absent, Place
    <3> QED
      BY <3>1, <3>2, <3>3
  <2>4. CASE op = "rename"
    <3>1. v = fs_rename(r, a, w, e)
      BY <1>0, <2>4
    <3>2. a.esc[1] # e
      BY <1>1, EntryIs DEF Unhurt, Nobody
    <3> QED
      BY <1>1, <2>3, <2>4, <3>1, <3>2 DEF fs_rename
  <2>5. CASE op \notin {"rm", "rename"}
    <3>1. Asks(op) /\ op # "rm" /\ op \in Ops
      BY <2>5, TurnedIs
    <3>2. w.stop = FALSE
      BY DEF Going
    <3> HIDE DEF v, b
    <3> QED
      BY <1>1, <2>3, <3>1, <3>2, ChangeIs DEF v, b
  <2> QED
    BY <2>2, <2>4, <2>5
<1>9. CASE t = 3 /\ S = {1, 2} /\ ~Gone
  <2>1. n.tree = 1 /\ n.ntr = 2
    BY <1>2, <1>9 DEF Narrowed, Place
  <2>2. op = "rm" => r.mode # "bmode"
    BY <1>5, <1>9
  <2>3. Skipped(op, r, e, 1) <=> Skipped(op, r, e, 2)
    BY <1>9, SkippedIs
  <2>4. 2 \in Sides(r, e) /\ S = Sides(r, e)
    BY <1>9
  <2> HIDE DEF n, S
  <2>5. TwiceIs(op, r, n, e, b)
    BY <1>1, <1>2, <2>1, <2>2, <2>3, <2>4, DoneTwice
  <2> HIDE DEF b
  <2>6. FileIs(r, op, 3, e, w, b)
    BY <1>3, <1>9, <2>4, <2>5, TwiceDue
  <2> QED
    BY <1>8, <1>9, <2>6
<1>10. CASE ~(t = 3 /\ S = {1, 2}) /\ ~Gone
  <2> DEFINE s == Side(op, r, n, e)
             For(x) == x = t \/ t = 3 \/ (op = "rm" /\ r.mode = "bmode")
  <2>1. n.ntr = 0
    <3>1. CASE t # 3
      BY <1>2, <3>1 DEF Narrowed, Place
    <3>2. CASE t = 3 /\ S # {1, 2}
      BY <1>2, <3>2 DEF Narrowed, Place
    <3> QED
      BY <1>10, <3>1, <3>2
  <2>2. /\ s \in {1, 2} /\ (\A x \in S : For(x) => x = s) /\ (s \in S => For(s)) /\ (s \in S \/ op = "rm")
        /\ op # "rename" => (t # 3 => n.tree = t) /\ (t = 3 => n.tree = 3 \/ (op = "rm" /\ n.tree \in S))
    <3>1. CASE t # 3 /\ op = "rm"
      <4>1. n.tree = t /\ t \in {1, 2}
        BY <1>2, <3>1 DEF Narrowed, Place, Open
      <4>2. CASE r.mode = "bmode"
        <5>1. s = 1 /\ S = {1}
          BY <1>5, <3>1, <4>2 DEF Side, Open
        <5> HIDE DEF s, S
        <5> QED
          BY <3>1, <4>1, <4>2, <5>1
      <4>3. CASE r.mode # "bmode"
        <5>1. s = t
          BY <3>1, <4>1, <4>3 DEF Side
        <5> HIDE DEF s, S
        <5> QED
          BY <3>1, <4>1, <4>3, <5>1
      <4> QED
        BY <4>2, <4>3
    <3>2. CASE t # 3 /\ op # "rm"
      <4>1. n.tree = t /\ t \in S /\ S \subseteq {1, 2}
        BY <1>1, <1>2, <1>10, <3>2 DEF Narrowed, Place
      <4>2. s = t
        BY <3>2, <4>1 DEF Side
      <4> HIDE DEF s, S
      <4> QED
        BY <3>2, <4>1, <4>2
    <3>3. CASE t = 3 /\ op = "rm"
      <4>1. S \in {{1}, {2}}
        BY <1>1, <1>10, <3>3
      <4>2. n.tree \in S
        BY <1>2, <3>3, <4>1 DEF Narrowed, Place
      <4>3. s \in S
        <5>1. CASE r.mode = "bmode"
          BY <1>5, <3>3, <5>1 DEF Side, Open
        <5>2. CASE r.mode # "bmode"
          BY <3>3, <4>2, <5>2 DEF Side
        <5> QED
          BY <5>1, <5>2
      <4> HIDE DEF s, S
      <4> QED
        BY <3>3, <4>1, <4>2, <4>3
    <3>4. CASE t = 3 /\ op # "rm"
      <4>1. S \in {{1}, {2}}
        BY <1>1, <1>10, <3>4
      <4>2. n.tree = 3
        BY <1>2, <3>4, <4>1 DEF Narrowed, Place
      <4>3. s \in S
        BY <3>4, <4>1, <4>2 DEF Side
      <4> HIDE DEF s, S
      <4> QED
        BY <3>4, <4>1, <4>2, <4>3
    <3> QED
      BY <3>1, <3>2, <3>3, <3>4
  <2> HIDE DEF s, S, n
  <2>3. OnceIs(op, r, n, e, s, b)
    BY <1>1, <1>2, <2>1, <2>2, DoneOnce DEF s
  <2> HIDE DEF b
  <2>4. DueDone(r, op, t, e, w, b)
    <3>1. OnlySide(r, op, t, e, s) /\ s \in {1, 2}
      BY <2>2 DEF S, OnlySide
    <3> QED
      BY <1>3, <2>3, <3>1, OnceDue
  <2>5. b.tree = n.tree /\ b.ntr = 0
    BY <2>3 DEF OnceIs
  <2>6. op # "rename" => Place(op, t, S, b)
    BY <1>10, <2>2, <2>5 DEF Place
  <2>7. FileIs(r, op, t, e, w, b)
    BY <2>4, <2>6 DEF FileIs, DueDone, S
  <2> QED
    BY <1>8, <1>10, <2>7
<1> QED
  BY <1>7, <1>9, <1>10

\* The lines of a command, each on every side it is due on
DueAll(r, op, t, E) == UNION {Pairs(e, DueIn(r, op, t, e)) : e \in E}
LEMMA DotSkipped ==
  ASSUME NEW op \in Turned \ {"rename"}, NEW r, NEW a, NEW w, Going(op, w),
         op = "rm" /\ r.mode = "fmode" => w.tree \in {3, r.col + 1}
  PROVE  File(op, r, a, w, DotDot) = w
<1>1. ~w.stop /\ ~Copies(op) /\ (Asks(op) <=> op \notin {"rm", "rename"}) /\ op # "rename"
  BY TurnedIs DEF Going
<1>2. /\ op = "rm" => File(op, r, a, w, DotDot) = fs_rm(r, a, w, DotDot)
      /\ op # "rm" => File(op, r, a, w, DotDot) = Change(op, r, a, w, DotDot)
  BY <1>1 DEF File
<1>3. op = "rm" => fs_rm(r, a, w, DotDot) = w
  BY DEF fs_rm
<1>4. Change(op, r, a, w, DotDot) = w
  BY DEF Change
<1> QED
  BY <1>2, <1>3, <1>4

LEMMA DueWith ==
  ASSUME NEW r, NEW op, NEW t, NEW E, NEW e
  PROVE  DueAll(r, op, t, E \cup {e}) = DueAll(r, op, t, E) \cup Pairs(e, DueIn(r, op, t, e))
BY DEF DueAll

\* Where the loop is after some lines
Lined(r, op, t, S, q, k, w) ==
  /\ Going(op, w) /\ Place(op, t, S, w)
  /\ Done(w.acts) = DueAll(r, op, t, {At(r, q[j]) : j \in 1..k} \ {DotDot})
LEMMA LineTurn ==
  ASSUME NEW r, Good(r), NEW a, Unhurt(a), NEW op \in Turned \ {"rename"}, NEW t \in {0, 1, 2, 3},
         Open(r, op, t), NEW S, r.mode # "diff" => S = {r.col + 1}, NEW q, NEW k \in Nat, k >= 1,
         q[k] \in 0..(db_num(r) - 1),
         At(r, q[k]) # DotDot => WholeFile(r, At(r, q[k])) /\ Sides(r, At(r, q[k])) = S,
         NEW w, Lined(r, op, t, S, q, k - 1, w)
  PROVE  Lined(r, op, t, S, q, k, File(op, r, a, w, At(r, q[k])))
<1> DEFINE e == At(r, q[k])
           v == File(op, r, a, w, e)
           E == {At(r, q[j]) : j \in 1..(k - 1)} \ {DotDot}
           F == {At(r, q[j]) : j \in 1..k} \ {DotDot}
<1>1. Going(op, w) /\ Place(op, t, S, w) /\ Done(w.acts) = DueAll(r, op, t, E)
  BY DEF Lined
<1>2. 1..k = (1..(k - 1)) \cup {k}
  OBVIOUS
<1>3. CASE e = DotDot
  <2>1. op = "rm" /\ r.mode = "fmode" => w.tree \in {3, r.col + 1}
    <3>1. CASE t # 3
      BY <1>1, <3>1 DEF Place, Open
    <3>2. CASE t = 3 /\ r.mode = "fmode"
      <4>1. S = {r.col + 1} /\ S # {1, 2}
        BY <3>2
      <4> QED
        BY <1>1, <3>2, <4>1 DEF Place
    <3> QED
      BY <3>1, <3>2
  <2>2. v = w
    BY <1>1, <1>3, <2>1, DotSkipped
  <2>3. F = E
    BY <1>2, <1>3
  <2> HIDE DEF E, F, v
  <2>4. Done(v.acts) = DueAll(r, op, t, F) /\ Going(op, v) /\ Place(op, t, S, v)
    BY <1>1, <2>2, <2>3
  <2> QED
    BY <2>4 DEF Lined, F, v
<1>4. CASE e # DotDot
  <2>1. WholeFile(r, e) /\ Sides(r, e) = S /\ r \in ListType /\ op \in Turned /\ op # "rename"
    BY <1>4 DEF Good
  <2>2. FileIs(r, op, t, e, w, v)
    <3> HIDE DEF e
    <3> QED
      BY <1>1, <2>1, FileDone
  <2>3. Sound(op, v)
    <3>1. Sound(op, w) /\ op \in Ops
      BY <1>1, TurnedIs DEF Going
    <3> QED
      BY <3>1, FileSound
  <2>4. F = E \cup {e}
    BY <1>2, <1>4
  <2> HIDE DEF E, F, v, e
  <2>5. Done(v.acts) = DueAll(r, op, t, F)
    <3>1. Done(v.acts) = DueAll(r, op, t, E) \cup Pairs(e, DueIn(r, op, t, e))
      BY <1>1, <2>2 DEF FileIs
    <3>2. DueAll(r, op, t, E \cup {e}) = DueAll(r, op, t, E) \cup Pairs(e, DueIn(r, op, t, e))
      BY DueWith
    <3> QED
      BY <2>4, <3>1, <3>2
  <2>6. Going(op, v) /\ Place(op, t, S, v)
    BY <2>1, <2>2, <2>3 DEF FileIs, Going
  <2> QED
    BY <2>5, <2>6 DEF Lined, F, v, e
<1> QED
  BY <1>3, <1>4

LineBegin(op, t, n) == Begin(t, op = "rm" /\ n > 1, op = "rm" /\ n > 1)
LineTurns(r, op, t, u0, n, a, h) ==
  /\ h[0] = LineBegin(op, t, n) /\ Len(Lines(r, u0, n)) \in Nat
  /\ \A k \in 1..Len(Lines(r, u0, n)) : h[k] = File(op, r, a, h[k - 1], At(r, Lines(r, u0, n)[k]))
LEMMA LineTurnsExist ==
  ASSUME NEW r, Good(r), NEW op, NEW t, NEW u0 \in Nat, NEW n \in Nat, NEW a
  PROVE  \E h : /\ LineTurns(r, op, t, u0, n, a, h)
                /\ LinesWork(r, op, t, u0, n, a) = h[Len(Lines(r, u0, n))]
<1> DEFINE q == Lines(r, u0, n)
<1>1. q \in Seq(Int) /\ Len(q) \in Nat
  BY LinesOf DEF Listed
<1>2. PICK h : /\ InTurn("lines", r, op, t, a, Begin(t, op = "rm" /\ n > 1, op = "rm" /\ n > 1), q, h)
               /\ LinesWork(r, op, t, u0, n, a) = h[Len(q)]
  BY <1>1, LinesInTurn
<1>3. LineTurns(r, op, t, u0, n, a, h)
  BY <1>1, <1>2 DEF LineTurns, LineBegin, InTurn, Turn
<1> QED
  BY <1>2, <1>3

LineBegun(op, t, n, b) == /\ Going(op, b) /\ b.acts = {} /\ b.tree = t /\ b.ntr = 0
                          /\ (b.have = TRUE) <=> (op = "rm" /\ n > 1)
LEMMA LineBeginIs ==
  ASSUME NEW op, NEW t \in {0, 1, 2, 3}, op = "rm" => t \in {1, 2, 3}, NEW n \in Nat
  PROVE  LineBegun(op, t, n, LineBegin(op, t, n))
<1> DEFINE f == (op = "rm" /\ n > 1)
<1>1. f \in BOOLEAN
  OBVIOUS
<1>2. (f = TRUE) <=> (op = "rm" /\ n > 1)
  OBVIOUS
<1>3. LineBegin(op, t, n) = Begin(t, f, f)
  BY DEF LineBegin
<1> HIDE DEF f
<1> DEFINE b == Begin(t, f, f)
<1>4. Begun(op, t, f, f, b)
  BY <1>1, BeginIs
<1> HIDE DEF b
<1>5. LineBegun(op, t, n, b)
  BY <1>2, <1>4 DEF Begun, Going, LineBegun
<1> QED
  BY <1>3, <1>5 DEF b

Cover(r, u0, n) == {At(r, i) : i \in LineSet(r, u0, n)} \ {DotDot}
WholeLines(r, S, u0, n) ==
  /\ r.mode # "diff" => S = {r.col + 1}
  /\ \A i \in LineSet(r, u0, n) : At(r, i) # DotDot => WholeFile(r, At(r, i)) /\ Sides(r, At(r, i)) = S
LinesAreDone(r, op, t, u0, n, a) == Done(LinesWork(r, op, t, u0, n, a).acts) = DueAll(r, op, t, Cover(r, u0, n))
LEMMA LinesDone ==
  ASSUME NEW r, Good(r), NEW a, Unhurt(a), NEW op \in Turned \ {"rename"}, NEW t \in {0, 1, 2, 3},
         Open(r, op, t), NEW S, NEW u0 \in Nat, NEW n \in Nat, WholeLines(r, S, u0, n)
  PROVE  LinesAreDone(r, op, t, u0, n, a)
<1> DEFINE q == Lines(r, u0, n)
           N == Len(q)
           b == LineBegin(op, t, n)
           L == LineSet(r, u0, n)
<1>1. /\ q \in Seq(Int) /\ N \in Nat
      /\ \A k \in 1..N : q[k] \in L /\ q[k] \in 0..(db_num(r) - 1)
      /\ \A x \in L : \E k \in 1..N : q[k] = x
  BY LinesOf DEF Listed
<1>2. PICK h : LineTurns(r, op, t, u0, n, a, h) /\ LinesWork(r, op, t, u0, n, a) = h[N]
  BY LineTurnsExist, SMTT(30)
<1>3. Lined(r, op, t, S, q, 0, b)
  <2>1. op = "rm" => t \in {1, 2, 3}
    BY DEF Open
  <2>2. Going(op, b) /\ b.acts = {} /\ b.tree = t /\ b.ntr = 0
    <3>1. LineBegun(op, t, n, b)
      BY <2>1, LineBeginIs
    <3> QED
      BY <3>1 DEF LineBegun
  <2> HIDE DEF b, q
  <2>4. Going(op, b) /\ Place(op, t, S, b)
    BY <2>2 DEF Place
  <2>5. b.acts = {}
    BY <2>2
  <2>6. Done(b.acts) = {}
    BY <2>5 DEF Done
  <2>7. {At(r, q[j]) : j \in 1..0} \ {DotDot} = {}
    OBVIOUS
  <2>8. DueAll(r, op, t, {At(r, q[j]) : j \in 1..0} \ {DotDot}) = {}
    BY <2>7 DEF DueAll
  <2> QED
    BY <2>4, <2>6, <2>8 DEF Lined
<1>4. h[0] = b /\ \A k \in 1..N : h[k] = File(op, r, a, h[k - 1], At(r, q[k]))
  BY <1>2 DEF LineTurns
<1> HIDE DEF b, q, L
<1> DEFINE P == {k \in 0..N : Lined(r, op, t, S, q, k, h[k])}
<1>5. 0 \in P
  BY <1>1, <1>3, <1>4
<1>6. ASSUME NEW k \in 1..N, k - 1 \in P PROVE k \in P
  <2> DEFINE w == h[k - 1]
             i == q[k]
  <2>1. Lined(r, op, t, S, q, k - 1, w) /\ k \in Nat /\ k >= 1 /\ k \in 0..N
    BY <1>1, <1>6
  <2>2. i \in 0..(db_num(r) - 1) /\ i \in L
    BY <1>1
  <2>3. At(r, i) # DotDot => WholeFile(r, At(r, i)) /\ Sides(r, At(r, i)) = S
    BY <2>2 DEF L, WholeLines
  <2>4. h[k] = File(op, r, a, w, At(r, i))
    BY <1>4
  <2> HIDE DEF w
  <2>5. Lined(r, op, t, S, q, k, File(op, r, a, w, At(r, q[k])))
    <3>1. r.mode # "diff" => S = {r.col + 1}
      BY DEF WholeLines
    <3> QED
      BY <2>1, <2>2, <2>3, <3>1, LineTurn
  <2> QED
    BY <2>1, <2>4, <2>5
<1> HIDE DEF P
<1>7. \A k \in 0..N : k \in P
  BY <1>1, <1>5, <1>6, AfterAllTurns
<1>8. Lined(r, op, t, S, q, N, h[N])
  BY <1>1, <1>7 DEF P
<1>9. {At(r, q[j]) : j \in 1..N} = {At(r, i) : i \in L}
  BY <1>1
<1> QED
  BY <1>2, <1>8, <1>9 DEF Lined, L, LinesAreDone, Cover

\* A delete that is for the other column goes there for the first line.
LEMMA ForeignLines ==
  ASSUME NEW r, Good(r), r.mode = "fmode", NEW a, Unhurt(a), NEW t \in {1, 2, 3}, t \notin {3, r.col + 1},
         NEW u0 \in Nat, NEW n \in Nat, LineSet(r, u0, n) # {}
  PROVE  \E x \in LinesWork(r, "rm", t, u0, n, a).acts : x[1] = Foreign
<1> DEFINE q == Lines(r, u0, n)
           N == Len(q)
           b == LineBegin("rm", t, n)
           L == LineSet(r, u0, n)
           y == <<Foreign, t, TRUE>>
           Went(k, w) == w \in Work /\ w.stop = FALSE /\ w.tree = t /\ (k >= 1 => y \in w.acts)
<1>0. y \in Acted /\ y[1] = Foreign
  BY DEF Acted
<1>1. /\ q \in Seq(Int) /\ N \in Nat
      /\ \A x \in L : \E k \in 1..N : q[k] = x
  BY LinesOf DEF Listed
<1>2. PICK h : LineTurns(r, "rm", t, u0, n, a, h) /\ LinesWork(r, "rm", t, u0, n, a) = h[N]
  BY LineTurnsExist
<1>3. Went(0, b)
  <2>1. LineBegun("rm", t, n, b)
    <3>1. t \in {0, 1, 2, 3}
      OBVIOUS
    <3> QED
      BY <3>1, LineBeginIs
  <2> HIDE DEF b
  <2> QED
    BY <2>1 DEF LineBegun, Going, Sound
<1>4. h[0] = b /\ \A k \in 1..N : h[k] = File("rm", r, a, h[k - 1], At(r, q[k]))
  BY <1>2 DEF LineTurns
<1> HIDE DEF b, q, L, y
<1>5. ASSUME NEW w \in Work, w.stop = FALSE, w.tree = t, NEW e
      PROVE  LET v == File("rm", r, a, w, e)
             IN  v \in Work /\ v.stop = FALSE /\ v.tree = t /\ y \in v.acts
  <2> DEFINE new == w.acts \cup {y}
             g == [w EXCEPT !.acts = new]
  <2>0. ~Asks("rm") /\ ~Copies("rm") /\ ~w.stop
    BY <1>5 DEF Asks, Copies
  <2>1. File("rm", r, a, w, e) = fs_rm(r, a, w, e)
    BY <2>0 DEF File
  <2>2. fs_rm(r, a, w, e) = g
    BY <1>5 DEF fs_rm, Unhurt, y
  <2>3. new \in SUBSET Acted /\ y \in new
    BY <1>0 DEF Work
  <2> HIDE DEF new
  <2>4. g \in Work /\ g.acts = new /\ g.stop = w.stop /\ g.tree = w.tree
    BY <2>3, WithActs
  <2> QED
    BY <1>5, <2>1, <2>2, <2>3, <2>4
<1> DEFINE P == {k \in 0..N : Went(k, h[k])}
<1>6. 0 \in P
  BY <1>1, <1>3, <1>4
<1>7. ASSUME NEW k \in 1..N, k - 1 \in P PROVE k \in P
  <2> DEFINE w == h[k - 1]
             e == At(r, q[k])
  <2>1. w \in Work /\ w.stop = FALSE /\ w.tree = t
    BY <1>7
  <2>2. h[k] = File("rm", r, a, w, e)
    BY <1>4
  <2> HIDE DEF w, e
  <2>3. h[k] \in Work /\ h[k].stop = FALSE /\ h[k].tree = t /\ y \in h[k].acts
    BY <1>5, <2>1, <2>2
  <2> QED
    BY <1>1, <2>3
<1> HIDE DEF P
<1>8. \A k \in 0..N : k \in P
  BY <1>1, <1>6, <1>7, AfterAllTurns
<1>9. N >= 1
  <2>1. L # {}
    BY DEF L
  <2>2. \E k \in 1..N : TRUE
    BY <1>1, <2>1
  <2> QED
    BY <1>1, <2>2
<1>10. y \in h[N].acts
  BY <1>1, <1>8, <1>9 DEF P
<1> QED
  BY <1>0, <1>2, <1>10

-----------------------------------------------------------------------------
(* Outside diff mode the list is what is on the disk, and that is one side: *)
(* a delete that ends in the middle has deleted nothing, as the question is *)
(* only asked for a single file.                                            *)
OnDisk(r) ==
  /\ r.mode # "fmode" => r.col = 0
  /\ r.mode # "diff" => r.type = r.disk /\ r.disk \subseteq Entry \X {r.col + 1}

LEMMA OneColumn ==
  ASSUME NEW r \in ListType, OnDisk(r), r.mode # "diff", NEW e, Sides(r, e) # {}
  PROVE  Sides(r, e) = {r.col + 1} /\ On(r.disk, e) = Sides(r, e) /\ Sides(r, e) # {1, 2}
<1>1. r.type = r.disk /\ r.disk \subseteq Entry \X {r.col + 1} /\ r.col \in {0, 1}
  BY DEF OnDisk, ListType
<1>2. \A s \in Sides(r, e) : s = r.col + 1
  BY <1>1 DEF Sides, On
<1>3. Sides(r, e) = {r.col + 1} /\ On(r.disk, e) = Sides(r, e)
  BY <1>1, <1>2 DEF Sides
<1> QED
  BY <1>1, <1>3

RmIs(w, v) ==
  /\ v \in Work /\ v.have = w.have
  /\ v.stop = TRUE => w.have = FALSE /\ v.acts = w.acts /\ v.again = FALSE
  /\ w.ntr = 0 => v.again = FALSE
LEMMA RmSide ==
  ASSUME NEW r, NEW a, NEW w \in Work, w.stop = FALSE, NEW e \in Entry, NEW s \in {1, 2},
         Side("rm", r, w, e) = s
  PROVE  RmIs(w, OneSide("rm", r, a, w, e))
<1> DEFINE v == OneSide("rm", r, a, w, e)
           op == "rm"
<1>1. v \in Work /\ Outcome(op, r, a, w, e, s, v)
  BY OneSideIs
<1>2. ~Asks(op) /\ op = "rm"
  BY DEF Asks
<1>3. w.have \in BOOLEAN /\ (w.have \/ Asks(op)) = w.have
  BY <1>2 DEF Work
<1> HIDE DEF v, op
<1>4. v.have = w.have
  BY <1>1, <1>3 DEF Outcome
<1>5. v.stop = TRUE => w.have = FALSE /\ v.acts = w.acts /\ v.again = FALSE
  BY <1>1, <1>2 DEF Outcome
<1>6. w.ntr = 0 => v.again = FALSE
  BY <1>1 DEF Outcome
<1>7. RmIs(w, v)
  BY <1>1, <1>4, <1>5, <1>6 DEF RmIs
<1> QED
  BY <1>7 DEF v, op

RmLeft(w, v) ==
  /\ w.have = TRUE => v.have = TRUE /\ v.stop = FALSE
  /\ w.ntr = 0 /\ v.stop = TRUE => v.acts = w.acts
LEMMA RmBoth ==
  ASSUME NEW r, NEW a, NEW w \in Work, w.stop = FALSE, NEW e \in Entry,
         r.mode # "bmode" => w.tree \in {1, 2}
  PROVE  RmLeft(w, BothSides("rm", r, a, w, e))
<1> DEFINE v == OneSide("rm", r, a, w, e)
           x == OneSide("rm", r, a, v, e)
           b == BothSides("rm", r, a, w, e)
<1>1. RmIs(w, v)
  <2>1. Side("rm", r, w, e) \in {1, 2}
    BY SideIs
  <2> QED
    BY <2>1, RmSide
<1>2. b = IF v.again THEN x ELSE v
  BY DEF BothSides
<1>3. v.again = TRUE => v.tree = 2
  <2>1. Side("rm", r, w, e) \in {1, 2}
    BY SideIs
  <2>2. PICK s \in {1, 2} : Side("rm", r, w, e) = s
    BY <2>1
  <2>3. Outcome("rm", r, a, w, e, s, v)
    BY <2>2, OneSideIs
  <2> HIDE DEF v
  <2> QED
    BY <2>3 DEF Outcome
<1> HIDE DEF v, b
<1>4. v.again \in BOOLEAN /\ v.stop \in BOOLEAN /\ v \in Work
  BY <1>1 DEF RmIs, Work
<1>5. CASE v.again = FALSE
  <2>1. b = v
    BY <1>2, <1>5
  <2>2. RmLeft(w, v)
    BY <1>1, <1>4 DEF RmIs, RmLeft
  <2> QED
    BY <2>1, <2>2 DEF b
<1>6. CASE v.again = TRUE
  <2>1. b = x /\ v.stop = FALSE /\ w.ntr # 0 /\ v.tree = 2
    BY <1>1, <1>2, <1>3, <1>4, <1>6 DEF RmIs
  <2>2. Side("rm", r, v, e) \in {1, 2}
    BY <2>1, SideIs
  <2>3. RmIs(v, x)
    BY <1>4, <2>1, <2>2, RmSide
  <2> HIDE DEF x
  <2>4. x.stop \in BOOLEAN
    BY <2>3 DEF RmIs, Work
  <2>5. RmLeft(w, x)
    BY <1>1, <2>1, <2>3, <2>4 DEF RmIs, RmLeft
  <2> QED
    BY <2>1, <2>5 DEF b
<1> QED
  BY <1>4, <1>5, <1>6

\* A file of a list that is one side
LEMMA RmFile ==
  ASSUME NEW r, Good(r), OnDisk(r), r.mode # "diff", NEW a, NEW i \in 0..(db_num(r) - 1),
         NEW w, Sound("rm", w), w.stop = FALSE
  PROVE  RmLeft(w, File("rm", r, a, w, At(r, i)))
<1> DEFINE e == At(r, i)
           n == Narrow("rm", r, w, e)
           b == BothSides("rm", r, a, n, e)
           new == w.acts \cup {<<Foreign, w.tree, TRUE>>}
           g == [w EXCEPT !.acts = new]
           v == File("rm", r, a, w, e)
<1>1. w \in Work /\ w.tree \in {1, 2, 3} /\ r \in ListType /\ ~w.stop /\ w.have \in BOOLEAN
  BY DEF Sound, Work, Good
<1>2. v = fs_rm(r, a, w, e)
  <2>1. ~Asks("rm") /\ ~Copies("rm")
    BY DEF Asks, Copies
  <2> QED
    BY <1>1, <2>1 DEF File
<1>3. v = w \/ v = g \/ (v = b /\ e # DotDot)
  BY <1>2 DEF fs_rm
<1>4. CASE v = w
  BY <1>1, <1>4 DEF RmLeft
<1>5. CASE v = g
  <2>1. g.have = w.have /\ g.stop = w.stop
    BY <1>1 DEF Work
  <2> HIDE DEF g
  <2>2. RmLeft(w, g)
    BY <2>1 DEF RmLeft
  <2> QED
    BY <1>5, <2>2
<1>6. CASE v = b /\ e # DotDot
  <2>1. e \in Entry /\ Sides(r, e) # {}
    BY <1>6, LineHasSides
  <2>2. Sides(r, e) # {1, 2}
    BY <1>1, <2>1, OneColumn
  <2>3. n \in Work /\ Narrowed("rm", r, w, e, n) /\ n.tree \in {1, 2}
    BY <1>1, <2>1, NarrowIs, NarrowSound
  <2> HIDE DEF n, e
  <2>4. n.stop = FALSE /\ n.have = w.have /\ n.acts = w.acts /\ n.ntr = w.ntr
    BY <1>1, <2>2, <2>3 DEF Narrowed
  <2>5. RmLeft(n, b)
    BY <2>1, <2>3, <2>4, RmBoth
  <2> HIDE DEF b
  <2>6. RmLeft(w, b)
    BY <2>4, <2>5 DEF RmLeft
  <2> QED
    BY <1>6, <2>6 DEF e
<1> QED
  BY <1>3, <1>4, <1>5, <1>6

LEMMA CopyGoesOn ==
  ASSUME NEW op \in Ops, Copies(op), NEW r, NEW a, NEW w \in Work, w.stop = FALSE, NEW e
  PROVE  File(op, r, a, w, e).stop = FALSE
<1> DEFINE to == IF w.tree # 0 THEN w.tree ELSE fs_get_dst(r, op, e)
           new == w.acts \cup {<<e, s, TRUE>> : s \in IF to = 3 THEN {1, 2} ELSE {to}}
           g == [w EXCEPT !.acts = new]
           f == [w EXCEPT !.err = TRUE]
           v == File(op, r, a, w, e)
<1>1. v = fs_cp(op, r, a, w, e)
  <2>1. ~w.stop /\ op \notin {"rm", "rename"} /\ ~Asks(op)
    BY DEF Copies, Asks
  <2> QED
    BY <2>1 DEF File
<1>2. v \in {w, f, g}
  BY <1>1 DEF fs_cp
<1>3. f.stop = w.stop
  BY DEF Work
<1> HIDE DEF new
<1>4. g.stop = w.stop
  BY DEF Work
<1> HIDE DEF v, f, g
<1> QED
  BY <1>2, <1>3, <1>4 DEF v

\* A delete or a move that is given up has done nothing yet.
LEMMA LinesLeft ==
  ASSUME NEW r, Good(r), OnDisk(r), r.mode # "diff", NEW op \in {"rm", "mv"}, NEW t \in {0, 1, 2, 3},
         op = "rm" => t \in {1, 2, 3}, NEW u0 \in Nat, NEW n \in Nat, NEW a
  PROVE  LET w == LinesWork(r, op, t, u0, n, a) IN w.stop = TRUE => w.acts = {}
<1> DEFINE q == Lines(r, u0, n)
           N == Len(q)
           b == LineBegin(op, t, n)
<1>1. PICK h : LineTurns(r, op, t, u0, n, a, h) /\ LinesWork(r, op, t, u0, n, a) = h[N]
  BY LineTurnsExist
<1>2. h[0] = b /\ N \in Nat /\ \A k \in 1..N : h[k] = File(op, r, a, h[k - 1], At(r, q[k]))
  BY <1>1 DEF LineTurns
<1>3. /\ \A k \in 1..N : q[k] \in LineSet(r, u0, n) /\ q[k] \in 0..(db_num(r) - 1)
      /\ \A j, k \in 1..N : q[j] = q[k] => j = k
  BY LinesOf DEF Listed
<1>4. LineBegun(op, t, n, b)
  BY LineBeginIs
<1>5. Going(op, b) /\ b.acts = {} /\ b.ntr = 0 /\ ((b.have = TRUE) <=> (op = "rm" /\ n > 1))
  BY <1>4 DEF LineBegun
<1>6. op \in Ops
  BY DEF Ops
<1> HIDE DEF b, q
<1>7. CASE op = "mv" \/ n > 1
  <2> DEFINE P == {k \in 0..N : /\ Sound(op, h[k]) /\ h[k].stop = FALSE
                                /\ op = "rm" => h[k].have = TRUE}
  <2>1. 0 \in P
    BY <1>2, <1>5, <1>7 DEF Going
  <2>2. ASSUME NEW k \in 1..N, k - 1 \in P PROVE k \in P
    <3> DEFINE w == h[k - 1]
               i == q[k]
               v == File(op, r, a, w, At(r, i))
    <3>1. Sound(op, w) /\ w.stop = FALSE /\ (op = "rm" => w.have = TRUE)
      BY <2>2
    <3>2. i \in 0..(db_num(r) - 1) /\ h[k] = v
      BY <1>2, <1>3
    <3> HIDE DEF w, i
    <3>3. Sound(op, v)
      BY <1>6, <3>1, <3>2, FileSound
    <3>4. CASE op = "mv"
      <4>1. Copies(op) /\ w \in Work
        BY <3>1, <3>4 DEF Copies, Sound
      <4>2. v.stop = FALSE
        BY <1>6, <3>1, <4>1, CopyGoesOn
      <4> HIDE DEF v
      <4> QED
        BY <1>2, <3>2, <3>3, <3>4, <4>2
    <3>5. CASE op = "rm"
      <4>1. RmLeft(w, File("rm", r, a, w, At(r, i)))
        BY <3>1, <3>2, <3>5, RmFile
      <4>2. RmLeft(w, v)
        BY <3>5, <4>1
      <4> HIDE DEF v
      <4>3. v.have = TRUE /\ v.stop = FALSE
        BY <3>1, <3>5, <4>2 DEF RmLeft
      <4> QED
        BY <1>2, <3>2, <3>3, <4>3
    <3> QED
      BY <3>4, <3>5
  <2> HIDE DEF P
  <2>3. \A k \in 0..N : k \in P
    BY <1>2, <2>1, <2>2, AfterAllTurns
  <2>4. h[N].stop = FALSE
    BY <1>2, <2>3 DEF P
  <2> QED
    BY <1>1, <2>4
<1>8. CASE op = "rm" /\ n <= 1
  <2>1. N = 0 \/ N = 1
    <3>1. ASSUME N > 1 PROVE FALSE
      <4>1. 1 \in 1..N /\ 2 \in 1..N
        BY <1>2, <3>1
      <4>2. q[1] \in LineSet(r, u0, n) /\ q[2] \in LineSet(r, u0, n) /\ q[1] # q[2]
        BY <1>3, <4>1
      <4>3. \A x, y \in LineSet(r, u0, n) : x = y
        BY <1>8 DEF LineSet
      <4> QED
        BY <4>2, <4>3
    <3>2. N \in Nat
      BY <1>2
    <3> HIDE DEF N
    <3> QED
      BY <3>1, <3>2
  <2>2. CASE N = 0
    BY <1>1, <1>2, <1>5, <2>2 DEF Going
  <2>3. CASE N = 1
    <3> DEFINE i == q[1]
               v == File("rm", r, a, b, At(r, i))
    <3>1. 1 \in 1..N /\ 1 - 1 = 0
      BY <2>3
    <3>2. i \in 0..(db_num(r) - 1)
      BY <1>3, <3>1
    <3>3. h[1] = v
      BY <1>2, <1>8, <3>1
    <3> HIDE DEF i
    <3>4. RmLeft(b, v)
      BY <1>5, <1>8, <3>2, RmFile DEF Going
    <3> HIDE DEF v
    <3>5. v.stop = TRUE => v.acts = {}
      BY <1>5, <3>4 DEF RmLeft
    <3> QED
      BY <1>1, <2>3, <3>3, <3>5
  <2> QED
    BY <2>1, <2>2, <2>3
<1>9. op = "mv" \/ n > 1 \/ (op = "rm" /\ n <= 1)
  <2>1. n > 1 \/ n <= 1
    OBVIOUS
  <2>2. op = "rm" \/ op = "mv"
    OBVIOUS
  <2> QED
    BY <2>1, <2>2
<1> QED
  BY <1>7, <1>8, <1>9

Effected(r, op, acts, s) ==
  /\ Good(s) /\ s.type = r.type /\ s.mode = r.mode /\ s.col = r.col
  /\ r.mode # "diff" => /\ s.disk \subseteq r.disk
                        /\ op \notin {"rm", "mv"} \/ acts = {} => s.disk = r.disk
LEMMA EffectKeeps ==
  ASSUME NEW r, Good(r), NEW op, NEW acts \in SUBSET Acted, op # "rm" => \A x \in acts : x[1] \in Entry
  PROVE  Effected(r, op, acts, Effect(r, op, acts))
<1> DEFINE s == Effect(r, op, acts)
           made == IF r.mode = "diff" /\ Copies(op) THEN Done(acts) ELSE {}
           gone == CASE op = "rm" -> Done(acts)
                     [] op = "mv" -> {<<f[1], 3 - f[2]>> : f \in Done(acts)}
                     [] OTHER -> {}
<1>1. r \in ListType
  BY DEF Good
<1>2. Good(s) /\ s = [r EXCEPT !.disk = s.disk]
  BY EffectIs
<1>3. s = [r EXCEPT !.disk = (r.disk \ gone) \cup made]
  BY DEF Effect
<1>4. r.mode # "diff" => made = {}
  OBVIOUS
<1>5. op \notin {"rm", "mv"} => gone = {}
  OBVIOUS
<1>6. acts = {} => gone = {}
  <2>1. acts = {} => Done(acts) = {}
    BY DEF Done
  <2> HIDE DEF s, made
  <2> QED
    BY <2>1
<1> HIDE DEF made, gone, s
<1>7. s.disk = (r.disk \ gone) \cup made
  BY <1>1, <1>3 DEF ListType
<1>8. s.type = r.type /\ s.mode = r.mode /\ s.col = r.col
  BY <1>1, <1>2 DEF ListType
<1>9. r.mode # "diff" => /\ s.disk \subseteq r.disk
                         /\ op \notin {"rm", "mv"} \/ acts = {} => s.disk = r.disk
  BY <1>4, <1>5, <1>6, <1>7
<1>10. Effected(r, op, acts, s)
  BY <1>2, <1>8, <1>9 DEF Effected
<1> QED
  BY <1>10 DEF s

\* The list that is made again is what is on the disk.
LEMMA RebuiltOnDisk ==
  ASSUME NEW r, NEW s, OnDisk(r), Good(s), s.mode = r.mode, s.col = r.col,
         r.mode # "diff" => s.disk \subseteq r.disk
  PROVE  OnDisk(rebuild_db(s))
<1> DEFINE z == rebuild_db(s)
<1>1. z.type = s.disk /\ z.disk = s.disk /\ z.mode = s.mode /\ z.col = s.col
  BY RebuiltIs DEF Good, Marking
<1> HIDE DEF z
<1>2. OnDisk(z)
  BY <1>1 DEF OnDisk
<1> QED
  BY <1>2 DEF z

LEMMA RereadOnDisk ==
  ASSUME NEW r, Good(r), OnDisk(r)
  PROVE  OnDisk(rebuild_db_1(r))
<1> DEFINE s == rebuild_db_1(r)
<1>1. r \in ListType /\ Unmarking(r)
  BY DEF Good, Marking
<1>2. s.type = r.disk /\ s.disk = r.disk /\ s.mode = r.mode /\ s.col = r.col
  BY <1>1, RereadIs
<1> HIDE DEF s
<1> QED
  BY <1>2 DEF OnDisk, s

LEMMA RebuildOnDisk ==
  ASSUME NEW r, NEW s, NEW op, OnDisk(r), Good(s), s.mode = r.mode, s.col = r.col, s.type = r.type,
         r.mode # "diff" => s.disk \subseteq r.disk,
         r.mode # "diff" /\ op \notin {"rm", "mv"} => s.disk = r.disk
  PROVE  OnDisk(Rebuild(s, op))
<1>1. CASE ~(s.mode = "fmode" /\ op \in {"cp", "cpdir", "ln"})
  <2>1. Rebuild(s, op) = rebuild_db(s)
    BY <1>1 DEF Rebuild
  <2> QED
    BY <2>1, RebuiltOnDisk
<1>2. CASE s.mode = "fmode" /\ op \in {"cp", "cpdir", "ln"}
  <2> DEFINE z == Unmarked(s)
  <2>1. Rebuild(s, op) = z
    BY <1>2 DEF Rebuild
  <2>2. s \in ListType /\ Unmarking(s)
    BY DEF Good, Marking
  <2>3. z = [s EXCEPT !.mark = z.mark, !.idx = z.idx]
    BY <2>2, UnmarkedIs
  <2> HIDE DEF z
  <2>4. z.type = s.type /\ z.disk = s.disk /\ z.mode = s.mode /\ z.col = s.col
    BY <2>2, <2>3 DEF ListType
  <2>5. OnDisk(z)
    BY <1>2, <2>4 DEF OnDisk
  <2> QED
    BY <2>1, <2>5
<1> QED
  BY <1>1, <1>2

LEMMA LinesOnDisk ==
  ASSUME NEW r, Good(r), OnDisk(r), NEW op \in Ops, NEW t \in {0, 1, 2, 3}, op = "rm" => t \in {1, 2, 3},
         NEW u0 \in Nat, NEW n \in Nat, NEW a
  PROVE  OnDisk(OnLines(r, op, t, u0, n, a).l)
<1> DEFINE w == LinesWork(r, op, t, u0, n, a)
           s == Effect(r, op, w.acts)
           z == OnLines(r, op, t, u0, n, a)
           rebuilt == ~w.stop /\ (w.acts # {} \/ op = "rename" \/ Asks(op) \/ (op = "rm" /\ w.err))
<1>1. Sound(op, w)
  BY LinesSound
<1>2. z = IF db_num(r) = 0 \/ (n > 1 /\ ~a.yes) THEN Result(r, {}, TRUE, 0)
          ELSE Result(IF rebuilt THEN Rebuild(s, op) ELSE s, w.acts, TRUE, 0)
  BY OnLinesIs
<1>3. r.mode # "diff" /\ op \in {"rm", "mv"} => (w.stop = TRUE => w.acts = {})
  BY LinesLeft
<1> HIDE DEF w, z
<1>4. Effected(r, op, w.acts, s)
  <2>1. w.acts \in SUBSET Acted /\ (op # "rm" => \A x \in w.acts : x[1] \in Entry)
    BY <1>1 DEF Sound, Work
  <2> QED
    BY <2>1, EffectKeeps
<1>5. w.stop \in BOOLEAN
  BY <1>1 DEF Sound, Work
<1> HIDE DEF s
<1>6. z.l = r \/ (rebuilt /\ z.l = Rebuild(s, op)) \/ (~rebuilt /\ z.l = s)
  <2> HIDE DEF rebuilt
  <2> QED
    BY <1>2 DEF Result
<1>7. ASSUME ~rebuilt PROVE OnDisk(s)
  <2>1. w.stop = TRUE \/ w.acts = {}
    BY <1>5, <1>7
  <2>2. r.mode # "diff" => s.disk = r.disk
    BY <1>3, <1>4, <2>1 DEF Effected
  <2> QED
    BY <1>4, <2>2 DEF Effected, OnDisk
<1>8. OnDisk(Rebuild(s, op))
  BY <1>4, RebuildOnDisk DEF Effected
<1> QED
  BY <1>6, <1>7, <1>8 DEF z

LEMMA MarkedWorkIs ==
  ASSUME NEW r, Good(r), NEW op \in Ops, NEW t \in {0, 1, 2, 3}, op = "rm" => t \in {1, 2, 3}, NEW a
  PROVE  MarkState(r, op, MarkedWork(r, op, t, a))
<1>1. PICK h : MarkTurns(r, op, t, a, h) /\ MarkedWork(r, op, t, a) = h[Len(Marked(r))]
  BY MarkTurnsExist
<1>2. Len(Marked(r)) \in 0..Len(Marked(r))
  BY <1>1 DEF MarkTurns
<1> QED
  BY <1>1, <1>2, MarkedSound

LEMMA MarkedOnDisk ==
  ASSUME NEW r, Good(r), OnDisk(r), NEW op \in Ops, NEW t \in {0, 1, 2, 3}, op = "rm" => t \in {1, 2, 3}, NEW a
  PROVE  OnDisk(OnMarked(r, op, t, a).l)
<1> DEFINE v == MarkedWork(r, op, t, a)
           f == Effect(r, op, v.w.acts)
           p == IF v.left THEN v.at ELSE None
           s == [f EXCEPT !.prev = p]
           z == OnMarked(r, op, t, a)
<1>1. MarkState(r, op, v)
  BY MarkedWorkIs
<1>2. z \in {Result(r, {}, FALSE, 1), Result(rebuild_db(s), v.w.acts, TRUE, 1), Result(Rebuild(s, op), v.w.acts, TRUE, 1)}
  BY OnMarkedIs
<1>3. z.l \in {r, rebuild_db(s), Rebuild(s, op)}
  BY <1>2 DEF Result
<1> HIDE DEF v, z
<1>4. Effected(r, op, v.w.acts, f)
  <2>1. v.w.acts \in SUBSET Acted /\ (op # "rm" => \A x \in v.w.acts : x[1] \in Entry)
    BY <1>1 DEF MarkState, Sound, Work
  <2> QED
    BY <2>1, EffectKeeps
<1> HIDE DEF f
<1>5. Good(f) /\ f \in ListType /\ f.type = r.type /\ f.mode = r.mode /\ f.col = r.col
  BY <1>4 DEF Effected, Good
<1>6. p \in {None} \cup 0..NumEntry
  <2>1. r \in ListType /\ db_num(r) \in 0..(NumEntry + 1) /\ NumEntry \in Nat
    BY LinesAre, EntryIs DEF Good
  <2>2. v.at \in {None} \cup 0..(db_num(r) - 1)
    BY <1>1 DEF MarkState
  <2> QED
    BY <2>1, <2>2
<1> HIDE DEF p
<1>7. s \in ListType
  BY <1>5, <1>6 DEF ListType
<1>8. /\ s.type = f.type /\ s.hidden = f.hidden /\ s.mode = f.mode /\ s.list = f.list /\ s.disk = f.disk
      /\ s.mark = f.mark /\ s.idx = f.idx /\ s.cur = f.cur /\ s.col = f.col
  BY <1>5 DEF ListType
<1> HIDE DEF s
<1>9. Made(s) /\ db_num(s) = db_num(f) /\ Marking(s)
  BY <1>5, <1>7, <1>8, SameLines
<1>10. CurIn(s)
  BY <1>5, <1>8, <1>9 DEF Good, CurIn
<1>11. Good(s)
  BY <1>7, <1>9, <1>10 DEF Good
<1>12. OnDisk(rebuild_db(s)) /\ OnDisk(Rebuild(s, op))
  <2>1. /\ s.mode = r.mode /\ s.col = r.col /\ s.type = r.type
        /\ r.mode # "diff" => s.disk \subseteq r.disk
        /\ r.mode # "diff" /\ op \notin {"rm", "mv"} => s.disk = r.disk
    BY <1>4, <1>5, <1>8 DEF Effected
  <2> QED
    BY <1>11, <2>1, RebuiltOnDisk, RebuildOnDisk
<1> QED
  BY <1>3, <1>12 DEF z

LEMMA CommandOnDisk ==
  ASSUME NEW r, Good(r), OnDisk(r), NEW op \in Ops, NEW t \in {0, 1, 2, 3}, op = "rm" => t \in {1, 2, 3},
         NEW u0 \in Nat, NEW n \in Nat, NEW a
  PROVE  OnDisk(ui_cmd(r, op, t, u0, n, a).l)
<1>1. ASSUME NEW o \in Ops, NEW x \in {0, 1, 2, 3}, o = "rm" => x \in {1, 2, 3}
      PROVE  OnDisk(ui_op(r, o, x, u0, n, a).l)
  BY <1>1, LinesOnDisk, MarkedOnDisk DEF ui_op
<1>2. CASE op = "mv" /\ r.mode = "bmode"
  <2>1. ui_cmd(r, op, t, u0, n, a) = ui_op(r, "rename", 3, u0, n, a)
    BY <1>2 DEF ui_cmd, ui_mv
  <2>2. "rename" \in Ops /\ 3 \in {0, 1, 2, 3} /\ "rename" # "rm"
    BY DEF Ops
  <2>3. OnDisk(ui_op(r, "rename", 3, u0, n, a).l)
    BY <1>1, <2>2
  <2> QED
    BY <2>1, <2>3
<1>3. CASE ~(op = "mv" /\ r.mode = "bmode")
  <2>1. ui_cmd(r, op, t, u0, n, a) = ui_op(r, op, t, u0, n, a)
    BY <1>3 DEF ui_cmd, ui_mv
  <2> QED
    BY <1>1, <2>1
<1> QED
  BY <1>2, <1>3

-----------------------------------------------------------------------------
(* The loop keeps the list as it is on the disk.                           *)
SameFiles(s, r) == s.mode = r.mode /\ s.col = r.col /\ s.disk = r.disk /\ s.type = r.type
LEMMA SameOnDisk ==
  ASSUME NEW r, NEW s, OnDisk(r), SameFiles(s, r)
  PROVE  OnDisk(s)
BY DEF OnDisk, SameFiles

LEMMA QuietOnDisk ==
  ASSUME NEW r, Good(r), OnDisk(r), NEW s, QuietList(r, s), ~(s.hidden # r.hidden /\ r.idx >= 0)
  PROVE  OnDisk(s)
<1>1. r \in ListType
  BY DEF Good
<1>2. CASE s = r
  BY <1>2
<1>3. CASE s = rebuild_db(r) \/ s = rebuild_db_1(r)
  BY <1>3, RebuiltOnDisk, RereadOnDisk
<1> SUFFICES ASSUME s # r, s # rebuild_db(r), s # rebuild_db_1(r) PROVE SameFiles(s, r)
  BY <1>2, <1>3, SameOnDisk
<1>4. CASE s = clr_mark(r)
  <2>1. s = [r EXCEPT !.mark = None, !.idx = None]
    BY <1>4, ClearedIs
  <2> QED
    BY <1>1, <2>1 DEF ListType, SameFiles
<1>5. CASE s = set_mark(clr_mark(r))
  <2> DEFINE c == clr_mark(r)
  <2>1. Good(c) /\ c = [r EXCEPT !.mark = None, !.idx = None]
    BY ClearedIs
  <2> HIDE DEF c
  <2>2. c.mode = r.mode /\ c.col = r.col /\ c.disk = r.disk /\ c.type = r.type
    BY <1>1, <2>1 DEF ListType
  <2> DEFINE z == set_mark(c)
  <2>3. z.mode = c.mode /\ z.col = c.col /\ z.disk = c.disk /\ z.type = c.type
    BY <2>1, MarkSetIs
  <2>4. s = z
    BY <1>5 DEF c
  <2> HIDE DEF z
  <2> QED
    BY <2>2, <2>3, <2>4 DEF SameFiles
<1>6. CASE \E i : s = [r EXCEPT !.cur = i] /\ (Good(r) => i \in Int /\ i \in 0..Max({0, db_num(r) - 1}))
  <2>1. PICK i : s = [r EXCEPT !.cur = i]
    BY <1>6
  <2> QED
    BY <1>1, <2>1 DEF ListType, SameFiles
<1>7. CASE \E h : /\ s = re_sort_list([r EXCEPT !.hidden = h])
                  /\ r \in ListType => h \in SUBSET Entry
  <2>1. PICK h \in SUBSET Entry : s = re_sort_list([r EXCEPT !.hidden = h])
    BY <1>1, <1>7
  <2>2. s.hidden = h
    BY <1>1, <2>1, HiddenIs
  <2>3. r.idx \in Int
    BY <1>1 DEF ListType
  <2>4. h = r.hidden \/ r.idx < 0
    BY <2>2, <2>3
  <2> QED
    BY <2>1, <2>4, ResortedIs DEF SameFiles
<1>8. CASE db_num(r) > 0 /\ s = key_mmrk(r)
  BY <1>8, VIs DEF SameFiles
<1>9. CASE s = mmrktobot(r)
  BY <1>9, VGIs DEF SameFiles
<1> QED
  BY <1>4, <1>5, <1>6, <1>7, <1>8, <1>9 DEF QuietList

LEMMA OnDiskStarts ==
  ASSUME Init
  PROVE  OnDisk(l)
<1>1. PICK mode \in {"bmode", "fmode", "diff"}, col \in {0, 1}, disk \in SUBSET (Entry \X {1, 2}) :
        /\ mode # "fmode" => col = 0
        /\ mode # "diff" => disk \subseteq Entry \X {col + 1}
        /\ l = diff_db_sort([mode |-> mode, col |-> col, disk |-> disk, type |-> disk,
                             hidden |-> {}, list |-> <<>>, multi |-> {}, prev |-> None,
                             mark |-> None, idx |-> None, cur |-> 0])
  BY Zenon DEF Init
<1> DEFINE a == [mode |-> mode, col |-> col, disk |-> disk, type |-> disk,
                 hidden |-> {}, list |-> <<>>, multi |-> {}, prev |-> None,
                 mark |-> None, idx |-> None, cur |-> 0]
<1>2. <<>> \in Seq(Entry \cup {DotDot})
  OBVIOUS
<1>3. a \in ListType
  BY <1>2, EntryIs DEF ListType, Files2
<1>4. a.mode = mode /\ a.col = col /\ a.disk = disk /\ a.type = disk
  OBVIOUS
<1> HIDE DEF a
<1>5. l = diff_db_sort(a)
  BY <1>1 DEF a
<1>6. l \in ListType /\ l = [a EXCEPT !.list = InOrder(Shown(a))]
  BY <1>3, <1>5, SortedIs
<1>7. SameFiles(l, a)
  BY <1>3, <1>6 DEF ListType, SameFiles
<1>8. OnDisk(a)
  BY <1>1, <1>4 DEF OnDisk
<1> QED
  BY <1>7, <1>8, SameOnDisk

LEMMA OnDiskStep ==
  ASSUME LoopOK, OnDisk(l), [Next /\ ~MarkFiltered]_vars
  PROVE  OnDisk(l')
<1>1. CASE UNCHANGED vars
  <2>1. l' = l
    BY <1>1 DEF vars
  <2> QED
    BY <2>1
<1>2. CASE Next /\ ~MarkFiltered
  <2>1. PICK k \in Keys : Press(k)
    BY <1>2 DEF Next
  <2>2. Good(l)
    BY DEF LoopOK
  <2> DEFINE e == Seen(k)
  <2>3. CASE ~Execute(k, e)
    <3>1. QuietList(l, l')
      BY <2>1, <2>3, QuietIs
    <3> QED
      BY <1>2, <2>2, <3>1, QuietOnDisk DEF MarkFiltered
  <2>4. CASE Execute(k, e)
    <3> DEFINE op == Command(e)[1]
               t == Command(e)[2]
    <3>1. PICK a : l' = Run(e, op, t, a).l
      BY <2>4, RunList
    <3>2. op \in Ops \cup {"mkdir"} /\ t \in {0, 1, 2, 3} /\ (op = "rm" => t \in {1, 2, 3})
      BY <2>4, CommandTyped DEF Execute
    <3>3. e.u \in Nat /\ e.num \in Nat
      BY SeenNums
    <3> HIDE DEF op, t, e
    <3>4. CASE op = "mkdir"
      <4>1. l' \in {l, rebuild_db(l)}
        BY <3>1, <3>4 DEF Run, Result
      <4> QED
        BY <2>2, <4>1, RebuiltOnDisk
    <3>5. CASE op # "mkdir"
      <4>1. op \in Ops /\ l' = ui_cmd(l, op, t, e.u, e.num, a).l
        BY <3>1, <3>2, <3>5 DEF Run
      <4> QED
        BY <2>2, <3>2, <3>3, <4>1, CommandOnDisk
    <3> QED
      BY <3>4, <3>5
  <2> QED
    BY <2>3, <2>4
<1> QED
  BY <1>1, <1>2

-----------------------------------------------------------------------------
(* A delete, a mode or an owner for a number of lines.                     *)
Level(r, E) == /\ \A e \in E : On(r.disk, e) = Sides(r, e) /\ On(Link, e) \cap Sides(r, e) \in {{}, Sides(r, e)}
               /\ \A e, f \in E : Sides(r, e) = Sides(r, f)
LEMMA NoLines ==
  ASSUME NEW r, Good(r), NEW op \in Ops, NEW t \in {0, 1, 2, 3}, op = "rm" => t \in {1, 2, 3},
         NEW u0 \in Nat, NEW n \in Nat, NEW a, LineSet(r, u0, n) = {}
  PROVE  LinesWork(r, op, t, u0, n, a).acts = {}
<1> DEFINE q == Lines(r, u0, n)
           b == LineBegin(op, t, n)
           N == Len(q)
<1>1. PICK h : LineTurns(r, op, t, u0, n, a, h) /\ LinesWork(r, op, t, u0, n, a) = h[N]
  BY LineTurnsExist
<1>2. h[0] = b
  BY <1>1 DEF LineTurns
<1>3. Len(q) \in Nat /\ \A k \in 1..Len(q) : q[k] \in LineSet(r, u0, n)
  BY LinesOf DEF Listed
<1>4. Len(q) = 0
  <2>1. ~(1 \in 1..Len(q))
    BY <1>3
  <2> QED
    BY <1>3, <2>1
<1>5. b.acts = {}
  <2>1. LineBegun(op, t, n, b)
    BY LineBeginIs
  <2> QED
    BY <2>1 DEF LineBegun
<1> QED
  BY <1>1, <1>2, <1>4, <1>5

LEMMA LinesDue ==
  ASSUME NEW r, Good(r), OnDisk(r), NEW a, Unhurt(a), NEW op \in Turned \ {"rename"}, NEW t \in {0, 1, 2, 3},
         op = "rm" => t \in {1, 2, 3}, NEW u0 \in Nat, NEW n \in Nat,
         r.mode = "diff" => Level(r, Cover(r, u0, n)),
         \A x \in LinesWork(r, op, t, u0, n, a).acts : x[1] # Foreign
  PROVE  LinesAreDone(r, op, t, u0, n, a)
<1> DEFINE L == LineSet(r, u0, n)
           E == Cover(r, u0, n)
<1>1. r \in ListType /\ r.col \in {0, 1}
  BY DEF Good, ListType
<1>2. CASE L = {}
  <2>1. LinesWork(r, op, t, u0, n, a).acts = {}
    BY <1>2, TurnedIs, NoLines
  <2>2. E = {}
    BY <1>2 DEF Cover
  <2>3. Done({}) = {} /\ DueAll(r, op, t, {}) = {}
    BY DEF Done, DueAll
  <2> QED
    BY <2>1, <2>2, <2>3 DEF LinesAreDone
<1>3. CASE L # {}
  <2>1. Open(r, op, t)
    <3>1. op = "rm" /\ r.mode = "fmode" => t \in {3, r.col + 1}
      BY <1>3, ForeignLines
    <3>2. r.mode = "bmode" => r.col = 0
      BY DEF OnDisk
    <3> QED
      BY <3>1, <3>2 DEF Open
  <2>2. \A i \in L : i \in 0..(db_num(r) - 1) /\ (At(r, i) # DotDot => At(r, i) \in E)
    <3>1. db_num(r) \in Nat
      BY InLines
    <3> QED
      BY <3>1 DEF LineSet, Cover
  <2>3. \A e \in E : e \in Entry /\ Sides(r, e) # {}
    <3>1. ASSUME NEW i \in L, At(r, i) # DotDot PROVE At(r, i) \in Entry /\ Sides(r, At(r, i)) # {}
      BY <2>2, <3>1, LineHasSides
    <3> QED
      BY <3>1 DEF Cover
  <2> DEFINE f == CHOOSE e \in E : TRUE
             S == IF r.mode = "diff" THEN Sides(r, f) ELSE {r.col + 1}
  <2>4. \A e \in E : WholeFile(r, e) /\ Sides(r, e) = S
    <3> SUFFICES ASSUME NEW e \in E PROVE WholeFile(r, e) /\ Sides(r, e) = S
      OBVIOUS
    <3>1. e \in Entry /\ Sides(r, e) # {}
      BY <2>3
    <3>2. f \in E
      OBVIOUS
    <3> HIDE DEF f, E
    <3>3. CASE r.mode = "diff"
      <4>1. Level(r, E)
        BY <3>3 DEF E
      <4>2. Sides(r, e) = S
        BY <3>2, <3>3, <4>1 DEF Level
      <4> HIDE DEF S
      <4> QED
        BY <3>1, <3>3, <4>1, <4>2 DEF Level, WholeFile
    <3>4. CASE r.mode # "diff"
      <4>1. Sides(r, e) = {r.col + 1} /\ On(r.disk, e) = Sides(r, e)
        BY <1>1, <3>1, <3>4, OneColumn
      <4>2. On(Link, e) \cap Sides(r, e) \in {{}, Sides(r, e)}
        BY <4>1
      <4>3. S = {r.col + 1}
        BY <3>4
      <4> QED
        BY <3>1, <4>1, <4>2, <4>3 DEF WholeFile
    <3> QED
      BY <3>3, <3>4
  <2>5. r.mode # "diff" => S = {r.col + 1}
    OBVIOUS
  <2> HIDE DEF S
  <2>6. \A i \in LineSet(r, u0, n) : At(r, i) # DotDot => WholeFile(r, At(r, i)) /\ Sides(r, At(r, i)) = S
    BY <2>2, <2>4
  <2>7. WholeLines(r, S, u0, n)
    BY <2>5, <2>6 DEF WholeLines
  <2> QED
    BY <2>1, <2>7, LinesDone
<1> QED
  BY <1>2, <1>3

Own(acts) == \A x \in acts : x[1] # Foreign
LEMMA CommandDue ==
  ASSUME NEW r, Good(r), OnDisk(r), NEW a, Unhurt(a), a.yes, NEW op \in Turned \ {"rename"}, NEW t \in {0, 1, 2, 3},
         op = "rm" => t \in {1, 2, 3}, NEW u0 \in Nat, NEW n \in Nat, r.multi = {},
         r.mode = "diff" => Level(r, Cover(r, u0, n)),
         Own(ui_cmd(r, op, t, u0, n, a).acts)
  PROVE  Done(ui_cmd(r, op, t, u0, n, a).acts) = DueAll(r, op, t, Cover(r, u0, n))
<1> DEFINE w == LinesWork(r, op, t, u0, n, a)
           z == ui_cmd(r, op, t, u0, n, a)
<1>1. op # "mv"
  BY DEF Turned
<1>2. z = OnLines(r, op, t, u0, n, a)
  BY <1>1 DEF ui_cmd, ui_op
<1>3. \E s : OnLines(r, op, t, u0, n, a) = IF db_num(r) = 0 THEN Result(r, {}, TRUE, 0) ELSE Result(s, w.acts, TRUE, 0)
  BY OnLinesIs
<1> HIDE DEF w, z
<1>4. CASE db_num(r) = 0
  <2>1. z.acts = {}
    BY <1>2, <1>3, <1>4 DEF Result
  <2>2. Cover(r, u0, n) = {}
    BY <1>4 DEF Cover, LineSet
  <2>3. Done({}) = {} /\ DueAll(r, op, t, {}) = {}
    BY DEF Done, DueAll
  <2> QED
    BY <2>1, <2>2, <2>3 DEF z
<1>5. CASE db_num(r) # 0
  <2>1. z.acts = w.acts
    BY <1>2, <1>3, <1>5 DEF Result
  <2>2. \A x \in w.acts : x[1] # Foreign
    BY <2>1 DEF z, Own
  <2>3. Done(w.acts) = DueAll(r, op, t, Cover(r, u0, n))
    BY <2>2, LinesDue DEF w, LinesAreDone
  <2> QED
    BY <2>1, <2>3 DEF z
<1> QED
  BY <1>4, <1>5

Chmods == {"rm", "chmod", "chown", "chgrp"}
LEMMA CoveredIs ==
  ASSUME Good(l), did'.u \in Nat, NEW n \in Nat
  PROVE  Covered(n) = Cover(l, did'.u, n)
<1>1. ToSet(Lines(l, did'.u, n)) = LineSet(l, did'.u, n)
  BY LinesOf DEF Listed
<1> QED
  BY <1>1 DEF Covered, Cover

LEMMA DueIs ==
  ASSUME NEW op, NEW t, NEW E, \A e \in E : On(l.disk, e) = Sides(l, e)
  PROVE  Due(op, t, E) = DueAll(l, op, t, E)
<1>1. ASSUME NEW e \in E PROVE DueOn(op, t, e) = DueIn(l, op, t, e)
  <2>1. On(l.type \cap l.disk, e) = Sides(l, e)
    <3>1. On(l.disk, e) = Sides(l, e)
      OBVIOUS
    <3> QED
      BY <3>1 DEF On, Sides
  <2> QED
    BY <2>1 DEF DueOn, DueIn
<1> QED
  BY <1>1 DEF Due, DueAll, Pairs

LEMMA EveryLineStep ==
  ASSUME LoopOK, OnDisk(l), NEW k, Press(k), ~SidesDiffer, ~OtherColumn, did'.op \in Chmods, did'.whole,
         l.multi = {}
  PROVE  Done(did'.acts) = Due(did'.op, did'.t, Covered(did'.n))
<1> DEFINE e == Seen(k)
<1>1. did' # Nothing
  BY DEF Nothing, Chmods
<1>2. ~FunctionKey(k, e)
  BY <1>1, KeyActs DEF Chmods
<1>3. Execute(k, e)
  BY <1>1, <1>2, DidIs
<1>4. PICK op, t : \E a \in Answers(TheirQuestion(e, op), Files(e)) : Did(e, op, t, a)
  BY <1>1, <1>3, ExecuteDid
<1>5. PICK a \in Answers(TheirQuestion(e, op), Files(e)) : Did(e, op, t, a)
  BY <1>4
<1>6. t \in {0, 1, 2, 3} /\ (op = "rm" => t \in {1, 2, 3})
  BY <1>3, <1>5, CommandTyped DEF Did, Execute
<1>7. e.u \in Nat /\ e.num \in Nat /\ Good(l)
  BY SeenNums DEF LoopOK
<1> HIDE DEF e
<1>8. op \in Chmods /\ did'.op = op /\ did'.t = t /\ did'.u = e.u /\ did'.n = e.num
      /\ did'.acts = Run(e, op, t, a).acts
  BY <1>5 DEF Did
<1>9. a.yes /\ Unhurt(a)
  BY <1>5 DEF Did, Unhurt
<1>10. op \in Turned \ {"rename"} /\ op # "mkdir"
  BY <1>8 DEF Chmods, Turned
<1> DEFINE E == Cover(l, e.u, e.num)
<1>11. Covered(did'.n) = E
  BY <1>7, <1>8, CoveredIs
<1>12. did'.acts = ui_cmd(l, op, t, e.u, e.num, a).acts
  BY <1>8, <1>10 DEF Run
<1> HIDE DEF E
<1>13. l.mode = "diff" => Level(l, E)
  <2>1. l.mode = "diff" => ~Uneven(E)
    BY <1>1, <1>11 DEF SidesDiffer
  <2>2. ASSUME ~Uneven(E) PROVE Level(l, E)
    <3>1. /\ \A f, g \in E : Sides(l, f) = Sides(l, g)
          /\ \A f \in E : On(l.disk, f) = Sides(l, f) /\ Links(f) \in {{}, Sides(l, f)}
      BY <2>2, Zenon DEF Uneven, Half
    <3> QED
      BY <3>1 DEF Level, Links
  <2> QED
    BY <2>1, <2>2
<1>14. Own(ui_cmd(l, op, t, e.u, e.num, a).acts)
  BY <1>12 DEF OtherColumn, Own
<1>15. Done(ui_cmd(l, op, t, e.u, e.num, a).acts) = DueAll(l, op, t, E)
  <2> DEFINE f == e.u
             n == e.num
  <2>1. f \in Nat /\ n \in Nat /\ (l.mode = "diff" => Level(l, Cover(l, f, n)))
    BY <1>7, <1>13 DEF E
  <2>2. Own(ui_cmd(l, op, t, f, n, a).acts)
    BY <1>14
  <2> HIDE DEF f, n
  <2>3. Done(ui_cmd(l, op, t, f, n, a).acts) = DueAll(l, op, t, Cover(l, f, n))
    BY <1>6, <1>7, <1>9, <1>10, <2>1, <2>2, CommandDue
  <2> QED
    BY <2>3 DEF E, f, n
<1>16. \A f \in E : On(l.disk, f) = Sides(l, f)
  <2>1. CASE l.mode = "diff"
    BY <1>13, <2>1 DEF Level
  <2>2. CASE l.mode # "diff"
    <3>1. l.type = l.disk
      BY <2>2 DEF OnDisk
    <3> QED
      BY <3>1 DEF Sides
  <2> QED
    BY <2>1, <2>2
<1>17. Due(op, t, E) = DueAll(l, op, t, E)
  BY <1>16, DueIs
<1> QED
  BY <1>8, <1>11, <1>12, <1>15, <1>17

\* A delete, a mode or an owner that is for a number of lines, and that was neither
\* declined nor failed, is done to each of the lines on every side it is due on: tree
\* and ntr, which are changed for one file, do not decide about the next.  Lines that
\* differ in their sides, and "dl" for the other column, are excepted (README).
THEOREM EveryLineOnItsSides ==
  Init /\ [][Next /\ ~MarkFiltered /\ ~SidesDiffer /\ ~OtherColumn]_vars => EveryLineDone
<1> DEFINE Inv == LoopOK /\ OnDisk(l)
           Step == Next /\ ~MarkFiltered /\ ~SidesDiffer /\ ~OtherColumn
<1>1. Init => Inv
  BY LoopStarts, OnDiskStarts
<1>2. Inv /\ [Step]_vars => Inv'
  <2>1. [Step]_vars => [Next /\ ~MarkFiltered]_vars
    OBVIOUS
  <2> QED
    BY <2>1, LoopStep, OnDiskStep
<1>3. ASSUME Inv, [Step]_vars
      PROVE  [did'.op \in {"rm", "chmod", "chown", "chgrp"} /\ did'.whole /\ l.multi = {}
                => Done(did'.acts) = Due(did'.op, did'.t, Covered(did'.n))]_vars
  <2>1. CASE Step
    <3>1. PICK k \in Keys : Press(k)
      BY <2>1 DEF Next
    <3>2. did'.op \in Chmods /\ did'.whole /\ l.multi = {}
            => Done(did'.acts) = Due(did'.op, did'.t, Covered(did'.n))
      BY <1>3, <2>1, <3>1, EveryLineStep
    <3> QED
      BY <3>2 DEF Chmods
  <2> QED
    BY <1>3, <2>1
<1> HIDE DEF Inv
<1> QED
  BY <1>1, <1>2, <1>3, PTL DEF EveryLineDone

-----------------------------------------------------------------------------
(* A command for the marked entries: what it acts on, and that it acts on  *)
(* each of them.                                                           *)
ActsOn(w, e, v) == \A x \in v.acts : x \in w.acts \/ x[1] = e \/ x[1] = Foreign
LEMMA SideActs ==
  ASSUME NEW op, NEW r, NEW a, NEW w, Sound(op, w), NEW e \in Entry, Side(op, r, w, e) \in {1, 2}
  PROVE  ActsOn(w, e, OneSide(op, r, a, w, e))
<1> DEFINE s == Side(op, r, w, e)
           v == OneSide(op, r, a, w, e)
<1>1. Outcome(op, r, a, w, e, s, v)
  BY OneSideIs DEF Sound
<1> DEFINE y == <<e, s, Asked2(w)>>
<1>2. v.acts = w.acts \/ v.acts = w.acts \cup {y}
  BY <1>1 DEF Outcome
<1>3. y[1] = e
  OBVIOUS
<1> HIDE DEF v, y
<1> QED
  BY <1>2, <1>3 DEF ActsOn, v

LEMMA EntryActs ==
  ASSUME NEW op, NEW r \in ListType, NEW a, NEW w, Sound(op, w), NEW e \in Entry, Sides(r, e) # {}
  PROVE  ActsOn(w, e, BothSides(op, r, a, Narrow(op, r, w, e), e))
<1> DEFINE n == Narrow(op, r, w, e)
           v == OneSide(op, r, a, n, e)
           x == OneSide(op, r, a, v, e)
<1>1. Sound(op, n) /\ (op = "rm" => n.tree \in {1, 2})
  BY NarrowSound
<1>2. n.acts = w.acts
  BY NarrowIs DEF Sound, Narrowed
<1> HIDE DEF n
<1>3. Side(op, r, n, e) \in {1, 2}
  BY <1>1, SideIs
<1>4. Sound(op, v) /\ (v.again = TRUE => v.tree = 2) /\ ActsOn(n, e, v)
  BY <1>1, <1>3, SideSound, SideActs
<1>5. v.again \in BOOLEAN
  BY <1>4 DEF Sound, Work
<1>6. BothSides(op, r, a, n, e) = IF v.again THEN x ELSE v
  BY DEF BothSides
<1> HIDE DEF v
<1>7. ASSUME v.again = TRUE PROVE ActsOn(v, e, x)
  <2>1. Side(op, r, v, e) \in {1, 2}
    BY <1>4, <1>7, SideIs
  <2> QED
    BY <1>4, <2>1, SideActs
<1> HIDE DEF x
<1>8. ActsOn(n, e, BothSides(op, r, a, n, e))
  BY <1>4, <1>5, <1>6, <1>7 DEF ActsOn
<1> QED
  BY <1>2, <1>8 DEF ActsOn, n

LEMMA FileActs ==
  ASSUME NEW r, Good(r), NEW i \in 0..(db_num(r) - 1), NEW op \in Ops, NEW a, NEW w, Sound(op, w)
  PROVE  ActsOn(w, At(r, i), File(op, r, a, w, At(r, i)))
<1> DEFINE e == At(r, i)
           v == File(op, r, a, w, e)
           b == BothSides(op, r, a, Narrow(op, r, w, e), e)
           f == [w EXCEPT !.stop = TRUE]
           y == <<Foreign, w.tree, TRUE>>
           new == w.acts \cup {y}
           g == [w EXCEPT !.acts = new]
<1>1. w \in Work /\ w.stop \in BOOLEAN /\ r \in ListType
  BY DEF Sound, Work, Good
<1>2. e # DotDot => e \in Entry /\ Sides(r, e) # {}
  BY LineHasSides
<1>3. v \in {w, f, g, fs_cp(op, r, a, w, e)} \/ (v = b /\ e # DotDot)
  <2> HIDE DEF e
  <2>1. /\ w.stop = TRUE => v = w
        /\ w.stop = FALSE => /\ op = "rm" => v = fs_rm(r, a, w, e)
                             /\ op = "rename" => v = fs_rename(r, a, w, e)
                             /\ Asks(op) => v = Change(op, r, a, w, e)
                             /\ Copies(op) => v = fs_cp(op, r, a, w, e)
    <3> HIDE DEF b, f, g
    <3> QED
      BY <1>1, OpsAre DEF File
  <2>2. op = "rm" => fs_rm(r, a, w, e) \in {w, g} \/ (fs_rm(r, a, w, e) = b /\ e # DotDot)
    BY DEF fs_rm
  <2>3. op = "rename" => fs_rename(r, a, w, e) = f \/ (fs_rename(r, a, w, e) = b /\ e # DotDot)
    BY DEF fs_rename
  <2>4. Change(op, r, a, w, e) = w \/ (Change(op, r, a, w, e) = b /\ e # DotDot)
    BY DEF Change
  <2> HIDE DEF v, b, f, g
  <2> QED
    BY <1>1, <2>1, <2>2, <2>3, <2>4, OpsAre
<1>4. f.acts = w.acts
  BY <1>1 DEF Work
<1>5. ActsOn(w, e, g)
  <2>1. y[1] = Foreign
    OBVIOUS
  <2> HIDE DEF y
  <2>2. g.acts = new
    BY <1>1 DEF Work
  <2> HIDE DEF g
  <2> QED
    BY <2>1, <2>2 DEF ActsOn
<1>6. ActsOn(w, e, fs_cp(op, r, a, w, e))
  <2>1. e \in Entry \cup {DotDot}
    BY <1>2
  <2> HIDE DEF e
  <2> QED
    BY <1>1, <2>1, CopySound DEF ActsOn
<1>7. ASSUME e # DotDot PROVE ActsOn(w, e, b)
  BY <1>1, <1>2, <1>7, EntryActs
<1> HIDE DEF b, f, g, v, e
<1>8. ActsOn(w, e, v)
  BY <1>3, <1>4, <1>5, <1>6, <1>7 DEF ActsOn
<1> QED
  BY <1>8 DEF v, e

MarkEntries(r) == {At(r, i) : i \in MarkedSet(r)}
OnlyMarked(r, acts) == \A x \in acts : x[1] \in MarkEntries(r) \/ x[1] = Foreign
LEMMA OnlyTurn ==
  ASSUME NEW r, Good(r), NEW op \in Ops, NEW t \in {0, 1, 2, 3}, op = "rm" => t \in {1, 2, 3}, NEW a,
         NEW i \in MarkedSet(r), NEW v, MarkState(r, op, v), OnlyMarked(r, v.w.acts)
  PROVE  OnlyMarked(r, NextMarked(r, op, t, a, v, i).w.acts)
<1> DEFINE b == Fresh(op, t, v)
           w == File(op, r, a, b, At(r, i))
           x == [w |-> w, at |-> i, left |-> w.err /\ op \in {"rm", "mv"}]
<1>0. i \in 0..(db_num(r) - 1) /\ At(r, i) \in MarkEntries(r)
  BY DEF MarkedSet, MarkEntries
<1>1. Sound(op, b) /\ b.acts = v.w.acts
  <2>1. Freshly(op, t, v, b)
    BY FreshIs
  <2> HIDE DEF b
  <2> QED
    BY <2>1 DEF Freshly
<1>2. NextMarked(r, op, t, a, v, i) \in {v, x}
  BY NextMarkedIs
<1> HIDE DEF b
<1>3. ActsOn(b, At(r, i), w)
  BY <1>0, <1>1, FileActs
<1> HIDE DEF w
<1>4. OnlyMarked(r, w.acts)
  BY <1>0, <1>1, <1>3 DEF ActsOn, OnlyMarked
<1>5. x.w = w
  OBVIOUS
<1> HIDE DEF x
<1> QED
  BY <1>2, <1>4, <1>5

LEMMA MarkedOnly ==
  ASSUME NEW r, Good(r), NEW op \in Ops, NEW t \in {0, 1, 2, 3}, op = "rm" => t \in {1, 2, 3}, NEW a
  PROVE  OnlyMarked(r, MarkedWork(r, op, t, a).w.acts)
<1> DEFINE q == Marked(r)
           N == Len(q)
<1>1. PICK h : MarkTurns(r, op, t, a, h) /\ MarkedWork(r, op, t, a) = h[N]
  BY MarkTurnsExist
<1>2. h[0] = MarkBegin(t) /\ \A k \in 1..N : h[k] = NextMarked(r, op, t, a, h[k - 1], q[k])
  BY <1>1 DEF MarkTurns
<1>3. N \in Nat /\ \A k \in 1..N : q[k] \in MarkedSet(r)
  BY MarkedOf DEF Listed
<1>4. \A k \in 0..N : MarkState(r, op, h[k])
  BY <1>1, MarkedSound
<1> HIDE DEF q
<1> DEFINE P == {k \in 0..N : OnlyMarked(r, h[k].w.acts)}
<1>5. 0 \in P
  <2> DEFINE b == MarkBegin(t)
  <2> HIDE DEF P
  <2>1. b.w.acts = {}
    BY DEF MarkBegin, Begin
  <2> HIDE DEF b
  <2>2. OnlyMarked(r, b.w.acts)
    BY <2>1 DEF OnlyMarked
  <2> QED
    BY <1>2, <1>3, <2>2 DEF b, P
<1>6. ASSUME NEW k \in 1..N, k - 1 \in P PROVE k \in P
  <2> DEFINE v == h[k - 1]
             i == q[k]
  <2>1. MarkState(r, op, v) /\ i \in MarkedSet(r) /\ OnlyMarked(r, v.w.acts)
    BY <1>3, <1>4, <1>6
  <2>2. h[k] = NextMarked(r, op, t, a, v, i)
    BY <1>2
  <2> HIDE DEF v, i
  <2>3. OnlyMarked(r, h[k].w.acts)
    BY <2>1, <2>2, OnlyTurn
  <2> QED
    BY <1>3, <2>3
<1> HIDE DEF P
<1>7. \A k \in 0..N : k \in P
  BY <1>3, <1>5, <1>6, AfterAllTurns
<1>8. OnlyMarked(r, h[N].w.acts)
  BY <1>3, <1>7 DEF P
<1> QED
  BY <1>1, <1>8

\* "dl" and "dr" of the other column go there.
LEMMA ForeignFile ==
  ASSUME NEW r, r.mode = "fmode", NEW a, Unhurt(a), NEW t \in {1, 2, 3}, t \notin {3, r.col + 1},
         NEW w \in Work, w.stop = FALSE, w.tree = t, NEW e
  PROVE  <<Foreign, t, TRUE>> \in File("rm", r, a, w, e).acts
<1> DEFINE y == <<Foreign, t, TRUE>>
           new == w.acts \cup {y}
           g == [w EXCEPT !.acts = new]
<1>0. ~Asks("rm") /\ ~Copies("rm") /\ ~w.stop
  BY DEF Asks, Copies
<1>1. File("rm", r, a, w, e) = fs_rm(r, a, w, e)
  BY <1>0 DEF File
<1>2. fs_rm(r, a, w, e) = g
  BY DEF fs_rm, Unhurt
<1>3. g.acts = new
  BY DEF Work
<1> HIDE DEF g
<1> QED
  BY <1>1, <1>2, <1>3

LEMMA ForeignMarks ==
  ASSUME NEW r, Good(r), r.mode = "fmode", NEW a, Unhurt(a), NEW t \in {1, 2, 3}, t \notin {3, r.col + 1},
         MarkedSet(r) # {}
  PROVE  \E x \in MarkedWork(r, "rm", t, a).w.acts : x[1] = Foreign
<1> DEFINE op == "rm"
           q == Marked(r)
           N == Len(q)
           y == <<Foreign, t, TRUE>>
<1>0. op \in Ops /\ t \in {0, 1, 2, 3} /\ y[1] = Foreign
  BY DEF Ops
<1>1. PICK h : MarkTurns(r, op, t, a, h) /\ MarkedWork(r, op, t, a) = h[N]
  BY MarkTurnsExist
<1>2. h[0] = MarkBegin(t) /\ \A k \in 1..N : h[k] = NextMarked(r, op, t, a, h[k - 1], q[k])
  BY <1>1 DEF MarkTurns
<1>3. N \in Nat /\ \A x \in MarkedSet(r) : \E k \in 1..N : q[k] = x
  BY MarkedOf DEF Listed
<1>4. \A k \in 0..N : MarkState(r, op, h[k])
  BY <1>0, <1>1, MarkedSound
<1> HIDE DEF q, y
<1> DEFINE Went(k) == IF k = 0 THEN h[k].left = FALSE ELSE y \in h[k].w.acts
           P == {k \in 0..N : Went(k)}
<1>5. 0 \in P
  <2> DEFINE b == MarkBegin(t)
  <2>1. b.left = FALSE
    BY <1>0, MarkBeginIs
  <2> HIDE DEF b
  <2> QED
    BY <1>2, <1>3, <2>1 DEF b
<1>6. ASSUME NEW k \in 1..N, k - 1 \in P PROVE k \in P
  <2> DEFINE v == h[k - 1]
             i == q[k]
             b == Fresh(op, t, v)
             w == File(op, r, a, b, At(r, i))
             x == [w |-> w, at |-> i, left |-> w.err /\ op \in {"rm", "mv"}]
  <2>1. MarkState(r, op, v)
    BY <1>3, <1>4
  <2>2. h[k] = NextMarked(r, op, t, a, v, i)
    BY <1>2
  <2>3. v.left = FALSE \/ y \in v.w.acts
    BY <1>6
  <2>8. k \in 0..N /\ k # 0
    BY <1>3
  <2> HIDE DEF v, i
  <2>4. b \in Work /\ b.stop = FALSE /\ b.tree = t
    <3>1. Freshly(op, t, v, b)
      BY <1>0, <2>1, FreshIs
    <3> HIDE DEF b
    <3> QED
      BY <3>1 DEF Freshly, Sound
  <2>5. h[k] = IF v.left THEN v ELSE x
    BY <2>2, NextMarkedIs
  <2> HIDE DEF b
  <2>6. y \in w.acts
    BY <2>4, ForeignFile DEF y
  <2> HIDE DEF w
  <2>7. x.w = w
    OBVIOUS
  <2> HIDE DEF x
  <2>9. y \in h[k].w.acts
    BY <2>3, <2>5, <2>6, <2>7
  <2> QED
    BY <2>8, <2>9
<1> HIDE DEF P
<1>7. \A k \in 0..N : k \in P
  BY <1>3, <1>5, <1>6, AfterAllTurns
<1>8. N \in 0..N /\ N # 0
  <2>1. \E k \in 1..N : TRUE
    BY <1>3
  <2> QED
    BY <1>3, <2>1
<1>9. y \in h[N].w.acts
  BY <1>7, <1>8 DEF P
<1> QED
  BY <1>0, <1>1, <1>9 DEF y

-----------------------------------------------------------------------------
\* Where the loop over the marked entries is after some of them
MarkedDue(r, op, t, q, k, v) ==
  /\ MarkState(r, op, v) /\ v.w.err = FALSE /\ v.left = FALSE
  /\ op # "rename" => v.w.stop = FALSE
  /\ Done(v.w.acts) = DueAll(r, op, t, {At(r, q[j]) : j \in 1..k})
LEMMA MarkedTurn ==
  ASSUME NEW r, Good(r), NEW a, Unhurt(a), NEW op \in Turned, NEW t \in {0, 1, 2, 3}, Open(r, op, t),
         NEW q, NEW k \in Nat, k >= 1, q[k] \in 0..(db_num(r) - 1), WholeFile(r, At(r, q[k])),
         NEW v, MarkedDue(r, op, t, q, k - 1, v)
  PROVE  MarkedDue(r, op, t, q, k, NextMarked(r, op, t, a, v, q[k]))
<1> DEFINE i == q[k]
           e == At(r, i)
           b == Fresh(op, t, v)
           w == File(op, r, a, b, e)
           x == [w |-> w, at |-> i, left |-> w.err /\ op \in {"rm", "mv"}]
           z == NextMarked(r, op, t, a, v, i)
           E == {At(r, q[j]) : j \in 1..(k - 1)}
           F == {At(r, q[j]) : j \in 1..k}
<1>0. r \in ListType /\ op \in Ops /\ (op = "rm" => t \in {1, 2, 3})
  BY TurnedIs DEF Good, Open
<1>1. /\ MarkState(r, op, v) /\ v.w.err = FALSE /\ v.left = FALSE
      /\ op # "rename" => v.w.stop = FALSE
      /\ Done(v.w.acts) = DueAll(r, op, t, E)
  BY DEF MarkedDue
<1>2. Freshly(op, t, v, b)
  BY <1>0, <1>1, FreshIs
<1>3. z = x
  <2>1. ~v.left /\ ~(op \in {"chown", "chgrp"} /\ v.w.stop /\ ~v.w.asked)
    BY <1>1
  <2> QED
    BY <2>1, NextMarkedIs
<1>4. F = E \cup {e}
  <2>1. 1..k = (1..(k - 1)) \cup {k}
    OBVIOUS
  <2> QED
    BY <2>1
<1>5. WholeFile(r, e) /\ i \in 0..(db_num(r) - 1)
  OBVIOUS
<1> HIDE DEF b, e, i, z
<1>6. Going(op, b) /\ Place(op, t, Sides(r, e), b)
  BY <1>1, <1>2 DEF Freshly, Going, Place
<1>7. FileIs(r, op, t, e, b, w)
  BY <1>0, <1>5, <1>6, FileDone
<1>8. Sound(op, w)
  BY <1>0, <1>5, <1>6, FileSound DEF Going, e
<1> HIDE DEF w
<1>9. /\ w.err = FALSE /\ (op # "rename" => w.stop = FALSE)
      /\ Done(w.acts) = Done(b.acts) \cup Pairs(e, DueIn(r, op, t, e))
  BY <1>7 DEF FileIs
<1>10. Done(b.acts) = DueAll(r, op, t, E)
  BY <1>1, <1>2 DEF Freshly
<1>11. x.w = w /\ x.at = i /\ x.left = FALSE
  BY <1>9
<1> HIDE DEF x, E, F
<1>12. Done(w.acts) = DueAll(r, op, t, F)
  BY <1>4, <1>9, <1>10, DueWith
<1>13. MarkState(r, op, x)
  BY <1>5, <1>8, <1>11 DEF MarkState
<1>14. MarkedDue(r, op, t, q, k, x)
  BY <1>9, <1>11, <1>12, <1>13 DEF MarkedDue, F
<1> QED
  BY <1>3, <1>14 DEF z, i

MarksAreDone(r, op, t, a) == Done(MarkedWork(r, op, t, a).w.acts) = DueAll(r, op, t, MarkEntries(r))
LEMMA MarkedDone ==
  ASSUME NEW r, Good(r), NEW a, Unhurt(a), NEW op \in Turned, NEW t \in {0, 1, 2, 3}, Open(r, op, t),
         \A e \in MarkEntries(r) : WholeFile(r, e)
  PROVE  MarksAreDone(r, op, t, a)
<1> DEFINE q == Marked(r)
           N == Len(q)
           L == MarkedSet(r)
<1>0. op \in Ops /\ (op = "rm" => t \in {1, 2, 3})
  BY TurnedIs DEF Open
<1>1. PICK h : MarkTurns(r, op, t, a, h) /\ MarkedWork(r, op, t, a) = h[N]
  BY MarkTurnsExist
<1>2. h[0] = MarkBegin(t) /\ \A k \in 1..N : h[k] = NextMarked(r, op, t, a, h[k - 1], q[k])
  BY <1>1 DEF MarkTurns
<1>3. /\ N \in Nat /\ \A k \in 1..N : q[k] \in L /\ q[k] \in 0..(db_num(r) - 1)
      /\ \A x \in L : \E k \in 1..N : q[k] = x
  BY MarkedOf DEF Listed
<1> HIDE DEF q, L
<1> DEFINE P == {k \in 0..N : MarkedDue(r, op, t, q, k, h[k])}
<1>4. 0 \in P
  <2> DEFINE b == MarkBegin(t)
  <2>1. /\ MarkState(r, op, b) /\ b.left = FALSE /\ b.w.acts = {} /\ b.w.stop = FALSE /\ b.w.err = FALSE
    BY <1>0, MarkBeginIs
  <2> HIDE DEF b
  <2>2. Done(b.w.acts) = {}
    BY <2>1 DEF Done
  <2>3. DueAll(r, op, t, {At(r, q[j]) : j \in 1..0}) = {}
    <3>1. {At(r, q[j]) : j \in 1..0} = {}
      OBVIOUS
    <3> QED
      BY <3>1 DEF DueAll
  <2>4. MarkedDue(r, op, t, q, 0, b)
    BY <2>1, <2>2, <2>3 DEF MarkedDue
  <2> QED
    BY <1>2, <1>3, <2>4 DEF b
<1>5. ASSUME NEW k \in 1..N, k - 1 \in P PROVE k \in P
  <2> DEFINE v == h[k - 1]
  <2>1. MarkedDue(r, op, t, q, k - 1, v) /\ k \in Nat /\ k >= 1 /\ k \in 0..N
    BY <1>3, <1>5
  <2>2. q[k] \in 0..(db_num(r) - 1) /\ WholeFile(r, At(r, q[k]))
    BY <1>3 DEF MarkEntries, L
  <2>3. h[k] = NextMarked(r, op, t, a, v, q[k])
    BY <1>2
  <2> HIDE DEF v
  <2>4. MarkedDue(r, op, t, q, k, h[k])
    BY <2>1, <2>2, <2>3, MarkedTurn
  <2> QED
    BY <2>1, <2>4
<1> HIDE DEF P
<1>6. \A k \in 0..N : k \in P
  BY <1>3, <1>4, <1>5, AfterAllTurns
<1>7. MarkedDue(r, op, t, q, N, h[N])
  BY <1>3, <1>6 DEF P
<1>8. {At(r, q[j]) : j \in 1..N} = {At(r, i) : i \in L}
  BY <1>3
<1> QED
  BY <1>1, <1>7, <1>8 DEF MarkedDue, MarkEntries, MarksAreDone, L

LEMMA MarkEntriesAre ==
  ASSUME NEW r, Good(r)
  PROVE  /\ MarkEntries(r) \subseteq r.multi \cap ToSet(r.list)
         /\ r.prev = None => MarkEntries(r) = r.multi \cap ToSet(r.list)
         /\ \A e \in MarkEntries(r) : e \in Entry /\ Sides(r, e) # {}
<1>1. r \in ListType /\ r.multi \subseteq Entry
  BY DEF Good, ListType
<1>2. /\ \A v \in 0..(db_num(r) - 1) : At(r, v) \in Shown(r)
      /\ \A e \in Shown(r) : \E v \in 0..(db_num(r) - 1) : At(r, v) = e
      /\ ToSet(r.list) = Shown(r)
  BY <1>1, LinesAre DEF Good
<1>3. MarkEntries(r) \subseteq r.multi \cap ToSet(r.list)
  BY <1>2 DEF MarkEntries, MarkedSet
<1>4. ASSUME r.prev = None, NEW e \in r.multi \cap ToSet(r.list) PROVE e \in MarkEntries(r)
  <2>1. PICK v \in 0..(db_num(r) - 1) : At(r, v) = e
    BY <1>2, <1>4
  <2>2. v > r.prev
    BY <1>4, <2>1, EntryIs
  <2>3. v \in MarkedSet(r)
    BY <1>4, <2>1, <2>2 DEF MarkedSet
  <2> QED
    BY <2>1, <2>3 DEF MarkEntries
<1>5. ASSUME NEW i \in MarkedSet(r) PROVE At(r, i) \in Entry /\ Sides(r, At(r, i)) # {}
  <2>1. i \in 0..(db_num(r) - 1) /\ At(r, i) \in r.multi
    BY DEF MarkedSet
  <2>2. At(r, i) # DotDot
    BY <1>1, <2>1, EntryIs
  <2> QED
    BY <2>1, <2>2, LineHasSides
<1>6. \A e \in MarkEntries(r) : e \in Entry /\ Sides(r, e) # {}
  BY <1>5 DEF MarkEntries
<1> QED
  BY <1>3, <1>4, <1>6

LEMMA OpOnly ==
  ASSUME NEW r, Good(r), r.multi # {}, NEW op \in Ops, NEW t \in {0, 1, 2, 3}, op = "rm" => t \in {1, 2, 3},
         NEW u0, NEW n, NEW a
  PROVE  OnlyMarked(r, ui_op(r, op, t, u0, n, a).acts)
<1>1. OnlyMarked(r, MarkedWork(r, op, t, a).w.acts) /\ OnlyMarked(r, {})
  BY MarkedOnly DEF OnlyMarked
<1>2. OpActs(r, op, t, u0, n, a) = MarkedWork(r, op, t, a).w.acts
  BY DEF OpActs
<1>3. ui_op(r, op, t, u0, n, a).acts \in {{}, OpActs(r, op, t, u0, n, a)}
  BY OpActsAre
<1> QED
  BY <1>1, <1>2, <1>3

LEMMA CommandOnly ==
  ASSUME NEW r, Good(r), r.multi # {}, NEW op \in Ops, NEW t \in {0, 1, 2, 3}, op = "rm" => t \in {1, 2, 3},
         NEW u0, NEW n, NEW a
  PROVE  OnlyMarked(r, ui_cmd(r, op, t, u0, n, a).acts)
<1>1. CASE op = "mv" /\ r.mode = "bmode"
  <2>1. ui_cmd(r, op, t, u0, n, a) = ui_op(r, "rename", 3, u0, n, a)
    BY <1>1 DEF ui_cmd, ui_mv
  <2>2. "rename" \in Ops /\ 3 \in {0, 1, 2, 3} /\ "rename" # "rm"
    BY DEF Ops
  <2> DEFINE z == ui_op(r, "rename", 3, u0, n, a)
  <2>3. OnlyMarked(r, z.acts)
    BY <2>2, OpOnly
  <2> QED
    BY <2>1, <2>3
<1>2. CASE ~(op = "mv" /\ r.mode = "bmode")
  <2>1. ui_cmd(r, op, t, u0, n, a) = ui_op(r, op, t, u0, n, a)
    BY <1>2 DEF ui_cmd, ui_mv
  <2> DEFINE z == ui_op(r, op, t, u0, n, a)
  <2>2. OnlyMarked(r, z.acts)
    BY OpOnly
  <2> QED
    BY <2>1, <2>2
<1> QED
  BY <1>1, <1>2

\* Entries that are on the disk as in the list, and links on all their sides or on none
Even(r, E) == \A e \in E : On(r.disk, e) = Sides(r, e) /\ On(Link, e) \cap Sides(r, e) \in {{}, Sides(r, e)}
LEMMA MarkedWhole ==
  ASSUME NEW r, Good(r), OnDisk(r), r.mode = "diff" => Even(r, MarkEntries(r))
  PROVE  \A e \in MarkEntries(r) : WholeFile(r, e)
<1> SUFFICES ASSUME NEW e \in MarkEntries(r) PROVE WholeFile(r, e)
  OBVIOUS
<1>1. e \in Entry /\ Sides(r, e) # {} /\ r \in ListType
  BY MarkEntriesAre DEF Good
<1>2. CASE r.mode = "diff"
  BY <1>1, <1>2 DEF Even, WholeFile
<1>3. CASE r.mode # "diff"
  <2>1. Sides(r, e) = {r.col + 1} /\ On(r.disk, e) = Sides(r, e)
    BY <1>1, <1>3, OneColumn
  <2>2. On(Link, e) \cap Sides(r, e) \in {{}, Sides(r, e)}
    BY <2>1
  <2> QED
    BY <1>1, <2>1, <2>2 DEF WholeFile
<1> QED
  BY <1>2, <1>3

LEMMA MarkedCommandDue ==
  ASSUME NEW r, Good(r), OnDisk(r), NEW a, Unhurt(a), a.yes, NEW op \in Turned, NEW t \in {0, 1, 2, 3},
         op = "rm" => t \in {1, 2, 3}, NEW u0, NEW n, r.multi # {},
         r.mode = "diff" => Even(r, MarkEntries(r)),
         Own(ui_cmd(r, op, t, u0, n, a).acts)
  PROVE  Done(ui_cmd(r, op, t, u0, n, a).acts) = DueAll(r, op, t, MarkEntries(r))
<1> DEFINE w == MarkedWork(r, op, t, a).w
           z == ui_cmd(r, op, t, u0, n, a)
<1>1. op # "mv" /\ op \in Ops
  BY TurnedIs DEF Turned
<1>2. z = OnMarked(r, op, t, a)
  BY <1>1 DEF ui_cmd, ui_op
<1>3. \E s : OnMarked(r, op, t, a) = Result(s, w.acts, TRUE, 1)
  BY OnMarkedIs
<1> HIDE DEF w, z
<1>4. z.acts = w.acts
  BY <1>2, <1>3 DEF Result
<1>5. CASE MarkEntries(r) = {}
  <2>1. OnlyMarked(r, w.acts)
    BY <1>1, MarkedOnly DEF w
  <2>2. \A x \in w.acts : x[1] # Foreign
    BY <1>4 DEF z, Own
  <2>3. w.acts = {}
    BY <1>5, <2>1, <2>2 DEF OnlyMarked
  <2>4. Done({}) = {} /\ DueAll(r, op, t, {}) = {}
    BY DEF Done, DueAll
  <2> QED
    BY <1>4, <1>5, <2>3, <2>4 DEF z
<1>6. CASE MarkEntries(r) # {}
  <2>1. Open(r, op, t)
    <3>1. op = "rm" /\ r.mode = "fmode" => t \in {3, r.col + 1}
      <4> SUFFICES ASSUME op = "rm", r.mode = "fmode", t \notin {3, r.col + 1} PROVE FALSE
        OBVIOUS
      <4>1. MarkedSet(r) # {}
        BY <1>6 DEF MarkEntries
      <4>2. \E x \in MarkedWork(r, "rm", t, a).w.acts : x[1] = Foreign
        BY <4>1, ForeignMarks
      <4>3. \E x \in w.acts : x[1] = Foreign
        BY <4>2 DEF w
      <4> QED
        BY <1>4, <4>3 DEF z, Own
    <3>2. r.mode = "bmode" => r.col = 0
      BY DEF OnDisk
    <3> QED
      BY <3>1, <3>2 DEF Open
  <2>2. \A e \in MarkEntries(r) : WholeFile(r, e)
    BY MarkedWhole
  <2>3. MarksAreDone(r, op, t, a)
    BY <2>1, <2>2, MarkedDone
  <2> QED
    BY <1>4, <2>3 DEF MarksAreDone, w, z
<1> QED
  BY <1>5, <1>6

LEMMA MarkedActs ==
  ASSUME LoopOK, NEW k, Press(k), did'.op \notin {"none", "mkdir"}, l.multi # {}
  PROVE  OnlyMarked(l, did'.acts)
<1> DEFINE e == Seen(k)
<1>0. Good(l)
  BY DEF LoopOK
<1>1. did' # Nothing
  BY DEF Nothing
<1>2. CASE FunctionKey(k, e)
  <2>1. \A x \in did'.acts : \E i \in ToSet(Marked(l)) : x[1] = At(l, i)
    BY <1>1, <1>2, KeyActs
  <2>2. ToSet(Marked(l)) = MarkedSet(l)
    BY <1>0, MarkedOf DEF Listed
  <2> QED
    BY <2>1, <2>2 DEF MarkEntries, OnlyMarked
<1>3. CASE Execute(k, e)
  <2>1. PICK op, t : \E a \in Answers(TheirQuestion(e, op), Files(e)) : Did(e, op, t, a)
    BY <1>1, <1>3, ExecuteDid
  <2>2. PICK a \in Answers(TheirQuestion(e, op), Files(e)) : Did(e, op, t, a)
    BY <2>1
  <2>3. op \in Ops \cup {"mkdir"} /\ t \in {0, 1, 2, 3} /\ (op = "rm" => t \in {1, 2, 3})
    BY <1>3, <2>2, CommandTyped DEF Did, Execute
  <2>4. did'.op = op /\ did'.acts = Run(e, op, t, a).acts
    BY <2>2 DEF Did
  <2> DEFINE f == e.u
             n == e.num
  <2>5. op \in Ops /\ did'.acts = ui_cmd(l, op, t, f, n, a).acts
    BY <2>3, <2>4 DEF Run
  <2> HIDE DEF f, n
  <2> QED
    BY <1>0, <2>3, <2>5, CommandOnly
<1> QED
  BY <1>1, <1>2, <1>3, DidIs

LEMMA MarkedStep ==
  ASSUME LoopOK, OnDisk(l), NEW k, Press(k), ~SidesDiffer, ~OtherColumn,
         did'.op \notin {"none", "mkdir"}, l.multi # {}
  PROVE  /\ {x[1] : x \in did'.acts} \subseteq MarkEntries(l)
         /\ did'.whole /\ did'.op \in Turned
              => Done(did'.acts) = Due(did'.op, did'.t, MarkEntries(l))
<1> DEFINE e == Seen(k)
           E == MarkEntries(l)
<1>0. Good(l)
  BY DEF LoopOK
<1>1. did' # Nothing
  BY DEF Nothing
<1>2. OnlyMarked(l, did'.acts)
  BY MarkedActs
<1>3. E \subseteq l.multi
  BY <1>0, MarkEntriesAre
<1>4. \A x \in did'.acts : x[1] # Foreign
  BY DEF OtherColumn
<1>5. CASE FunctionKey(k, e)
  <2>1. did'.op = "fkey"
    BY <1>1, <1>5, KeyActs
  <2>2. did'.op \notin Turned
    BY <2>1 DEF Turned
  <2>3. {x[1] : x \in did'.acts} \subseteq E
    BY <1>2, <1>4 DEF OnlyMarked
  <2> QED
    BY <2>2, <2>3
<1>6. CASE Execute(k, e)
  <2>1. PICK op, t : \E a \in Answers(TheirQuestion(e, op), Files(e)) : Did(e, op, t, a)
    BY <1>1, <1>6, ExecuteDid
  <2>2. PICK a \in Answers(TheirQuestion(e, op), Files(e)) : Did(e, op, t, a)
    BY <2>1
  <2>3. op \in Ops \cup {"mkdir"} /\ t \in {0, 1, 2, 3} /\ (op = "rm" => t \in {1, 2, 3})
    BY <1>6, <2>2, CommandTyped DEF Did, Execute
  <2>4. did'.op = op /\ did'.t = t /\ did'.acts = Run(e, op, t, a).acts
    BY <2>2 DEF Did
  <2> DEFINE f == e.u
             n == e.num
  <2>5. op \in Ops /\ did'.acts = ui_cmd(l, op, t, f, n, a).acts
    BY <2>3, <2>4 DEF Run
  <2> HIDE DEF f, n
  <2>7. {x[1] : x \in did'.acts} \subseteq E
    BY <1>2, <1>4 DEF OnlyMarked
  <2>8. ASSUME did'.whole, op \in Turned PROVE Done(did'.acts) = Due(op, t, E)
    <3>1. a.yes /\ Unhurt(a)
      BY <2>2, <2>8 DEF Did, Unhurt
    <3>2. l.mode = "diff" => Even(l, E)
      <4>1. l.mode = "diff" => ~Half(l.multi)
        BY <1>1 DEF SidesDiffer
      <4>2. ASSUME ~Half(l.multi) PROVE Even(l, E)
        <5>1. \A g \in l.multi : On(l.disk, g) = Sides(l, g) /\ Links(g) \in {{}, Sides(l, g)}
          BY <4>2, Zenon DEF Half
        <5> QED
          BY <1>3, <5>1 DEF Even, Links
      <4> QED
        BY <4>1, <4>2
    <3>3. Own(ui_cmd(l, op, t, f, n, a).acts)
      BY <1>4, <2>5 DEF Own
    <3>4. l.mode = "diff" => Even(l, MarkEntries(l))
      BY <3>2
    <3>5. Done(ui_cmd(l, op, t, f, n, a).acts) = DueAll(l, op, t, MarkEntries(l))
      BY <1>0, <2>3, <2>8, <3>1, <3>3, <3>4, MarkedCommandDue
    <3>6. \A g \in E : On(l.disk, g) = Sides(l, g)
      <4>1. CASE l.mode = "diff"
        BY <3>2, <4>1 DEF Even
      <4>2. CASE l.mode # "diff"
        <5>1. l.type = l.disk
          BY <4>2 DEF OnDisk
        <5> QED
          BY <5>1 DEF Sides
      <4> QED
        BY <4>1, <4>2
    <3> HIDE DEF E
    <3>7. Due(op, t, E) = DueAll(l, op, t, E)
      BY <3>6, DueIs
    <3> QED
      BY <2>5, <3>5, <3>7 DEF E
  <2> QED
    BY <2>4, <2>7, <2>8
<1> QED
  BY <1>1, <1>5, <1>6, DidIs

\* With multiple marks a command acts on no entry of the list that is not marked, also
\* where get_mmrk() begins behind an entry at which an error ended the command before,
\* and on lists whose entries differ in their sides.  (Foreign: "dl" and "dr" in fmode
\* act on the list of the other column.)
THEOREM NoOtherEntry ==
  Init /\ [][Next /\ ~MarkFiltered]_vars
    => [][did'.op \notin {"none", "mkdir"} /\ l.multi # {}
          => \A x \in did'.acts : x[1] \in (l.multi \cap ToSet(l.list)) \cup {Foreign}]_vars
<1>1. Init => LoopOK
  BY LoopStarts
<1>2. LoopOK /\ [Next /\ ~MarkFiltered]_vars => LoopOK'
  BY LoopStep
<1>3. ASSUME LoopOK, [Next /\ ~MarkFiltered]_vars
      PROVE  [did'.op \notin {"none", "mkdir"} /\ l.multi # {}
                => \A x \in did'.acts : x[1] \in (l.multi \cap ToSet(l.list)) \cup {Foreign}]_vars
  <2>1. ASSUME Next, did'.op \notin {"none", "mkdir"}, l.multi # {}, NEW x \in did'.acts
        PROVE  x[1] \in (l.multi \cap ToSet(l.list)) \cup {Foreign}
    <3>1. PICK k \in Keys : Press(k)
      BY <2>1 DEF Next
    <3>2. OnlyMarked(l, did'.acts)
      BY <1>3, <2>1, <3>1, MarkedActs
    <3>3. MarkEntries(l) \subseteq l.multi \cap ToSet(l.list)
      BY <1>3, MarkEntriesAre DEF LoopOK
    <3> QED
      BY <2>1, <3>2, <3>3 DEF OnlyMarked
  <2> QED
    BY <1>3, <2>1
<1> QED
  BY <1>1, <1>2, <1>3, PTL

\* Where the loop over the marked entries goes on when the one before was left early: a
\* command is for the marked entries below the line get_mmrk() has stopped at, and a
\* delete, a renaming, a mode or an owner is done on every side that each of them is due
\* on.  (MarkedSet: the lines below prev_mmrk that are marked; from the top on if it is -1.)
THEOREM MarkedFromItsPlace ==
  Init /\ [][Next /\ ~MarkFiltered /\ ~SidesDiffer /\ ~OtherColumn]_vars
    => [][did'.op \notin {"none", "mkdir"} /\ l.multi # {}
          => /\ {x[1] : x \in did'.acts} \subseteq MarkEntries(l)
             /\ did'.whole /\ did'.op \in {"rm", "rename", "chmod", "chown", "chgrp"}
                  => Done(did'.acts) = Due(did'.op, did'.t, MarkEntries(l))]_vars
<1> DEFINE Inv == LoopOK /\ OnDisk(l)
           Step == Next /\ ~MarkFiltered /\ ~SidesDiffer /\ ~OtherColumn
<1>1. Init => Inv
  BY LoopStarts, OnDiskStarts
<1>2. Inv /\ [Step]_vars => Inv'
  <2>1. [Step]_vars => [Next /\ ~MarkFiltered]_vars
    OBVIOUS
  <2> QED
    BY <2>1, LoopStep, OnDiskStep
<1>3. ASSUME Inv, [Step]_vars
      PROVE  [did'.op \notin {"none", "mkdir"} /\ l.multi # {}
                => /\ {x[1] : x \in did'.acts} \subseteq MarkEntries(l)
                   /\ did'.whole /\ did'.op \in {"rm", "rename", "chmod", "chown", "chgrp"}
                        => Done(did'.acts) = Due(did'.op, did'.t, MarkEntries(l))]_vars
  <2>1. CASE Step
    <3>1. PICK k \in Keys : Press(k)
      BY <2>1 DEF Next
    <3>2. did'.op \notin {"none", "mkdir"} /\ l.multi # {}
            => /\ {x[1] : x \in did'.acts} \subseteq MarkEntries(l)
               /\ did'.whole /\ did'.op \in Turned
                    => Done(did'.acts) = Due(did'.op, did'.t, MarkEntries(l))
      BY <1>3, <2>1, <3>1, MarkedStep
    <3> QED
      BY <3>2 DEF Turned
  <2> QED
    BY <1>3, <2>1
<1> HIDE DEF Inv
<1> QED
  BY <1>1, <1>2, <1>3, PTL

\* With multiple marks a command is for the marked entries of the list and no other,
\* wherever the cursor is; a delete, a renaming, a mode or an owner that was neither
\* declined nor failed is done on every side that each of them is due on.  Entries that
\* are only half there, marked entries after a command that ended in the middle, and
\* "dl" for the other column are excepted (README).
THEOREM TheMarkedAndNoOther ==
  Init /\ [][Next /\ ~MarkFiltered /\ ~SidesDiffer /\ ~Resumed /\ ~OtherColumn]_vars => MarkedAndNoOther
<1> DEFINE Inv == LoopOK /\ OnDisk(l)
           Step == Next /\ ~MarkFiltered /\ ~SidesDiffer /\ ~Resumed /\ ~OtherColumn
<1>1. Init => Inv
  BY LoopStarts, OnDiskStarts
<1>2. Inv /\ [Step]_vars => Inv'
  <2>1. [Step]_vars => [Next /\ ~MarkFiltered]_vars
    OBVIOUS
  <2> QED
    BY <2>1, LoopStep, OnDiskStep
<1>3. ASSUME Inv, [Step]_vars
      PROVE  [did'.op \notin {"none", "mkdir"} /\ l.multi # {}
                => /\ {x[1] : x \in did'.acts} \subseteq l.multi \cap ToSet(l.list)
                   /\ did'.whole /\ did'.op \in {"rm", "rename", "chmod", "chown", "chgrp"}
                        => Done(did'.acts) = Due(did'.op, did'.t, l.multi \cap ToSet(l.list))]_vars
  <2>1. CASE Step
    <3>1. PICK k \in Keys : Press(k)
      BY <2>1 DEF Next
    <3>2. did'.op \notin {"none", "mkdir"} /\ l.multi # {}
            => /\ {x[1] : x \in did'.acts} \subseteq l.multi \cap ToSet(l.list)
               /\ did'.whole /\ did'.op \in Turned
                    => Done(did'.acts) = Due(did'.op, did'.t, l.multi \cap ToSet(l.list))
      <4> SUFFICES ASSUME did'.op \notin {"none", "mkdir"}, l.multi # {}
                   PROVE  /\ {x[1] : x \in did'.acts} \subseteq l.multi \cap ToSet(l.list)
                          /\ did'.whole /\ did'.op \in Turned
                               => Done(did'.acts) = Due(did'.op, did'.t, l.multi \cap ToSet(l.list))
        OBVIOUS
      <4>1. l.prev = None
        <5>1. did' # Nothing
          BY DEF Nothing
        <5> QED
          BY <2>1, <5>1 DEF Resumed
      <4>2. MarkEntries(l) = l.multi \cap ToSet(l.list)
        BY <1>3, <4>1, MarkEntriesAre DEF LoopOK
      <4>3. ~SidesDiffer /\ ~OtherColumn
        BY <2>1
      <4> QED
        BY <1>3, <3>1, <4>2, <4>3, MarkedStep
    <3> QED
      BY <3>2 DEF Turned
  <2> QED
    BY <1>3, <2>1
<1> HIDE DEF Inv
<1> QED
  BY <1>1, <1>2, <1>3, PTL DEF MarkedAndNoOther
=============================================================================
