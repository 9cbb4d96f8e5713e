-------------------------- MODULE DiffScan_proofs --------------------------
(***************************************************************************)
(* Proofs about the scan: types, that the recorded directories are closed  *)
(* under going up, and that the scan does what DiffMarks promises; for     *)
(* trees of any size and depth, any order of entries, failures and keys.   *)
(***************************************************************************)
EXTENDS DiffScan, TLAPS, WellFoundedInduction

-----------------------------------------------------------------------------
(* Paths and what contains them.                                           *)

LEMMA Paths ==
  /\ Root \in Path /\ Root \notin Node /\ Node \subseteq Path
  /\ \A n \in Node : Parent[n] \in Path /\ Parent[n] # n
  /\ \A n \in Path : n \in Nat /\ (n # Root => n \in Node)
BY NodeAssumption DEF Path, Root

\* A path contains itself, with it its parent, and only paths.
LEMMA UpBasic ==
  ASSUME NEW n \in Path
  PROVE  /\ n \in Up[n] /\ Up[n] \subseteq Path
         /\ \A m \in Up[n] : m # Root => Parent[m] \in Up[n]
BY Paths DEF Up, Upward

\* A set with a path in it that holds all parents holds all that contain it.
LEMMA UpLeast ==
  ASSUME NEW n \in Path, NEW S \in Upward, n \in S
  PROVE  Up[n] \subseteq S
BY DEF Up

\* Up[n] is one of those sets.
LEMMA UpUpward ==
  ASSUME NEW n \in Path
  PROVE  Up[n] \in Upward
BY UpBasic DEF Upward

LEMMA UpTrans ==
  ASSUME NEW n \in Path, NEW m \in Up[n]
  PROVE  Up[m] \subseteq Up[n]
BY UpBasic, UpUpward, UpLeast

\* What contains a path is that path, or contains its parent.
LEMMA UpStep ==
  ASSUME NEW n \in Path, n # Root
  PROVE  Up[n] \subseteq {n} \cup Up[Parent[n]]
<1>1. Parent[n] \in Path
  BY Paths
<1>2. {n} \cup Up[Parent[n]] \in Upward
  BY <1>1, UpBasic DEF Upward
<1> QED BY <1>2, UpLeast

\* The names of paths grow downwards, so no two paths contain each other.
LEMMA UpAtMost ==
  ASSUME NEW n \in Path, NEW m \in Up[n]
  PROVE  m <= n
<1> DEFINE S == {k \in Path : k <= n}
<1>1. ASSUME NEW k \in S, k # Root PROVE Parent[k] \in S
  <2>1. k \in Node /\ Parent[k] \in Path /\ Parent[k] < k
    BY <1>1, Paths, NodeAssumption
  <2> QED BY <2>1, Paths
<1>2. S \in Upward /\ n \in S
  BY <1>1, Paths DEF Upward
<1> HIDE DEF S
<1>3. m \in S
  BY <1>2, UpLeast
<1> QED BY <1>3 DEF S

\* The paths that contain a path are in a row.
LEMMA UpLinear ==
  ASSUME NEW n \in Path, NEW m \in Up[n], NEW b \in Up[n]
  PROVE  m \in Up[b] \/ b \in Up[m]
<1> DEFINE S == Up[m] \cup {k \in Path : m \in Up[k]}
<1>1. m \in Path
  BY UpBasic
<1>2. S \subseteq Path
  BY <1>1, UpBasic
<1>3. ASSUME NEW k \in S, k # Root PROVE Parent[k] \in S
  <2>1. CASE k \in Up[m]
    BY <1>1, <1>3, <2>1, UpBasic
  <2>2. CASE k \in Path /\ m \in Up[k] /\ m = k
    BY <1>1, <1>3, <2>2, UpBasic
  <2>3. CASE k \in Path /\ m \in Up[k] /\ m # k
    <3>1. m \in Up[Parent[k]] /\ Parent[k] \in Path
      BY <1>3, <2>3, UpStep, Paths
    <3> QED BY <3>1
  <2> QED BY <1>3, <2>1, <2>2, <2>3
<1>4. S \in Upward
  BY <1>2, <1>3 DEF Upward
<1>5. b \in S
  BY <1>4, UpLeast
<1> QED BY <1>5
-----------------------------------------------------------------------------
(* Recording a directory.                                                  *)

Closed(db) == \A e \in db : e[2] # Root => <<e[1], Parent[e[2]]>> \in db

\* What add_diff_dir() adds are directories, and the set is closed again.
LEMMA AddedOK ==
  ASSUME scan_db \subseteq Side \X Path, AncestorsRecorded,
         NEW s \in Side, NEW p \in Path
  PROVE  /\ scan_db \cup Added(s, p) \subseteq Side \X Path
         /\ Closed(scan_db \cup Added(s, p))
<1>1. Added(s, p) \subseteq Side \X Path
  BY UpBasic DEF Added
<1>2. ASSUME NEW m \in Up[p], m # Root,
             \A b \in Up[p] : m \in Up[b] => <<s, b>> \notin scan_db,
             <<s, Parent[m]>> \notin scan_db
      PROVE  <<s, Parent[m]>> \in Added(s, p)
  <2> DEFINE q == Parent[m]
  <2>1. m \in Path /\ q \in Path /\ q \in Up[p]
    BY <1>2, UpBasic, Paths
  <2>2. ASSUME NEW b \in Up[p], q \in Up[b] PROVE <<s, b>> \notin scan_db
    <3>1. b \in Path
      BY UpBasic
    <3>2. CASE m \in Up[b]
      BY <1>2, <3>2
    <3>3. CASE b \in Up[m] /\ b # m
      <4>1. b \in Up[q]
        BY <1>2, <2>1, <3>3, UpStep
      <4>2. b <= q /\ q <= b
        BY <2>1, <2>2, <3>1, <4>1, UpAtMost
      <4>3. b = q
        BY <2>1, <3>1, <4>2, Paths
      <4> QED BY <1>2, <4>3
    <3>4. CASE b = m
      BY <1>2, <2>1, <3>4, UpBasic
    <3> QED BY <3>2, <3>3, <3>4, UpLinear
  <2> QED BY <2>1, <2>2 DEF Added
<1>3. ASSUME NEW e \in scan_db \cup Added(s, p), e[2] # Root
      PROVE  <<e[1], Parent[e[2]]>> \in scan_db \cup Added(s, p)
  <2>1. CASE e \in scan_db
    BY <1>3, <2>1 DEF AncestorsRecorded
  <2>2. CASE e \in Added(s, p)
    <3>1. PICK m \in Up[p] :
            /\ e = <<s, m>>
            /\ \A b \in Up[p] : m \in Up[b] => <<s, b>> \notin scan_db
      BY <2>2 DEF Added
    <3>2. m # Root /\ e[1] = s /\ e[2] = m
      BY <1>3, <3>1
    <3> QED BY <1>2, <3>1, <3>2
  <2> QED BY <1>3, <2>1, <2>2
<1> QED BY <1>1, <1>3 DEF Closed
-----------------------------------------------------------------------------
(* One lemma for each action.                                              *)

IInv == TypeOK /\ AncestorsRecorded

\* The directory in work, and the sides it is on.
LEMMA CurOK ==
  ASSUME TypeOK
  PROVE  /\ cur \in Path /\ tree \in {1, 2, 3}
         /\ at[1] \in Path /\ at[2] \in Path
         /\ \A s \in Side : Names(s) \subseteq Node
BY DEF TypeOK, cur, tree, Side, Names

LEMMA WorsenOK ==
  ASSUME NEW t \in {"sound", "none"}, Worsen(t)
  PROVE  trust' \in {"full", "sound", "none"}
BY DEF Worsen

LEMMA AddOK ==
  ASSUME IInv, NEW s \in Side, add_diff_dir(s)
  PROVE  scan_db' \subseteq Side \X Path /\ AncestorsRecorded'
<1>1. at[s] \in Path
  BY DEF IInv, TypeOK
<1>2. Closed(scan_db')
  BY <1>1, AddedOK DEF IInv, TypeOK, add_diff_dir
<1>3. scan_db' \subseteq Side \X Path
  BY <1>1, AddedOK DEF IInv, TypeOK, add_diff_dir
<1> QED BY <1>2, <1>3 DEF Closed, AncestorsRecorded

LEMMA AddRightOK ==
  ASSUME IInv, add_right
  PROVE  scan_db' \subseteq Side \X Path /\ AncestorsRecorded'
<1>1. CASE add_diff_dir(2)
  BY <1>1, AddOK DEF Side
<1>2. CASE UNCHANGED scan_db
  BY <1>2 DEF IInv, TypeOK, AncestorsRecorded
<1>3. CASE scan_db' = scan_db \cup Added(1, Root)
  BY <1>3, AddedOK, Paths
     DEF IInv, TypeOK, Closed, AncestorsRecorded, Side
<1> QED BY <1>1, <1>2, <1>3 DEF add_right

\* What the loops over the entries do to the variables they change.
Scanned ==
  /\ dontcmp' \in BOOLEAN /\ stopscan' \in BOOLEAN
  /\ ph' \in {"left?", "left", "right?", "right", "end", "sub", "off"}
  /\ dir_diff' \in BOOLEAN
  /\ dirs' \in [Path -> SUBSET (Node \X {1, 2, 3})]
  /\ trust' \in {"full", "sound", "none"}

LEMMA StopOK ==
  ASSUME TypeOK, Stop
  PROVE  Scanned /\ todo' = {}
BY WorsenOK DEF Stop, Scanned, TypeOK

LEMMA PushOK ==
  ASSUME TypeOK, NEW n \in Node, NEW t \in {1, 2, 3}, Push(n, t)
  PROVE  Scanned
<1>1. dirs' \in [Path -> SUBSET (Node \X {1, 2, 3})]
  BY CurOK DEF Push, TypeOK
<1> QED BY <1>1 DEF Push, Scanned, TypeOK, flags

LEMMA FoundOK ==
  ASSUME TypeOK, NEW yes, Found(yes), dontcmp' \in BOOLEAN,
         UNCHANGED trust \/ Worsen("sound") \/ Worsen("none")
  PROVE  Scanned
<1>1. dir_diff' \in BOOLEAN
  <2>1. dir_diff' = (dir_diff \/ yes)
    BY DEF Found
  <2> QED BY <2>1, Zenon
<1> QED BY <1>1, WorsenOK DEF Found, Scanned, TypeOK

LEMMA EntryOK ==
  ASSUME TypeOK, NEW n \in Node, left_dir_scan_mode(n)
  PROVE  Scanned
<1> DEFINE a == fs[1][n]
           b == IF tree = 3 THEN fs[2][n] ELSE Absent
<1>1. CASE Push(n, SidesOf(b))
  BY <1>1, PushOK DEF SidesOf
<1>2. CASE /\ Found(n \in match) /\ UNCHANGED dontcmp
           /\ UNCHANGED trust \/ Worsen("none")
  BY <1>2, FoundOK DEF TypeOK
<1>3. CASE compare(a, b)
  <2>2. CASE Found(Differs(a, b)) /\ UNCHANGED <<dontcmp, trust>>
    BY <2>2, FoundOK DEF TypeOK
  <2>3. CASE /\ Found(FALSE) /\ dontcmp' \in BOOLEAN
             /\ UNCHANGED trust \/ Worsen("sound")
    BY <2>3, FoundOK DEF TypeOK
  <2> QED BY <1>3, <2>2, <2>3 DEF compare, TypeOK
<1> QED BY <1>1, <1>2, <1>3 DEF left_dir_scan_mode

LEMMA RightOK ==
  ASSUME TypeOK, NEW n \in todo, RightOnly(n)
  PROVE  Scanned /\ todo' \subseteq Node
<1>1. n \in Node
  BY DEF TypeOK
<1>2. CASE Stop
  BY <1>2, StopOK
<1>3. CASE Push(n, 2) /\ todo' = todo \ {n}
  BY <1>1, <1>3, PushOK DEF TypeOK
<1>4. CASE /\ Found(n \in match) /\ UNCHANGED dontcmp /\ todo' = todo \ {n}
           /\ UNCHANGED trust \/ Worsen("none")
  BY <1>4, FoundOK DEF TypeOK
<1>5. CASE /\ dir_diff' = TRUE /\ ph' = "end" /\ todo' = {}
           /\ UNCHANGED <<flags, dirs, trust>>
  BY <1>5 DEF TypeOK, Scanned, flags
<1> QED BY <1>2, <1>3, <1>4, <1>5 DEF RightOnly
-----------------------------------------------------------------------------
(* The invariant.                                                          *)

LEMMA InitOK == Init => IInv
<1> SUFFICES ASSUME Init PROVE IInv
  OBVIOUS
<1>1. dirs \in [Path -> SUBSET (Node \X {1, 2, 3})]
  BY DEF Init
<1>2. at \in [Side -> Path]
  BY Paths DEF Init
<1> QED BY <1>1, <1>2 DEF Init, IInv, TypeOK, AncestorsRecorded

LEMMA StepOK == IInv /\ [Next]_vars => IInv'
<1> SUFFICES ASSUME IInv, [Next]_vars PROVE IInv'
  OBVIOUS
<1> USE DEF IInv
<1>1. CASE OpenLeft
  BY <1>1, CurOK, WorsenOK
     DEF OpenLeft, TypeOK, AncestorsRecorded, input, flags, Side
<1>2. CASE ReadLeft
  <2>1. PICK n \in todo :
          /\ name_db' = IF mode = "diff" THEN name_db \cup {n} ELSE name_db
          /\ \/ Stop
             \/ todo' = todo \ {n} /\ (left_dir_scan_mode(n) \/ NoStat)
    BY <1>2 DEF ReadLeft
  <2>2. n \in Node /\ name_db' \subseteq Node
    BY <2>1 DEF TypeOK
  <2>3. ASSUME Stop PROVE Scanned /\ todo' \subseteq Node
    BY <2>3, StopOK
  <2>4. ASSUME left_dir_scan_mode(n) PROVE Scanned
    BY <2>2, <2>4, EntryOK
  <2>5. ASSUME NoStat PROVE Scanned
    <3>1. Found(FALSE) /\ dontcmp' \in BOOLEAN /\ Worsen("sound")
      BY <2>5 DEF NoStat, TypeOK
    <3> QED BY <3>1, FoundOK
  <2>6. Scanned /\ todo' \subseteq Node
    BY <2>1, <2>3, <2>4, <2>5 DEF TypeOK
  <2> QED BY <1>2, <2>2, <2>6
          DEF ReadLeft, TypeOK, Scanned, AncestorsRecorded, input
<1>3. CASE CloseLeft
  <2>1. scan_db' \subseteq Side \X Path /\ AncestorsRecorded'
    BY <1>3, AddOK DEF CloseLeft, TypeOK, AncestorsRecorded, Side
  <2>2. dir_diff' \in BOOLEAN /\ todo' \subseteq Node
    BY <1>3 DEF CloseLeft, TypeOK
  <2>3. trust' \in {"full", "sound", "none"}
    BY <1>3, WorsenOK DEF CloseLeft, TypeOK
  <2> QED BY <1>3, <2>1, <2>2, <2>3 DEF CloseLeft, TypeOK, input, flags
<1>4. CASE OpenRight
  BY <1>4, CurOK, WorsenOK
     DEF OpenRight, TypeOK, AncestorsRecorded, input, flags, Side
<1>5. CASE ReadRight
  <2>1. PICK n \in todo :
          \/ /\ todo' = todo \ {n}
             /\ UNCHANGED <<flags, ph, dir_diff, dirs, trust>>
          \/ RightOnly(n)
    BY <1>5 DEF ReadRight
  <2>2. Scanned /\ todo' \subseteq Node
    BY <2>1, RightOK DEF TypeOK, Scanned, flags
  <2> QED BY <1>5, <2>2
          DEF ReadRight, TypeOK, Scanned, AncestorsRecorded, input
<1>6. CASE CloseRight
  BY <1>6, WorsenOK DEF CloseRight, TypeOK, AncestorsRecorded, input, flags
<1>7. CASE dir_scan_end
  <2>1. scan_db' \subseteq Side \X Path /\ AncestorsRecorded'
    BY <1>7, AddRightOK DEF dir_scan_end, TypeOK, AncestorsRecorded
  <2> QED BY <1>7, <2>1 DEF dir_scan_end, TypeOK, input, flags
<1>8. CASE scan_subdir
  <2>1. PICK e \in dirs[cur] :
          /\ dirs' = Taken(e)
          /\ at' = [s \in Side |-> IF e[2] \in {s, 3} THEN e[1] ELSE at[s]]
          /\ ph' = IF e[2] = 2 THEN "right?" ELSE "left?"
    BY <1>8 DEF scan_subdir
  <2>2. e[1] \in Path
    BY <2>1, CurOK, Paths DEF TypeOK
  <2>3. at' \in [Side -> Path]
    BY <2>1, <2>2 DEF TypeOK
  <2>4. dirs' \in [Path -> SUBSET (Node \X {1, 2, 3})]
    BY <2>1, CurOK DEF Taken, TypeOK
  <2> QED BY <1>8, <2>1, <2>3, <2>4
          DEF scan_subdir, TypeOK, AncestorsRecorded, input, flags
<1>9. CASE Return
  <2>1. \A s \in Side : tree \in {s, 3} => at[s] # Root
    BY <1>9 DEF Return, cur, tree, Side
  <2>2. at' \in [Side -> Path]
    BY <1>9, <2>1, Paths DEF Return, TypeOK
  <2> QED BY <1>9, <2>2 DEF Return, TypeOK, AncestorsRecorded, input, flags
<1>10. CASE Finish
  BY <1>10 DEF Finish, Unstopped, TypeOK, AncestorsRecorded, input
<1>11. CASE do_scan
  BY <1>11 DEF do_scan, TypeOK, AncestorsRecorded, input
<1>12. CASE UNCHANGED vars
  BY <1>12 DEF vars, TypeOK, AncestorsRecorded, input, flags
<1> QED BY <1>1, <1>2, <1>3, <1>4, <1>5, <1>6, <1>7, <1>8, <1>9, <1>10,
          <1>11, <1>12 DEF Next, Scan

\* Every variable of the scan has a value of its type.
THEOREM ScanTypeCorrect == Spec => []TypeOK
<1>1. IInv => TypeOK
  BY DEF IInv
<1> QED BY InitOK, StepOK, <1>1, PTL DEF Spec

\* With each recorded directory the one that contains it is recorded, at any
\* moment of any scan.
THEOREM MarksReachUp == Spec => []AncestorsRecorded
<1>1. IInv => AncestorsRecorded
  BY DEF IInv
<1> QED BY InitOK, StepOK, <1>1, PTL DEF Spec

-----------------------------------------------------------------------------
(* Paths.                                                                  *)

\* The least-number principle.
LEMMA Least ==
  ASSUME NEW S \in SUBSET Nat, S # {}
  PROVE  \E m \in S : \A k \in S : m <= k
<1> DEFINE R == OpToRel(<, Nat)
<1>1. IsWellFoundedOn(R, Nat)
  BY NatLessThanWellFounded
<1>2. \A x, y \in Nat : <<x, y>> \in R <=> x < y
  BY DEF OpToRel
<1> HIDE DEF R
<1>3. PICK m \in S : \A k \in S : <<k, m>> \notin R
  BY <1>1, WFMin
<1>4. ASSUME NEW k \in S PROVE m <= k
  <2>1. k \in Nat /\ m \in Nat
    OBVIOUS
  <2>2. <<k, m>> \notin R
    BY <1>3
  <2>3. ~(k < m)
    BY <1>2, <2>1, <2>2
  <2> QED BY <2>1, <2>3
<1> QED BY <1>4

\* Every path is below the root.
LEMMA UpRoot ==
  ASSUME NEW n \in Path
  PROVE  Root \in Up[n]
<1>1. Up[n] \in SUBSET Nat /\ Up[n] # {}
  BY UpBasic, Paths
<1>2. PICK m \in Up[n] : \A k \in Up[n] : m <= k
  BY <1>1, Least
<1>3. ASSUME m # Root PROVE FALSE
  <2>1. m \in Node /\ Parent[m] \in Up[n] /\ Parent[m] < m
    BY <1>3, UpBasic, Paths, NodeAssumption
  <2>2. m <= Parent[m] /\ m \in Nat /\ Parent[m] \in Nat
    BY <1>1, <1>2, <2>1
  <2> QED BY <2>1, <2>2
<1> QED BY <1>3

LEMMA UpOfRoot == Up[Root] = {Root}
<1>1. Root \in Path /\ Root \in Up[Root]
  BY Paths, UpBasic
<1>2. ASSUME NEW m \in Up[Root] PROVE m = Root
  <2>1. m \in Nat /\ m <= Root
    BY <1>1, UpBasic, UpAtMost, Paths
  <2> QED BY <2>1 DEF Root
<1> QED BY <1>1, <1>2

LEMMA UpAnti ==
  ASSUME NEW n \in Path, NEW m \in Up[n], n \in Up[m]
  PROVE  m = n
<1>1. m \in Path /\ m <= n /\ n <= m
  BY UpBasic, UpAtMost
<1> QED BY <1>1, Paths

\* On the way from a directory to what is below it there is an entry of it.
LEMMA UpDown ==
  ASSUME NEW d \in Path, NEW n \in Up[d], n # d
  PROVE  \E x \in Node : Parent[x] = n /\ x \in Up[d]
<1> DEFINE T == {k \in Up[d] : n \in Up[k] /\ k # n}
<1>1. T \in SUBSET Nat /\ d \in T
  BY UpBasic, Paths
<1>2. PICK k \in T : \A j \in T : k <= j
  BY <1>1, Least
<1>3. k \in Path /\ k # Root
  <2>1. k \in Path /\ n \in Up[k] /\ k # n
    BY <1>2, UpBasic
  <2> QED BY <2>1, UpOfRoot
<1>4. /\ k \in Node /\ Parent[k] \in Up[d] /\ Parent[k] < k /\ Parent[k] \in Nat
      /\ k \in Nat
  BY <1>2, <1>3, UpBasic, Paths, NodeAssumption
<1>5. n \in Up[Parent[k]]
  BY <1>2, <1>3, UpStep
<1>6. Parent[k] \notin T
  BY <1>2, <1>4
<1> QED BY <1>4, <1>5, <1>6

\* A path is not above a directory it is an entry of.
LEMMA NotUpward ==
  ASSUME NEW n \in Node, NEW p \in Path, Parent[n] = p
  PROVE  n \notin Up[p] /\ n # p /\ Up[n] = {n} \cup Up[p] /\ p \in Up[n]
<1>1. n \in Path /\ n # Root /\ p \in Up[n] /\ n # p
  BY UpBasic, Paths
<1>2. n \notin Up[p]
  BY <1>1, UpAnti
<1>3. Up[p] \subseteq Up[n] /\ n \in Up[n]
  BY <1>1, UpTrans, UpBasic
<1> QED BY <1>1, <1>2, <1>3, UpStep

\* What contains something in a tree is a directory.
LEMMA DirsAbove ==
  ASSUME NEW t \in Trees, NEW n \in Node, t[n] # Absent, NEW a \in Up[n]
  PROVE  a = n \/ a = Root \/ t[a] = Dir
<1> DEFINE S == {k \in Path : k = n \/ k = Root \/ t[k] = Dir}
<1>1. ASSUME NEW k \in S, k # Root PROVE Parent[k] \in S
  <2>1. k \in Node /\ Parent[k] \in Path /\ t[k] # Absent
    BY <1>1, Paths DEF Dir, Absent
  <2> QED BY <2>1 DEF Trees
<1>2. S \in Upward /\ n \in S /\ n \in Path
  BY <1>1, Paths DEF Upward
<1> HIDE DEF S
<1>3. a \in S
  BY <1>2, UpLeast
<1> QED BY <1>3 DEF S
-----------------------------------------------------------------------------
(* The invariant.                                                          *)

\* Which sides the scan is on, and what it knows of them there: where the two
\* paths part, it is below one directory of one side only.
Position ==
  /\ at[1] \in Up[at[2]] \/ at[2] \in Up[at[1]]
  /\ \A s \in Side : at[s] = Root \/ fs[s][at[s]] = Dir
  /\ mode = "bmode" => at[2] = Root
  /\ tree = 1 => mode # "diff"
  /\ tree = 2 => find /\ ~real_diff
  /\ tree = 2 /\ mode = "diff" /\ trust # "none" =>
       \A a \in Up[at[2]] \ Up[at[1]] : fs[1][a] = Absent
  /\ ph \in {"left?", "left"} => tree # 2
  /\ ph \in {"right?", "right"} => ~OnlyLeft
  /\ mode # "diff" => find
  /\ stopscan => trust = "none" /\ ph # "off"
  /\ trust = "full" => ~dontcmp
  /\ ph = "off" => at[1] = Root /\ at[2] = Root /\ \A p \in Path : dirs[p] = {}

\* A subdirectory that was noted, for the sides it is on.
Noted(p, e) ==
  /\ p \in Up[cur] /\ Parent[e[1]] = p
  /\ (p \in Up[at[1]] /\ p \in Up[at[2]]) \/ e[2] = tree
  /\ e[2] \in {1, 3} => fs[1][e[1]] = Dir
  /\ e[2] \in {2, 3} => fs[2][e[1]] = Dir /\ mode # "bmode"
  /\ e[2] = 1 => mode # "diff"
  /\ e[2] = 2 => find /\ ~real_diff
  /\ e[2] = 2 /\ mode = "diff" /\ trust # "none" => fs[1][e[1]] = Absent
DirsOK == \A p \in Path : \A e \in dirs[p] : Noted(p, e)

\* The names that were read, and those to come.
ReadingOK ==
  /\ ph = "left" => todo \subseteq Names(1)
  /\ ph = "right" => todo \subseteq Names(2)
  /\ \A n \in name_db : fs[1][n] # Absent
  /\ mode = "diff" /\ tree = 3 /\ trust # "none" /\ ph \in {"left", "right?", "right"} =>
       \A n \in Names(1) : n \in name_db \/ (ph = "left" /\ n \in todo)

\* What dir_diff says of the directory in work is true.
VerdictOK ==
  /\ ph \in {"left?", "right?", "sub", "off"} => ~dir_diff
  /\ dir_diff /\ trust # "none" /\ ph = "left" =>
       <<IF mode = "diff" THEN 3 ELSE 1, at[1]>> \in truth
  /\ dir_diff /\ trust # "none" /\ ph \in {"right", "end"} =>
       mode # "bmode" /\ <<IF mode = "diff" THEN 3 ELSE 2, at[2]>> \in truth

Where == Position /\ DirsOK /\ ReadingOK /\ VerdictOK

\* An entry that makes its directory one to be marked: the directory named by i.
Witness(i, n) ==
  /\ Child(n, i[2])
  /\ CASE mode # "diff" -> n \in match /\ File(i[1], n)
       [] mode = "diff" /\ ~find -> Exists(n) /\ Differs(fs[1][n], fs[2][n])
       [] OTHER -> /\ n \in match
                   /\ \/ fs[1][n] # Absent /\ ~(fs[1][n] = Dir /\ fs[2][n] = Dir)
                      \/ ~real_diff /\ fs[1][n] = Absent /\ File(2, n)

\* The side on which an entry decides about i, and whether it has yet to be read.
Decides(i, n) == IF mode # "diff" THEN i[1] ELSE IF fs[1][n] = Absent THEN 2 ELSE 1
Unread(s, n) ==
  \/ s = 1 /\ tree # 2 /\ (ph = "left?" \/ (ph = "left" /\ n \in todo))
  \/ /\ s = 2 /\ ~OnlyLeft
     /\ ph \in {"left?", "left", "right?"} \/ (ph = "right" /\ n \in todo)

\* Why a directory that is to be marked will be: a noted subdirectory is on the
\* way to it; an entry not yet read is, or decides about it; or it is the
\* directory in work, and what was found there is yet to be recorded.
Leads(e, i) == e[1] \in Up[i[2]] /\ (mode # "diff" => e[2] \in {i[1], 3})
InDirs(i) == \E p \in Up[cur] : \E e \in dirs[p] : Leads(e, i)
InNames(i) == \E n \in Node : /\ Parent[n] = cur /\ Unread(Decides(i, n), n)
                              /\ n \in Up[i[2]] \/ Witness(i, n)
InWork(i) == /\ i[2] = cur /\ dir_diff
             /\ \/ ph = "left" /\ (mode = "diff" \/ i[1] = 1)
                \/ ph \in {"right", "end"} /\ (mode = "diff" \/ (i[1] # 1 /\ tree # 1))
Pending(i) == InDirs(i) \/ InNames(i) \/ InWork(i)
Complete == trust = "full" /\ ph # "off" => \A i \in truth : i \in marked \/ Pending(i)

Whole == IInv /\ Where /\ Complete
-----------------------------------------------------------------------------
(* Where the scan is.                                                      *)

LEMMA Sides ==
  ASSUME IInv, Position
  PROVE  /\ cur \in Path /\ at[1] \in Path /\ at[2] \in Path /\ tree \in {1, 2, 3}
         /\ tree = 3 => at[1] = cur /\ at[2] = cur /\ mode # "bmode"
         /\ tree = 1 => at[1] = cur /\ at[2] \in Up[cur]
         /\ tree = 2 => /\ at[2] = cur /\ at[1] \in Up[cur] /\ mode # "bmode"
                        /\ cur \notin Up[at[1]]
         /\ mode = "bmode" => tree = 1
         /\ mode = "diff" => tree \in {2, 3}
         /\ OnlyLeft <=> tree = 1 \/ real_diff
<1>1. at[1] \in Path /\ at[2] \in Path
  BY CurOK DEF IInv
<1>2. CASE mode = "bmode"
  BY <1>1, <1>2, UpRoot DEF Position, tree, cur, OnlyLeft
<1>3. CASE mode # "bmode" /\ at[1] = at[2]
  BY <1>1, <1>3 DEF tree, cur, OnlyLeft
<1>4. CASE mode # "bmode" /\ at[1] # at[2] /\ at[2] \in Up[at[1]]
  BY <1>1, <1>4 DEF Position, tree, cur, OnlyLeft
<1>5. CASE mode # "bmode" /\ at[1] # at[2] /\ at[2] \notin Up[at[1]]
  BY <1>1, <1>5 DEF Position, tree, cur, OnlyLeft
<1> QED BY <1>2, <1>3, <1>4, <1>5

\* The tree is the same on the way to the directory in work.
LEMMA WayDown ==
  ASSUME IInv, Position, NEW s \in Side, NEW a \in Up[at[s]], a # Root
  PROVE  fs[s][a] = Dir
<1>1. at[s] \in Path /\ fs[s] \in Trees
  BY DEF IInv, TypeOK
<1>2. at[s] # Root
  BY <1>1, UpOfRoot
<1>3. fs[s][at[s]] = Dir /\ at[s] \in Node
  BY <1>1, <1>2, Paths DEF Position
<1> QED BY <1>1, <1>3, DirsAbove DEF Dir, Absent

\* What to be marked means, for a directory named by its side and path.
LEMMA TruthIs ==
  /\ mode = "diff" => /\ \A i \in truth : i = <<3, i[2]>> /\ i[2] \in Path
                      /\ \A d \in Path : <<3, d>> \in truth <=>
                           (IF find THEN HasMatch(d) ELSE HasDiff(d))
  /\ mode # "diff" => /\ \A i \in truth : i = <<i[1], i[2]>> /\ i[1] \in Searched
                                          /\ i[2] \in Path
                      /\ \A s \in Searched, d \in Path :
                           <<s, d>> \in truth <=> Matches(s, d)
  /\ Searched \subseteq Side /\ 1 \in Searched
  /\ truth \subseteq DOMAIN Above
<1>1. Searched \subseteq Side /\ 1 \in Searched
  BY DEF Searched, Side
<1>2. CASE mode = "diff"
  <2>1. truth = {3} \X {d \in Path : IF find THEN HasMatch(d) ELSE HasDiff(d)}
    BY <1>2 DEF truth
  <2> QED BY <1>1, <1>2, <2>1 DEF Above
<1>3. CASE mode # "diff"
  <2>1. truth = {i \in Searched \X Path : Matches(i[1], i[2])}
    BY <1>3 DEF truth
  <2>2. \A s \in Searched, d \in Path : <<s, d>> \in truth <=> Matches(s, d)
    BY <2>1
  <2>3. \A i \in truth : i \in Searched \X Path
    BY <2>1
  <2>4. \A i \in truth : i = <<i[1], i[2]>> /\ i[1] \in Searched /\ i[2] \in Path
    BY <2>3
  <2>5. truth \subseteq {1, 2, 3} \X Path
    BY <1>1, <2>3 DEF Side
  <2> QED BY <1>1, <1>3, <2>2, <2>4, <2>5 DEF Above
<1> QED BY <1>2, <1>3

\* The paths on the way to what is to be marked are directories of the trees.
LEMMA OnTheWay ==
  ASSUME IInv, NEW i \in truth, NEW x \in Up[i[2]], x # Root
  PROVE  /\ x \in Node
         /\ mode # "diff" => i[1] \in Side /\ fs[i[1]][x] = Dir
         /\ mode = "diff" => /\ fs[2][x] = Dir /\ fs[1][x] \in {Dir, Absent}
                             /\ fs[1][x] = Absent => find /\ ~real_diff
<1>1. i[2] \in Path /\ x \in Node
  BY TruthIs, UpBasic, Paths
<1>2. CASE mode # "diff"
  <2>1. i[1] \in Side /\ Matches(i[1], i[2])
    BY <1>2, TruthIs
  <2>2. PICK n \in match : Child(n, i[2]) /\ File(i[1], n)
    BY <2>1 DEF Matches
  <2>3. n \in Node /\ fs[i[1]] \in Trees /\ fs[i[1]][n] \notin {Dir, Absent}
    BY <2>1, <2>2 DEF IInv, TypeOK, Child, File
  <2>4. x \in Up[n] /\ x # n
    BY <1>1, <2>2, <2>3, NotUpward DEF Child
  <2> QED BY <1>1, <1>2, <2>1, <2>3, <2>4, DirsAbove
<1>3. CASE mode = "diff"
  <2>1. IF find THEN HasMatch(i[2]) ELSE HasDiff(i[2])
    BY <1>3, TruthIs
  <2>2. x \in Within(i[2])
    BY <1>1 DEF Within
  <2>3. Shared(i[2]) \/ (find /\ ~real_diff /\ Reached(i[2]))
    BY <2>1 DEF HasMatch, HasDiff
  <2> QED BY <1>1, <1>3, <2>2, <2>3 DEF Shared, Reached, Dir, Absent
<1> QED BY <1>2, <1>3

\* A directory is to be marked because of an entry.
LEMMA HasWitness ==
  ASSUME IInv, NEW i \in truth
  PROVE  \E n \in Node : Parent[n] = i[2] /\ Witness(i, n)
<1>1. CASE mode # "diff"
  BY <1>1, TruthIs DEF Matches, Witness, Child
<1>2. CASE mode = "diff" /\ ~find
  BY <1>2, TruthIs DEF HasDiff, Witness, Child
<1>3. CASE mode = "diff" /\ find
  <2>1. HasMatch(i[2])
    BY <1>3, TruthIs
  <2>2. match \subseteq Node
    BY DEF IInv, TypeOK
  <2> QED BY <1>3, <2>1, <2>2 DEF HasMatch, Witness, Child, File
<1> QED BY <1>1, <1>2, <1>3
-----------------------------------------------------------------------------
(* Recording a directory marks it and all that contain it.                 *)

\* What is recorded is recorded with all that contains it.
LEMMA RecordedUp ==
  ASSUME IInv, NEW s \in Side, NEW p \in Path, <<s, p>> \in scan_db, NEW a \in Up[p]
  PROVE  <<s, a>> \in scan_db
<1> DEFINE S == {k \in Path : <<s, k>> \in scan_db}
<1>1. ASSUME NEW k \in S, k # Root PROVE Parent[k] \in S
  <2>1. <<s, Parent[k]>> \in scan_db
    BY <1>1 DEF IInv, AncestorsRecorded
  <2> QED BY <1>1, <2>1, Paths
<1>2. S \in Upward /\ p \in S
  BY <1>1 DEF Upward
<1> HIDE DEF S
<1>3. a \in S
  BY <1>2, UpLeast
<1> QED BY <1>3 DEF S

LEMMA AddedAll ==
  ASSUME IInv, NEW s \in Side, NEW p \in Path
  PROVE  scan_db \cup Added(s, p) = scan_db \cup {<<s, a>> : a \in Up[p]}
<1>1. Added(s, p) \subseteq {<<s, a>> : a \in Up[p]}
  BY DEF Added
<1>2. ASSUME NEW a \in Up[p], <<s, a>> \notin Added(s, p)
      PROVE  <<s, a>> \in scan_db
  <2>1. PICK b \in Up[p] : a \in Up[b] /\ <<s, b>> \in scan_db
    BY <1>2 DEF Added
  <2> QED BY <2>1, UpBasic, RecordedUp
<1> QED BY <1>1, <1>2

\* The name of a directory, in DiffMarks.
Name(s, p) == <<IF mode = "diff" THEN 3 ELSE s, p>>

LEMMA RecordMarks ==
  ASSUME IInv, NEW s \in Side, NEW p \in Path,
         scan_db' = scan_db \cup Added(s, p), mode' = mode
  PROVE  /\ Name(s, p) \in DOMAIN Above /\ Name(s, p) \in marked'
         /\ marked' = marked \cup Above[Name(s, p)]
<1>1. scan_db' = scan_db \cup {<<s, a>> : a \in Up[p]}
  BY AddedAll
<1>2. p \in Up[p] /\ Up[p] \subseteq Path
  BY UpBasic
<1>3. Name(s, p) \in DOMAIN Above
  BY DEF Name, Above, Side
<1>4. Above[Name(s, p)] = {<<Name(s, p)[1], a>> : a \in Up[p]}
  BY DEF Name, Above, Side
<1>5. CASE mode # "diff"
  BY <1>1, <1>2, <1>3, <1>4, <1>5 DEF marked, Name
<1>6. CASE mode = "diff"
  <2>1. \A d \in Path : is_diff_dir(d)' <=> is_diff_dir(d) \/ d \in Up[p]
    BY <1>1, <1>2 DEF is_diff_dir, Side
  <2>2. marked = {3} \X {d \in Path : is_diff_dir(d)}
    BY <1>6 DEF marked
  <2>3. marked' = {3} \X {d \in Path : is_diff_dir(d)'}
    BY <1>6 DEF marked
  <2>4. Above[Name(s, p)] = {3} \X Up[p]
    BY <1>4, <1>6 DEF Name
  <2> HIDE DEF is_diff_dir
  <2>5. Name(s, p) = <<3, p>>
    BY <1>6 DEF Name
  <2> QED BY <1>2, <1>3, <2>1, <2>2, <2>3, <2>4, <2>5
<1> QED BY <1>5, <1>6
-----------------------------------------------------------------------------
(* Steps.                                                                  *)

LEMMA Kept ==
  ASSUME UNCHANGED input
  PROVE  /\ mode' = mode /\ find' = find /\ match' = match
         /\ real_diff' = real_diff /\ fs' = fs
         /\ truth' = truth /\ Searched' = Searched
         /\ at' = at => /\ tree' = tree /\ cur' = cur /\ (OnlyLeft' <=> OnlyLeft)
                        /\ \A s : Names(s)' = Names(s)
<1>1. /\ mode' = mode /\ find' = find /\ match' = match
      /\ real_diff' = real_diff /\ fs' = fs
  BY DEF input
<1>2. Searched' = Searched
  BY <1>1 DEF Searched
<1>3. truth' = truth
  BY <1>1, <1>2 DEF truth, HasMatch, HasDiff, Matches, Shared, Reached, Differs,
                    Child, Exists, File, Within
<1>4. at' = at => /\ tree' = tree /\ cur' = cur /\ (OnlyLeft' <=> OnlyLeft)
                  /\ \A s : Names(s)' = Names(s)
  BY <1>1 DEF tree, cur, OnlyLeft, Names
<1> QED BY <1>1, <1>2, <1>3, <1>4

\* What a step does to the worth of the marks.
Doubts == trust' = trust \/ Worsen("sound") \/ Worsen("none")

LEMMA DoubtsAre ==
  ASSUME IInv, Doubts
  PROVE  /\ trust' # "none" => trust # "none"
         /\ trust' = "full" => trust = "full" /\ ~Worsen("sound") /\ ~Worsen("none")
         /\ Worsen("none") => trust' = "none"
         /\ trust = "none" => trust' = "none"
         /\ trust' = trust \/ (trust = "full" /\ trust' \in {"sound", "none"})
            \/ trust' = "none"
BY DEF Doubts, Worsen, IInv, TypeOK

\* A step that records nothing is one of DiffMarks, or none.
LEMMA StepDoubts ==
  ASSUME IInv, UNCHANGED input, scan_db' = scan_db, Doubts, ph # "off", ph' # "off"
  PROVE  [Marks!Next]_(Marks!vars)
<1>1. truth' = truth /\ marked' = marked
  BY Kept DEF marked, is_diff_dir
<1> HIDE DEF truth, marked
<1>2. CASE trust' = trust
  BY <1>1, <1>2 DEF Marks!vars
<1>3. CASE trust' # trust
  <2>1. trust' \in IF trust = "full" THEN {"sound", "none"} ELSE {"none"}
    BY <1>3, DoubtsAre
  <2> QED BY <1>1, <2>1 DEF Marks!Next, Marks!Doubt
<1> QED BY <1>2, <1>3

LEMMA StepRecords ==
  ASSUME IInv, UNCHANGED input, NEW s \in Side, NEW p \in Path,
         scan_db' = scan_db \cup Added(s, p), trust' = trust, ph # "off", ph' # "off",
         trust = "none" \/ Name(s, p) \in truth
  PROVE  [Marks!Next]_(Marks!vars)
<1>1. /\ Name(s, p) \in DOMAIN Above
      /\ marked' = marked \cup Above[Name(s, p)]
  BY RecordMarks, Kept
<1>2. truth' = truth
  BY Kept
<1> HIDE DEF truth, marked
<1> QED BY <1>1, <1>2 DEF Marks!Next, Marks!Mark

\* The scan stays in its directory.
LEMMA PositionStays ==
  ASSUME IInv, Position, UNCHANGED input, at' = at, Doubts,
         ph' \in {"left?", "left"} => ph \in {"left?", "left"},
         ph' \in {"right?", "right"} => ph \in {"right?", "right"} \/ ~OnlyLeft,
         stopscan' => trust' = "none", ph' # "off",
         trust' = "full" => ~dontcmp'
  PROVE  Position'
<1>1. /\ mode' = mode /\ find' = find /\ real_diff' = real_diff /\ fs' = fs
      /\ tree' = tree /\ cur' = cur /\ (OnlyLeft' <=> OnlyLeft)
      /\ trust' # "none" => trust # "none"
  BY Kept, DoubtsAre
<1> HIDE DEF tree, OnlyLeft
<1> QED BY <1>1 DEF Position

LEMMA NotedStays ==
  ASSUME IInv, UNCHANGED input, at' = at, Doubts, NEW p, NEW e, Noted(p, e)
  PROVE  Noted(p, e)'
<1>1. /\ mode' = mode /\ find' = find /\ real_diff' = real_diff /\ fs' = fs
      /\ tree' = tree /\ cur' = cur
      /\ trust' # "none" => trust # "none"
  BY Kept, DoubtsAre
<1> HIDE DEF tree, cur
<1> QED BY <1>1 DEF Noted

\* Nothing is noted, or one subdirectory of the directory in work.
NothingNoted == dirs' = dirs
NotesOne(e)  == dirs' = [dirs EXCEPT ![cur] = @ \cup {e}] /\ Noted(cur, e)

LEMMA DirsStay ==
  ASSUME IInv, Where, UNCHANGED input, at' = at, Doubts,
         NothingNoted \/ \E e : NotesOne(e)
  PROVE  DirsOK'
<1>1. cur \in Path /\ dirs \in [Path -> SUBSET (Node \X {1, 2, 3})]
  BY CurOK DEF IInv, TypeOK
<1>2. ASSUME NEW p \in Path, NEW e \in dirs'[p] PROVE Noted(p, e)
  <2>1. CASE e \in dirs[p]
    BY <2>1 DEF Where, DirsOK
  <2>2. CASE e \notin dirs[p]
    BY <1>1, <1>2, <2>2 DEF NothingNoted, NotesOne
  <2> QED BY <2>1, <2>2
<1>3. \A p \in Path : \A e \in dirs'[p] : Noted(p, e)'
  BY <1>2, NotedStays
<1> QED BY <1>3 DEF DirsOK

\* What leads to a directory still does.
LEMMA InDirsStays ==
  ASSUME IInv, UNCHANGED input, at' = at, NothingNoted \/ \E e : NotesOne(e),
         NEW i, InDirs(i)
  PROVE  InDirs(i)'
<1>1. cur \in Path /\ dirs \in [Path -> SUBSET (Node \X {1, 2, 3})]
  BY CurOK DEF IInv, TypeOK
<1>2. mode' = mode /\ cur' = cur /\ Up[cur] \subseteq Path
  BY <1>1, Kept, UpBasic
<1>3. PICK p \in Up[cur] : \E e \in dirs[p] : Leads(e, i)
  BY DEF InDirs
<1>4. dirs[p] \subseteq dirs'[p]
  BY <1>1, <1>2 DEF NothingNoted, NotesOne
<1> HIDE DEF cur
<1> QED BY <1>2, <1>3, <1>4 DEF InDirs, Leads
-----------------------------------------------------------------------------
(* What is yet to be read.                                                 *)

\* An entry that decides is there, on a side that is read.
LEMMA DecidesOK ==
  ASSUME IInv, NEW i \in truth, NEW n \in Node, n \in Up[i[2]] \/ Witness(i, n)
  PROVE  /\ Decides(i, n) \in Side /\ fs[Decides(i, n)][n] # Absent
         /\ Decides(i, n) = 2 => ~real_diff /\ mode # "bmode"
<1>1. n # Root /\ fs[1][n] \in Obj /\ fs[2][n] \in Obj
  BY Paths DEF IInv, TypeOK, Side, Trees
<1>2. Absent # Dir /\ Absent.k = "none" /\ \A o \in Obj : o.k = "none" => o = Absent
  BY DEF Absent, Dir, Obj, Leaf
<1>3. CASE mode # "diff"
  <2>1. Decides(i, n) = i[1] /\ i[1] \in Searched /\ i[1] \in Side
    BY <1>3, TruthIs DEF Decides
  <2>2. fs[i[1]][n] # Absent
    BY <1>1, <1>2, <1>3, OnTheWay DEF Witness, File
  <2> QED BY <1>3, <2>1, <2>2 DEF Searched
<1>4. CASE mode = "diff" /\ fs[1][n] # Absent
  BY <1>4 DEF Decides, Side
<1>5. CASE mode = "diff" /\ fs[1][n] = Absent
  <2>1. CASE n \in Up[i[2]]
    BY <1>1, <1>2, <1>5, <2>1, OnTheWay DEF Decides, Side
  <2>2. CASE Witness(i, n) /\ ~find
    BY <1>1, <1>2, <1>5, <2>2 DEF Witness, Exists, Differs, Decides, Side
  <2>3. CASE Witness(i, n) /\ find
    BY <1>2, <1>5, <2>3 DEF Witness, File, Decides, Side
  <2> QED BY <2>1, <2>2, <2>3
<1> QED BY <1>3, <1>4, <1>5

\* An entry that is still not read decides as before.
LEMMA StillUnread ==
  ASSUME UNCHANGED input, at' = at, NEW i, NEW n \in Node, Parent[n] = cur,
         n \in Up[i[2]] \/ Witness(i, n), Unread(Decides(i, n), n)'
  PROVE  Pending(i)'
<1>1. /\ mode' = mode /\ find' = find /\ match' = match /\ real_diff' = real_diff
      /\ fs' = fs /\ cur' = cur
  BY Kept
<1>2. Witness(i, n)' <=> Witness(i, n)
  BY <1>1 DEF Witness, Child, File, Exists, Differs
<1> HIDE DEF cur, Witness
<1> QED BY <1>1, <1>2 DEF Pending, InNames

\* What is shown of each step of the scan.
Known == IInv /\ Where /\ IInv' /\ ph # "off"
Good  == Where' /\ [Marks!Next]_(Marks!vars) /\ (Complete => Complete')

\* It is enough to follow what is pending in the directory in work.
LEMMA CompleteStays ==
  ASSUME Known, UNCHANGED input, at' = at, Doubts, scan_db \subseteq scan_db',
         NothingNoted \/ \E e : NotesOne(e),
         ASSUME NEW i \in truth, trust = "full", trust' = "full", InNames(i) \/ InWork(i)
         PROVE  i \in marked' \/ Pending(i)'
  PROVE  Complete => Complete'
<1> SUFFICES ASSUME Complete, trust' = "full", NEW i \in truth'
             PROVE  i \in marked' \/ Pending(i)'
  BY DEF Complete
<1>1. truth' = truth /\ trust = "full" /\ mode' = mode
  BY Kept, DoubtsAre DEF Known
<1>2. i \in marked \/ Pending(i)
  BY <1>1 DEF Complete, Known
<1>3. CASE i \in marked
  BY <1>1, <1>3 DEF marked, is_diff_dir
<1>4. CASE InDirs(i)
  BY <1>4, InDirsStays DEF Known, Pending
<1>5. CASE InNames(i) \/ InWork(i)
  BY <1>1, <1>5
<1> QED BY <1>2, <1>3, <1>4, <1>5 DEF Pending
-----------------------------------------------------------------------------
(* Opening and closing the directories.                                    *)

LEMMA KnownParts ==
  ASSUME Known
  PROVE  IInv /\ IInv' /\ Where /\ Position /\ DirsOK /\ ReadingOK /\ VerdictOK /\ ph # "off"
BY DEF Known, Where

LEMMA OpenLeftGood ==
  ASSUME Known, OpenLeft
  PROVE  Good
<1>1. /\ UNCHANGED input /\ at' = at /\ scan_db' = scan_db /\ NothingNoted
      /\ Doubts /\ ph = "left?" /\ ph' \in {"left", "end"} /\ dir_diff' = dir_diff
      /\ name_db' = name_db /\ stopscan' = stopscan /\ dontcmp' = dontcmp
  BY DEF OpenLeft, Doubts, NothingNoted, flags
<1>2. /\ mode' = mode /\ fs' = fs /\ tree' = tree /\ cur' = cur /\ Names(1)' = Names(1)
      /\ tree # 2 /\ at[1] = cur /\ tree \in {1, 2, 3}
      /\ trust' # "none" => trust # "none"
      /\ trust' = "full" => trust = "full"
  BY <1>1, Kept, DoubtsAre, Sides, KnownParts DEF Position
<1>3. stopscan' => trust' = "none"
  BY <1>1, <1>2, KnownParts, DoubtsAre DEF Position
<1>4. Position'
  BY <1>1, <1>2, <1>3, KnownParts, PositionStays DEF Position
<1>5. DirsOK'
  BY <1>1, KnownParts, DirsStay
<1>6. /\ ph' = "left" => todo' = Names(1) \/ (todo' = {} /\ trust' = "none")
      /\ trust' = "full" => ph' = "left" /\ todo' = Names(1)
  BY <1>2, KnownParts, DoubtsAre, <1>1 DEF OpenLeft, Worsen, IInv, TypeOK
<1> HIDE DEF tree, cur
<1>7. ReadingOK'
  BY <1>1, <1>2, <1>6, KnownParts DEF ReadingOK
<1>8. VerdictOK'
  BY <1>1, KnownParts DEF VerdictOK
<1>9. ASSUME NEW i \in truth, trust' = "full", InNames(i) \/ InWork(i)
      PROVE  Pending(i)'
  <2>1. InNames(i)
    BY <1>1, <1>9 DEF InWork
  <2>2. PICK n \in Node : /\ Parent[n] = cur /\ Unread(Decides(i, n), n)
                          /\ n \in Up[i[2]] \/ Witness(i, n)
    BY <2>1 DEF InNames
  <2>3. Decides(i, n) \in Side /\ fs[Decides(i, n)][n] # Absent
    BY <2>2, KnownParts, DecidesOK
  <2>4. Decides(i, n) = 1 => n \in Names(1)
    BY <1>2, <2>2, <2>3 DEF Names
  <2>5. Decides(i, n)' = Decides(i, n) /\ OnlyLeft' = OnlyLeft
    BY <1>1, <1>2, Kept DEF Decides, OnlyLeft
  <2>6. Unread(Decides(i, n), n)'
    BY <1>1, <1>2, <1>6, <1>9, <2>2, <2>3, <2>4, <2>5 DEF Unread, Side
  <2> QED BY <1>1, <2>2, <2>6, StillUnread
<1>10. Complete => Complete'
  BY <1>1, <1>9, CompleteStays
<1>11. [Marks!Next]_(Marks!vars)
  BY <1>1, KnownParts, StepDoubts
<1> QED BY <1>4, <1>5, <1>7, <1>8, <1>10, <1>11 DEF Good, Where

LEMMA CloseLeftGood ==
  ASSUME Known, CloseLeft
  PROVE  Good
<1>1. /\ UNCHANGED input /\ at' = at /\ NothingNoted
      /\ Doubts /\ ph = "left" /\ ph' \in {"right?", "end"}
      /\ name_db' = name_db /\ stopscan' = stopscan /\ dontcmp' = dontcmp
      /\ ph' = "right?" => ~OnlyLeft
  BY DEF CloseLeft, Doubts, NothingNoted, flags
<1>2. /\ mode' = mode /\ fs' = fs /\ tree' = tree /\ cur' = cur /\ Names(1)' = Names(1)
      /\ truth' = truth /\ (OnlyLeft' <=> OnlyLeft)
      /\ tree # 2 /\ at[1] = cur /\ (mode = "diff" => at[2] = cur)
      /\ trust' # "none" => trust # "none"
      /\ trust' = "full" => trust = "full"
      /\ cur \in Path /\ 1 \in Side
  BY <1>1, Kept, DoubtsAre, Sides, KnownParts DEF Position, Side
<1>3. stopscan' => trust' = "none"
  BY <1>1, <1>2, KnownParts, DoubtsAre DEF Position
<1>4. Position'
  BY <1>1, <1>2, <1>3, KnownParts, PositionStays DEF Position
<1>5. DirsOK'
  BY <1>1, KnownParts, DirsStay
<1>6. \/ /\ todo = {} /\ trust' = trust /\ ~dir_diff'
         /\ dir_diff => scan_db' = scan_db \cup Added(1, at[1])
         /\ ~dir_diff => scan_db' = scan_db
         /\ ph' = IF OnlyLeft THEN "end" ELSE "right?"
      \/ /\ ph' = "end" /\ scan_db' = scan_db /\ dir_diff' = dir_diff
         /\ trust' # "full" /\ (mode # "diff" => trust' = "none")
  BY <1>2, KnownParts, DoubtsAre DEF CloseLeft, Worsen, add_diff_dir
<1> HIDE DEF tree, cur, truth, OnlyLeft
<1>7. ReadingOK'
  BY <1>1, <1>2, <1>6, KnownParts DEF ReadingOK
<1>8. dir_diff /\ trust # "none" => Name(1, at[1]) \in truth
  BY <1>1, KnownParts DEF VerdictOK, Name
<1>9. VerdictOK'
  BY <1>1, <1>2, <1>6, <1>8, Kept, KnownParts DEF VerdictOK, Name
<1>10. scan_db \subseteq scan_db'
  BY <1>6
<1>11. ASSUME NEW i \in truth, trust = "full", trust' = "full", InNames(i) \/ InWork(i)
       PROVE  i \in marked' \/ Pending(i)'
  <2>1. CASE InNames(i)
    <3>1. PICK n \in Node : /\ Parent[n] = cur /\ Unread(Decides(i, n), n)
                            /\ n \in Up[i[2]] \/ Witness(i, n)
      BY <2>1 DEF InNames
    <3>2. Decides(i, n)' = Decides(i, n)
      BY <1>1, <1>2 DEF Decides
    <3>3. Unread(Decides(i, n), n)'
      BY <1>1, <1>2, <1>6, <1>11, <3>1, <3>2 DEF Unread
    <3> QED BY <1>1, <3>1, <3>3, StillUnread
  <2>2. CASE InWork(i)
    <3>1. i = Name(1, at[1]) /\ dir_diff
      BY <1>1, <1>2, <2>2, TruthIs DEF InWork, Name
    <3>2. scan_db' = scan_db \cup Added(1, at[1])
      BY <1>6, <1>11, <3>1
    <3> QED BY <1>2, <3>1, <3>2, KnownParts, RecordMarks
  <2> QED BY <1>11, <2>1, <2>2
<1>12. Complete => Complete'
  BY <1>1, <1>10, <1>11, CompleteStays
<1>13. [Marks!Next]_(Marks!vars)
  <2>1. CASE scan_db' = scan_db
    BY <1>1, <2>1, KnownParts, StepDoubts
  <2>2. CASE scan_db' = scan_db \cup Added(1, at[1]) /\ trust' = trust /\ dir_diff
    BY <1>1, <1>2, <1>8, <2>2, KnownParts, StepRecords
  <2> QED BY <1>6, <2>1, <2>2
<1> QED BY <1>4, <1>5, <1>7, <1>9, <1>12, <1>13 DEF Good, Where

LEMMA OpenRightGood ==
  ASSUME Known, OpenRight
  PROVE  Good
<1>1. /\ UNCHANGED input /\ at' = at /\ scan_db' = scan_db /\ NothingNoted
      /\ Doubts /\ ph = "right?" /\ ph' \in {"right", "end"} /\ dir_diff' = dir_diff
      /\ name_db' = name_db /\ stopscan' = stopscan /\ dontcmp' = dontcmp
  BY DEF OpenRight, Doubts, NothingNoted, flags
<1>2. /\ mode' = mode /\ fs' = fs /\ tree' = tree /\ cur' = cur
      /\ Names(1)' = Names(1) /\ Names(2)' = Names(2) /\ (OnlyLeft' <=> OnlyLeft)
      /\ ~OnlyLeft /\ at[2] = cur
      /\ trust' # "none" => trust # "none"
      /\ trust' = "full" => trust = "full"
  BY <1>1, Kept, DoubtsAre, Sides, KnownParts DEF Position
<1>3. stopscan' => trust' = "none"
  BY <1>1, <1>2, KnownParts, DoubtsAre DEF Position
<1>4. Position'
  BY <1>1, <1>2, <1>3, KnownParts, PositionStays DEF Position
<1>5. DirsOK'
  BY <1>1, KnownParts, DirsStay
<1>6. /\ ph' = "right" => todo' = Names(2)
      /\ trust' = "full" => ph' = "right"
  BY <1>2, KnownParts, DoubtsAre, <1>1 DEF OpenRight, Worsen
<1> HIDE DEF tree, cur, OnlyLeft
<1>7. ReadingOK'
  BY <1>1, <1>2, <1>6, KnownParts DEF ReadingOK
<1>8. VerdictOK'
  BY <1>1, KnownParts DEF VerdictOK
<1>9. ASSUME NEW i \in truth, trust' = "full", InNames(i) \/ InWork(i)
      PROVE  Pending(i)'
  <2>1. InNames(i)
    BY <1>1, <1>9, KnownParts DEF InWork, VerdictOK
  <2>2. PICK n \in Node : /\ Parent[n] = cur /\ Unread(Decides(i, n), n)
                          /\ n \in Up[i[2]] \/ Witness(i, n)
    BY <2>1 DEF InNames
  <2>3. Decides(i, n) = 2 /\ fs[2][n] # Absent
    BY <1>1, <2>2, KnownParts, DecidesOK DEF Unread
  <2>4. n \in Names(2)
    BY <1>2, <2>2, <2>3 DEF Names
  <2>5. Decides(i, n)' = Decides(i, n)
    BY <1>1, <1>2 DEF Decides
  <2>6. Unread(Decides(i, n), n)'
    BY <1>1, <1>2, <1>6, <1>9, <2>3, <2>4, <2>5 DEF Unread
  <2> QED BY <1>1, <2>2, <2>6, StillUnread
<1>10. Complete => Complete'
  BY <1>1, <1>9, CompleteStays
<1>11. [Marks!Next]_(Marks!vars)
  BY <1>1, KnownParts, StepDoubts
<1> QED BY <1>4, <1>5, <1>7, <1>8, <1>10, <1>11 DEF Good, Where

LEMMA CloseRightGood ==
  ASSUME Known, CloseRight
  PROVE  Good
<1>1. /\ UNCHANGED input /\ at' = at /\ scan_db' = scan_db /\ NothingNoted
      /\ Doubts /\ ph = "right" /\ ph' = "end" /\ dir_diff' = dir_diff
      /\ name_db' = name_db /\ stopscan' = stopscan /\ dontcmp' = dontcmp
  BY DEF CloseRight, Doubts, NothingNoted, flags
<1>2. /\ mode' = mode /\ fs' = fs /\ tree' = tree /\ cur' = cur /\ truth' = truth
      /\ trust' # "none" => trust # "none"
      /\ trust' = "full" => trust = "full" /\ todo = {}
  BY <1>1, Kept, DoubtsAre, KnownParts DEF CloseRight
<1>3. stopscan' => trust' = "none"
  BY <1>1, <1>2, KnownParts, DoubtsAre DEF Position
<1>4. Position'
  BY <1>1, <1>2, <1>3, KnownParts, PositionStays DEF Position
<1>5. DirsOK'
  BY <1>1, KnownParts, DirsStay
<1> HIDE DEF tree, cur, truth
<1>7. ReadingOK'
  BY <1>1, <1>2, KnownParts DEF ReadingOK
<1>8. VerdictOK'
  BY <1>1, <1>2, KnownParts DEF VerdictOK
<1>9. ASSUME NEW i \in truth, trust' = "full", InNames(i) \/ InWork(i)
      PROVE  Pending(i)'
  <2>1. ~InNames(i)
    BY <1>1, <1>2, <1>9 DEF InNames, Unread
  <2>2. InWork(i)'
    BY <1>1, <1>2, <1>9, <2>1 DEF InWork
  <2> QED BY <2>2 DEF Pending
<1>10. Complete => Complete'
  BY <1>1, <1>9, CompleteStays
<1>11. [Marks!Next]_(Marks!vars)
  BY <1>1, KnownParts, StepDoubts
<1> QED BY <1>4, <1>5, <1>7, <1>8, <1>10, <1>11 DEF Good, Where

LEMMA DirScanEndGood ==
  ASSUME Known, dir_scan_end
  PROVE  Good
<1>1. /\ UNCHANGED input /\ at' = at /\ NothingNoted /\ trust' = trust
      /\ Doubts /\ ph = "end" /\ ph' = "sub" /\ ~dir_diff'
      /\ name_db' = {} /\ stopscan' = stopscan /\ dontcmp' = dontcmp
  BY DEF dir_scan_end, Doubts, NothingNoted, flags
<1>2. /\ mode' = mode /\ at[2] \in Path /\ 1 \in Side /\ 2 \in Side /\ Root \in Path
      /\ tree # 1 => at[2] = cur
      /\ mode = "diff" => tree # 1
  BY <1>1, Kept, Sides, KnownParts, Paths DEF Side
<1>3. stopscan' => trust' = "none"
  BY <1>1, KnownParts DEF Position
<1>4. Position'
  BY <1>1, <1>2, <1>3, KnownParts, PositionStays DEF Position
<1>5. DirsOK'
  BY <1>1, KnownParts, DirsStay
<1>6. \/ scan_db' = scan_db /\ (dir_diff => mode = "bmode")
      \/ mode # "bmode" /\ dir_diff /\ scan_db' = scan_db \cup Added(2, at[2])
      \/ mode = "bmode" /\ dir_diff /\ scan_db' = scan_db \cup Added(1, Root)
  BY DEF dir_scan_end, add_right, add_diff_dir
<1> HIDE DEF tree, cur, truth
<1>7. ReadingOK'
  BY <1>1 DEF ReadingOK
<1>8. VerdictOK'
  BY <1>1 DEF VerdictOK
<1>9. dir_diff /\ trust # "none" => mode # "bmode" /\ Name(2, at[2]) \in truth
  BY <1>1, KnownParts DEF VerdictOK, Name
<1>10. scan_db \subseteq scan_db'
  BY <1>6
<1>11. ASSUME NEW i \in truth, trust = "full", InNames(i) \/ InWork(i)
       PROVE  i \in marked'
  <2>1. InWork(i)
    BY <1>1, <1>11 DEF InNames, Unread
  <2>2. scan_db' = scan_db \cup Added(2, at[2])
    BY <1>6, <1>9, <1>11, <2>1 DEF InWork
  <2>3. i = <<i[1], i[2]>> /\ (mode = "diff" => i[1] = 3) /\ (mode # "diff" => i[1] \in {1, 2})
    <3>1. CASE mode = "diff"
      <4>1. i = <<3, i[2]>>
        BY <3>1, TruthIs
      <4>2. i[1] = 3
        BY <4>1
      <4> QED BY <3>1, <4>1, <4>2
    <3>2. CASE mode # "diff"
      BY <3>2, TruthIs DEF Side
    <3> QED BY <3>1, <3>2
  <2>4. i = Name(2, at[2])
    BY <1>1, <1>2, <2>1, <2>3 DEF InWork, Name
  <2> QED BY <1>2, <2>2, <2>4, KnownParts, RecordMarks
<1>12. Complete => Complete'
  BY <1>1, <1>10, <1>11, CompleteStays
<1>13. [Marks!Next]_(Marks!vars)
  <2>1. CASE scan_db' = scan_db
    BY <1>1, <2>1, KnownParts, StepDoubts
  <2>2. CASE mode # "bmode" /\ dir_diff /\ scan_db' = scan_db \cup Added(2, at[2])
    BY <1>1, <1>2, <1>9, <2>2, KnownParts, StepRecords
  <2>3. CASE mode = "bmode" /\ dir_diff /\ scan_db' = scan_db \cup Added(1, Root)
    BY <1>1, <1>2, <1>9, <2>3, KnownParts, StepRecords
  <2> QED BY <1>6, <2>1, <2>2, <2>3
<1> QED BY <1>4, <1>5, <1>7, <1>8, <1>12, <1>13 DEF Good, Where
-----------------------------------------------------------------------------
(* Reading the entries of the left directory.                              *)

LEMMA StopDoubts ==
  ASSUME IInv, Position, Stop
  PROVE  trust' = "none" /\ Doubts
BY DEF Stop, Worsen, Doubts, Position

\* What is on both sides all the way down.
LEMMA BothSides ==
  ASSUME IInv, Position, tree = 3
  PROVE  Shared(cur)
<1>1. at[1] = cur /\ at[2] = cur
  BY Sides
<1> HIDE DEF tree, cur
<1>2. \A a \in Up[cur] : a # Root => fs[1][a] = Dir /\ fs[2][a] = Dir
  BY <1>1, WayDown DEF Side
<1> QED BY <1>2 DEF Shared, Within

\* What is read is an entry of the left directory.
LEMMA LeftName ==
  ASSUME Known, ph = "left", NEW n \in todo
  PROVE  /\ n \in Node /\ Parent[n] = cur /\ fs[1][n] # Absent
         /\ tree \in {1, 3} /\ at[1] = cur /\ cur \in Path /\ cur \in Up[cur]
         /\ tree = 3 => at[2] = cur /\ mode # "bmode" /\ cur \in Up[at[2]]
         /\ mode = "diff" => tree = 3
<1>1. n \in Names(1) /\ tree # 2
  BY KnownParts DEF ReadingOK, Position
<1>2. cur \in Path /\ cur \in Up[cur]
  BY KnownParts, Sides, UpBasic
<1> QED BY <1>1, <1>2, KnownParts, Sides DEF Names

\* Whether a left entry is a subdirectory to be scanned.
RightOf(n)   == IF tree = 3 THEN fs[2][n] ELSE Absent
Descended(n) == fs[1][n] = Dir /\ (RightOf(n) = Dir \/ mode # "diff")

LEMMA LeftNoted ==
  ASSUME Known, ph = "left", NEW n \in todo, Descended(n)
  PROVE  Noted(cur, <<n, SidesOf(RightOf(n))>>)
<1>1. SidesOf(RightOf(n)) = IF RightOf(n) = Dir THEN 3 ELSE 1
  BY DEF SidesOf
<1>2. RightOf(n) = Dir => tree = 3 /\ fs[2][n] = Dir
  BY DEF RightOf, Dir, Absent
<1>3. tree = 1 => RightOf(n) # Dir
  BY DEF RightOf, Dir, Absent
<1> HIDE DEF tree, cur
<1>4. \/ SidesOf(RightOf(n)) = 3 /\ tree = 3 /\ fs[2][n] = Dir
      \/ SidesOf(RightOf(n)) = 1 /\ mode # "diff"
  BY <1>1, <1>2 DEF Descended
<1>5. (cur \in Up[at[1]] /\ cur \in Up[at[2]]) \/ SidesOf(RightOf(n)) = tree
  BY <1>1, <1>3, LeftName
<1> QED BY <1>4, <1>5, LeftName DEF Noted, Descended

\* A directory whose name is taken for that of a file.
NamedDir(n) == Named(fs[1][n], RightOf(n), n)

\* A file that matches, and a difference, are what they are taken for.
LEMMA LeftTrue ==
  ASSUME Known, ph = "left", NEW n \in todo, ~Descended(n), find => ~NamedDir(n),
         (find /\ n \in match) \/ (~find /\ Differs(fs[1][n], RightOf(n)))
  PROVE  Name(1, at[1]) \in truth
<1>1. Child(n, at[1]) /\ at[1] \in Path /\ 1 \in Searched
  BY LeftName, TruthIs DEF Child
<1>2. CASE mode # "diff"
  <2>1. find /\ n \in match
    BY <1>2, KnownParts DEF Position
  <2>2. File(1, n)
    BY <1>2, LeftName DEF File, Descended
  <2>3. Matches(1, at[1])
    BY <1>1, <2>1, <2>2 DEF Matches
  <2> QED BY <1>1, <1>2, <2>3, TruthIs DEF Name
<1>3. CASE mode = "diff"
  <2>1. Shared(at[1]) /\ RightOf(n) = fs[2][n] /\ fs[1][n] # Absent /\ n \in Node
    BY <1>3, LeftName, BothSides, KnownParts DEF RightOf
  <2>2. CASE find
    <3>1. n \in match /\ n # Root
      BY <2>1, <2>2, KnownParts, Paths
    <3>2. File(1, n) \/ File(2, n)
      BY <1>3, <2>1, <2>2, <3>1 DEF File, NamedDir, Named, Descended
    <3>3. HasMatch(at[1])
      BY <1>1, <2>1, <3>1, <3>2 DEF HasMatch
    <3> QED BY <1>1, <1>3, <2>2, <3>3, TruthIs DEF Name
  <2>3. CASE ~find
    <3>1. HasDiff(at[1])
      BY <1>1, <1>3, <2>1, <2>3 DEF HasDiff, Exists
    <3> QED BY <1>1, <1>3, <2>3, <3>1, TruthIs DEF Name
  <2> QED BY <2>2, <2>3
<1> QED BY <1>2, <1>3

\* What the loop does with an entry: a subdirectory is noted, of another one is
\* found whether it counts; and what is in doubt is not trusted.
LEMMA LeftEntry ==
  ASSUME Known, ph = "left", NEW n \in todo, left_dir_scan_mode(n) \/ NoStat
  PROVE  /\ ph' = "left" /\ stopscan' = stopscan /\ Doubts
         /\ trust' = "full" => ~dontcmp'
         /\ \/ /\ NotesOne(<<n, SidesOf(RightOf(n))>>)
               /\ Descended(n) /\ dir_diff' = dir_diff
            \/ /\ NothingNoted
               /\ dir_diff' <=> dir_diff \/ (find /\ n \in match)
                                \/ (~find /\ Differs(fs[1][n], RightOf(n)))
               /\ ~Descended(n) /\ (find => ~NamedDir(n))
            \/ NothingNoted /\ (dir_diff' <=> dir_diff) /\ trust' # "full"
            \/ NothingNoted /\ trust' = "none"
<1>1. trust = "full" => ~dontcmp
  BY KnownParts DEF Position
<1>2. CASE NoStat
  <2>1. trust' # "full"
    BY <1>2, DoubtsAre, KnownParts DEF NoStat, Doubts
  <2> QED BY <1>2, <2>1 DEF NoStat, Found, Doubts, NothingNoted
<1>3. CASE left_dir_scan_mode(n)
  <2>1. \/ Descended(n) /\ Push(n, SidesOf(RightOf(n)))
        \/ /\ ~Descended(n) /\ find /\ Found(n \in match) /\ UNCHANGED dontcmp
           /\ IF NamedDir(n) THEN Worsen("none") ELSE UNCHANGED trust
        \/ ~Descended(n) /\ ~find /\ compare(fs[1][n], RightOf(n))
    BY <1>3 DEF left_dir_scan_mode, Descended, RightOf, NamedDir
  <2>2. CASE Descended(n) /\ Push(n, SidesOf(RightOf(n)))
    BY <1>1, <2>2, LeftNoted DEF Push, NotesOne, flags, Doubts
  <2>3. CASE /\ ~Descended(n) /\ find /\ Found(n \in match) /\ UNCHANGED dontcmp
             /\ IF NamedDir(n) THEN Worsen("none") ELSE UNCHANGED trust
    <3>1. CASE ~NamedDir(n)
      BY <1>1, <2>3, <3>1 DEF Found, NothingNoted, Doubts
    <3>2. CASE NamedDir(n)
      <4>1. trust' = "none"
        BY <2>3, <3>2, DoubtsAre, KnownParts DEF Doubts
      <4> QED BY <2>3, <3>2, <4>1 DEF Found, NothingNoted, Doubts
    <3> QED BY <3>1, <3>2
  <2>4. CASE ~Descended(n) /\ ~find /\ compare(fs[1][n], RightOf(n))
    <3>1. CASE Found(Differs(fs[1][n], RightOf(n))) /\ UNCHANGED <<dontcmp, trust>>
      BY <1>1, <2>4, <3>1 DEF Found, NothingNoted, Doubts
    <3>2. CASE dontcmp /\ Found(FALSE) /\ UNCHANGED <<dontcmp, trust>>
      BY <1>1, <3>2 DEF Found, NothingNoted, Doubts
    <3>3. CASE Found(FALSE) /\ Worsen("sound")
      <4>1. trust' # "full"
        BY <3>3, DoubtsAre, KnownParts DEF Doubts
      <4> QED BY <3>3, <4>1 DEF Found, NothingNoted, Doubts
    <3> QED BY <2>4, <3>1, <3>2, <3>3 DEF compare
  <2> QED BY <2>1, <2>2, <2>3, <2>4
<1> QED BY <1>2, <1>3

\* An entry on the way to a directory to be marked is noted, and one that
\* decides about it is found.
LEMMA LeftFinds ==
  ASSUME Known, ph = "left", NEW n \in todo, NEW i \in truth, Decides(i, n) = 1,
         n \in Up[i[2]] \/ Witness(i, n)
  PROVE  \/ Descended(n) /\ n \in Up[i[2]] /\ (mode # "diff" => i[1] = 1)
         \/ /\ ~Descended(n) /\ i[2] = cur /\ (mode # "diff" => i[1] = 1)
            /\ (find /\ n \in match) \/ (~find /\ Differs(fs[1][n], RightOf(n)))
<1>1. /\ n \in Node /\ n # Root /\ fs[1][n] # Absent /\ Parent[n] = cur
      /\ mode = "diff" => RightOf(n) = fs[2][n]
  BY LeftName, KnownParts, Paths DEF RightOf
<1>2. mode # "diff" => i[1] = 1
  BY DEF Decides
<1>3. CASE n \in Up[i[2]]
  <2>1. CASE mode # "diff"
    BY <1>1, <1>2, <1>3, <2>1, KnownParts, OnTheWay DEF Descended
  <2>2. CASE mode = "diff"
    BY <1>1, <1>3, <2>2, KnownParts, OnTheWay DEF Descended
  <2> QED BY <1>2, <1>3, <2>1, <2>2
<1>4. CASE Witness(i, n)
  <2>1. i[2] = cur
    BY <1>1, <1>4 DEF Witness, Child
  <2>2. CASE mode # "diff"
    BY <1>2, <1>4, <2>1, <2>2, KnownParts
       DEF Witness, File, Descended, Position
  <2>3. CASE mode = "diff" /\ ~find
    <3>1. Differs(fs[1][n], fs[2][n])
      BY <1>4, <2>3 DEF Witness
    <3>2. ~(fs[1][n] = Dir /\ fs[2][n] = Dir)
      BY <3>1 DEF Differs
    <3> QED BY <1>1, <2>1, <2>3, <3>1, <3>2 DEF Descended
  <2>4. CASE mode = "diff" /\ find
    <3>1. n \in match /\ ~(fs[1][n] = Dir /\ fs[2][n] = Dir)
      BY <1>1, <1>4, <2>4 DEF Witness
    <3> QED BY <1>1, <2>1, <2>4, <3>1 DEF Descended
  <2> QED BY <2>2, <2>3, <2>4
<1> QED BY <1>3, <1>4

LEMMA ReadLeftGood ==
  ASSUME Known, ReadLeft
  PROVE  Good
<1>1. PICK n \in todo :
        /\ name_db' = IF mode = "diff" THEN name_db \cup {n} ELSE name_db
        /\ \/ Stop
           \/ todo' = todo \ {n} /\ (left_dir_scan_mode(n) \/ NoStat)
  BY DEF ReadLeft
<1>2. /\ UNCHANGED input /\ at' = at /\ scan_db' = scan_db /\ ph = "left"
      /\ trust' # "none" => ~Stop
  BY StopDoubts, KnownParts DEF ReadLeft
<1>3. /\ mode' = mode /\ fs' = fs /\ tree' = tree /\ cur' = cur /\ Names(1)' = Names(1)
      /\ find' = find /\ truth' = truth /\ (OnlyLeft' <=> OnlyLeft)
  BY <1>2, Kept
<1>4. /\ Doubts
      /\ ph' = "left" \/ (ph' = "end" /\ trust' = "none")
      /\ stopscan' => trust' = "none"
      /\ trust' = "full" => ~dontcmp'
      /\ NothingNoted \/ \E e : NotesOne(e)
  <2>1. CASE Stop
    BY <2>1, StopDoubts, KnownParts DEF Stop, NothingNoted
  <2>2. CASE left_dir_scan_mode(n) \/ NoStat
    <3>1. trust = "none" => trust' = "none"
      BY <1>2, <2>2, LeftEntry, DoubtsAre, KnownParts
    <3> QED BY <1>2, <2>2, <3>1, LeftEntry, KnownParts DEF Position
  <2> QED BY <1>1, <2>1, <2>2
<1>5. trust' # "none" => trust # "none"
  BY <1>4, DoubtsAre, KnownParts
<1>6. Position'
  BY <1>2, <1>4, KnownParts, PositionStays
<1>7. DirsOK'
  BY <1>2, <1>4, KnownParts, DirsStay
<1> HIDE DEF tree, cur, truth, OnlyLeft
<1>8. ReadingOK'
  <2>1. \A m \in name_db' : fs[1][m] # Absent
    BY <1>1, <1>2, LeftName, KnownParts DEF ReadingOK
  <2>2. ph' = "left" => todo' \subseteq Names(1)
    BY <1>1, <1>2, KnownParts DEF ReadingOK, Stop
  <2>3. ASSUME mode = "diff", tree = 3, trust' # "none", NEW m \in Names(1)
        PROVE  m \in name_db' \/ m \in todo'
    BY <1>1, <1>2, <1>5, <2>3, KnownParts DEF ReadingOK
  <2> QED BY <1>3, <1>4, <2>1, <2>2, <2>3 DEF ReadingOK
<1>9. VerdictOK'
  <2>1. ASSUME dir_diff', trust' # "none" PROVE Name(1, at[1]) \in truth
    <3>1. dir_diff => Name(1, at[1]) \in truth
      BY <1>2, <1>5, <2>1, KnownParts DEF VerdictOK, Name
    <3> QED BY <1>1, <1>2, <2>1, <3>1, LeftEntry, LeftTrue
  <2> QED BY <1>2, <1>3, <1>4, <2>1 DEF VerdictOK, Name
<1>10. ASSUME NEW i \in truth, trust = "full", trust' = "full", InNames(i) \/ InWork(i)
       PROVE  Pending(i)'
  <2>1. /\ todo' = todo \ {n} /\ ph' = "left"
        /\ \/ NotesOne(<<n, SidesOf(RightOf(n))>>) /\ Descended(n) /\ dir_diff' = dir_diff
           \/ /\ NothingNoted /\ ~Descended(n)
              /\ dir_diff' <=> dir_diff \/ (find /\ n \in match)
                               \/ (~find /\ Differs(fs[1][n], RightOf(n)))
    BY <1>1, <1>2, <1>10, LeftEntry
  <2>2. CASE InWork(i)
    BY <1>2, <1>3, <2>1, <2>2 DEF InWork, Pending
  <2>3. CASE InNames(i)
    <3>1. PICK x \in Node : /\ Parent[x] = cur /\ Unread(Decides(i, x), x)
                            /\ x \in Up[i[2]] \/ Witness(i, x)
      BY <2>3 DEF InNames
    <3>2. CASE ~(x = n /\ Decides(i, x) = 1)
      <4>1. Decides(i, x)' = Decides(i, x)
        BY <1>3 DEF Decides
      <4>2. Unread(Decides(i, x), x)'
        BY <1>2, <1>3, <2>1, <3>1, <3>2, <4>1 DEF Unread
      <4> QED BY <1>2, <3>1, <4>2, StillUnread
    <3>3. CASE x = n /\ Decides(i, x) = 1
      <4>1. CASE Descended(n)
        <5>1. n \in Up[i[2]] /\ (mode # "diff" => i[1] = 1)
          BY <1>2, <3>1, <3>3, <4>1, LeftFinds
        <5>2. <<n, SidesOf(RightOf(n))>> \in dirs'[cur]
          BY <1>2, <2>1, <4>1, LeftName, KnownParts DEF NotesOne, IInv, TypeOK
        <5>3. SidesOf(RightOf(n)) \in {1, 3}
          BY DEF SidesOf
        <5>4. PICK t \in {1, 3} : <<n, t>> \in dirs'[cur]
          BY <5>2, <5>3
        <5>5. Leads(<<n, t>>, i)'
          BY <1>3, <5>1, <5>4 DEF Leads
        <5>6. cur \in Up[cur]
          BY <1>2, LeftName
        <5> QED BY <1>3, <5>4, <5>5, <5>6 DEF InDirs, Pending
      <4>2. CASE ~Descended(n)
        BY <1>2, <1>3, <2>1, <3>1, <3>3, <4>2, LeftFinds DEF InWork, Pending
      <4> QED BY <4>1, <4>2
    <3> QED BY <3>2, <3>3
  <2> QED BY <1>10, <2>2, <2>3
<1>11. Complete => Complete'
  BY <1>2, <1>4, <1>10, CompleteStays
<1>12. [Marks!Next]_(Marks!vars)
  BY <1>2, <1>4, KnownParts, StepDoubts
<1> QED BY <1>6, <1>7, <1>8, <1>9, <1>11, <1>12 DEF Good, Where
-----------------------------------------------------------------------------
(* Reading the entries of the right directory.                             *)

LEMMA RightName ==
  ASSUME Known, ph = "right", NEW n \in todo
  PROVE  /\ n \in Node /\ Parent[n] = cur /\ fs[2][n] # Absent
         /\ tree \in {2, 3} /\ at[2] = cur /\ cur \in Path /\ cur \in Up[cur]
         /\ tree = 3 => at[1] = cur /\ cur \in Up[at[1]]
         /\ ~real_diff /\ mode # "bmode" /\ ~OnlyLeft
<1>1. n \in Names(2) /\ ~OnlyLeft
  BY KnownParts DEF ReadingOK, Position
<1>2. cur \in Path /\ cur \in Up[cur]
  BY KnownParts, Sides, UpBasic
<1> QED BY <1>1, <1>2, KnownParts, Sides DEF Names, OnlyLeft

\* What was not seen on the left is not there.
LEMMA RightAlone ==
  ASSUME Known, ph = "right", NEW n \in todo, ~Seen(n), mode = "diff", trust # "none"
  PROVE  fs[1][n] = Absent
<1>1. CASE tree = 3
  <2>1. n \notin name_db
    BY <1>1 DEF Seen
  <2>2. fs[1][n] # Absent => n \in Names(1)
    BY <1>1, RightName DEF Names
  <2> QED BY <1>1, <2>1, <2>2, KnownParts DEF ReadingOK
<1>2. CASE tree = 2
  <2>1. cur = at[2] /\ cur \notin Up[at[1]] /\ cur \in Up[at[2]] /\ at[1] \in Path
    BY <1>2, RightName, KnownParts, Sides
  <2>2. fs[1][cur] = Absent /\ cur # Root
    BY <1>2, <2>1, KnownParts, UpRoot DEF Position
  <2>3. fs[1] \in Trees /\ n \in Node /\ Parent[n] = cur
    BY RightName, KnownParts DEF IInv, TypeOK, Side
  <2>4. fs[1][n] # Absent => fs[1][cur] = Dir
    BY <2>2, <2>3 DEF Trees
  <2> QED BY <2>2, <2>4 DEF Dir, Absent
<1> QED BY <1>1, <1>2, RightName

LEMMA RightNoted ==
  ASSUME Known, ph = "right", NEW n \in todo, ~Seen(n), find, fs[2][n] = Dir
  PROVE  Noted(cur, <<n, 2>>)
<1> HIDE DEF tree, cur, Seen
<1> QED BY RightName, RightAlone DEF Noted

\* The right directory is one that diff mode looks for files in.
LEMMA RightReached ==
  ASSUME Known, ph = "right", todo # {}, mode = "diff", trust # "none"
  PROVE  Reached(at[2])
<1>1. ASSUME NEW a \in Up[at[2]], a # Root
      PROVE  fs[2][a] = Dir /\ fs[1][a] \in {Dir, Absent}
  <2>1. fs[2][a] = Dir
    BY <1>1, KnownParts, WayDown DEF Side
  <2>2. CASE a \in Up[at[1]]
    BY <1>1, <2>1, <2>2, KnownParts, WayDown DEF Side
  <2>3. CASE a \notin Up[at[1]]
    <3>1. tree = 2
      BY <1>1, <2>3, RightName
    <3> QED BY <1>1, <2>1, <2>3, <3>1, KnownParts DEF Position
  <2> QED BY <2>2, <2>3
<1> QED BY <1>1 DEF Reached, Within

LEMMA RightTrue ==
  ASSUME Known, ph = "right", NEW n \in todo, ~Seen(n), trust # "none",
         (find /\ n \in match /\ fs[2][n] # Dir) \/ ~find
  PROVE  Name(2, at[2]) \in truth
<1>1. Child(n, at[2]) /\ at[2] \in Path /\ n \in Node /\ ~real_diff /\ fs[2][n] # Absent
  BY RightName DEF Child
<1>2. CASE mode # "diff"
  <2>1. find /\ n \in match /\ 2 \in Searched
    BY <1>1, <1>2, RightName, KnownParts DEF Position, Searched, Side, IInv, TypeOK
  <2>2. Matches(2, at[2])
    BY <1>1, <2>1 DEF Matches, File
  <2> QED BY <1>1, <1>2, <2>1, <2>2, TruthIs DEF Name
<1>3. CASE mode = "diff"
  <2>1. fs[1][n] = Absent
    BY <1>3, RightAlone
  <2>2. CASE find
    <3>1. HasMatch(at[2])
      BY <1>1, <1>3, <2>1, <2>2, RightReached DEF HasMatch, File
    <3> QED BY <1>1, <1>3, <2>2, <3>1, TruthIs DEF Name
  <2>3. CASE ~find
    <3>1. tree = 3 /\ at[2] = cur
      BY <2>3, RightName, KnownParts DEF Position
    <3>2. Shared(at[2])
      BY <3>1, KnownParts, BothSides
    <3>3. fs[2][n] \in Obj
      BY <1>1, KnownParts DEF IInv, TypeOK, Side, Trees
    <3>4. fs[2][n].k # "none" /\ fs[1][n].k = "none"
      BY <1>1, <2>1, <3>3 DEF Obj, Leaf, Dir, Absent
    <3>5. HasDiff(at[2])
      BY <1>1, <3>2, <3>4 DEF HasDiff, Exists, Differs
    <3> QED BY <1>1, <1>3, <2>3, <3>5, TruthIs DEF Name
  <2> QED BY <2>2, <2>3
<1> QED BY <1>2, <1>3

\* An entry on the way to a directory to be marked is a subdirectory, and one
\* that decides about it is found.
LEMMA RightFinds ==
  ASSUME Known, ph = "right", NEW n \in todo, NEW i \in truth, Decides(i, n) = 2,
         n \in Up[i[2]] \/ Witness(i, n)
  PROVE  /\ ~Seen(n)
         /\ mode # "diff" => i[1] = 2
         /\ \/ find /\ fs[2][n] = Dir /\ n \in Up[i[2]]
            \/ i[2] = cur /\ (find => n \in match /\ fs[2][n] # Dir)
<1>1. n \in Node /\ n # Root /\ fs[2][n] # Absent /\ Parent[n] = cur
  BY RightName, KnownParts, Paths
<1>2. mode # "diff" => i[1] = 2
  BY DEF Decides
<1>3. mode = "diff" => fs[1][n] = Absent
  BY DEF Decides
<1>4. ~Seen(n)
  BY <1>3, KnownParts DEF Seen, ReadingOK
<1>5. CASE n \in Up[i[2]]
  <2>1. CASE mode # "diff"
    BY <1>1, <1>2, <1>4, <1>5, <2>1, KnownParts, OnTheWay DEF Position
  <2>2. CASE mode = "diff"
    BY <1>1, <1>3, <1>4, <1>5, <2>2, KnownParts, OnTheWay
  <2> QED BY <2>1, <2>2
<1>6. CASE Witness(i, n)
  <2>1. i[2] = cur
    BY <1>1, <1>6 DEF Witness, Child
  <2>2. CASE mode # "diff"
    BY <1>2, <1>4, <1>6, <2>1, <2>2 DEF Witness, File
  <2>3. CASE mode = "diff" /\ ~find
    BY <1>4, <2>1, <2>3
  <2>4. CASE mode = "diff" /\ find
    <3>1. n \in match /\ File(2, n)
      BY <1>3, <1>6, <2>4 DEF Witness
    <3> QED BY <1>4, <2>1, <2>4, <3>1 DEF File
  <2> QED BY <2>2, <2>3, <2>4
<1> QED BY <1>5, <1>6

LEMMA ReadRightGood ==
  ASSUME Known, ReadRight
  PROVE  Good
<1>1. PICK n \in todo :
        \/ Seen(n) /\ todo' = todo \ {n}
           /\ UNCHANGED <<flags, ph, dir_diff, dirs, trust>>
        \/ ~Seen(n) /\ RightOnly(n)
  BY DEF ReadRight
<1>2. /\ UNCHANGED input /\ at' = at /\ scan_db' = scan_db /\ ph = "right"
      /\ name_db' = name_db /\ (trust = "full" => ~dontcmp)
      /\ stopscan => trust = "none"
  BY KnownParts DEF ReadRight, Position
<1>3. /\ mode' = mode /\ fs' = fs /\ tree' = tree /\ cur' = cur /\ Names(2)' = Names(2)
      /\ find' = find /\ truth' = truth /\ (OnlyLeft' <=> OnlyLeft)
  BY <1>2, Kept
<1>4. /\ Doubts /\ (stopscan' => trust' = "none") /\ (trust' = "full" => ~dontcmp')
      /\ \/ /\ ph' = "right" /\ todo' = todo \ {n}
            /\ \/ Seen(n) /\ NothingNoted /\ dir_diff' = dir_diff
               \/ ~Seen(n) /\ find /\ NotesOne(<<n, 2>>) /\ dir_diff' = dir_diff
                  /\ fs[2][n] = Dir
               \/ /\ ~Seen(n) /\ find /\ NothingNoted /\ fs[2][n] # Dir
                  /\ dir_diff' <=> dir_diff \/ n \in match
         \/ ~Seen(n) /\ ~find /\ dir_diff' /\ ph' = "end" /\ todo' = {} /\ NothingNoted
         \/ /\ trust' = "none" /\ NothingNoted
            /\ (ph' = "end" /\ todo' = {}) \/ (ph' = "right" /\ todo' = todo \ {n})
  <2>1. CASE Seen(n) /\ todo' = todo \ {n}
             /\ UNCHANGED <<flags, ph, dir_diff, dirs, trust>>
    BY <1>2, <2>1 DEF flags, NothingNoted, Doubts
  <2>2. CASE ~Seen(n) /\ ~find /\ dir_diff' = TRUE /\ ph' = "end" /\ todo' = {}
             /\ UNCHANGED <<flags, dirs, trust>>
    BY <1>2, <2>2 DEF flags, NothingNoted, Doubts
  <2>3. CASE Stop
    BY <2>3, StopDoubts, KnownParts DEF Stop, NothingNoted
  <2>4. CASE ~Seen(n) /\ find /\ ~stopscan /\ todo' = todo \ {n}
             /\ fs[2][n] = Dir /\ Push(n, 2)
    BY <1>2, <2>4, RightNoted DEF flags, Push, NotesOne, Doubts
  <2>5. CASE ~Seen(n) /\ find /\ ~stopscan /\ todo' = todo \ {n} /\ fs[2][n] # Dir
             /\ Found(n \in match) /\ UNCHANGED <<dontcmp, trust>>
    BY <1>2, <2>5 DEF Found, NothingNoted, Doubts
  <2>6. CASE ~stopscan /\ todo' = todo \ {n} /\ Found(n \in match) /\ Worsen("none")
    <3>1. trust' = "none" /\ Doubts
      BY <2>6 DEF Worsen, Doubts
    <3> QED BY <1>2, <2>6, <3>1 DEF Found, NothingNoted
  <2> QED BY <1>1, <2>1, <2>2, <2>3, <2>4, <2>5, <2>6 DEF RightOnly
<1>5. /\ trust' # "none" => trust # "none"
      /\ ph' \in {"right", "end"} /\ (NothingNoted \/ \E e : NotesOne(e))
  BY <1>4, DoubtsAre, KnownParts
<1>6. Position'
  BY <1>2, <1>4, <1>5, KnownParts, PositionStays
<1>7. DirsOK'
  BY <1>2, <1>4, <1>5, KnownParts, DirsStay
<1> HIDE DEF tree, cur, truth, OnlyLeft, Seen
<1>8. ReadingOK'
  <2>1. ph' = "right" => todo' \subseteq Names(2)
    BY <1>2, <1>4, KnownParts DEF ReadingOK
  <2>2. ASSUME mode = "diff", tree = 3, trust' # "none", NEW m \in Names(1)
        PROVE  m \in name_db
    BY <1>2, <1>5, <2>2, KnownParts DEF ReadingOK
  <2>3. Names(1)' = Names(1)
    BY <1>2, Kept
  <2> QED BY <1>2, <1>3, <1>5, <2>1, <2>2, <2>3, KnownParts DEF ReadingOK
<1>9. VerdictOK'
  <2>1. ASSUME dir_diff', trust' # "none" PROVE Name(2, at[2]) \in truth
    <3>1. dir_diff => Name(2, at[2]) \in truth
      BY <1>2, <1>5, <2>1, KnownParts DEF VerdictOK, Name
    <3> QED BY <1>2, <1>4, <1>5, <2>1, <3>1, RightTrue
  <2>2. mode # "bmode"
    BY <1>2, RightName
  <2> QED BY <1>2, <1>3, <1>5, <2>1, <2>2 DEF VerdictOK, Name
<1>10. ASSUME NEW i \in truth, trust = "full", trust' = "full", InNames(i) \/ InWork(i)
       PROVE  Pending(i)'
  <2>1. CASE InWork(i)
    <3>1. dir_diff'
      BY <1>4, <1>10, <2>1 DEF InWork
    <3> QED BY <1>2, <1>3, <1>5, <2>1, <3>1 DEF InWork, Pending
  <2>2. CASE InNames(i)
    <3>1. PICK x \in Node : /\ Parent[x] = cur /\ Unread(Decides(i, x), x)
                            /\ x \in Up[i[2]] \/ Witness(i, x)
      BY <2>2 DEF InNames
    <3>2. Decides(i, x) = 2 /\ x \in todo
      BY <1>2, <3>1 DEF Unread
    <3>3. /\ ~Seen(x) /\ (mode # "diff" => i[1] = 2)
          /\ \/ find /\ fs[2][x] = Dir /\ x \in Up[i[2]]
             \/ i[2] = cur /\ (find => x \in match /\ fs[2][x] # Dir)
      BY <1>2, <3>1, <3>2, RightFinds
    <3>4. tree # 1
      BY <1>2, RightName
    <3>5. CASE todo' = todo \ {n} /\ x # n
      <4>1. Decides(i, x)' = Decides(i, x)
        BY <1>3 DEF Decides
      <4>2. Unread(Decides(i, x), x)' \/ ph' = "end"
        BY <1>2, <1>3, <1>5, <3>1, <3>2, <3>5, <4>1 DEF Unread
      <4>3. ph' = "end" => todo' = {}
        BY <1>4, <1>10
      <4> QED BY <1>2, <3>1, <3>2, <3>5, <4>2, <4>3, StillUnread
    <3>6. CASE ph' = "end"
      <4>1. ~find /\ dir_diff' /\ mode = "diff" /\ i[2] = cur
        BY <1>4, <1>10, <3>3, <3>6, KnownParts DEF Position
      <4> QED BY <1>3, <3>6, <4>1 DEF InWork, Pending
    <3>7. CASE ph' = "right" /\ x = n /\ fs[2][n] = Dir
      <4>1. NotesOne(<<n, 2>>) /\ n \in Up[i[2]]
        BY <1>4, <1>10, <3>3, <3>7
      <4>2. cur \in Up[cur] /\ <<n, 2>> \in dirs'[cur]
        BY <1>2, <4>1, RightName, KnownParts DEF NotesOne, IInv, TypeOK
      <4>3. Leads(<<n, 2>>, i)'
        BY <1>3, <3>3, <3>7, <4>1 DEF Leads
      <4> QED BY <1>3, <4>2, <4>3 DEF InDirs, Pending
    <3>8. CASE ph' = "right" /\ x = n /\ fs[2][n] # Dir
      <4>1. i[2] = cur /\ find /\ n \in match
        BY <1>4, <1>10, <3>3, <3>8
      <4>2. dir_diff'
        BY <1>4, <1>10, <3>3, <3>8, <4>1
      <4> QED BY <1>3, <3>3, <3>4, <3>8, <4>1, <4>2 DEF InWork, Pending
    <3> QED BY <1>4, <1>5, <1>10, <3>5, <3>6, <3>7, <3>8
  <2> QED BY <1>10, <2>1, <2>2
<1>11. Complete => Complete'
  BY <1>2, <1>4, <1>5, <1>10, CompleteStays
<1>12. [Marks!Next]_(Marks!vars)
  BY <1>2, <1>4, <1>5, KnownParts, StepDoubts
<1> QED BY <1>6, <1>7, <1>8, <1>9, <1>11, <1>12 DEF Good, Where
-----------------------------------------------------------------------------
(* Going from directory to directory.                                      *)

\* In a directory that the scan comes to, all names are yet to be read.
Arrived   == \/ ph = "left?" /\ tree # 2
             \/ ph = "right?" /\ tree = 2
Concerns(i) == cur \in Up[i[2]] /\ (mode # "diff" => tree \in {i[1], 3})

AllFresh ==
  IInv /\ Position /\ trust = "full" /\ Arrived =>
    \A i \in truth : Concerns(i) => InNames(i)

LEMMA FreshNames == AllFresh
<1> SUFFICES ASSUME IInv, Position, trust = "full", Arrived,
                    NEW i \in truth, Concerns(i)
             PROVE  InNames(i)
  BY DEF AllFresh
<1>1. i[2] \in Path
  BY TruthIs
<1>2. PICK x \in Node : Parent[x] = cur /\ (x \in Up[i[2]] \/ Witness(i, x))
  BY <1>1, UpDown, HasWitness DEF Concerns
<1>3. /\ Decides(i, x) \in Side /\ fs[Decides(i, x)][x] # Absent
      /\ Decides(i, x) = 2 => ~real_diff /\ mode # "bmode"
  BY <1>2, DecidesOK
<1>4. mode # "diff" => Decides(i, x) = i[1]
  BY DEF Decides
<1>5. CASE ph = "left?" /\ tree # 2 /\ Decides(i, x) = 1
  BY <1>2, <1>5 DEF InNames, Unread
<1>6. CASE ph = "left?" /\ tree # 2 /\ Decides(i, x) = 2
  <2>1. tree # 1
    BY <1>4, <1>6 DEF Concerns, Position
  <2>2. ~OnlyLeft
    BY <1>3, <1>6, <2>1 DEF OnlyLeft
  <2> QED BY <1>2, <1>6, <2>2 DEF InNames, Unread
<1>7. CASE ph = "right?" /\ tree = 2 /\ Decides(i, x) = 2
  <2>1. ~OnlyLeft
    BY <1>7 DEF Position
  <2> QED BY <1>2, <1>7, <2>1 DEF InNames, Unread
<1>8. CASE ph = "right?" /\ tree = 2 /\ Decides(i, x) = 1
  <2>1. mode = "diff"
    BY <1>4, <1>8 DEF Concerns
  <2>2. cur = at[2] /\ cur \notin Up[at[1]] /\ cur \in Up[at[2]] /\ at[1] \in Path
    BY <1>8, Sides, UpBasic
  <2>3. fs[1][cur] = Absent /\ cur # Root
    BY <1>8, <2>1, <2>2, UpRoot DEF Position
  <2>4. fs[1] \in Trees
    BY DEF IInv, TypeOK, Side
  <2>5. fs[1][cur] = Dir
    BY <1>2, <1>3, <1>8, <2>3, <2>4 DEF Trees
  <2> QED BY <2>3, <2>5 DEF Dir, Absent
<1> QED BY <1>3, <1>5, <1>6, <1>7, <1>8 DEF Arrived, Side

LEMMA FreshNext == AllFresh'
BY FreshNames, PTL

\* The paths change as scan_subdir() and its return tell.
Entered(e) == at' = [s \in Side |-> IF e[2] \in {s, 3} THEN e[1] ELSE at[s]]
Left       == at' = [s \in Side |-> IF tree \in {s, 3} THEN Parent[at[s]] ELSE at[s]]

LEMMA EnteredSides ==
  ASSUME IInv, Position, UNCHANGED input, NEW e \in Node \X {1, 2, 3},
         Noted(cur, e), Entered(e)
  PROVE  /\ cur' = e[1] /\ tree' = e[2]
         /\ at'[1] = (IF e[2] \in {1, 3} THEN e[1] ELSE at[1])
         /\ at'[2] = (IF e[2] \in {2, 3} THEN e[1] ELSE at[2])
         /\ at'[1] \in Up[at'[2]] \/ at'[2] \in Up[at'[1]]
         /\ Up[e[1]] = {e[1]} \cup Up[cur]
         /\ e[2] = 2 => Up[cur] \subseteq Up[at[2]]
<1> DEFINE n == e[1]
<1>1. n \in Node /\ Parent[n] = cur /\ cur \in Path /\ n \in Path /\ e[2] \in {1, 2, 3}
  BY Sides, Paths DEF Noted
<1>2. n \notin Up[cur] /\ Up[n] = {n} \cup Up[cur] /\ cur \in Up[n] /\ n \in Up[n]
  BY <1>1, NotUpward, UpBasic
<1>3. /\ at'[1] = (IF e[2] \in {1, 3} THEN n ELSE at[1])
      /\ at'[2] = (IF e[2] \in {2, 3} THEN n ELSE at[2])
  BY DEF Entered, Side
<1>4. mode' = mode
  BY Kept
<1>5. CASE e[2] = 3
  BY <1>1, <1>2, <1>3, <1>4, <1>5 DEF tree, cur, Noted
<1>6. CASE e[2] = 1
  <2>1. at[2] \in Up[cur]
    <3>1. tree # 2
      BY <1>6, Sides DEF Noted
    <3> QED BY <1>1, <3>1, Sides, UpBasic
  <2>2. at'[1] = n /\ at'[2] = at[2] /\ at[2] \in Up[n] /\ at[2] # n
    BY <1>2, <1>3, <1>6, <2>1
  <2>3. tree' = 1 /\ cur' = n
    BY <1>4, <2>2 DEF tree, cur
  <2> QED BY <1>2, <1>3, <1>6, <2>2, <2>3
<1>7. CASE e[2] = 2
  <2>1. at[1] \in Up[cur] /\ tree # 1 /\ at[2] = cur /\ mode # "bmode"
    <3>1. tree # 1
      <4>1. SUFFICES ASSUME tree = 1 PROVE FALSE
        OBVIOUS
      <4>2. at[1] = cur /\ at[2] \in Up[cur] /\ cur \in Up[at[2]] /\ mode # "bmode"
        BY <1>7, <4>1, Sides DEF Noted
      <4>3. at[2] = cur
        BY <1>1, <4>2, UpAnti
      <4> QED BY <4>1, <4>2, <4>3 DEF tree
    <3> QED BY <1>1, <1>7, <3>1, Sides, UpBasic DEF Noted
  <2>2. at'[2] = n /\ at'[1] = at[1] /\ at[1] \in Up[n] /\ at[1] # n
    BY <1>2, <1>3, <1>7, <2>1
  <2>3. n \notin Up[at[1]]
    BY <1>1, <1>2, <2>1, UpTrans
  <2>4. tree' = 2 /\ cur' = n
    BY <1>4, <2>1, <2>2, <2>3 DEF tree, cur
  <2> QED BY <1>2, <1>3, <1>7, <2>1, <2>2, <2>4
<1> QED BY <1>1, <1>5, <1>6, <1>7

LEMMA LeftSides ==
  ASSUME IInv, Position, UNCHANGED input, cur # Root, Left
  PROVE  /\ cur \in Node /\ cur' = Parent[cur]
         /\ tree' = tree \/ (tree' = 3 /\ at'[1] = cur' /\ at'[2] = cur' /\ mode # "bmode")
         /\ at'[1] = (IF tree \in {1, 3} THEN Parent[cur] ELSE at[1])
         /\ at'[2] = (IF tree \in {2, 3} THEN Parent[cur] ELSE at[2])
         /\ at'[1] \in Up[at'[2]] \/ at'[2] \in Up[at'[1]]
<1> DEFINE q == Parent[cur]
<1>1. cur \in Path /\ cur \in Node /\ q \in Path /\ q \in Up[q] /\ q \in Up[cur] /\ q # cur
  BY Sides, Paths, UpBasic
<1>2. Up[cur] \subseteq {cur} \cup Up[q] /\ cur \notin Up[q]
  BY <1>1, UpStep, NotUpward
<1>3. /\ at'[1] = (IF tree \in {1, 3} THEN q ELSE at[1])
      /\ at'[2] = (IF tree \in {2, 3} THEN q ELSE at[2])
  BY Sides DEF Left, Side
<1>4. mode' = mode
  BY Kept
<1>5. CASE tree = 3
  <2>1. mode # "bmode" /\ at'[1] = q /\ at'[2] = q
    BY <1>3, <1>5, Sides
  <2>2. tree' = 3 /\ cur' = q
    BY <1>4, <2>1 DEF tree, cur
  <2> QED BY <1>1, <1>3, <1>5, <2>1, <2>2
<1>6. CASE tree = 1
  <2>1. at'[1] = q /\ at'[2] = at[2] /\ at[1] = cur /\ at[2] \in Up[cur]
    BY <1>3, <1>6, Sides
  <2>2. CASE mode = "bmode"
    <3>1. at[2] \in Up[q]
      BY <1>1, <2>2, UpRoot DEF Position
    <3>2. tree' = 1 /\ cur' = q
      BY <1>4, <2>1, <2>2 DEF tree, cur
    <3> QED BY <1>1, <1>3, <1>6, <2>1, <3>1, <3>2
  <2>3. CASE mode # "bmode"
    <3>1. at[2] # at[1]
      BY <1>6, <2>3 DEF tree
    <3>2. at[2] \in Up[q]
      BY <1>2, <2>1, <3>1
    <3>3. cur' = q /\ (tree' = 1 \/ (tree' = 3 /\ at[2] = q))
      BY <1>4, <2>1, <2>3, <3>2 DEF tree, cur
    <3> QED BY <1>1, <1>3, <1>6, <2>1, <2>3, <3>2, <3>3
  <2> QED BY <2>2, <2>3
<1>7. CASE tree = 2
  <2>1. /\ at'[2] = q /\ at'[1] = at[1] /\ at[2] = cur /\ at[1] \in Up[cur]
        /\ cur \notin Up[at[1]] /\ mode # "bmode" /\ at[1] \in Path
    BY <1>3, <1>7, Sides
  <2>2. at[1] \in Up[q]
    BY <1>1, <1>2, <2>1, UpBasic
  <2>3. q \in Up[at[1]] => q = at[1]
    BY <1>1, <2>2, UpAnti
  <2>4. cur' = q /\ (tree' = 2 \/ (tree' = 3 /\ at[1] = q))
    BY <1>4, <2>1, <2>3 DEF tree, cur
  <2> QED BY <1>1, <1>3, <1>7, <2>1, <2>2, <2>4
<1> QED BY <1>1, <1>5, <1>6, <1>7, Sides

LEMMA ScanSubdirGood ==
  ASSUME Known, scan_subdir
  PROVE  Good
<1>1. PICK e \in dirs[cur] :
        /\ dirs' = Taken(e) /\ Entered(e)
        /\ ph' = IF e[2] = 2 THEN "right?" ELSE "left?"
  BY DEF scan_subdir, Entered
<1>2. /\ UNCHANGED input /\ stopscan' = stopscan /\ dontcmp' = dontcmp
      /\ scan_db' = scan_db /\ name_db' = name_db /\ dir_diff' = dir_diff
      /\ trust' = trust /\ Doubts /\ ph = "sub"
  BY DEF scan_subdir, flags, Doubts
<1>3. cur \in Path /\ dirs \in [Path -> SUBSET (Node \X {1, 2, 3})]
  BY KnownParts, Sides DEF IInv, TypeOK
<1>4. e \in Node \X {1, 2, 3} /\ Noted(cur, e) /\ e[2] \in {1, 2, 3}
  BY <1>1, <1>3, KnownParts DEF DirsOK
<1>5. /\ mode' = mode /\ find' = find /\ real_diff' = real_diff /\ fs' = fs
      /\ truth' = truth
  BY <1>2, Kept
<1>6. /\ cur' = e[1] /\ tree' = e[2]
      /\ at'[1] = (IF e[2] \in {1, 3} THEN e[1] ELSE at[1])
      /\ at'[2] = (IF e[2] \in {2, 3} THEN e[1] ELSE at[2])
      /\ at'[1] \in Up[at'[2]] \/ at'[2] \in Up[at'[1]]
      /\ Up[e[1]] = {e[1]} \cup Up[cur]
      /\ e[2] = 2 => Up[cur] \subseteq Up[at[2]]
  BY <1>1, <1>2, <1>4, EnteredSides, KnownParts
<1>7. e[2] = 2 => ~OnlyLeft'
  BY <1>4, <1>5, <1>6 DEF OnlyLeft, Noted
<1>8. Position'
  <2>1. \A s \in Side : at'[s] = Root \/ fs[s][at'[s]] = Dir
    BY <1>4, <1>6, KnownParts DEF Side, Position, Noted
  <2>2. e[2] = 2 /\ mode = "diff" /\ trust # "none" =>
          \A a \in Up[at'[2]] \ Up[at'[1]] : fs[1][a] = Absent
    BY <1>4, <1>6, KnownParts, Sides DEF Position, Noted
  <2>3. mode = "bmode" => at'[2] = Root
    BY <1>4, <1>6, KnownParts DEF Position, Noted
  <2>4. ph' # "off" /\ (ph' \in {"left?", "left"} => e[2] # 2)
        /\ (ph' \in {"right?", "right"} => e[2] = 2)
    BY <1>1
  <2> HIDE DEF tree, cur, OnlyLeft
  <2> QED BY <1>2, <1>4, <1>5, <1>6, <1>7, <2>1, <2>2, <2>3, <2>4, KnownParts
          DEF Position, Noted
<1>9. DirsOK'
  <2>1. ASSUME NEW p \in Path, NEW f \in dirs'[p] PROVE Noted(p, f)'
    <3>1. Noted(p, f)
      BY <1>1, <1>3, <2>1, KnownParts DEF Taken, DirsOK
    <3>2. p \in Up[cur'] /\ p \in Up[cur]
      BY <1>6, <3>1 DEF Noted
    <3>3. \/ p \in Up[at'[1]] /\ p \in Up[at'[2]]
          \/ f[2] = tree'
      <4>1. /\ Up[cur] \subseteq Up[at[1]] \/ tree = 2
            /\ Up[cur] \subseteq Up[at[2]] \/ tree = 1
        BY KnownParts, Sides
      <4>2. cur \in Up[at[2]] => Up[cur] \subseteq Up[at[2]]
        BY KnownParts, Sides, UpTrans
      <4>3. cur \in Up[at[1]] => Up[cur] \subseteq Up[at[1]]
        BY KnownParts, Sides, UpTrans
      <4>4. /\ p \in Up[at[1]] => p \in Up[at'[1]]
            /\ p \in Up[at[2]] => p \in Up[at'[2]]
        BY <1>6, <3>2
      <4>5. CASE e[2] = tree
        BY <1>6, <3>1, <4>4, <4>5 DEF Noted
      <4>6. CASE cur \in Up[at[1]] /\ cur \in Up[at[2]]
        BY <3>2, <4>2, <4>3, <4>4, <4>6
      <4> QED BY <1>4, <4>5, <4>6 DEF Noted
    <3> HIDE DEF tree, cur
    <3> QED BY <1>2, <1>5, <3>1, <3>2, <3>3 DEF Noted
  <2> QED BY <2>1 DEF DirsOK
<1>10. ReadingOK'
  <2> HIDE DEF tree, cur
  <2> QED BY <1>1, <1>2, <1>5, <1>6, KnownParts DEF ReadingOK
<1>11. VerdictOK'
  BY <1>1, <1>2, KnownParts DEF VerdictOK
<1>12. ASSUME Complete, trust' = "full", NEW i \in truth
       PROVE  i \in marked' \/ Pending(i)'
  <2>1. CASE i \in marked
    BY <1>2, <1>5, <2>1 DEF marked, is_diff_dir
  <2>2. CASE i \notin marked
    <3>1. InDirs(i)
      BY <1>2, <1>12, <2>2, KnownParts
         DEF Complete, Pending, InNames, Unread, InWork, VerdictOK
    <3>2. PICK p \in Up[cur] : \E f \in dirs[p] : Leads(f, i)
      BY <3>1 DEF InDirs
    <3>3. PICK f \in dirs[p] : Leads(f, i)
      BY <3>2
    <3>4. p \in Path /\ p \in Up[cur']
      BY <1>3, <1>6, <3>3, UpBasic
    <3>5. CASE f \in dirs'[p]
      <4>1. Leads(f, i)'
        BY <1>5, <3>3 DEF Leads
      <4> QED BY <3>4, <3>5, <4>1 DEF InDirs, Pending
    <3>6. CASE f \notin dirs'[p]
      <4>1. f = e
        BY <1>1, <1>3, <3>3, <3>4, <3>6 DEF Taken
      <4>2. Concerns(i)'
        BY <1>5, <1>6, <3>3, <4>1 DEF Concerns, Leads
      <4>3. Arrived'
        BY <1>1, <1>4, <1>6 DEF Arrived
      <4>4. \A j \in truth' : Concerns(j)' => InNames(j)'
        BY <1>8, <1>12, <4>3, FreshNext, KnownParts DEF AllFresh
      <4>5. InNames(i)'
        BY <1>5, <4>2, <4>4
      <4> QED BY <4>5 DEF Pending
    <3> QED BY <3>5, <3>6
  <2> QED BY <2>1, <2>2
<1>13. Complete => Complete'
  BY <1>5, <1>12 DEF Complete
<1>14. [Marks!Next]_(Marks!vars)
  <2>1. ph' # "off"
    BY <1>1
  <2> QED BY <1>2, <2>1, KnownParts, StepDoubts
<1> QED BY <1>8, <1>9, <1>10, <1>11, <1>13, <1>14 DEF Good, Where

LEMMA ReturnGood ==
  ASSUME Known, Return
  PROVE  Good
<1>1. /\ UNCHANGED input /\ stopscan' = stopscan /\ dontcmp' = dontcmp
      /\ scan_db' = scan_db /\ name_db' = name_db /\ dir_diff' = dir_diff
      /\ trust' = trust /\ Doubts /\ ph = "sub" /\ ph' = "sub" /\ dirs' = dirs
      /\ Left /\ dirs[cur] = {} /\ cur # Root
  BY DEF Return, Left, flags, Doubts
<1>2. /\ mode' = mode /\ find' = find /\ real_diff' = real_diff /\ fs' = fs
      /\ truth' = truth
  BY <1>1, Kept
<1>3. /\ cur \in Node /\ cur' = Parent[cur]
      /\ tree' = tree \/ (tree' = 3 /\ at'[1] = cur' /\ at'[2] = cur' /\ mode # "bmode")
      /\ at'[1] = (IF tree \in {1, 3} THEN Parent[cur] ELSE at[1])
      /\ at'[2] = (IF tree \in {2, 3} THEN Parent[cur] ELSE at[2])
      /\ at'[1] \in Up[at'[2]] \/ at'[2] \in Up[at'[1]]
  BY <1>1, KnownParts, LeftSides
<1>4. /\ cur \in Path /\ Parent[cur] \in Path /\ Up[cur] = {cur} \cup Up[Parent[cur]]
      /\ Parent[cur] \in Up[cur]
  BY <1>3, Paths, NotUpward
<1>5. /\ tree \in {1, 2, 3} /\ (tree \in {1, 3} => at[1] = cur)
      /\ tree \in {2, 3} => at[2] = cur /\ mode # "bmode"
  BY KnownParts, Sides
<1> HIDE DEF tree, cur, truth
<1>6. Position'
  <2>1. \A s \in Side : at'[s] = Root \/ fs[s][at'[s]] = Dir
    <3>1. ASSUME NEW s \in Side, tree \in {s, 3}
          PROVE  Parent[cur] = Root \/ fs[s][Parent[cur]] = Dir
      BY <1>4, <1>5, <3>1, KnownParts, WayDown DEF Side
    <3> QED BY <1>3, <3>1, KnownParts DEF Position, Side
  <2>2. tree = 2 /\ mode = "diff" /\ trust # "none" =>
          \A a \in Up[at'[2]] \ Up[at'[1]] : fs[1][a] = Absent
    BY <1>3, <1>4, <1>5, KnownParts DEF Position
  <2>3. mode = "bmode" => at'[2] = Root
    BY <1>3, <1>5, KnownParts DEF Position
  <2> QED BY <1>1, <1>2, <1>3, <2>1, <2>2, <2>3, KnownParts DEF Position
<1>7. DirsOK'
  <2>1. ASSUME NEW p \in Path, NEW f \in dirs[p] PROVE Noted(p, f)'
    <3>1. Noted(p, f) /\ p # cur
      BY <1>1, <2>1, KnownParts DEF DirsOK
    <3>2. p \in Up[Parent[cur]]
      BY <1>4, <3>1 DEF Noted
    <3>3. \/ p \in Up[at'[1]] /\ p \in Up[at'[2]]
          \/ f[2] = tree'
      BY <1>3, <3>1, <3>2 DEF Noted
    <3> QED BY <1>1, <1>2, <1>3, <3>1, <3>2, <3>3 DEF Noted
  <2> QED BY <1>1, <2>1 DEF DirsOK
<1>8. ReadingOK' /\ VerdictOK'
  BY <1>1, <1>2, KnownParts DEF ReadingOK, VerdictOK
<1>9. ASSUME Complete, trust' = "full", NEW i \in truth
      PROVE  i \in marked' \/ Pending(i)'
  <2>1. CASE i \in marked
    BY <1>1, <1>2, <2>1 DEF marked, is_diff_dir
  <2>2. CASE i \notin marked
    <3>1. InDirs(i)
      BY <1>1, <1>9, <2>2, KnownParts
         DEF Complete, Pending, InNames, Unread, InWork, VerdictOK
    <3>2. PICK p \in Up[cur] : \E f \in dirs[p] : Leads(f, i)
      BY <3>1 DEF InDirs
    <3>3. PICK f \in dirs[p] : Leads(f, i)
      BY <3>2
    <3>4. p \in Up[cur']
      BY <1>1, <1>3, <1>4, <3>3
    <3>5. Leads(f, i)'
      BY <1>2, <3>3 DEF Leads
    <3> QED BY <1>1, <3>3, <3>4, <3>5 DEF InDirs, Pending
  <2> QED BY <2>1, <2>2
<1>10. Complete => Complete'
  BY <1>2, <1>9 DEF Complete
<1>11. [Marks!Next]_(Marks!vars)
  BY <1>1, KnownParts, StepDoubts
<1> QED BY <1>6, <1>7, <1>8, <1>10, <1>11 DEF Good, Where
-----------------------------------------------------------------------------
(* The end of a scan, and the next one.                                    *)

\* At the root nothing is left to do.
LEMMA AllDone ==
  ASSUME Known, ph = "sub", dirs[cur] = {}, cur = Root
  PROVE  /\ at[1] = Root /\ at[2] = Root /\ \A p \in Path : dirs[p] = {}
         /\ Complete /\ trust = "full" => truth \subseteq marked
<1>1. \A p \in Up[cur] : p = cur
  BY UpOfRoot
<1>2. \A p \in Path : \A e \in dirs[p] : p \in Up[cur]
  BY KnownParts DEF DirsOK, Noted
<1>3. ASSUME Complete, trust = "full", NEW i \in truth PROVE i \in marked
  <2>1. ~InDirs(i)
    BY <1>1 DEF InDirs
  <2> QED BY <1>3, <2>1, KnownParts
          DEF Complete, Pending, InNames, Unread, InWork, VerdictOK
<1>4. at[1] = Root /\ at[2] = Root
  BY <1>1, KnownParts, Sides
<1> QED BY <1>1, <1>2, <1>3, <1>4

LEMMA FinishWhere ==
  ASSUME Known, Finish
  PROVE  Where' /\ Complete'
<1>1. /\ UNCHANGED input /\ at' = at /\ dontcmp' = dontcmp /\ dirs' = dirs
      /\ scan_db' = scan_db /\ name_db' = name_db /\ dir_diff' = dir_diff
      /\ trust' = trust /\ Doubts /\ ph = "sub" /\ ph' = "off" /\ ~stopscan'
      /\ dirs[cur] = {} /\ cur = Root /\ NothingNoted
  BY DEF Finish, Unstopped, Doubts, NothingNoted
<1>2. /\ mode' = mode /\ find' = find /\ real_diff' = real_diff /\ fs' = fs
      /\ truth' = truth /\ tree' = tree /\ marked' = marked
  BY <1>1, Kept DEF marked, is_diff_dir
<1>3. DirsOK'
  BY <1>1, KnownParts, DirsStay
<1>4. /\ at[1] = Root /\ at[2] = Root /\ \A p \in Path : dirs[p] = {}
      /\ Complete /\ trust = "full" => truth \subseteq marked
  BY <1>1, AllDone
<1> HIDE DEF tree, cur, truth, marked
<1>5. Position'
  BY <1>1, <1>2, <1>4, KnownParts DEF Position
<1>6. ReadingOK' /\ VerdictOK' /\ Complete'
  BY <1>1, <1>2, KnownParts DEF ReadingOK, VerdictOK, Complete
<1> QED BY <1>3, <1>5, <1>6 DEF Where

\* The scan is over with all that it promised.
LEMMA FinishMarks ==
  ASSUME Known, Finish, Complete
  PROVE  Marks!Finish
<1>1. ph = "sub" /\ ph' = "off" /\ trust' = trust /\ dirs[cur] = {} /\ cur = Root
      /\ truth' = truth /\ marked' = marked
  BY Kept DEF Finish, marked, is_diff_dir
<1>2. trust = "full" => truth \subseteq marked
  BY <1>1, AllDone
<1> HIDE DEF tree, cur, truth, marked
<1> QED BY <1>1, <1>2 DEF Marks!Finish

LEMMA DoScanGood ==
  ASSUME IInv, Where, IInv', do_scan
  PROVE  Where' /\ Complete' /\ Marks!Restart
<1>1. /\ UNCHANGED input /\ at' = at /\ dirs' = dirs /\ name_db' = name_db
      /\ dir_diff' = dir_diff /\ stopscan' = stopscan /\ scan_db' = {}
      /\ trust' = (IF dontcmp' THEN "sound" ELSE "full")
      /\ ph = "off" /\ ph' = "left?"
  BY DEF do_scan
<1>2. Position /\ DirsOK /\ ReadingOK /\ VerdictOK
  BY DEF Where
<1>3. at[1] = Root /\ at[2] = Root /\ \A p \in Path : dirs[p] = {}
  BY <1>1, <1>2 DEF Position
<1>4. /\ mode' = mode /\ find' = find /\ real_diff' = real_diff /\ fs' = fs
      /\ truth' = truth /\ tree' = tree /\ cur' = cur
  BY <1>1, Kept
<1>5. tree = (IF mode = "bmode" THEN 1 ELSE 3) /\ cur = Root
  BY <1>3 DEF tree, cur
<1>6. marked' = {}
  BY <1>1 DEF marked, is_diff_dir
<1> HIDE DEF tree, cur, truth, marked
<1>7. Position'
  BY <1>1, <1>2, <1>3, <1>4, <1>5 DEF Position
<1>8. DirsOK'
  BY <1>1, <1>3 DEF DirsOK
<1>9. ReadingOK' /\ VerdictOK'
  BY <1>1, <1>2, <1>4 DEF ReadingOK, VerdictOK
<1>10. Complete'
  <2>1. Arrived'
    BY <1>1, <1>4, <1>5 DEF Arrived
  <2>2. ASSUME NEW i \in truth PROVE Concerns(i)'
    <3>1. Root \in Up[i[2]] /\ (mode # "diff" => i[1] \in Searched)
      BY TruthIs, UpRoot
    <3>2. mode = "bmode" => i[1] = 1
      BY <3>1 DEF Searched
    <3> QED BY <1>4, <1>5, <3>1, <3>2 DEF Concerns
  <2>3. trust' = "full" => \A i \in truth' : InNames(i)'
    BY <1>4, <1>7, <2>1, <2>2, FreshNext DEF AllFresh
  <2> QED BY <2>3 DEF Complete, Pending
<1>11. Marks!Restart
  BY <1>1, <1>4, <1>6 DEF Marks!Restart
<1> QED BY <1>7, <1>8, <1>9, <1>10, <1>11 DEF Where
-----------------------------------------------------------------------------
(* The scan does what it promises.                                         *)

LEMMA InitWhole == Init => Whole /\ Marks!Init
<1> SUFFICES ASSUME Init PROVE Whole /\ Marks!Init
  OBVIOUS
<1>1. IInv
  BY InitOK
<1>2. /\ at[1] = Root /\ at[2] = Root /\ \A p \in Path : dirs[p] = {}
      /\ tree = (IF mode = "bmode" THEN 1 ELSE 3) /\ cur = Root
      /\ Root \in Up[Root]
  BY Paths, UpBasic DEF Init, tree, cur, Side
<1>3. marked = {}
  BY DEF Init, marked, is_diff_dir
<1>4. truth \subseteq DOMAIN Above
  BY TruthIs
<1> HIDE DEF tree, cur, truth, marked
<1>5. Position
  BY <1>2 DEF Init, Position
<1>6. DirsOK /\ ReadingOK /\ VerdictOK
  BY <1>2 DEF Init, DirsOK, ReadingOK, VerdictOK
<1>7. Complete
  <2>1. Arrived
    BY <1>2 DEF Init, Arrived
  <2>2. ASSUME NEW i \in truth PROVE Concerns(i)
    <3>1. Root \in Up[i[2]] /\ (mode # "diff" => i[1] \in Searched)
      BY TruthIs, UpRoot
    <3>2. mode = "bmode" => i[1] = 1
      BY <3>1 DEF Searched
    <3> QED BY <1>2, <3>1, <3>2 DEF Concerns
  <2> QED BY <1>1, <1>5, <2>1, <2>2, FreshNames DEF AllFresh, Complete, Pending
<1>8. Marks!Init
  BY <1>3, <1>4 DEF Init, Marks!Init
<1> QED BY <1>1, <1>5, <1>6, <1>7, <1>8 DEF Whole, Where

LEMMA StepWhole == Whole /\ [Next]_vars => Whole' /\ [Marks!Next]_(Marks!vars)
<1> SUFFICES ASSUME Whole, [Next]_vars
             PROVE  Whole' /\ [Marks!Next]_(Marks!vars)
  OBVIOUS
<1>1. IInv /\ Where /\ Complete /\ IInv'
  BY StepOK DEF Whole
<1>2. ASSUME Known, Good PROVE Whole' /\ [Marks!Next]_(Marks!vars)
  BY <1>1, <1>2 DEF Whole, Good
<1>3. ph # "off" => Known
  BY <1>1 DEF Known
<1>4. CASE OpenLeft
  BY <1>2, <1>3, <1>4, OpenLeftGood DEF OpenLeft
<1>5. CASE ReadLeft
  BY <1>2, <1>3, <1>5, ReadLeftGood DEF ReadLeft
<1>6. CASE CloseLeft
  BY <1>2, <1>3, <1>6, CloseLeftGood DEF CloseLeft
<1>7. CASE OpenRight
  BY <1>2, <1>3, <1>7, OpenRightGood DEF OpenRight
<1>8. CASE ReadRight
  BY <1>2, <1>3, <1>8, ReadRightGood DEF ReadRight
<1>9. CASE CloseRight
  BY <1>2, <1>3, <1>9, CloseRightGood DEF CloseRight
<1>10. CASE dir_scan_end
  BY <1>2, <1>3, <1>10, DirScanEndGood DEF dir_scan_end
<1>11. CASE scan_subdir
  BY <1>2, <1>3, <1>11, ScanSubdirGood DEF scan_subdir
<1>12. CASE Return
  BY <1>2, <1>3, <1>12, ReturnGood DEF Return
<1>13. CASE Finish
  <2>1. Known
    BY <1>3, <1>13 DEF Finish
  <2>2. Where' /\ Complete' /\ Marks!Finish
    BY <1>1, <1>13, <2>1, FinishWhere, FinishMarks
  <2> QED BY <1>1, <2>2 DEF Whole, Marks!Next
<1>14. CASE do_scan
  BY <1>1, <1>14, DoScanGood DEF Whole, Marks!Next
<1>15. CASE UNCHANGED vars
  <2>1. /\ UNCHANGED input /\ at' = at /\ dirs' = dirs /\ name_db' = name_db
        /\ dir_diff' = dir_diff /\ stopscan' = stopscan /\ dontcmp' = dontcmp
        /\ scan_db' = scan_db /\ ph' = ph /\ todo' = todo /\ trust' = trust
    BY <1>15 DEF vars, flags
  <2>2. /\ mode' = mode /\ find' = find /\ match' = match /\ fs' = fs
        /\ real_diff' = real_diff /\ truth' = truth
    BY <2>1, Kept
  <2>3. Where'
    BY <1>1, <2>1, <2>2 DEF Where, Position, DirsOK, ReadingOK, VerdictOK, Noted,
       tree, cur, OnlyLeft, Names
  <2>4. Complete'
    <3>1. tree' = tree /\ cur' = cur /\ (OnlyLeft' <=> OnlyLeft) /\ marked' = marked
      BY <2>1, <2>2, Kept DEF marked, is_diff_dir
    <3> HIDE DEF tree, cur, OnlyLeft, marked, truth
    <3>2. \A i, n : /\ Witness(i, n)' <=> Witness(i, n)
                    /\ Unread(Decides(i, n), n)' <=> Unread(Decides(i, n), n)
      BY <2>1, <2>2, <3>1
         DEF Witness, Decides, Unread, Child, File, Exists, Differs
    <3>3. ASSUME NEW i, Pending(i) PROVE Pending(i)'
      <4>1. InDirs(i) => InDirs(i)'
        BY <2>1, <2>2, <3>1 DEF InDirs, Leads
      <4>2. InWork(i) => InWork(i)'
        BY <2>1, <2>2, <3>1 DEF InWork
      <4>3. InNames(i) => InNames(i)'
        BY <2>1, <2>2, <3>1, <3>2 DEF InNames
      <4> QED BY <3>3, <4>1, <4>2, <4>3 DEF Pending
    <3> QED BY <1>1, <2>1, <2>2, <3>1, <3>3 DEF Complete
  <2>5. Marks!vars' = Marks!vars
    BY <2>1, <2>2 DEF Marks!vars, marked, is_diff_dir
  <2> QED BY <1>1, <2>3, <2>4, <2>5 DEF Whole
<1> QED BY <1>4, <1>5, <1>6, <1>7, <1>8, <1>9, <1>10, <1>11, <1>12, <1>13,
          <1>14, <1>15 DEF Next, Scan

\* At any moment of any scan, in trees of any size and depth, the directories
\* that contain a marked one are marked; what is marked has a difference or a
\* matching file below it; and a scan that met no errors and no keys ends with
\* all of them marked.  From a directory of the left tree only whose name matches
\* on, nothing is claimed of what diff mode marks (Named).
THEOREM MarksAreTrue == Spec => Implements
BY InitWhole, StepWhole, PTL DEF Spec, Implements, Marks!Spec
=============================================================================
