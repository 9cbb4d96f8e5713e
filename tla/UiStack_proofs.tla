--------------------------- MODULE UiStack_proofs ---------------------------
(***************************************************************************)
(* Proofs about UiStack: types, the levels of the stack, and temporary     *)
(* directories, each of which is known to what will remove it and none of  *)
(* which stays behind; for any trees, any number of levels, archives and   *)
(* changes of the mode.  All but the types is about the keys of Careful.   *)
(***************************************************************************)
EXTENDS UiStack, TLAPS, FiniteSetTheorems, SequenceTheorems, WellFoundedInduction

-----------------------------------------------------------------------------
(* Types.                                                                  *)
Part  == Names \cup {Top[0], Top[1]} \cup Temps \cup {"/", ".", "?"}
Kinds == {"none", "dir", "zip"}
Views == ({"b"} \X Path) \cup ({"b", "d", "f"} \X Path \X Path)
Maybe == Path \cup {NULL}
Mark  == [n : Names \cup {NULL}, t : [1..2 -> Kinds], l : Maybe, r : Maybe, list : 0..1]
Level == [lpth : Maybe, rpth : Maybe, llen : Nat, rlen : Nat, lzip : Maybe, rzip : Maybe,
          fl : BOOLEAN, tree : 1..3, two : BOOLEAN, left : Views]
Globals ==
  [mode : {"b", "f", "d"}, twocols : BOOLEAN, from_fmode : BOOLEAN, old_col : 0..1,
   right_col : 0..1, fpath : Maybe, cwd : Path, syspth : [0..1 -> Path], subtree : 1..3,
   ui_stack : Seq(Level), mark : Mark \cup {NULL},
   uz_path_db : SUBSET [key : Path, pth : Path], tmps : SUBSET Temps, made : 0..Len(TempName),
   scan_db : SUBSET (Path \X Path), scan_db_list : Seq(SUBSET (Path \X Path)),
   one_scan : BOOLEAN, slips : SUBSET {"mark", "rmtmpdirs", "NULL"}]

\* What an operator leaves alone.
SameMode(a, b)  == /\ a.mode = b.mode /\ a.twocols = b.twocols /\ a.from_fmode = b.from_fmode
                   /\ a.old_col = b.old_col /\ a.right_col = b.right_col
SamePaths(a, b) == a.syspth = b.syspth /\ a.cwd = b.cwd /\ a.fpath = b.fpath /\ a.subtree = b.subtree
SameStack(a, b) == a.ui_stack = b.ui_stack
SameTemps(a, b) == a.tmps = b.tmps /\ a.made = b.made /\ a.uz_path_db = b.uz_path_db
SameMark(a, b)  == a.mark = b.mark
SameSlips(a, b) == a.slips = b.slips
Same(a, b) == SameMode(a, b) /\ SamePaths(a, b) /\ SameStack(a, b) /\ SameTemps(a, b)
SameOwners(a, b) == SameStack(a, b) /\ SameTemps(a, b)

LEMMA NamesAre ==
  /\ Path = Seq(Part) /\ {"/", ".", "?"} \subseteq Part /\ Names \subseteq Part /\ Temps \subseteq Part
  /\ Top[0] \in Part /\ Top[1] \in Part /\ NULL \notin Path /\ NULL \notin Names /\ NULL # DotDot
  /\ Names \cap {"/", ".", "..", "?"} = {}
BY UiStackAssumption DEF Path, Part

LEMMA PathsAre ==
  /\ Root \in Path /\ Dot \in Path /\ Lost \in Path /\ <<>> \in Path
  /\ \A i \in 0..1 : TopDir(i) \in Path
  /\ \A n \in Names : <<n>> \in Path /\ <<n>> # NULL /\ <<n>> # DotDot
<1>1. Root \in Path /\ Dot \in Path /\ Lost \in Path /\ <<>> \in Path
  BY NamesAre DEF Root, Dot, Lost
<1>2. \A i \in 0..1 : TopDir(i) \in Path
  <2> SUFFICES ASSUME NEW i \in 0..1 PROVE TopDir(i) \in Path
    OBVIOUS
  <2>1. Top[i] \in Part /\ "/" \in Part
    BY NamesAre
  <2> QED
    BY <2>1, NamesAre DEF TopDir
<1>3. ASSUME NEW n \in Names PROVE <<n>> \in Path /\ <<n>> # NULL /\ <<n>> # DotDot
  <2>1. <<n>> \in Path
    BY NamesAre
  <2>2. <<n>> # DotDot
    <3>1. n # ".."
      BY NamesAre
    <3> QED
      BY <3>1 DEF DotDot
  <2> QED
    BY <2>1, <2>2, NamesAre
<1> QED
  BY <1>1, <1>2, <1>3

LEMMA PathOps ==
  ASSUME NEW p \in Path
  PROVE  /\ pthcut(p) \in Path
         /\ \A n \in Path \cup {DotDot} : pthcat(p, n) \in Path
         /\ \A len \in Nat : Truncated(p, len) \in Path
         /\ Len(p) \in Nat
<1>1. p \in Seq(Part) /\ Len(p) \in Nat
  BY NamesAre
<1>2. pthcut(p) \in Path
  <2>1. CASE Len(p) < 2
    BY <2>1 DEF pthcut
  <2>2. CASE ~(Len(p) < 2)
    <3>1. Front(p) = SubSeq(p, 1, Len(p) - 1)
      BY DEF Front
    <3>2. SubSeq(p, 1, Len(p) - 1) \in Seq(Part)
      BY <1>1, <2>2
    <3> QED
      BY <2>2, <3>1, <3>2, NamesAre DEF pthcut
  <2> QED
    BY <2>1, <2>2
<1>3. ASSUME NEW n \in Path \cup {DotDot} PROVE pthcat(p, n) \in Path
  <2>1. CASE n = DotDot
    BY <1>2, <2>1 DEF pthcat
  <2>2. CASE n # DotDot
    <3>1. n \in Seq(Part)
      BY <2>2, NamesAre
    <3>2. p \o n \in Seq(Part)
      BY <1>1, <3>1
    <3> QED
      BY <2>2, <3>2, NamesAre DEF pthcat
  <2> QED
    BY <2>1, <2>2
<1>4. ASSUME NEW len \in Nat PROVE Truncated(p, len) \in Path
  <2>1. CASE Len(p) < len
    BY <2>1, PathsAre DEF Truncated
  <2>2. CASE ~(Len(p) < len)
    <3>1. SubSeq(p, 1, len) \in Seq(Part)
      BY <1>1, <2>2
    <3> QED
      BY <2>2, <3>1, NamesAre DEF Truncated
  <2> QED
    BY <2>1, <2>2
<1> QED
  BY <1>1, <1>2, <1>3, <1>4

LEMMA TempLabel ==
  ASSUME NEW x
  PROVE  /\ x \in Temps => Label(x) = "t"
         /\ x \in {Top[0], Top[1]} => Label(x) = x
         /\ x \in {Top[0], Top[1]} \cup Temps => Label(x) \in DOMAIN Content
BY UiStackAssumption DEF Label

LEMMA KindIs ==
  ASSUME NEW r, r.tmps \subseteq Temps, NEW p \in Path, NEW n
  PROVE  Kind(r, p, n) \in Kinds /\ (Kind(r, p, n) # "none" => n \in Names)
<1>1. CASE Len(p) < 2 \/ Len(p) >= MaxLen \/ ~IsDir(r, p)
  BY <1>1 DEF Kind, Kinds
<1>2. CASE ~(Len(p) < 2 \/ Len(p) >= MaxLen \/ ~IsDir(r, p))
  <2>1. p[2] \in {Top[0], Top[1]} \cup Temps
    <3>1. p # Root
      BY <1>2 DEF Root
    <3> QED
      BY <1>2, <3>1 DEF IsDir
  <2>2. Label(p[2]) \in DOMAIN Content
    BY <2>1, TempLabel
  <2>3. CASE n \in DOMAIN Content[Label(p[2])]
    <3>1. Content[Label(p[2])][n] \in {"dir", "zip"}
      BY <2>2, <2>3, UiStackAssumption
    <3>2. Kind(r, p, n) = Content[Label(p[2])][n]
      BY <1>2, <2>3 DEF Kind
    <3>3. n \in Names
      BY <2>2, <2>3 DEF Names
    <3> QED
      BY <3>1, <3>2, <3>3 DEF Kinds
  <2>4. CASE n \notin DOMAIN Content[Label(p[2])]
    BY <1>2, <2>4 DEF Kind, Kinds
  <2> QED
    BY <2>3, <2>4
<1> QED
  BY <1>1, <1>2

LEMMA ShownIs ==
  ASSUME NEW r \in Globals, NEW i \in 0..1
  PROVE  Shown(r, i) \in Path /\ r.syspth[i] \in Path /\ (r.syspth[i] # Dot => Shown(r, i) = r.syspth[i])
BY DEF Shown, Globals

LEMMA ViewIs ==
  ASSUME NEW r \in Globals
  PROVE  View(r) \in Views
<1>1. /\ r.mode \in {"b", "f", "d"} /\ r.cwd \in Path
      /\ r.syspth[0] \in Path /\ r.syspth[1] \in Path
  BY DEF Globals
<1> QED
  BY <1>1 DEF View, Views

LEMMA TypesIs ==
  ASSUME NEW r \in Globals, NEW n
  PROVE  /\ Types(r, n) \in [1..2 -> Kinds]
         /\ Types(r, n) # <<"none", "none">> => n \in Names
<1>1. /\ r.tmps \subseteq Temps /\ r.syspth[0] \in Path /\ r.syspth[1] \in Path
      /\ Shown(r, 0) \in Path
  BY ShownIs DEF Globals
<1> DEFINE a == Kind(r, Shown(r, 0), n)
           b == Kind(r, r.syspth[0], n)
           c == Kind(r, r.syspth[1], n)
<1>2. a \in Kinds /\ b \in Kinds /\ c \in Kinds /\ "none" \in Kinds
  BY <1>1, KindIs DEF Kinds
<1>3. \A x \in {a, b, c} : x # "none" => n \in Names
  BY <1>1, KindIs
<1> HIDE DEF a, b, c
<1>4. PICK x, y : Types(r, n) = <<x, y>> /\ x \in {a, b, c, "none"} /\ y \in {a, b, c, "none"}
  <2> DEFINE x == CASE r.mode = "b" -> a
                    [] r.mode = "f" /\ r.right_col = 0 -> b
                    [] r.mode = "f" /\ r.right_col = 1 -> "none"
                    [] OTHER -> IF r.subtree # 2 THEN b ELSE "none"
             y == CASE r.mode = "b" -> "none"
                    [] r.mode = "f" /\ r.right_col = 0 -> "none"
                    [] r.mode = "f" /\ r.right_col = 1 -> c
                    [] OTHER -> IF r.subtree # 1 THEN c ELSE "none"
  <2>0. r.mode \in {"b", "f", "d"} /\ r.right_col \in {0, 1}
    BY DEF Globals
  <2>1. Types(r, n) = <<x, y>>
    BY <2>0 DEF Types, a, b, c
  <2>2. x \in {a, b, c, "none"} /\ y \in {a, b, c, "none"}
    BY <2>0
  <2> QED
    BY <2>1, <2>2
<1>5. x \in Kinds /\ y \in Kinds
  BY <1>2, <1>4
<1>6. <<x, y>> # <<"none", "none">> => n \in Names
  BY <1>3, <1>4
<1> QED
  BY <1>4, <1>5, <1>6

-----------------------------------------------------------------------------
(* The operators one by one: types, and what they leave alone.             *)
LEMMA ClrMark ==
  ASSUME NEW r \in Globals
  PROVE  LET a == clr_mark(r)
         IN  a \in Globals /\ a.mark = NULL /\ Same(a, r) /\ SameSlips(a, r)
BY DEF clr_mark, Globals, Same, SameMode, SamePaths, SameStack, SameTemps, SameSlips

LEMMA GlobalMarkIs ==
  ASSUME NEW r \in Globals, Local(r)
  PROVE  /\ GlobalMark(r) \in Mark /\ GlobalMark(r).n = NULL
         /\ \A i \in 1..2 :
              /\ GlobalMark(r).t[i] \in {r.mark.t[i], "none"}
              /\ r.mode = "b" \/ r.syspth[i - 1] # <<>> => GlobalMark(r).t[i] = r.mark.t[i]
         /\ GlobalMark(r).l = (IF GlobalMark(r).t[1] = "none" THEN NULL ELSE Shown(r, 0) \o <<r.mark.n>>)
         /\ GlobalMark(r).r = (IF GlobalMark(r).t[2] = "none" THEN NULL ELSE Shown(r, 1) \o <<r.mark.n>>)
<1> DEFINE m == r.mark
           t == IF r.mode = "b" THEN m.t
                ELSE [i \in 1..2 |-> IF r.syspth[i-1] = <<>> THEN "none" ELSE m.t[i]]
           at(i) == IF t[i] = "none" THEN NULL ELSE Shown(r, i-1) \o <<m.n>>
           g == [m EXCEPT !.n = NULL, !.t = t, !.l = at(1), !.r = at(2)]
<1>1. m \in Mark /\ m.n \in Names
  BY DEF Globals, Local, Mark
<1>2. t \in [1..2 -> Kinds]
  BY <1>1 DEF Mark, Kinds
<1>3. \A i \in 1..2 : t[i] \in {m.t[i], "none"} /\ (r.mode = "b" \/ r.syspth[i - 1] # <<>> => t[i] = m.t[i])
  BY <1>1 DEF Mark
<1>4. at(1) = (IF t[1] = "none" THEN NULL ELSE Shown(r, 0) \o <<m.n>>)
  OBVIOUS
<1>5. at(2) = (IF t[2] = "none" THEN NULL ELSE Shown(r, 1) \o <<m.n>>)
  OBVIOUS
<1>6. Shown(r, 0) \o <<m.n>> \in Path /\ Shown(r, 1) \o <<m.n>> \in Path
  <2>1. Shown(r, 0) \in Seq(Part) /\ Shown(r, 1) \in Seq(Part) /\ m.n \in Part
    BY <1>1, ShownIs, NamesAre
  <2>2. <<m.n>> \in Seq(Part)
    BY <2>1
  <2> QED
    BY <2>1, <2>2, NamesAre
<1>7. GlobalMark(r) = g
  BY DEF GlobalMark
<1> DEFINE x == at(1)
           y == at(2)
<1>8. x \in Maybe /\ y \in Maybe
  BY <1>4, <1>5, <1>6 DEF Maybe
<1>9. g = [m EXCEPT !.n = NULL, !.t = t, !.l = x, !.r = y]
  OBVIOUS
<1> HIDE DEF t, x, y, m, at
<1>10. g \in Mark /\ g.n = NULL /\ g.t = t /\ g.l = x /\ g.r = y
  BY <1>1, <1>2, <1>8, <1>9 DEF Mark
<1> HIDE DEF g
<1> QED
  BY <1>3, <1>4, <1>5, <1>7, <1>10 DEF x, y, m

LEMMA MarkGlobal ==
  ASSUME NEW r \in Globals, Local(r)
  PROVE  LET a == mark_global(r)
         IN  /\ a \in Globals /\ Same(a, r) /\ SameSlips(a, r) /\ ~Local(a)
             /\ r.mode = "f" => a.mark = NULL
             /\ a.mark # NULL => /\ a.mark = GlobalMark(r)
                                 /\ r.mode = "b" => Kind(r, r.cwd, r.mark.n) # "none"
                                 /\ \E i \in 1..2 : GlobalMark(r).t[i] # "none"
<1> DEFINE a == mark_global(r)
<1>1. CASE \/ r.mode = "f" \/ \A i \in 1..2 : GlobalMark(r).t[i] = "none"
           \/ r.mode = "b" /\ Kind(r, r.cwd, r.mark.n) = "none"
  <2>1. a = clr_mark(r)
    BY <1>1 DEF mark_global
  <2> QED
    BY <2>1, ClrMark DEF Local
<1>2. CASE ~(\/ r.mode = "f" \/ \A i \in 1..2 : GlobalMark(r).t[i] = "none"
             \/ r.mode = "b" /\ Kind(r, r.cwd, r.mark.n) = "none")
  <2> DEFINE g == GlobalMark(r)
             b == [r EXCEPT !.mark = g]
  <2>1. a = b
    BY <1>2 DEF mark_global
  <2>2. g \in Mark /\ g.n = NULL
    BY GlobalMarkIs
  <2>3. \E i \in 1..2 : g.t[i] # "none"
    BY <1>2
  <2> HIDE DEF g
  <2>4. b \in Globals /\ Same(b, r) /\ SameSlips(b, r) /\ b.mark = g
    BY <2>2 DEF Globals, Same, SameMode, SamePaths, SameStack, SameTemps, SameSlips
  <2>5. ~Local(b)
    BY <2>2, <2>4 DEF Local
  <2> HIDE DEF b
  <2> QED
    BY <1>2, <2>1, <2>3, <2>4, <2>5 DEF g
<1> QED
  BY <1>1, <1>2

LEMMA FreeList ==
  ASSUME NEW r \in Globals, NEW i
  PROVE  LET a == diff_db_free(r, i)
         IN  /\ a \in Globals /\ Same(a, r) /\ SameMark(a, r)
             /\ ~(Local(r) /\ r.mark.list = i) => a = r
<1>1. CASE Local(r) /\ r.mark.list = i
  BY <1>1 DEF diff_db_free, Globals, Same, SameMode, SamePaths, SameStack, SameTemps, SameMark
<1>2. CASE ~(Local(r) /\ r.mark.list = i)
  BY <1>2 DEF diff_db_free, Same, SameMode, SamePaths, SameStack, SameTemps, SameMark
<1> QED
  BY <1>1, <1>2

ScanOnly(a, r) == a \in Globals /\ Same(a, r) /\ SameMark(a, r) /\ SameSlips(a, r)
LEMMA ScanDbs ==
  ASSUME NEW r \in Globals
  PROVE  /\ ScanOnly(push_scan_db(r), r) /\ ScanOnly(pop_scan_db(r), r)
         /\ \A os \in BOOLEAN : ScanOnly(free_scan_db(r, os), r)
<1>1. ScanOnly(push_scan_db(r), r)
  <2> DEFINE v == <<r.scan_db>> \o r.scan_db_list
             a == [r EXCEPT !.scan_db_list = v, !.scan_db = {}, !.one_scan = TRUE]
  <2>1. r.scan_db \in SUBSET (Path \X Path) /\ r.scan_db_list \in Seq(SUBSET (Path \X Path))
    BY DEF Globals
  <2>2. v \in Seq(SUBSET (Path \X Path))
    BY <2>1
  <2>3. push_scan_db(r) = a
    BY DEF push_scan_db
  <2> HIDE DEF v
  <2>4. ScanOnly(a, r)
    BY <2>2 DEF ScanOnly, Globals, Same, SameMode, SamePaths, SameStack, SameTemps, SameMark, SameSlips
  <2> QED
    BY <2>3, <2>4
<1>2. ASSUME NEW os \in BOOLEAN PROVE ScanOnly(free_scan_db(r, os), r)
  BY DEF ScanOnly, free_scan_db, Globals, Same, SameMode, SamePaths, SameStack, SameTemps, SameMark, SameSlips
<1>3. ScanOnly(pop_scan_db(r), r)
  <2> DEFINE e == free_scan_db(r, FALSE)
  <2>1. ScanOnly(e, r)
    BY <1>2
  <2> HIDE DEF e
  <2>2. CASE r.scan_db_list = <<>>
    BY <2>1, <2>2 DEF pop_scan_db, e
  <2>3. CASE r.scan_db_list # <<>>
    <3> DEFINE a == [e EXCEPT !.scan_db = Head(r.scan_db_list), !.scan_db_list = Tail(@)]
    <3>1. e.scan_db_list = r.scan_db_list
      BY DEF e, free_scan_db, Globals
    <3>2. Head(r.scan_db_list) \in SUBSET (Path \X Path) /\ Tail(r.scan_db_list) \in Seq(SUBSET (Path \X Path))
      BY <2>3 DEF Globals
    <3>3. ScanOnly(a, e)
      BY <2>1, <3>1, <3>2 DEF ScanOnly, Globals, Same, SameMode, SamePaths, SameStack, SameTemps, SameMark, SameSlips
    <3>4. pop_scan_db(r) = a
      BY <2>3 DEF pop_scan_db, e
    <3> QED
      BY <2>1, <3>3, <3>4 DEF ScanOnly, Same, SameMode, SamePaths, SameStack, SameTemps, SameMark, SameSlips
  <2> QED
    BY <2>2, <2>3
<1> QED
  BY <1>1, <1>2, <1>3

\* a is r with other paths, scan databases and, with no slip, mark.
BuildOnly(a, r) ==
  /\ a \in Globals /\ SameMode(a, r) /\ SameStack(a, r) /\ SameTemps(a, r) /\ SameSlips(a, r)
  /\ a.cwd = r.cwd /\ a.fpath = r.fpath /\ a.subtree = r.subtree
LEMMA Build ==
  ASSUME NEW r \in Globals, NEW tree
  PROVE  LET a == build_diff_db(r, tree)
         IN  /\ BuildOnly(a, r) /\ SameMark(a, r)
             /\ a.syspth[0] = r.syspth[0]
             /\ a.syspth[1] = IF r.mode = "b" /\ Odd(tree) THEN r.cwd ELSE r.syspth[1]
<1> DEFINE a == build_diff_db(r, tree)
           p == [r.syspth EXCEPT ![1] = IF r.mode = "b" /\ Odd(tree) THEN r.cwd ELSE @]
<1>1. /\ p \in [0..1 -> Path] /\ p[0] = r.syspth[0]
      /\ p[1] = IF r.mode = "b" /\ Odd(tree) THEN r.cwd ELSE r.syspth[1]
  BY DEF Globals
<1>2. CASE r.mode # "d"
  <2> DEFINE b == [r EXCEPT !.one_scan = FALSE, !.syspth = p]
  <2>1. a = b
    BY <1>2 DEF build_diff_db, Globals
  <2> HIDE DEF p
  <2>2. BuildOnly(b, r) /\ SameMark(b, r) /\ b.syspth = p
    BY <1>1 DEF BuildOnly, Globals, SameMode, SameStack, SameTemps, SameSlips, SameMark
  <2> HIDE DEF b
  <2> QED
    BY <1>1, <2>1, <2>2
<1>3. CASE r.mode = "d" /\ r.one_scan
  <2> DEFINE v == r.scan_db \cup {<<r.syspth[0], r.syspth[1]>>}
             b == [r EXCEPT !.one_scan = FALSE, !.scan_db = v]
  <2>1. v \in SUBSET (Path \X Path)
    BY DEF Globals
  <2>2. a = b
    BY <1>3 DEF build_diff_db, Globals
  <2> HIDE DEF v
  <2>3. BuildOnly(b, r) /\ SameMark(b, r) /\ b.syspth = r.syspth
    BY <2>1 DEF BuildOnly, Globals, SameMode, SameStack, SameTemps, SameSlips, SameMark
  <2> HIDE DEF b
  <2> QED
    BY <1>3, <2>2, <2>3
<1>4. CASE r.mode = "d" /\ ~r.one_scan
  BY <1>4 DEF build_diff_db, BuildOnly, SameMode, SameStack, SameTemps, SameSlips, SameMark
<1> QED
  BY <1>2, <1>3, <1>4

Names2 == Path \cup {DotDot, NULL}
LEMMA ScanSubdir ==
  ASSUME NEW r \in Globals, NEW name \in Names2, NEW rnam \in Names2, NEW tree
  PROVE  LET a == scan_subdir(r, name, rnam, tree)
             n == <<name, IF rnam = NULL THEN name ELSE rnam>>
             p(i) == IF n[i+1] # NULL /\ (IF i = 0 THEN Odd(tree) ELSE tree > 1)
                     THEN pthcat(r.syspth[i], n[i+1]) ELSE r.syspth[i]
         IN  /\ BuildOnly(a, r) /\ SameMark(a, r)
             /\ a.syspth[0] = p(0)
             /\ a.syspth[1] = IF r.mode = "b" /\ Odd(tree) THEN r.cwd ELSE p(1)
<1> DEFINE n == <<name, IF rnam = NULL THEN name ELSE rnam>>
           on(i) == n[i+1] # NULL /\ (IF i = 0 THEN Odd(tree) ELSE tree > 1)
           p(i) == IF on(i) THEN pthcat(r.syspth[i], n[i+1]) ELSE r.syspth[i]
           q == [i \in 0..1 |-> p(i)]
           b == [r EXCEPT !.syspth = q]
           a == scan_subdir(r, name, rnam, tree)
<1>1. n[1] \in Names2 /\ n[2] \in Names2 /\ r.syspth \in [0..1 -> Path]
  BY DEF Globals
<1>2. p(0) \in Path /\ p(1) \in Path
  <2>1. \A i \in 0..1 : n[i+1] # NULL => pthcat(r.syspth[i], n[i+1]) \in Path
    <3> SUFFICES ASSUME NEW i \in 0..1, n[i+1] # NULL PROVE pthcat(r.syspth[i], n[i+1]) \in Path
      OBVIOUS
    <3>1. n[i+1] \in Path \cup {DotDot} /\ r.syspth[i] \in Path
      BY <1>1 DEF Names2
    <3> QED
      BY <3>1, PathOps
  <2> QED
    BY <1>1, <2>1
<1>3. q = [r.syspth EXCEPT ![0] = p(0), ![1] = p(1)] /\ q \in [0..1 -> Path] /\ q[0] = p(0) /\ q[1] = p(1)
  BY <1>1, <1>2
<1>4. a = build_diff_db(b, tree)
  <2>1. [i \in 0..1 |-> IF on(i) THEN pthcat(r.syspth[i], n[i+1]) ELSE r.syspth[i]] = q
    OBVIOUS
  <2> QED
    BY <2>1 DEF scan_subdir
<1> HIDE DEF q
<1>5. BuildOnly(b, r) /\ SameMark(b, r) /\ b.syspth = q
  <2>1. q \in [0..1 -> Path]
    BY <1>3
  <2> HIDE DEF p, on, n
  <2> QED
    BY <2>1 DEF BuildOnly, Globals, SameMode, SameStack, SameTemps, SameSlips, SameMark
<1> HIDE DEF b
<1>6. /\ BuildOnly(a, b) /\ SameMark(a, b) /\ a.syspth[0] = b.syspth[0]
      /\ a.syspth[1] = IF b.mode = "b" /\ Odd(tree) THEN b.cwd ELSE b.syspth[1]
  BY <1>4, <1>5, Build DEF BuildOnly
<1> HIDE DEF a
<1>7. BuildOnly(a, r) /\ SameMark(a, r) /\ a.syspth[0] = p(0)
      /\ a.syspth[1] = IF r.mode = "b" /\ Odd(tree) THEN r.cwd ELSE p(1)
  BY <1>3, <1>5, <1>6 DEF BuildOnly, SameMode, SameStack, SameTemps, SameSlips, SameMark
<1> QED
  BY <1>7 DEF a

LEMMA RebuildDb ==
  ASSUME NEW r \in Globals
  PROVE  LET a == rebuild_db(r)
             m == IF Local(r) THEN mark_global(r) ELSE r
         IN  /\ BuildOnly(a, r) /\ ~Local(a) /\ a.mark = m.mark
             /\ a.syspth[0] = r.syspth[0]
             /\ r.mode # "b" => a.syspth = r.syspth
             /\ r.mode = "b" => a.syspth[1] = r.cwd
<1> DEFINE m == IF Local(r) THEN mark_global(r) ELSE r
           b == build_diff_db(diff_db_free(m, 0), IF m.mode = "d" THEN m.subtree ELSE 1)
           a == rebuild_db(r)
<1>1. BuildOnly(m, r) /\ ~Local(m) /\ m.syspth = r.syspth
  <2>1. CASE Local(r)
    <3> DEFINE x == mark_global(r)
    <3>1. /\ x \in Globals /\ Same(x, r) /\ SameSlips(x, r) /\ ~Local(x)
      BY <2>1, MarkGlobal
    <3>2. m = x
      BY <2>1
    <3> HIDE DEF x, m
    <3> QED
      BY <3>1, <3>2 DEF BuildOnly, Same, SameMode, SamePaths, SameStack, SameTemps, SameSlips
  <2>2. CASE ~Local(r)
    BY <2>2 DEF BuildOnly, SameMode, SameStack, SameTemps, SameSlips
  <2> QED
    BY <2>1, <2>2
<1> HIDE DEF m
<1>2. diff_db_free(m, 0) = m
  BY <1>1, FreeList DEF BuildOnly
<1> DEFINE tree == IF m.mode = "d" THEN m.subtree ELSE 1
<1>3. /\ BuildOnly(b, m) /\ SameMark(b, m) /\ b.syspth[0] = m.syspth[0]
      /\ b.syspth[1] = IF m.mode = "b" /\ Odd(tree) THEN m.cwd ELSE m.syspth[1]
  <2> HIDE DEF tree
  <2>1. b = build_diff_db(m, tree)
    BY <1>2 DEF tree
  <2> HIDE DEF b
  <2> QED
    BY <1>1, <2>1, Build DEF BuildOnly
<1>4. b.syspth[1] = IF m.mode = "b" THEN m.cwd ELSE m.syspth[1]
  BY <1>3 DEF Odd
<1> HIDE DEF b, tree
<1>5. BuildOnly(b, r) /\ ~Local(b) /\ b.mark = m.mark /\ b.syspth[0] = r.syspth[0]
      /\ b.syspth[1] = IF r.mode = "b" THEN r.cwd ELSE r.syspth[1]
  BY <1>1, <1>3, <1>4 DEF BuildOnly, SameMode, SameStack, SameTemps, SameSlips, SameMark, Local
<1>6. BuildOnly(a, r) /\ ~Local(a) /\ a.mark = m.mark /\ a.syspth[0] = r.syspth[0]
      /\ a.syspth[1] = IF r.mode = "b" THEN r.cwd ELSE r.syspth[1]
  <2>1. CASE r.mode = "f"
    <3> DEFINE c == build_diff_db(diff_db_free(b, 1), 2)
    <3>1. diff_db_free(b, 1) = b
      BY <1>5, FreeList DEF BuildOnly
    <3>2. a = c
      BY <2>1 DEF rebuild_db, b, m
    <3>3. /\ BuildOnly(c, b) /\ SameMark(c, b) /\ c.syspth[0] = b.syspth[0]
          /\ c.syspth[1] = IF b.mode = "b" /\ Odd(2) THEN b.cwd ELSE b.syspth[1]
      BY <1>5, <3>1, Build DEF BuildOnly
    <3> HIDE DEF c
    <3> QED
      BY <1>5, <2>1, <3>2, <3>3 DEF BuildOnly, SameMode, SameStack, SameTemps, SameSlips, SameMark, Local
  <2>2. CASE r.mode # "f"
    <3>1. a = b
      BY <2>2 DEF rebuild_db, b, m
    <3> QED
      BY <1>5, <3>1
  <2> QED
    BY <2>1, <2>2
<1> HIDE DEF a
<1>7. r.mode # "b" => a.syspth = r.syspth
  <2>1. a.syspth \in [0..1 -> Path] /\ r.syspth \in [0..1 -> Path]
    BY <1>6 DEF BuildOnly, Globals
  <2> QED
    BY <1>6, <2>1
<1> QED
  BY <1>6, <1>7 DEF a, m

-----------------------------------------------------------------------------
(* Temporary directories, and where the program is.                        *)
LEMMA MkTmp ==
  ASSUME NEW r \in Globals, r.made < Len(TempName)
  PROVE  LET a == mktmpdirs(r)
         IN  /\ a \in Globals /\ SameMode(a, r) /\ SamePaths(a, r) /\ SameStack(a, r)
             /\ SameMark(a, r) /\ SameSlips(a, r) /\ a.uz_path_db = r.uz_path_db
             /\ a.made = r.made + 1 /\ a.tmps = r.tmps \cup {TempName[r.made + 1]}
             /\ Fresh(r) \in Path /\ TempName[r.made + 1] \in Temps
<1>1. r.made \in Nat /\ r.made + 1 \in DOMAIN TempName /\ Len(TempName) \in Nat
  BY UiStackAssumption DEF Globals
<1>2. TempName[r.made + 1] \in Temps
  BY <1>1 DEF Temps
<1> DEFINE t == TempName[r.made + 1]
           a == [r EXCEPT !.made = r.made + 1, !.tmps = r.tmps \cup {t}]
<1>3. mktmpdirs(r) = a
  BY DEF mktmpdirs
<1>4. Fresh(r) \in Path
  <2>1. t \in Part /\ "/" \in Part
    BY <1>2, NamesAre
  <2> QED
    BY <2>1, NamesAre DEF Fresh
<1>5. r.made + 1 \in 0..Len(TempName)
  BY <1>1
<1> HIDE DEF t
<1>6. /\ a \in Globals /\ SameMode(a, r) /\ SamePaths(a, r) /\ SameStack(a, r)
      /\ SameMark(a, r) /\ SameSlips(a, r) /\ a.uz_path_db = r.uz_path_db
      /\ a.made = r.made + 1 /\ a.tmps = r.tmps \cup {t}
  <2>1. t \in Temps
    BY <1>2 DEF t
  <2> QED
    BY <1>5, <2>1 DEF Globals, SameMode, SamePaths, SameStack, SameMark, SameSlips
<1> QED
  BY <1>2, <1>3, <1>4, <1>6 DEF t

LEMMA RmTmp ==
  ASSUME NEW r \in Globals, NEW name
  PROVE  LET a == rmtmpdirs(r, name)
         IN  /\ a \in Globals /\ SameMode(a, r) /\ SamePaths(a, r) /\ SameStack(a, r) /\ SameMark(a, r)
             /\ a.uz_path_db = r.uz_path_db /\ a.made = r.made
             /\ \A t \in r.tmps : name = <<"/", t>> => a.tmps = r.tmps \ {t} /\ a.slips = r.slips
<1>1. CASE \E t \in r.tmps : name = <<"/", t>>
  <2>1. PICK t \in r.tmps : name = <<"/", t>>
    BY <1>1
  <2> DEFINE a == [r EXCEPT !.tmps = @ \ {t}]
  <2>2. name[2] = t
    BY <2>1
  <2>3. rmtmpdirs(r, name) = a
    BY <1>1, <2>2 DEF rmtmpdirs
  <2>4. /\ a \in Globals /\ SameMode(a, r) /\ SamePaths(a, r) /\ SameStack(a, r) /\ SameMark(a, r)
        /\ a.uz_path_db = r.uz_path_db /\ a.made = r.made /\ a.tmps = r.tmps \ {t} /\ a.slips = r.slips
    BY DEF Globals, SameMode, SamePaths, SameStack, SameMark
  <2>5. \A x \in r.tmps : name = <<"/", x>> => x = t
    BY <2>2
  <2> HIDE DEF a
  <2> QED
    BY <2>3, <2>4, <2>5
<1>2. CASE ~\E t \in r.tmps : name = <<"/", t>>
  <2> DEFINE a == [r EXCEPT !.slips = @ \cup {"rmtmpdirs"}]
  <2>1. rmtmpdirs(r, name) = a
    BY <1>2 DEF rmtmpdirs
  <2>2. /\ a \in Globals /\ SameMode(a, r) /\ SamePaths(a, r) /\ SameStack(a, r) /\ SameMark(a, r)
        /\ a.uz_path_db = r.uz_path_db /\ a.made = r.made
    BY DEF Globals, SameMode, SamePaths, SameStack, SameMark
  <2> HIDE DEF a
  <2> QED
    BY <1>2, <2>1, <2>2
<1> QED
  BY <1>1, <1>2

\* a is r in another directory.
CwdOnly(a, r) ==
  /\ a \in Globals /\ SameMode(a, r) /\ SameStack(a, r) /\ SameTemps(a, r) /\ SameMark(a, r)
  /\ SameSlips(a, r) /\ a.syspth = r.syspth /\ a.fpath = r.fpath /\ a.subtree = r.subtree
LEMMA Chdir ==
  ASSUME NEW r \in Globals, NEW p \in Path
  PROVE  LET a == chdir(r, p)
         IN  CwdOnly(a, r) /\ a.cwd = IF IsDir(r, p) THEN p ELSE r.cwd
BY DEF chdir, CwdOnly, Globals, SameMode, SameStack, SameTemps, SameMark, SameSlips

LEMMA FmodeChdir ==
  ASSUME NEW r \in Globals
  PROVE  LET a == fmode_chdir(r)
         IN  CwdOnly(a, r) /\ a.cwd = IF IsDir(r, r.syspth[r.right_col]) THEN r.syspth[r.right_col] ELSE r.cwd
<1>1. r.syspth[r.right_col] \in Path
  BY DEF Globals
<1> QED
  BY <1>1, Chdir DEF fmode_chdir

LEMMA MkAbs ==
  ASSUME NEW r \in Globals
  PROVE  LET a == mk_abs_pth(r)
         IN  /\ a \in Globals /\ SameMode(a, r) /\ SameStack(a, r) /\ SameTemps(a, r) /\ SameMark(a, r)
             /\ SameSlips(a, r) /\ a.cwd = r.cwd /\ a.fpath = r.fpath /\ a.subtree = r.subtree
             /\ \A i \in 0..1 : a.syspth[i] = Shown(r, i)
<1> DEFINE q == [i \in 0..1 |-> IF r.syspth[i] = Dot THEN r.cwd ELSE r.syspth[i]]
           a == [r EXCEPT !.syspth = q]
<1>1. q \in [0..1 -> Path] /\ \A i \in 0..1 : q[i] = Shown(r, i)
  BY DEF Globals, Shown
<1>2. mk_abs_pth(r) = a
  BY DEF mk_abs_pth, Globals
<1> HIDE DEF q
<1>3. /\ a \in Globals /\ SameMode(a, r) /\ SameStack(a, r) /\ SameTemps(a, r) /\ SameMark(a, r)
      /\ SameSlips(a, r) /\ a.cwd = r.cwd /\ a.fpath = r.fpath /\ a.subtree = r.subtree /\ a.syspth = q
  BY <1>1 DEF Globals, SameMode, SameStack, SameTemps, SameMark, SameSlips
<1> QED
  BY <1>1, <1>2, <1>3

-----------------------------------------------------------------------------
(* Levels of the stack: one more, and one less.                            *)
Deeper(a, r, name, rnam, lzip, rzip, f2d) ==
  /\ name = <<>> /\ rnam = <<>> => a.ui_stack = r.ui_stack
  /\ ~(name = <<>> /\ rnam = <<>>) =>
       \E st \in Level : /\ a.ui_stack = <<st>> \o r.ui_stack /\ (st.fl = TRUE <=> f2d)
                         /\ st.lzip = (IF lzip THEN name ELSE NULL)
                         /\ st.rzip = (IF rzip THEN rnam ELSE NULL)
LEMMA PushState ==
  ASSUME NEW r \in Globals, s \in Globals, NEW name \in Maybe, NEW rnam \in Maybe,
         NEW lzip \in BOOLEAN, NEW rzip \in BOOLEAN, NEW f2d \in BOOLEAN
  PROVE  LET a == push_state(r, name, rnam, lzip, rzip, f2d)
         IN  /\ a \in Globals /\ SameMode(a, r) /\ SameTemps(a, r) /\ SameMark(a, r) /\ SameSlips(a, r)
             /\ a.cwd = r.cwd /\ a.fpath = r.fpath /\ a.subtree = r.subtree
             /\ Deeper(a, r, name, rnam, lzip, rzip, f2d)
<1>1. CASE name = <<>> /\ rnam = <<>>
  BY <1>1 DEF push_state, Deeper, SameMode, SameTemps, SameMark, SameSlips
<1>2. CASE ~(name = <<>> /\ rnam = <<>>)
  <2> DEFINE n == <<name, rnam>>
             st == [lpth |-> IF Absolute(name) THEN r.syspth[0] ELSE NULL,
                    rpth |-> IF Absolute(rnam) THEN r.syspth[1] ELSE NULL,
                    llen |-> Len(r.syspth[0]), rlen |-> Len(r.syspth[1]),
                    lzip |-> IF lzip THEN name ELSE NULL,
                    rzip |-> IF rzip THEN rnam ELSE NULL,
                    fl |-> f2d, tree |-> r.subtree, two |-> s.twocols, left |-> View(s)]
             q == [i \in 0..1 |-> IF Absolute(n[i+1]) THEN <<>> ELSE r.syspth[i]]
             u == <<st>> \o r.ui_stack
             a == [r EXCEPT !.ui_stack = u, !.syspth = q]
  <2>1. push_state(r, name, rnam, lzip, rzip, f2d) = a
    <3>1. q = [i \in 0..1 |-> IF Absolute(n[i+1]) THEN <<>> ELSE r.syspth[i]]
      OBVIOUS
    <3> QED
      BY <1>2, <3>1 DEF push_state
  <2>2. r.syspth[0] \in Path /\ r.syspth[1] \in Path /\ r.subtree \in 1..3 /\ s.twocols \in BOOLEAN
    BY DEF Globals
  <2>3. Len(r.syspth[0]) \in Nat /\ Len(r.syspth[1]) \in Nat /\ View(s) \in Views
    BY <2>2, PathOps, ViewIs
  <2>4. st \in Level /\ st.fl = f2d /\ st.lzip = (IF lzip THEN name ELSE NULL)
        /\ st.rzip = (IF rzip THEN rnam ELSE NULL)
    BY <2>2, <2>3 DEF Level, Maybe
  <2>5. q \in [0..1 -> Path]
    BY <2>2, PathsAre DEF Globals
  <2> HIDE DEF st, q
  <2>6. u \in Seq(Level)
    <3>1. r.ui_stack \in Seq(Level) /\ <<st>> \in Seq(Level)
      BY <2>4 DEF Globals
    <3> QED
      BY <3>1
  <2> HIDE DEF u
  <2>7. /\ a \in Globals /\ SameMode(a, r) /\ SameTemps(a, r) /\ SameMark(a, r) /\ SameSlips(a, r)
        /\ a.cwd = r.cwd /\ a.fpath = r.fpath /\ a.subtree = r.subtree /\ a.ui_stack = u
    BY <2>5, <2>6 DEF Globals, SameMode, SameTemps, SameMark, SameSlips
  <2> HIDE DEF a
  <2> QED
    BY <1>2, <2>1, <2>4, <2>7 DEF u, Deeper
<1> QED
  BY <1>1, <1>2

LEMMA RestoredIs ==
  ASSUME NEW p \in Path, NEW len \in Nat, NEW kept \in Maybe, NEW mode
  PROVE  Restored(p, len, kept, mode) \in Path
<1>1. Truncated(p, len) \in Path /\ Lost \in Path
  BY PathOps, PathsAre
<1> QED
  BY <1>1 DEF Restored, Maybe

\* What leaving an archive changes.
Leaves(a, r) ==
  /\ a \in Globals /\ SameMode(a, r) /\ SamePaths(a, r) /\ SameStack(a, r)
  /\ a.uz_path_db = r.uz_path_db /\ a.made = r.made /\ a.mark \in {r.mark, NULL}
Without(tmps, zips) == {t \in tmps : <<"/", t>> \notin zips}
Dirs(tmps) == {<<"/", t>> : t \in tmps}
LeftZip(a, r, zip) ==
  /\ Leaves(a, r)
  /\ zip \in Dirs(r.tmps) \cup {NULL} =>
       SameSlips(a, r) /\ a.tmps = Without(r.tmps, {zip} \ {NULL})
LEMMA LeaveZipIs ==
  ASSUME NEW r \in Globals, NEW i, NEW zip, NEW mode
  PROVE  LeftZip(LeaveZip(r, i, zip, mode), r, zip)
<1> DEFINE m == IF mode = 1 /\ MarkWithin(r, i) THEN clr_mark(r) ELSE r
           a == LeaveZip(r, i, zip, mode)
<1>1. CASE zip = NULL
  <2>1. a = r
    BY <1>1 DEF LeaveZip
  <2> HIDE DEF a
  <2> QED
    BY <1>1, <2>1 DEF a, LeftZip, Leaves, SameMode, SamePaths, SameStack, SameSlips, Without
<1>2. CASE zip # NULL
  <2>1. m \in Globals /\ Same(m, r) /\ SameSlips(m, r) /\ m.mark \in {r.mark, NULL}
    <3>1. CASE mode = 1 /\ MarkWithin(r, i)
      BY <3>1, ClrMark
    <3>2. CASE ~(mode = 1 /\ MarkWithin(r, i))
      BY <3>2 DEF Same, SameMode, SamePaths, SameStack, SameTemps, SameSlips
    <3> QED
      BY <3>1, <3>2
  <2>2. a = rmtmpdirs(m, zip)
    BY <1>2 DEF LeaveZip
  <2> HIDE DEF m, a
  <2>3. /\ a \in Globals /\ SameMode(a, m) /\ SamePaths(a, m) /\ SameStack(a, m) /\ SameMark(a, m)
        /\ a.uz_path_db = m.uz_path_db /\ a.made = m.made
        /\ \A t \in m.tmps : zip = <<"/", t>> => a.tmps = m.tmps \ {t} /\ a.slips = m.slips
    BY <2>1, <2>2, RmTmp
  <2>4. Leaves(a, r)
    BY <2>1, <2>3 DEF Leaves, Same, SameMode, SamePaths, SameStack, SameTemps, SameMark
  <2>5. ASSUME zip \in Dirs(r.tmps) \cup {NULL}
        PROVE  SameSlips(a, r) /\ a.tmps = Without(r.tmps, {zip} \ {NULL})
    <3>1. PICK t \in r.tmps : zip = <<"/", t>>
      BY <1>2, <2>5 DEF Dirs
    <3>2. a.tmps = r.tmps \ {t} /\ a.slips = r.slips
      BY <2>1, <2>3, <3>1 DEF Same, SameTemps, SameSlips
    <3>3. \A x \in r.tmps : <<"/", x>> \in {zip} \ {NULL} <=> x = t
      BY <1>2, <3>1
    <3>4. r.tmps \ {t} = Without(r.tmps, {zip} \ {NULL})
      BY <3>3 DEF Without
    <3> QED
      BY <3>2, <3>4 DEF SameSlips
  <2> QED
    BY <2>4, <2>5 DEF a, LeftZip
<1> QED
  BY <1>1, <1>2

\* A level less.
Popped1(a, r, mode) ==
  /\ a \in Globals /\ SameMode(a, r) /\ a.cwd = r.cwd /\ ~Local(a)
  /\ a.fpath = (IF mode = 0 THEN NULL ELSE r.fpath)
  /\ a.uz_path_db = r.uz_path_db /\ a.made = r.made
  /\ mode # 1 => a.mark = NULL
LEMMA PopIs ==
  ASSUME NEW r \in Globals, r.ui_stack # <<>>, NEW mode
  PROVE  LET a  == Pop(r, mode)
             st == Head(r.ui_stack)
         IN  /\ Popped1(a, r, mode) /\ a.ui_stack = Tail(r.ui_stack)
             /\ Zips(st) \subseteq Dirs(r.tmps) /\ (st.lzip # NULL => st.lzip # st.rzip) =>
                  SameSlips(a, r) /\ a.tmps = Without(r.tmps, Zips(st))
<1> DEFINE st == Head(r.ui_stack)
           a1 == IF st.lzip # NULL \/ st.rzip # NULL THEN pop_scan_db(r) ELSE r
           b0 == LeaveZip(a1, 0, st.lzip, mode)
           b1 == LeaveZip(b0, 1, st.rzip, mode)
           c == IF mode # 1 THEN clr_mark(b1) ELSE IF Local(b1) THEN mark_global(b1) ELSE b1
           x == Restored(c.syspth[0], st.llen, st.lpth, mode)
           y == Restored(c.syspth[1], st.rlen, st.rpth, mode)
           z == IF mode = 0 THEN NULL ELSE c.fpath
           d == [c EXCEPT !.syspth[0] = x, !.syspth[1] = y, !.subtree = st.tree,
                          !.ui_stack = Tail(@), !.fpath = z]
<1>1. st \in Level /\ Tail(r.ui_stack) \in Seq(Level)
  BY DEF Globals
<1>2. ScanOnly(a1, r)
  <2>1. CASE st.lzip # NULL \/ st.rzip # NULL
    BY <2>1, ScanDbs
  <2>2. CASE ~(st.lzip # NULL \/ st.rzip # NULL)
    BY <2>2 DEF ScanOnly, Same, SameMode, SamePaths, SameStack, SameTemps, SameMark, SameSlips
  <2> QED
    BY <2>1, <2>2
<1>3. Pop(r, mode) = diff_db_free(d, 0)
  <2> HIDE DEF c
  <2>1. d = [c EXCEPT !.syspth[0] = Restored(@, st.llen, st.lpth, mode),
                      !.syspth[1] = Restored(@, st.rlen, st.rpth, mode),
                      !.subtree = st.tree, !.ui_stack = Tail(@),
                      !.fpath = IF mode = 0 THEN NULL ELSE @]
    OBVIOUS
  <2> QED
    BY <2>1 DEF Pop, c
<1> DEFINE fit == Zips(st) \subseteq Dirs(r.tmps) /\ (st.lzip # NULL => st.lzip # st.rzip)
           gone == Without(r.tmps, {st.lzip} \ {NULL})
<1> HIDE DEF a1, d, c, x, y, z, st
<1>4. Leaves(b0, r) /\ (fit => SameSlips(b0, r) /\ b0.tmps = gone)
  <2>1. /\ a1 \in Globals /\ Leaves(b0, a1)
        /\ st.lzip \in Dirs(a1.tmps) \cup {NULL} =>
             SameSlips(b0, a1) /\ b0.tmps = Without(a1.tmps, {st.lzip} \ {NULL})
    <3>1. a1 \in Globals
      BY <1>2 DEF ScanOnly
    <3>2. LeftZip(b0, a1, st.lzip)
      BY <3>1, LeaveZipIs
    <3> QED
      BY <3>1, <3>2 DEF LeftZip, Leaves
  <2>2. fit => st.lzip \in Dirs(r.tmps) \cup {NULL}
    BY DEF Zips
  <2> HIDE DEF b0, fit
  <2> QED
    BY <1>2, <2>1, <2>2 DEF ScanOnly, Same, Leaves, SameMode, SamePaths, SameStack, SameTemps, SameMark, SameSlips
<1> HIDE DEF b0
<1>5. Leaves(b1, r) /\ (fit => SameSlips(b1, r) /\ b1.tmps = Without(r.tmps, Zips(st)))
  <2>1. /\ b0 \in Globals /\ Leaves(b1, b0)
        /\ st.rzip \in Dirs(b0.tmps) \cup {NULL} =>
             SameSlips(b1, b0) /\ b1.tmps = Without(b0.tmps, {st.rzip} \ {NULL})
    <3>1. b0 \in Globals
      BY <1>4 DEF Leaves
    <3>2. LeftZip(b1, b0, st.rzip)
      BY <3>1, LeaveZipIs
    <3> QED
      BY <3>1, <3>2 DEF LeftZip, Leaves
  <2>2. ASSUME fit PROVE st.rzip \in Dirs(b0.tmps) \cup {NULL}
    <3>1. CASE st.rzip = NULL
      BY <3>1
    <3>2. CASE st.rzip # NULL
      <4>1. PICK t \in r.tmps : st.rzip = <<"/", t>>
        BY <2>2, <3>2 DEF Zips, Dirs
      <4>2. <<"/", t>> \notin {st.lzip} \ {NULL}
        BY <2>2, <4>1
      <4>3. t \in b0.tmps
        BY <1>4, <2>2, <4>1, <4>2 DEF Without
      <4> QED
        BY <4>1, <4>3 DEF Dirs
    <3> QED
      BY <3>1, <3>2
  <2>3. fit => Without(b0.tmps, {st.rzip} \ {NULL}) = Without(r.tmps, Zips(st))
    BY <1>4 DEF Without, Zips
  <2> HIDE DEF b1, fit
  <2>4. fit => SameSlips(b1, r) /\ b1.tmps = Without(r.tmps, Zips(st))
    BY <1>4, <2>1, <2>2, <2>3 DEF SameSlips
  <2> QED
    BY <1>4, <2>1, <2>4 DEF Leaves, SameMode, SamePaths, SameStack
<1> HIDE DEF b1, fit
<1>6. /\ c \in Globals /\ SameMode(c, b1) /\ SamePaths(c, b1) /\ SameStack(c, b1) /\ SameTemps(c, b1) /\ SameSlips(c, b1)
      /\ ~Local(c) /\ (mode # 1 => c.mark = NULL)
  <2>0. b1 \in Globals
    BY <1>5 DEF Leaves
  <2>1. CASE mode # 1
    <3>1. c = clr_mark(b1)
      BY <2>1 DEF c
    <3> QED
      BY <2>0, <3>1, ClrMark DEF Same, Local
  <2>2. CASE mode = 1 /\ Local(b1)
    <3>1. c = mark_global(b1)
      BY <2>2 DEF c
    <3> QED
      BY <2>0, <2>2, <3>1, MarkGlobal DEF Same
  <2>3. CASE mode = 1 /\ ~Local(b1)
    <3>1. c = b1
      BY <2>3 DEF c
    <3> QED
      BY <2>0, <2>3, <3>1 DEF SameMode, SamePaths, SameStack, SameTemps, SameSlips
  <2> QED
    BY <2>1, <2>2, <2>3
<1>7. x \in Path /\ y \in Path /\ z \in Maybe /\ c.syspth \in [0..1 -> Path]
  <2>1. c.syspth \in [0..1 -> Path] /\ c.fpath \in Maybe
    BY <1>6 DEF Globals
  <2>2. st.llen \in Nat /\ st.rlen \in Nat /\ st.lpth \in Maybe /\ st.rpth \in Maybe
    BY <1>1 DEF Level
  <2>3. c.syspth[0] \in Path /\ c.syspth[1] \in Path
    BY <2>1
  <2> QED
    BY <2>1, <2>2, <2>3, RestoredIs DEF x, y, z, Maybe
<1>8. /\ d \in Globals /\ SameMode(d, c) /\ d.cwd = c.cwd /\ SameTemps(d, c) /\ SameSlips(d, c) /\ SameMark(d, c)
      /\ d.ui_stack = Tail(r.ui_stack) /\ d.fpath = z
  <2> DEFINE q == [c.syspth EXCEPT ![0] = x, ![1] = y]
             u == Tail(r.ui_stack)
             t == st.tree
             e == [c EXCEPT !.syspth = q, !.subtree = t, !.ui_stack = u, !.fpath = z]
  <2>1. q \in [0..1 -> Path] /\ u \in Seq(Level) /\ t \in 1..3
    BY <1>1, <1>7 DEF Level
  <2>2. d = e
    <3>1. c.ui_stack = r.ui_stack
      BY <1>5, <1>6 DEF Leaves, SameStack
    <3> QED
      BY <1>6, <3>1 DEF d, Globals
  <2> HIDE DEF q, u, t
  <2>3. e \in Globals /\ SameMode(e, c) /\ e.cwd = c.cwd /\ SameTemps(e, c) /\ SameSlips(e, c) /\ SameMark(e, c)
        /\ e.ui_stack = u /\ e.fpath = z
    BY <1>6, <1>7, <2>1 DEF Globals, SameMode, SameTemps, SameSlips, SameMark
  <2> QED
    BY <2>2, <2>3 DEF u
<1>9. ~Local(d)
  BY <1>6, <1>8 DEF SameMark, Local
<1>10. Pop(r, mode) = d
  BY <1>3, <1>8, <1>9, FreeList
<1>11. Popped1(d, r, mode) /\ d.ui_stack = Tail(r.ui_stack)
  BY <1>5, <1>6, <1>8, <1>9 DEF Popped1, Leaves, SameMode, SamePaths, SameTemps, SameMark, z
<1>12. fit => SameSlips(d, r) /\ d.tmps = Without(r.tmps, Zips(st))
  BY <1>5, <1>6, <1>8 DEF SameTemps, SameSlips
<1> QED
  BY <1>10, <1>11, <1>12 DEF fit, st

-----------------------------------------------------------------------------
(* PopAll(): one level after the other.                                    *)
\* The largest number of a set
LEMMA LargestIs ==
  ASSUME NEW S \in SUBSET Int, NEW x \in S, \A y \in S : x >= y
  PROVE  Max(S) = x
<1>1. Max(S) \in S /\ \A y \in S : Max(S) >= y
  BY DEF Max
<1>2. x \in Int /\ Max(S) \in Int
  BY <1>1
<1> QED
  BY <1>1, <1>2

\* A set of natural numbers that has one has a least one.
LEMMA LeastExists ==
  ASSUME NEW S \in SUBSET Nat, S # {}
  PROVE  \E x \in S : \A y \in S : x <= y
<1> DEFINE Less == {p \in Nat \X Nat : p[1] < p[2]}
<1>1. IsWellFoundedOn(Less, Nat)
  BY NatLessThanWellFounded, Zenon DEF OpToRel
<1>2. \E x \in S : \A y \in S : ~(<<y, x>> \in Less)
  <2> HIDE DEF Less
  <2> QED
    BY <1>1, WFMin, Zenon
<1>3. ASSUME NEW x \in S, NEW y \in S, ~(<<y, x>> \in Less)
      PROVE  x <= y
  <2>1. x \in Nat /\ y \in Nat
    OBVIOUS
  <2> QED
    BY <2>1, <1>3
<1> QED
  BY <1>2, <1>3

\* What holds before a loop and is kept by each of its n turns holds at the
\* end: the turns after which it holds are a set.
LEMMA AfterAllTurns ==
  ASSUME NEW n \in Nat, NEW P, 0 \in P,
         \A k \in 1..n : k - 1 \in P => k \in P
  PROVE  \A k \in 0..n : k \in P
<1> SUFFICES ASSUME {k \in 0..n : k \notin P} # {} PROVE FALSE
  OBVIOUS
<1>1. PICK k \in {i \in 0..n : i \notin P} : \A y \in {i \in 0..n : i \notin P} : k <= y
  <2>1. {i \in 0..n : i \notin P} \in SUBSET Nat
    OBVIOUS
  <2> QED
    BY <2>1, LeastExists
<1>2. k # 0 /\ k \in 0..n
  OBVIOUS
<1>3. k - 1 \in 0..n /\ k \in 1..n
  BY <1>2
<1>4. k - 1 \in P
  BY <1>1, <1>3
<1> QED
  BY <1>3, <1>4

\* The globals after the levels at the places in S were popped
Pops(r, mode, g, n) ==
  g = [S \in SUBSET (1..n) |-> IF S = {} THEN r ELSE Pop(g[S \ {Max(S)}], mode)]
LEMMA PopsExist ==
  ASSUME NEW r, NEW mode
  PROVE  \A n \in Nat : \E g : Pops(r, mode, g, n)
<1> DEFINE Is(g, n) == Pops(r, mode, g, n)
           T(v) == Pop(v, mode)
           Bad == {n \in Nat : ~\E g : Is(g, n)}
<1>0. \A g, n : Is(g, n) <=> g = [S \in SUBSET (1..n) |-> IF S = {} THEN r ELSE T(g[S \ {Max(S)}])]
  BY DEF Pops
<1> HIDE DEF Is, T
<1> SUFFICES ASSUME Bad # {} PROVE FALSE
  BY DEF Is
<1>1. PICK n \in Bad : \A y \in Bad : n <= y
  BY LeastExists
<1>2. n # 0
  <2> SUFFICES \E g : Is(g, 0)
    BY <1>1
  <2> DEFINE g0 == [S \in SUBSET (1..0) |-> r]
  <2>1. \A S \in SUBSET (1..0) : S = {}
    OBVIOUS
  <2>2. Is(g0, 0)
    BY <1>0, <2>1
  <2> QED
    BY <2>2
<1>3. n - 1 \in Nat /\ n - 1 \notin Bad
  BY <1>1, <1>2
<1>4. PICK g : Is(g, n - 1)
  BY <1>3
<1> DEFINE F(S) == IF n \in S THEN T(g[S \ {n}]) ELSE g[S]
           f == [S \in SUBSET (1..n) |-> F(S)]
<1>5. ASSUME NEW S \in SUBSET (1..n)
      PROVE  f[S] = IF S = {} THEN r ELSE T(f[S \ {Max(S)}])
  <2>1. CASE n \in S
    <3>1. Max(S) = n
      BY <2>1, LargestIs
    <3>2. S \ {n} \in SUBSET (1..n) /\ n \notin S \ {n}
      OBVIOUS
    <3>3. f[S \ {n}] = g[S \ {n}]
      BY <3>2
    <3> HIDE DEF F
    <3>4. f[S] = F(S)
      OBVIOUS
    <3> QED
      BY <2>1, <3>1, <3>3, <3>4 DEF F
  <2>2. CASE n \notin S
    <3>1. S \in SUBSET (1..(n - 1))
      BY <2>2
    <3>2. f[S] = g[S]
      BY <2>2
    <3>3. g[S] = IF S = {} THEN r ELSE T(g[S \ {Max(S)}])
      BY <3>1, <1>4, <1>0
    <3>4. f[S \ {Max(S)}] = g[S \ {Max(S)}]
      BY <2>2
    <3> QED
      BY <3>2, <3>3, <3>4
  <2> QED
    BY <2>1, <2>2
<1>6. Is(f, n)
  BY <1>5, <1>0
<1> QED
  BY <1>1, <1>6

\* One level after the other
InTurn(r, mode, h, n) == h[0] = r /\ \A k \in 1..n : h[k] = Pop(h[k - 1], mode)
LEMMA PopsInTurn ==
  ASSUME NEW r, NEW mode, NEW n \in Nat, NEW g, Pops(r, mode, g, n)
  PROVE  InTurn(r, mode, [k \in 0..n |-> g[1..k]], n)
<1> DEFINE h == [k \in 0..n |-> g[1..k]]
           T(v) == Pop(v, mode)
<1>1. \A S \in SUBSET (1..n) : g[S] = IF S = {} THEN r ELSE T(g[S \ {Max(S)}])
  BY DEF Pops
<1> HIDE DEF T
<1>2. h[0] = r
  <2>1. 1..0 = {} /\ 1..0 \in SUBSET (1..n)
    OBVIOUS
  <2>2. g[1..0] = r
    BY <1>1, <2>1
  <2> QED
    BY <2>2
<1>3. ASSUME NEW k \in 1..n
      PROVE  h[k] = T(h[k - 1])
  <2>1. k - 1 \in 0..n /\ k \in 0..n /\ k \in Int /\ k \in 1..k
    OBVIOUS
  <2>2. 1..k \in SUBSET (1..n) /\ 1..k # {}
    <3>1. \A y \in 1..k : y \in 1..n
      BY <2>1
    <3> QED
      BY <2>1, <3>1
  <2>3. (1..k) \ {k} = 1..(k - 1)
    OBVIOUS
  <2>4. Max(1..k) = k
    <3>1. 1..k \in SUBSET Int /\ \A y \in 1..k : k >= y
      OBVIOUS
    <3> QED
      BY <2>1, <3>1, LargestIs
  <2>5. g[1..k] = T(g[1..(k - 1)])
    <3>1. g[1..k] = T(g[(1..k) \ {Max(1..k)}])
      BY <1>1, <2>2
    <3> QED
      BY <3>1, <2>3, <2>4
  <2>6. h[k] = g[1..k] /\ h[k - 1] = g[1..(k - 1)]
    BY <2>1
  <2> QED
    BY <2>5, <2>6
<1> HIDE DEF h
<1>4. \A k \in 1..n : h[k] = Pop(h[k - 1], mode)
  BY <1>3 DEF T
<1> QED
  BY <1>2, <1>4 DEF InTurn, h

LEMMA PopAllInTurn ==
  ASSUME NEW r \in Globals, NEW mode
  PROVE  \E h : InTurn(r, mode, h, Len(r.ui_stack)) /\ PopAll(r, mode) = h[Len(r.ui_stack)]
<1> DEFINE n == Len(r.ui_stack)
<1>1. n \in Nat /\ DOMAIN r.ui_stack = 1..n
  BY DEF Globals
<1>2. PopAll(r, mode) =
        (CHOOSE g : g = [S \in SUBSET (DOMAIN r.ui_stack) |->
            IF S = {} THEN r ELSE Pop(g[S \ {Max(S)}], mode)])[DOMAIN r.ui_stack]
  BY DEF PopAll, FoldLeft, MapThenFoldSet
<1> HIDE DEF n
<1>3. PopAll(r, mode) = (CHOOSE g : Pops(r, mode, g, n))[1..n]
  BY <1>1, <1>2 DEF Pops
<1>4. \E g : Pops(r, mode, g, n)
  BY <1>1, PopsExist
<1> DEFINE g == CHOOSE g : Pops(r, mode, g, n)
<1>5. Pops(r, mode, g, n)
  BY <1>4
<1>6. PopAll(r, mode) = g[1..n]
  BY <1>3
<1> HIDE DEF g
<1> DEFINE h == [k \in 0..n |-> g[1..k]]
<1>7. InTurn(r, mode, h, n) /\ h[n] = g[1..n]
  BY <1>1, <1>5, PopsInTurn
<1> QED
  BY <1>6, <1>7 DEF n

\* Each level has its own temporary directories.
Fit(stack, tmps) ==
  /\ \A k \in DOMAIN stack : /\ Zips(stack[k]) \subseteq Dirs(tmps)
                             /\ stack[k].lzip # NULL => stack[k].lzip # stack[k].rzip
  /\ \A k, l \in DOMAIN stack : k # l => Zips(stack[k]) \cap Zips(stack[l]) = {}
ZipsOf(stack) == UNION {Zips(stack[k]) : k \in DOMAIN stack}

\* After the uppermost k levels
After(r, mode, a, k) ==
  LET n == Len(r.ui_stack)
  IN  /\ a \in Globals /\ SameMode(a, r) /\ a.cwd = r.cwd
      /\ a.uz_path_db = r.uz_path_db /\ a.made = r.made
      /\ Len(a.ui_stack) = n - k /\ \A j \in 1..(n - k) : a.ui_stack[j] = r.ui_stack[k + j]
      /\ a.fpath = (IF k # 0 /\ mode = 0 THEN NULL ELSE r.fpath)
      /\ k # 0 => ~Local(a) /\ (mode # 1 => a.mark = NULL)
      /\ Fit(r.ui_stack, r.tmps) =>
           SameSlips(a, r)
           /\ a.tmps = {t \in r.tmps : \A j \in 1..k : <<"/", t>> \notin Zips(r.ui_stack[j])}

LEMMA PopTurn ==
  ASSUME NEW r \in Globals, NEW mode, NEW k \in 1..Len(r.ui_stack), NEW b, After(r, mode, b, k - 1)
  PROVE  After(r, mode, Pop(b, mode), k)
<1> DEFINE n == Len(r.ui_stack)
           a == Pop(b, mode)
           st == Head(b.ui_stack)
<1>0. n \in Nat /\ DOMAIN r.ui_stack = 1..n /\ k \in 1..n /\ r.ui_stack \in Seq(Level)
  BY DEF Globals
<1>1. /\ b \in Globals /\ SameMode(b, r) /\ b.cwd = r.cwd
      /\ b.uz_path_db = r.uz_path_db /\ b.made = r.made
      /\ Len(b.ui_stack) = n - (k - 1) /\ \A j \in 1..(n - (k - 1)) : b.ui_stack[j] = r.ui_stack[(k - 1) + j]
      /\ b.fpath = (IF k - 1 # 0 /\ mode = 0 THEN NULL ELSE r.fpath)
  BY DEF After
<1>2. b.ui_stack \in Seq(Level) /\ b.ui_stack # <<>> /\ st = r.ui_stack[k]
  <2>1. b.ui_stack \in Seq(Level)
    BY <1>1 DEF Globals
  <2>2. Len(b.ui_stack) >= 1 /\ 1 \in 1..(n - (k - 1)) /\ (k - 1) + 1 = k
    BY <1>0, <1>1
  <2>3. b.ui_stack # <<>>
    BY <2>1, <2>2
  <2>4. st = b.ui_stack[1]
    BY <2>1, <2>3
  <2>5. b.ui_stack[1] = r.ui_stack[(k - 1) + 1]
    BY <1>1, <2>2
  <2> QED
    BY <2>1, <2>2, <2>3, <2>4, <2>5
<1>3. /\ Popped1(a, b, mode) /\ a.ui_stack = Tail(b.ui_stack)
      /\ Zips(st) \subseteq Dirs(b.tmps) /\ (st.lzip # NULL => st.lzip # st.rzip) =>
                  SameSlips(a, b) /\ a.tmps = Without(b.tmps, Zips(st))
  BY <1>1, <1>2, PopIs
<1> HIDE DEF a, st
<1>4. Len(a.ui_stack) = n - k /\ \A j \in 1..(n - k) : a.ui_stack[j] = r.ui_stack[k + j]
  <2>1. Len(a.ui_stack) = Len(b.ui_stack) - 1
        /\ \A j \in 1..(Len(b.ui_stack) - 1) : a.ui_stack[j] = b.ui_stack[j + 1]
    BY <1>2, <1>3
  <2>2. Len(b.ui_stack) - 1 = n - k
    BY <1>0, <1>1
  <2>3. \A j \in 1..(n - k) : a.ui_stack[j] = r.ui_stack[k + j]
    <3> SUFFICES ASSUME NEW j \in 1..(n - k) PROVE a.ui_stack[j] = r.ui_stack[k + j]
      OBVIOUS
    <3>1. j + 1 \in 1..(n - (k - 1)) /\ (k - 1) + (j + 1) = k + j /\ j \in 1..(Len(b.ui_stack) - 1)
      BY <1>0, <2>2
    <3>2. a.ui_stack[j] = b.ui_stack[j + 1]
      BY <2>1, <3>1
    <3>3. b.ui_stack[j + 1] = r.ui_stack[(k - 1) + (j + 1)]
      BY <1>1, <3>1
    <3> QED
      BY <3>1, <3>2, <3>3
  <2> QED
    BY <2>1, <2>2, <2>3
<1>5. /\ a \in Globals /\ SameMode(a, r) /\ a.cwd = r.cwd /\ ~Local(a) /\ (mode # 1 => a.mark = NULL)
      /\ a.uz_path_db = r.uz_path_db /\ a.made = r.made
  BY <1>1, <1>3 DEF Popped1, SameMode
<1>6. a.fpath = (IF mode = 0 THEN NULL ELSE r.fpath)
  BY <1>1, <1>3 DEF Popped1
<1>7. ASSUME Fit(r.ui_stack, r.tmps)
      PROVE  SameSlips(a, r)
             /\ a.tmps = {t \in r.tmps : \A j \in 1..k : <<"/", t>> \notin Zips(r.ui_stack[j])}
  <2>1. SameSlips(b, r) /\ b.tmps = {t \in r.tmps : \A j \in 1..(k-1) : <<"/", t>> \notin Zips(r.ui_stack[j])}
    BY <1>7 DEF After
  <2>2. Zips(st) \subseteq Dirs(r.tmps) /\ (st.lzip # NULL => st.lzip # st.rzip)
    BY <1>0, <1>2, <1>7 DEF Fit
  <2>3. Zips(st) \subseteq Dirs(b.tmps)
    <3> SUFFICES ASSUME NEW z \in Zips(st) PROVE z \in Dirs(b.tmps)
      OBVIOUS
    <3>1. PICK t \in r.tmps : z = <<"/", t>>
      BY <2>2 DEF Dirs
    <3>2. \A j \in 1..(k-1) : <<"/", t>> \notin Zips(r.ui_stack[j])
      <4> SUFFICES ASSUME NEW j \in 1..(k-1) PROVE <<"/", t>> \notin Zips(r.ui_stack[j])
        OBVIOUS
      <4>1. j \in DOMAIN r.ui_stack /\ k \in DOMAIN r.ui_stack /\ j # k
        BY <1>0
      <4>2. Zips(r.ui_stack[j]) \cap Zips(r.ui_stack[k]) = {}
        BY <1>7, <4>1 DEF Fit
      <4> QED
        BY <1>2, <3>1, <4>2
    <3>3. t \in b.tmps
      BY <2>1, <3>2
    <3> QED
      BY <3>1, <3>3 DEF Dirs
  <2>4. SameSlips(a, b) /\ a.tmps = Without(b.tmps, Zips(st))
    BY <1>3, <2>2, <2>3
  <2>5. Without(b.tmps, Zips(st)) = {t \in r.tmps : \A j \in 1..k : <<"/", t>> \notin Zips(r.ui_stack[j])}
    <3>1. \A j : j \in 1..k <=> j \in 1..(k-1) \/ j = k
      BY <1>0
    <3> QED
      BY <1>2, <2>1, <3>1 DEF Without
  <2> QED
    BY <2>1, <2>4, <2>5 DEF SameSlips
<1> QED
  BY <1>4, <1>5, <1>6, <1>7 DEF After, a

\* Back from all levels
Emptied(a, r, mode) ==
  /\ a \in Globals /\ SameMode(a, r) /\ a.cwd = r.cwd /\ a.ui_stack = <<>>
  /\ a.uz_path_db = r.uz_path_db /\ a.made = r.made
  /\ r.ui_stack # <<>> => /\ ~Local(a) /\ (mode # 1 => a.mark = NULL)
                          /\ a.fpath = (IF mode = 0 THEN NULL ELSE r.fpath)
  /\ Fit(r.ui_stack, r.tmps) => SameSlips(a, r) /\ a.tmps = Without(r.tmps, ZipsOf(r.ui_stack))
  /\ r.ui_stack = <<>> => a = r
LEMMA PopAllIs ==
  ASSUME NEW r \in Globals, NEW mode
  PROVE  Emptied(PopAll(r, mode), r, mode)
<1> DEFINE n == Len(r.ui_stack)
           a == PopAll(r, mode)
<1>0. n \in Nat /\ DOMAIN r.ui_stack = 1..n /\ r.ui_stack \in Seq(Level)
  BY DEF Globals
<1>1. PICK h : InTurn(r, mode, h, n) /\ a = h[n]
  BY PopAllInTurn
<1>2. \A k \in 0..n : After(r, mode, h[k], k)
  <2> DEFINE P == {k \in 0..n : After(r, mode, h[k], k)}
  <2>1. 0 \in P
    <3>1. \A j \in 1..n : 0 + j = j
      BY <1>0
    <3>2. \A j \in 1..(n - 0) : r.ui_stack[j] = r.ui_stack[0 + j]
      BY <1>0, <3>1
    <3>3. r.tmps = {t \in r.tmps : \A j \in 1..0 : <<"/", t>> \notin Zips(r.ui_stack[j])}
      OBVIOUS
    <3>4. After(r, mode, r, 0)
      BY <1>0, <3>2, <3>3 DEF After, SameMode, SameSlips
    <3> QED
      BY <1>0, <1>1, <3>4 DEF InTurn
  <2>2. ASSUME NEW k \in 1..n, k - 1 \in P PROVE k \in P
    <3>1. After(r, mode, h[k-1], k - 1) /\ h[k] = Pop(h[k-1], mode)
      BY <1>1, <2>2 DEF InTurn
    <3>2. After(r, mode, h[k], k)
      BY <3>1, PopTurn
    <3> QED
      BY <1>0, <3>2
  <2> HIDE DEF P
  <2>3. \A k \in 0..n : k \in P
    BY <1>0, <2>1, <2>2, AfterAllTurns
  <2> QED
    BY <2>3 DEF P
<1>3. After(r, mode, a, n)
  BY <1>0, <1>1, <1>2
<1> HIDE DEF a
<1>4. a \in Globals /\ a.ui_stack = <<>>
  <2>1. a \in Globals /\ Len(a.ui_stack) = n - n
    BY <1>3 DEF After
  <2>2. a.ui_stack \in Seq(Level) /\ Len(a.ui_stack) = 0
    BY <1>0, <2>1 DEF Globals
  <2> QED
    BY <2>1, <2>2
<1>5. Fit(r.ui_stack, r.tmps) => SameSlips(a, r) /\ a.tmps = Without(r.tmps, ZipsOf(r.ui_stack))
  <2> SUFFICES ASSUME Fit(r.ui_stack, r.tmps)
               PROVE  SameSlips(a, r) /\ a.tmps = Without(r.tmps, ZipsOf(r.ui_stack))
    OBVIOUS
  <2>1. SameSlips(a, r) /\ a.tmps = {t \in r.tmps : \A j \in 1..n : <<"/", t>> \notin Zips(r.ui_stack[j])}
    BY <1>3 DEF After
  <2>2. {t \in r.tmps : \A j \in 1..n : <<"/", t>> \notin Zips(r.ui_stack[j])}
          = Without(r.tmps, ZipsOf(r.ui_stack))
    BY <1>0 DEF Without, ZipsOf
  <2> QED
    BY <2>1, <2>2
<1>6. r.ui_stack # <<>> => n # 0
  BY <1>0
<1>7. r.ui_stack = <<>> => a = r
  BY <1>0, <1>1 DEF InTurn, a
<1>8. /\ SameMode(a, r) /\ a.cwd = r.cwd /\ a.uz_path_db = r.uz_path_db /\ a.made = r.made
      /\ r.ui_stack # <<>> => /\ ~Local(a) /\ (mode # 1 => a.mark = NULL)
                              /\ a.fpath = (IF mode = 0 THEN NULL ELSE r.fpath)
  BY <1>3, <1>6 DEF After
<1> QED
  BY <1>4, <1>5, <1>7, <1>8 DEF Emptied, a

-----------------------------------------------------------------------------
(* Who removes what: the levels, the archives entered in browse mode and   *)
(* file manager mode, and what was unpacked just now.                      *)
KeysOf(r) == {e.key : e \in r.uz_path_db}
Owned(r, new) ==
  /\ r.slips = {} /\ Fit(r.ui_stack, r.tmps)
  /\ KeysOf(r) \cup ZipsOf(r.ui_stack) \cup new = Dirs(r.tmps)
  /\ KeysOf(r) \cap ZipsOf(r.ui_stack) = {}
  /\ new \cap (KeysOf(r) \cup ZipsOf(r.ui_stack)) = {}
  /\ \A d, e \in r.uz_path_db : d.key = e.key => d = e
  /\ IsFiniteSet(r.uz_path_db)
  /\ r.tmps \subseteq {TempName[i] : i \in 1..r.made}
Keeps(a, r) == /\ a \in Globals /\ a.made = r.made
               /\ \A new \in SUBSET Path : Owned(r, new) => Owned(a, new)

LEMMA SameKeeps ==
  ASSUME NEW r \in Globals, NEW a \in Globals, SameOwners(a, r), SameSlips(a, r)
  PROVE  Keeps(a, r)
BY DEF Keeps, Owned, KeysOf, SameOwners, SameStack, SameTemps, SameSlips

LEMMA KeepsOn ==
  ASSUME NEW r, NEW a, NEW b, Keeps(b, a), Keeps(a, r)
  PROVE  Keeps(b, r)
BY DEF Keeps

\* A level less, or all of them
LEMMA LessKeeps ==
  ASSUME NEW r \in Globals, NEW a \in Globals, a.uz_path_db = r.uz_path_db, a.made = r.made,
         NEW zips,
         Fit(r.ui_stack, r.tmps) =>
           /\ SameSlips(a, r) /\ a.tmps = Without(r.tmps, zips)
           /\ zips \cup ZipsOf(a.ui_stack) = ZipsOf(r.ui_stack) /\ zips \cap ZipsOf(a.ui_stack) = {}
           /\ Fit(a.ui_stack, a.tmps)
  PROVE  Keeps(a, r)
<1> SUFFICES ASSUME NEW new \in SUBSET Path, Owned(r, new) PROVE Owned(a, new)
  BY DEF Keeps
<1>1. /\ SameSlips(a, r) /\ a.tmps = Without(r.tmps, zips)
      /\ zips \cup ZipsOf(a.ui_stack) = ZipsOf(r.ui_stack) /\ zips \cap ZipsOf(a.ui_stack) = {}
      /\ Fit(a.ui_stack, a.tmps)
  BY DEF Owned
<1>2. KeysOf(a) = KeysOf(r)
  BY DEF KeysOf
<1>3. Dirs(a.tmps) = Dirs(r.tmps) \ zips
  <2>1. \A x : x \in Dirs(a.tmps) <=> \E t \in r.tmps : <<"/", t>> \notin zips /\ x = <<"/", t>>
    BY <1>1 DEF Dirs, Without
  <2>2. \A x : x \in Dirs(r.tmps) <=> \E t \in r.tmps : x = <<"/", t>>
    BY DEF Dirs
  <2> QED
    BY <2>1, <2>2
<1>4. /\ KeysOf(r) \cup ZipsOf(r.ui_stack) \cup new = Dirs(r.tmps)
      /\ KeysOf(r) \cap ZipsOf(r.ui_stack) = {}
      /\ new \cap (KeysOf(r) \cup ZipsOf(r.ui_stack)) = {}
  BY DEF Owned
<1> DEFINE K == KeysOf(r)
           Z == ZipsOf(a.ui_stack)
           O == ZipsOf(r.ui_stack)
           D == Dirs(r.tmps)
<1>5. K \cup Z \cup new = D \ zips /\ K \cap Z = {} /\ new \cap (K \cup Z) = {}
  <2>1. zips \cup Z = O /\ zips \cap Z = {} /\ K \cup O \cup new = D /\ K \cap O = {} /\ new \cap (K \cup O) = {}
    BY <1>1, <1>4
  <2> HIDE DEF K, Z, O, D
  <2> QED
    BY <2>1
<1>6. a.tmps \subseteq {TempName[i] : i \in 1..a.made}
  BY <1>1 DEF Owned, Without
<1>7. a.slips = {} /\ IsFiniteSet(a.uz_path_db) /\ \A d, e \in a.uz_path_db : d.key = e.key => d = e
  BY <1>1 DEF Owned, SameSlips
<1> QED
  BY <1>1, <1>2, <1>3, <1>5, <1>6, <1>7 DEF Owned

LEMMA NoLevels ==
  /\ ZipsOf(<<>>) = {} /\ \A tmps : Fit(<<>>, tmps)
BY DEF ZipsOf, Fit

LEMMA PopKeeps ==
  ASSUME NEW r \in Globals, r.ui_stack # <<>>, NEW mode
  PROVE  Keeps(Pop(r, mode), r)
<1> DEFINE a == Pop(r, mode)
           n == Len(r.ui_stack)
           st == Head(r.ui_stack)
           zips == Zips(st)
<1>0. n \in Nat /\ DOMAIN r.ui_stack = 1..n /\ r.ui_stack \in Seq(Level) /\ 1 \in 1..n /\ st = r.ui_stack[1]
  BY DEF Globals
<1>1. /\ Popped1(a, r, mode) /\ a.ui_stack = Tail(r.ui_stack)
      /\ Zips(st) \subseteq Dirs(r.tmps) /\ (st.lzip # NULL => st.lzip # st.rzip) =>
           SameSlips(a, r) /\ a.tmps = Without(r.tmps, Zips(st))
  BY PopIs
<1> HIDE DEF a, st
<1>2. DOMAIN a.ui_stack = 1..(n - 1) /\ \A j \in 1..(n - 1) : j + 1 \in 1..n /\ j + 1 # 1 /\ a.ui_stack[j] = r.ui_stack[j + 1]
  BY <1>0, <1>1
<1>3. ASSUME Fit(r.ui_stack, r.tmps)
      PROVE  /\ SameSlips(a, r) /\ a.tmps = Without(r.tmps, zips)
             /\ zips \cup ZipsOf(a.ui_stack) = ZipsOf(r.ui_stack) /\ zips \cap ZipsOf(a.ui_stack) = {}
             /\ Fit(a.ui_stack, a.tmps)
  <2>1. SameSlips(a, r) /\ a.tmps = Without(r.tmps, zips)
    <3>1. Zips(st) \subseteq Dirs(r.tmps) /\ (st.lzip # NULL => st.lzip # st.rzip)
      BY <1>0, <1>3 DEF Fit
    <3> QED
      BY <1>1, <3>1
  <2>2. \A j \in 1..(n - 1) : Zips(r.ui_stack[j + 1]) \cap zips = {}
    BY <1>0, <1>2, <1>3 DEF Fit
  <2>3. zips \cup ZipsOf(a.ui_stack) = ZipsOf(r.ui_stack)
    <3>1. \A x : x \in ZipsOf(a.ui_stack) <=> \E j \in 1..(n - 1) : x \in Zips(r.ui_stack[j + 1])
      BY <1>2 DEF ZipsOf
    <3>2. \A x : x \in ZipsOf(r.ui_stack) <=> \E k \in 1..n : x \in Zips(r.ui_stack[k])
      BY <1>0 DEF ZipsOf
    <3>3. \A k \in 1..n : k = 1 \/ (k - 1 \in 1..(n - 1) /\ (k - 1) + 1 = k)
      BY <1>0
    <3>4. zips = Zips(r.ui_stack[1])
      BY <1>0
    <3>5. ASSUME NEW x \in ZipsOf(r.ui_stack) PROVE x \in zips \cup ZipsOf(a.ui_stack)
      <4>1. PICK k \in 1..n : x \in Zips(r.ui_stack[k])
        BY <3>2, <3>5
      <4>2. CASE k = 1
        BY <3>4, <4>1, <4>2
      <4>3. CASE k # 1
        BY <3>1, <3>3, <4>1, <4>3
      <4> QED
        BY <4>2, <4>3
    <3>6. ASSUME NEW x \in zips \cup ZipsOf(a.ui_stack) PROVE x \in ZipsOf(r.ui_stack)
      <4>1. CASE x \in zips
        BY <1>0, <3>2, <3>4, <4>1
      <4>2. CASE x \in ZipsOf(a.ui_stack)
        <5>1. PICK j \in 1..(n - 1) : x \in Zips(r.ui_stack[j + 1])
          BY <3>1, <4>2
        <5>2. j + 1 \in 1..n
          BY <1>2
        <5> QED
          BY <3>2, <5>1, <5>2
      <4> QED
        BY <3>6, <4>1, <4>2
    <3> QED
      BY <3>5, <3>6
  <2>4. zips \cap ZipsOf(a.ui_stack) = {}
    BY <1>2, <2>2 DEF ZipsOf
  <2>5. Fit(a.ui_stack, a.tmps)
    <3>1. ASSUME NEW j \in 1..(n - 1)
          PROVE  /\ Zips(a.ui_stack[j]) \subseteq Dirs(a.tmps)
                 /\ a.ui_stack[j].lzip # NULL => a.ui_stack[j].lzip # a.ui_stack[j].rzip
      <4>1. /\ Zips(r.ui_stack[j + 1]) \subseteq Dirs(r.tmps)
            /\ r.ui_stack[j + 1].lzip # NULL => r.ui_stack[j + 1].lzip # r.ui_stack[j + 1].rzip
        BY <1>0, <1>2, <1>3 DEF Fit
      <4>2. Zips(r.ui_stack[j + 1]) \subseteq Dirs(a.tmps)
        <5> SUFFICES ASSUME NEW z \in Zips(r.ui_stack[j + 1]) PROVE z \in Dirs(a.tmps)
          OBVIOUS
        <5>1. PICK t \in r.tmps : z = <<"/", t>>
          BY <4>1 DEF Dirs
        <5>2. <<"/", t>> \notin zips
          BY <2>2, <5>1
        <5>3. t \in a.tmps
          BY <2>1, <5>2 DEF Without
        <5> QED
          BY <5>1, <5>3 DEF Dirs
      <4> QED
        BY <1>2, <4>1, <4>2
    <3>2. ASSUME NEW j \in 1..(n - 1), NEW l \in 1..(n - 1), j # l
          PROVE  Zips(a.ui_stack[j]) \cap Zips(a.ui_stack[l]) = {}
      <4>1. j + 1 # l + 1 /\ j + 1 \in 1..n /\ l + 1 \in 1..n
        BY <1>2, <3>2
      <4>2. Zips(r.ui_stack[j + 1]) \cap Zips(r.ui_stack[l + 1]) = {}
        BY <1>0, <1>3, <4>1 DEF Fit
      <4> QED
        BY <1>2, <4>2
    <3> QED
      BY <1>2, <3>1, <3>2 DEF Fit
  <2> QED
    BY <2>1, <2>3, <2>4, <2>5
<1> HIDE DEF zips
<1>4. a \in Globals /\ a.uz_path_db = r.uz_path_db /\ a.made = r.made
  BY <1>1 DEF Popped1
<1>5. Keeps(a, r)
  BY <1>3, <1>4, LessKeeps
<1> QED
  BY <1>5 DEF a

LEMMA PopAllKeeps ==
  ASSUME NEW r \in Globals, NEW mode
  PROVE  Keeps(PopAll(r, mode), r)
<1> DEFINE a == PopAll(r, mode)
           zips == ZipsOf(r.ui_stack)
<1>1. Emptied(a, r, mode)
  BY PopAllIs
<1> HIDE DEF a
<1>2. Fit(r.ui_stack, r.tmps) =>
           /\ SameSlips(a, r) /\ a.tmps = Without(r.tmps, zips)
           /\ zips \cup ZipsOf(a.ui_stack) = ZipsOf(r.ui_stack) /\ zips \cap ZipsOf(a.ui_stack) = {}
           /\ Fit(a.ui_stack, a.tmps)
  BY <1>1, NoLevels DEF Emptied
<1>3. a \in Globals /\ a.uz_path_db = r.uz_path_db /\ a.made = r.made
  BY <1>1 DEF Emptied
<1> HIDE DEF zips
<1>4. Keeps(a, r)
  BY <1>2, <1>3, LessKeeps
<1> QED
  BY <1>4 DEF a

-----------------------------------------------------------------------------
(* Changes of the mode.                                                    *)
Columns(r) ==
  /\ r.mode = "b" => r.twocols = FALSE /\ r.right_col = 0
  /\ r.mode = "f" => r.twocols = TRUE
  /\ r.mode = "d" => r.right_col = 0

ToD(a, r) ==
  /\ a \in Globals /\ SamePaths(a, r) /\ SameOwners(a, r) /\ SameSlips(a, r) /\ SameMark(a, r)
  /\ r.mode # "f" => a = r
  /\ r.mode = "f" => a.mode = "d" /\ a.right_col = 0 /\ a.twocols = r.twocols
LEMMA FmodeDmode ==
  ASSUME NEW r \in Globals, ~Local(r)
  PROVE  ToD(fmode_dmode(r), r)
<1>1. CASE r.mode # "f"
  BY <1>1 DEF fmode_dmode, ToD, SamePaths, SameOwners, SameStack, SameTemps, SameSlips, SameMark
<1>2. CASE r.mode = "f"
  <2> DEFINE a == [r EXCEPT !.mode = "d", !.old_col = r.right_col, !.right_col = 0, !.from_fmode = TRUE]
  <2>0. /\ a \in Globals /\ SamePaths(a, r) /\ SameOwners(a, r) /\ SameSlips(a, r) /\ SameMark(a, r)
        /\ a.mode = "d" /\ a.right_col = 0 /\ a.twocols = r.twocols
    <3> DEFINE yes == TRUE
               col == r.right_col
               left == 0
               b == [r EXCEPT !.mode = "d", !.old_col = col, !.right_col = left, !.from_fmode = yes]
    <3>0. yes \in BOOLEAN /\ col \in 0..1 /\ left \in 0..1
      BY DEF Globals
    <3>1. a = b
      OBVIOUS
    <3>4. left = 0
      OBVIOUS
    <3> HIDE DEF yes, col, left
    <3>2. /\ b \in Globals
      BY <3>0 DEF Globals
    <3>3. /\ SamePaths(b, r) /\ SameOwners(b, r) /\ SameSlips(b, r) /\ SameMark(b, r)
          /\ b.mode = "d" /\ b.right_col = 0 /\ b.twocols = r.twocols
      BY <3>4 DEF Globals, SamePaths, SameOwners, SameStack, SameTemps, SameSlips, SameMark
    <3> QED
      BY <3>1, <3>2, <3>3
  <2> HIDE DEF a
  <2>1. ToD(a, r) /\ ~Local(a)
    BY <1>2, <2>0 DEF ToD, Local, SameMark
  <2>2. fmode_dmode(r) = diff_db_free(diff_db_free(a, 0), 1)
    BY <1>2 DEF fmode_dmode, a
  <2>3. diff_db_free(a, 0) = a /\ diff_db_free(a, 1) = a
    BY <2>1, FreeList DEF ToD
  <2> QED
    BY <2>1, <2>2, <2>3
<1> QED
  BY <1>1, <1>2

ToF(a, r) ==
  /\ a \in Globals /\ SameOwners(a, r) /\ SameSlips(a, r) /\ ~Local(a)
  /\ a.from_fmode = r.from_fmode /\ (Columns(r) => Columns(a))
  /\ a.mode = IF r.mode = "b" \/ r.twocols THEN "f" ELSE "b"
LEMMA ToFmodeIs ==
  ASSUME NEW r \in Globals
  PROVE  ToF(ToFmode(r), r)
<1> DEFINE b == IF r.mode = "b" \/ r.twocols
                THEN [r EXCEPT !.mode = "f", !.twocols = TRUE, !.right_col = r.old_col]
                ELSE [r EXCEPT !.mode = "b"]
           c == mk_abs_pth(b)
           a == rebuild_db(c)
<1>1. /\ b \in Globals /\ SameOwners(b, r) /\ SameSlips(b, r) /\ b.from_fmode = r.from_fmode
      /\ (Columns(r) => Columns(b)) /\ b.mode = IF r.mode = "b" \/ r.twocols THEN "f" ELSE "b"
  <2>1. CASE r.mode = "b" \/ r.twocols
    BY <2>1 DEF Globals, SameOwners, SameStack, SameTemps, SameSlips, Columns
  <2>2. CASE ~(r.mode = "b" \/ r.twocols)
    BY <2>2 DEF Globals, SameOwners, SameStack, SameTemps, SameSlips, Columns
  <2> QED
    BY <2>1, <2>2
<1>2. ToFmode(r) = a
  BY DEF ToFmode
<1> HIDE DEF b
<1>3. /\ c \in Globals /\ SameMode(c, b) /\ SameStack(c, b) /\ SameTemps(c, b) /\ SameSlips(c, b)
  BY <1>1, MkAbs
<1> HIDE DEF c
<1>4. BuildOnly(a, c) /\ ~Local(a)
  BY <1>3, RebuildDb
<1> HIDE DEF a
<1>5. ToF(a, r)
  BY <1>1, <1>3, <1>4 DEF ToF, BuildOnly, SameMode, SameOwners, SameStack, SameTemps, SameSlips, Columns
<1> QED
  BY <1>2, <1>5

LEMMA RestoreFmode ==
  ASSUME NEW r \in Globals
  PROVE  ToF(restore_fmode(r), r)
<1>1. CASE r.fpath = NULL
  BY <1>1, ToFmodeIs DEF restore_fmode
<1>2. CASE r.fpath # NULL
  <2> DEFINE b == [r EXCEPT !.syspth[Other(r.old_col)] = r.fpath, !.fpath = NULL]
             a == ToFmode(b)
             q == [r.syspth EXCEPT ![Other(r.old_col)] = r.fpath]
             b1 == [r EXCEPT !.syspth = q, !.fpath = NULL]
  <2>1. q \in [0..1 -> Path]
    BY <1>2 DEF Globals, Maybe
  <2>2. b = b1
    BY DEF Globals
  <2> HIDE DEF q
  <2>3. /\ b1 \in Globals /\ SameMode(b1, r) /\ SameOwners(b1, r) /\ SameSlips(b1, r)
    BY <2>1 DEF Globals, Maybe, SameMode, SameOwners, SameStack, SameTemps, SameSlips
  <2> HIDE DEF b1
  <2>4. restore_fmode(r) = a
    BY <1>2 DEF restore_fmode
  <2> HIDE DEF b
  <2>5. ToF(a, b)
    BY <2>2, <2>3, ToFmodeIs
  <2> HIDE DEF a
  <2>6. ToF(a, r)
    BY <2>2, <2>3, <2>5 DEF ToF, SameMode, SameOwners, SameStack, SameTemps, SameSlips, Columns
  <2> QED
    BY <2>4, <2>6
<1> QED
  BY <1>1, <1>2

FromB(a, r) ==
  /\ a \in Globals /\ SameOwners(a, r) /\ SameSlips(a, r) /\ a.mark = NULL
  /\ a.mode = "d" /\ a.twocols = r.twocols /\ a.from_fmode = r.from_fmode
  /\ a.right_col = r.right_col /\ a.cwd = r.cwd
LEMMA BmodeDmodeIs ==
  ASSUME NEW r \in Globals
  PROVE  FromB(BmodeDmode(r), r)
<1> DEFINE c == clr_mark(r)
           q == [i \in 0..1 |-> r.syspth[1]]
           b == [c EXCEPT !.one_scan = FALSE, !.mode = "d", !.syspth = q]
           d == rebuild_db(b)
           a == [d EXCEPT !.one_scan = r.one_scan]
<1>1. c \in Globals /\ c.mark = NULL /\ Same(c, r) /\ SameSlips(c, r)
  BY ClrMark
<1>2. q \in [0..1 -> Path] /\ r.one_scan \in BOOLEAN
  BY DEF Globals
<1>3. BmodeDmode(r) = a
  BY DEF BmodeDmode
<1> HIDE DEF c, q
<1>4. FromB(b, r) /\ ~Local(b)
  BY <1>1, <1>2 DEF FromB, Local, Globals, Same, SameMode, SamePaths, SameOwners, SameStack, SameTemps, SameSlips
<1> HIDE DEF b
<1>5. BuildOnly(d, b) /\ d.mark = b.mark
  BY <1>4, RebuildDb DEF FromB
<1> HIDE DEF d
<1>6. /\ a \in Globals /\ SameMode(a, d) /\ SameOwners(a, d) /\ SameSlips(a, d) /\ SameMark(a, d) /\ a.cwd = d.cwd
  BY <1>2, <1>5 DEF BuildOnly, Globals, SameMode, SameOwners, SameStack, SameTemps, SameSlips, SameMark
<1> HIDE DEF a
<1>7. FromB(a, r)
  BY <1>4, <1>5, <1>6 DEF FromB, BuildOnly, SameMode, SameOwners, SameStack, SameTemps, SameSlips, SameMark
<1> QED
  BY <1>3, <1>7

ToB(a, r) ==
  /\ a \in Globals /\ SameOwners(a, r) /\ SameSlips(a, r) /\ a.mark = NULL
  /\ a.mode = "b" /\ (Columns(r) => Columns(a)) /\ a.syspth[0] = Dot
LEMMA ToBmodeIs ==
  ASSUME NEW r \in Globals, r.mark = NULL
  PROVE  ToB(ToBmode(r), r)
<1> DEFINE c == chdir(r, r.syspth[1])
           b == [c EXCEPT !.syspth[0] = Dot]
           d == fmode_dmode(b)
           e == [d EXCEPT !.mode = "b", !.twocols = FALSE]
           a == rebuild_db(e)
<1>1. CwdOnly(c, r)
  <2>1. r.syspth[1] \in Path
    BY DEF Globals
  <2> QED
    BY <2>1, Chdir
<1>2. ToBmode(r) = a
  BY DEF ToBmode
<1> HIDE DEF c
<1>3. /\ b \in Globals /\ b.mark = NULL /\ ~Local(b) /\ SameMode(b, r) /\ SameOwners(b, r) /\ SameSlips(b, r)
      /\ b.syspth[0] = Dot
  <2> DEFINE q == [c.syspth EXCEPT ![0] = Dot]
             b1 == [c EXCEPT !.syspth = q]
  <2>1. c \in Globals
    BY <1>1 DEF CwdOnly
  <2>2. q \in [0..1 -> Path] /\ q[0] = Dot
    BY <2>1, PathsAre DEF Globals
  <2>3. b = b1
    BY <2>1 DEF Globals
  <2> HIDE DEF q
  <2>4. /\ b1 \in Globals /\ SameMode(b1, c) /\ SameOwners(b1, c) /\ SameSlips(b1, c) /\ SameMark(b1, c)
        /\ b1.syspth = q
    BY <2>1, <2>2 DEF Globals, SameMode, SameOwners, SameStack, SameTemps, SameSlips, SameMark
  <2> HIDE DEF b, b1
  <2> QED
    BY <1>1, <2>2, <2>3, <2>4 DEF CwdOnly, SameMode, SameOwners, SameStack, SameTemps, SameSlips, SameMark, Local
<1> HIDE DEF b
<1>4. ToD(d, b)
  BY <1>3, FmodeDmode
<1> HIDE DEF d
<1>5. /\ e \in Globals /\ e.mark = NULL /\ ~Local(e) /\ SameOwners(e, r) /\ SameSlips(e, r)
      /\ e.syspth[0] = Dot /\ e.mode = "b" /\ (Columns(r) => Columns(e))
  <2>1. /\ e \in Globals /\ SameOwners(e, d) /\ SameSlips(e, d) /\ SameMark(e, d) /\ e.syspth = d.syspth
        /\ e.mode = "b" /\ e.twocols = FALSE /\ e.right_col = d.right_col
    BY <1>4 DEF ToD, Globals, SameOwners, SameStack, SameTemps, SameSlips, SameMark
  <2> HIDE DEF e
  <2>2. Columns(r) => d.right_col = 0
    BY <1>3, <1>4 DEF Columns, ToD, SameMode, Globals
  <2>3. Columns(r) => Columns(e)
    BY <2>1, <2>2 DEF Columns
  <2> QED
    BY <1>3, <1>4, <2>1, <2>3 DEF ToD, SamePaths, SameOwners, SameStack, SameTemps, SameSlips, SameMark, Local
<1> HIDE DEF e
<1>6. BuildOnly(a, e) /\ a.mark = e.mark /\ a.syspth[0] = e.syspth[0]
  BY <1>5, RebuildDb
<1> HIDE DEF a
<1>7. ToB(a, r)
  BY <1>5, <1>6 DEF ToB, BuildOnly, SameMode, SameOwners, SameStack, SameTemps, SameSlips, Columns
<1> QED
  BY <1>2, <1>7

LEMMA DmodeBmodeIs ==
  ASSUME NEW r \in Globals
  PROVE  ToB(DmodeBmode(r), r)
<1> DEFINE c == clr_mark(r)
           a == ToBmode(c)
<1>1. c \in Globals /\ c.mark = NULL /\ Same(c, r) /\ SameSlips(c, r)
  BY ClrMark
<1>2. DmodeBmode(r) = a
  BY DEF DmodeBmode
<1> HIDE DEF c
<1>3. ToB(a, c)
  BY <1>1, ToBmodeIs
<1> HIDE DEF a
<1>4. ToB(a, r)
  BY <1>1, <1>3 DEF ToB, Same, SameMode, SameOwners, SameStack, SameTemps, SameSlips, Columns
<1> QED
  BY <1>2, <1>4

LEMMA FmodeBmodeIs ==
  ASSUME NEW r \in Globals
  PROVE  ToB(FmodeBmode(r), r)
<1> DEFINE c == clr_mark(r)
           q == IF r.right_col = 1 THEN c.syspth ELSE [c.syspth EXCEPT ![1] = r.syspth[0]]
           o == IF r.right_col = 1 THEN r.syspth[0] ELSE r.syspth[1]
           b == [c EXCEPT !.fpath = o, !.syspth = q]
           a == ToBmode(b)
<1>1. c \in Globals /\ c.mark = NULL /\ Same(c, r) /\ SameSlips(c, r)
  BY ClrMark
<1>2. q \in [0..1 -> Path] /\ o \in Maybe
  BY <1>1 DEF Globals, Maybe
<1>3. FmodeBmode(r) = a
  <2>1. CASE r.right_col = 1
    <3>1. b = [c EXCEPT !.fpath = r.syspth[0]]
      BY <1>1, <2>1 DEF Globals
    <3> QED
      BY <2>1, <3>1 DEF FmodeBmode
  <2>2. CASE r.right_col # 1
    <3>1. b = [c EXCEPT !.fpath = r.syspth[1], !.syspth[1] = r.syspth[0]]
      BY <1>1, <2>2 DEF Globals
    <3> QED
      BY <2>2, <3>1 DEF FmodeBmode
  <2> QED
    BY <2>1, <2>2
<1> HIDE DEF c, q, o
<1>4. b \in Globals /\ b.mark = NULL /\ SameMode(b, r) /\ SameOwners(b, r) /\ SameSlips(b, r)
  BY <1>1, <1>2 DEF Globals, Same, SameMode, SameOwners, SameStack, SameTemps, SameSlips
<1> HIDE DEF b
<1>5. ToB(a, b)
  BY <1>4, ToBmodeIs
<1> HIDE DEF a
<1>6. ToB(a, r)
  BY <1>4, <1>5 DEF ToB, SameMode, SameOwners, SameStack, SameTemps, SameSlips, Columns
<1> QED
  BY <1>3, <1>6

DF(a, r) ==
  /\ Keeps(a, r) /\ (Columns(r) => Columns(a))
  /\ r.mode = "d" => a.ui_stack = <<>>
  /\ r.mode # "d" => a.ui_stack = r.ui_stack
  /\ r.mode # "f" => ~Local(a)
  /\ r.mode = "f" => a = r
  /\ (r.mode = "b" \/ r.twocols = TRUE) /\ Columns(r) => a.mode = "f"
LEMMA ToFDF ==
  ASSUME NEW r \in Globals, NEW a, ToF(a, r), r.mode # "f", r.mode = "d" => r.ui_stack = <<>>
  PROVE  DF(a, r)
<1>1. Keeps(a, r)
  BY SameKeeps DEF ToF
<1> QED
  BY <1>1 DEF ToF, DF, SameOwners, SameStack

LEMMA DmodeFmode ==
  ASSUME NEW r \in Globals
  PROVE  DF(dmode_fmode(r), r)
<1>0. r.mode \in {"b", "f", "d"}
  BY DEF Globals
<1>1. CASE r.mode = "f"
  <2>1. dmode_fmode(r) = r
    BY <1>1 DEF dmode_fmode
  <2>2. DF(r, r)
    BY <1>1 DEF DF, Keeps
  <2> QED
    BY <2>1, <2>2
<1>2. CASE r.mode # "f" /\ (r.mode = "b" \/ r.ui_stack = <<>>)
  <2>1. dmode_fmode(r) = ToFmode(r)
    BY <1>2 DEF dmode_fmode
  <2> QED
    BY <1>2, <2>1, ToFmodeIs, ToFDF
<1>3. CASE r.mode = "d" /\ r.ui_stack # <<>>
  <2> DEFINE p == PopAll(r, 2)
             q == IF ~Last(r.ui_stack).fl THEN p
                  ELSE IF r.from_fmode THEN restore_fmode(p) ELSE DmodeBmode(p)
             a == ToFmode(q)
  <2>1. dmode_fmode(r) = a
    BY <1>3 DEF dmode_fmode
  <2>2. Keeps(p, r) /\ Emptied(p, r, 2)
    BY PopAllKeeps, PopAllIs
  <2> HIDE DEF p
  <2>3. /\ q \in Globals /\ SameOwners(q, p) /\ SameSlips(q, p) /\ (Columns(p) => Columns(q))
        /\ Columns(p) /\ r.twocols = TRUE => q.mode = "b" \/ q.twocols
    <3>0. p \in Globals /\ p.twocols = r.twocols
      BY <2>2 DEF Emptied, SameMode
    <3>1. CASE ~Last(r.ui_stack).fl
      <4>1. q = p
        BY <3>1
      <4> HIDE DEF q
      <4> QED
        BY <3>0, <4>1 DEF SameOwners, SameStack, SameTemps, SameSlips
    <3>2. CASE Last(r.ui_stack).fl /\ r.from_fmode
      <4>1. q = restore_fmode(p)
        BY <3>2
      <4> HIDE DEF q
      <4>2. ToF(q, p)
        BY <3>0, <4>1, RestoreFmode
      <4> QED
        BY <3>0, <4>2 DEF ToF, Columns
    <3>3. CASE Last(r.ui_stack).fl /\ ~r.from_fmode
      <4>1. q = DmodeBmode(p)
        BY <3>3
      <4> HIDE DEF q
      <4>2. ToB(q, p)
        BY <3>0, <4>1, DmodeBmodeIs
      <4> QED
        BY <4>2 DEF ToB
    <3> QED
      BY <3>1, <3>2, <3>3
  <2> HIDE DEF q
  <2>4. ToF(a, q)
    BY <2>3, ToFmodeIs
  <2> HIDE DEF a
  <2>5. Keeps(q, p) /\ Keeps(a, q) /\ p \in Globals
    BY <2>2, <2>3, <2>4, SameKeeps DEF ToF, Emptied
  <2>6. Keeps(a, r)
    BY <2>2, <2>5, KeepsOn
  <2>7. a.ui_stack = <<>>
    BY <2>2, <2>3, <2>4 DEF Emptied, ToF, SameOwners, SameStack
  <2>8. Columns(r) => Columns(p)
    BY <2>2 DEF Emptied, SameMode, Columns
  <2>9. DF(a, r)
    BY <1>3, <2>3, <2>4, <2>6, <2>7, <2>8 DEF DF, ToF
  <2> QED
    BY <2>1, <2>9
<1> QED
  BY <1>0, <1>1, <1>2, <1>3

LEMMA BmodeFmodeIs ==
  ASSUME NEW r \in Globals, r.mode = "b", Columns(r)
  PROVE  LET a == BmodeFmode(r)
         IN  /\ Keeps(a, r) /\ Columns(a) /\ a.ui_stack = r.ui_stack
             /\ ~Local(a) /\ a.mode = "f"
<1> DEFINE c == clr_mark(r)
           o == IF r.fpath = NULL THEN r.syspth[1] ELSE r.fpath
           p == IF r.old_col = 1 THEN <<o, r.syspth[1]>> ELSE <<r.syspth[1], o>>
           q == [i \in 0..1 |-> p[i+1]]
           b == [c EXCEPT !.fpath = NULL, !.one_scan = FALSE, !.syspth = q]
           d == dmode_fmode(b)
           a == [d EXCEPT !.one_scan = r.one_scan]
<1>1. c \in Globals /\ c.mark = NULL /\ Same(c, r) /\ SameSlips(c, r)
  BY ClrMark
<1>2. q \in [0..1 -> Path] /\ r.one_scan \in BOOLEAN
  <2>1. o \in Path /\ r.syspth[1] \in Path /\ r.one_scan \in BOOLEAN
    BY DEF Globals, Maybe
  <2>2. p[1] \in Path /\ p[2] \in Path
    <3> HIDE DEF o
    <3> QED
      BY <2>1
  <2> HIDE DEF p
  <2> QED
    BY <2>1, <2>2
<1>3. BmodeFmode(r) = a
  BY DEF BmodeFmode
<1> HIDE DEF c, q
<1>4. b \in Globals /\ SameMode(b, r) /\ SameOwners(b, r) /\ SameSlips(b, r)
  <2> DEFINE nil == NULL
             os == FALSE
             b1 == [c EXCEPT !.fpath = nil, !.one_scan = os, !.syspth = q]
  <2>1. nil \in Maybe /\ os \in BOOLEAN
    BY DEF Maybe
  <2>3. b = b1
    OBVIOUS
  <2> HIDE DEF nil, os, b
  <2>2. /\ b \in Globals /\ SameMode(b, c) /\ SameOwners(b, c) /\ SameSlips(b, c)
    <3>1. c \in Globals
      BY <1>1
    <3>2. b1 \in Globals
      BY <1>2, <2>1, <3>1 DEF Globals
    <3>3. SameMode(b1, c) /\ SameOwners(b1, c) /\ SameSlips(b1, c)
      BY <3>1 DEF Globals, SameMode, SameOwners, SameStack, SameTemps, SameSlips
    <3> QED
      BY <2>3, <3>2, <3>3
  <2> QED
    BY <1>1, <2>2 DEF Same, SameMode, SameOwners, SameStack, SameTemps, SameSlips
<1> HIDE DEF b
<1>5. Keeps(b, r) /\ Columns(b) /\ b.mode = "b" /\ b.ui_stack = r.ui_stack
  BY <1>4, SameKeeps DEF SameMode, Columns, SameOwners, SameStack
<1>6. DF(d, b)
  BY <1>4, DmodeFmode
<1> HIDE DEF d
<1>7. /\ a \in Globals /\ SameMode(a, d) /\ SameOwners(a, d) /\ SameSlips(a, d) /\ SameMark(a, d)
  BY <1>2, <1>6 DEF DF, Keeps, Globals, SameMode, SameOwners, SameStack, SameTemps, SameSlips, SameMark
<1> HIDE DEF a
<1>8. Keeps(a, d) /\ d \in Globals
  BY <1>6, <1>7, SameKeeps DEF DF, Keeps
<1>9. Keeps(a, r)
  BY <1>5, <1>6, <1>8, KeepsOn DEF DF
<1>10. Columns(a) /\ a.ui_stack = r.ui_stack /\ ~Local(a) /\ a.mode = "f"
  BY <1>5, <1>6, <1>7 DEF DF, SameMode, SameOwners, SameStack, SameMark, Columns, Local
<1> QED
  BY <1>3, <1>9, <1>10

\* Back one level, or to the mode in which the first was entered
Astray(r) == r.from_fmode = TRUE /\ r.twocols = FALSE
PS(a, r) ==
  /\ Keeps(a, r) /\ (Columns(r) => Columns(a))
  /\ a.ui_stack = IF r.ui_stack = <<>> THEN <<>> ELSE Tail(r.ui_stack)
  /\ \/ a.mode = "d" /\ a.from_fmode = r.from_fmode /\ a.twocols = r.twocols
     \/ /\ r.ui_stack # <<>> => Head(r.ui_stack).fl = TRUE
        /\ a.mode = "f" \/ (a.mode = "b" /\ (a.syspth[0] = Dot \/ Astray(r)))
        /\ ~Local(a)
  /\ ~Local(a) \/ a = r
  /\ a.mode = "b" => a.mark = NULL \/ Astray(r)
LEMMA PopStateIs ==
  ASSUME NEW r \in Globals, r.mode = "d"
  PROVE  PS(pop_state(r), r)
<1>0. r.from_fmode \in BOOLEAN /\ r.twocols \in BOOLEAN
  BY DEF Globals
<1>1. CASE r.ui_stack = <<>> /\ r.from_fmode
  <2> DEFINE a == restore_fmode(r)
  <2>1. pop_state(r) = a
    BY <1>1 DEF pop_state
  <2>2. ToF(a, r)
    BY RestoreFmode
  <2> HIDE DEF a
  <2>3. Keeps(a, r)
    BY <2>2, SameKeeps DEF ToF
  <2>5. (a.mode = "f" \/ (a.mode = "b" /\ r.twocols = FALSE)) /\ r.from_fmode = TRUE
    BY <1>0, <1>1, <2>2 DEF ToF
  <2>6. ~Local(a) /\ (Columns(r) => Columns(a)) /\ a.ui_stack = <<>>
    BY <1>1, <2>2 DEF ToF, SameOwners, SameStack
  <2>7. a.mode = "b" => a.mode # "f"
    OBVIOUS
  <2>4. PS(a, r)
    BY <1>1, <2>3, <2>5, <2>6, <2>7, Zenon DEF PS, Astray
  <2> QED
    BY <2>1, <2>4
<1>2. CASE r.ui_stack = <<>> /\ ~r.from_fmode
  <2>1. pop_state(r) = r
    BY <1>2 DEF pop_state
  <2>2. PS(r, r)
    BY <1>2 DEF PS, Keeps
  <2> QED
    BY <2>1, <2>2
<1>3. CASE r.ui_stack # <<>>
  <2> DEFINE p == Pop(r, 1)
             st == Head(r.ui_stack)
             a == pop_state(r)
  <2>0. st.fl \in BOOLEAN
    <3>1. st \in Level
      BY <1>3 DEF Globals
    <3> QED
      BY <3>1 DEF Level
  <2>1. Popped1(p, r, 1) /\ p.ui_stack = Tail(r.ui_stack) /\ Keeps(p, r)
    BY <1>3, PopIs, PopKeeps
  <2>2. a = IF ~st.fl THEN p ELSE IF r.from_fmode THEN restore_fmode(p) ELSE DmodeBmode(p)
    BY <1>3 DEF pop_state, Entrance
  <2> HIDE DEF p, a, st
  <2>3. /\ p \in Globals /\ p.mode = "d" /\ p.from_fmode = r.from_fmode /\ p.twocols = r.twocols
        /\ ~Local(p) /\ (Columns(r) => Columns(p))
    BY <2>1 DEF Popped1, SameMode, Columns
  <2>4. CASE ~st.fl
    BY <1>3, <2>1, <2>2, <2>3, <2>4 DEF PS, a
  <2>5. CASE st.fl /\ r.from_fmode
    <3>1. ToF(a, p)
      BY <2>2, <2>3, <2>5, RestoreFmode
    <3>2. Keeps(a, r)
      BY <2>1, <2>3, <3>1, SameKeeps, KeepsOn DEF ToF
    <3>4. (a.mode = "f" \/ (a.mode = "b" /\ r.twocols = FALSE)) /\ r.from_fmode = TRUE
      BY <1>0, <2>3, <2>5, <3>1 DEF ToF
    <3>5. ~Local(a) /\ (Columns(r) => Columns(a)) /\ a.ui_stack = Tail(r.ui_stack)
      BY <2>1, <2>3, <3>1 DEF ToF, SameOwners, SameStack
    <3>6. Head(r.ui_stack).fl = TRUE
      BY <2>0, <2>5 DEF st
    <3>3. PS(a, r)
      BY <1>3, <3>2, <3>4, <3>5, <3>6, Zenon DEF PS, Astray
    <3> QED
      BY <3>3 DEF a
  <2>6. CASE st.fl /\ ~r.from_fmode
    <3>1. ToB(a, p)
      BY <2>2, <2>3, <2>6, DmodeBmodeIs
    <3>2. Keeps(a, r)
      BY <2>1, <2>3, <3>1, SameKeeps, KeepsOn DEF ToB
    <3>4. ~Local(a)
      BY <3>1 DEF ToB, Local
    <3>5. (Columns(r) => Columns(a)) /\ a.ui_stack = Tail(r.ui_stack) /\ a.mode = "b" /\ a.mark = NULL
          /\ a.syspth[0] = Dot
      BY <2>1, <2>3, <3>1 DEF ToB, SameOwners, SameStack
    <3>6. Head(r.ui_stack).fl = TRUE
      BY <2>0, <2>6 DEF st
    <3>3. PS(a, r)
      BY <1>3, <3>2, <3>4, <3>5, <3>6, Zenon DEF PS, Astray
    <3> QED
      BY <3>3 DEF a
  <2> QED
    BY <2>4, <2>5, <2>6
<1> QED
  BY <1>1, <1>2, <1>3

-----------------------------------------------------------------------------
(* enter_dir(): a level more.                                              *)
Entered(a, r) ==
  /\ a \in Globals /\ ~Local(a) /\ SameTemps(a, r) /\ SameSlips(a, r)
  /\ (Columns(r) => Columns(a)) /\ a.mode = "d" /\ a.twocols = r.twocols
  /\ r.mode # "f" => a.from_fmode = r.from_fmode
LEMMA Ready ==
  ASSUME NEW r \in Globals, NEW f2d \in BOOLEAN, f2d <=> r.mode # "d", NEW tree
  PROVE  LET c == clr_mark(r)
             o == IF tree = 1 THEN [c EXCEPT !.fpath = r.syspth[1], !.syspth[1] = r.syspth[0]]
                  ELSE IF tree = 2
                  THEN [c EXCEPT !.fpath = r.syspth[0], !.syspth[0] = r.syspth[1]]
                  ELSE c
             a == IF ~f2d THEN r
                  ELSE IF r.mode = "b" THEN BmodeDmode(c) ELSE fmode_dmode(o)
             b == IF Local(a) THEN mark_global(a) ELSE a
         IN  Entered(b, r) /\ SameStack(b, r)
<1> DEFINE c == clr_mark(r)
           o == IF tree = 1 THEN [c EXCEPT !.fpath = r.syspth[1], !.syspth[1] = r.syspth[0]]
                ELSE IF tree = 2
                THEN [c EXCEPT !.fpath = r.syspth[0], !.syspth[0] = r.syspth[1]]
                ELSE c
           a == IF ~f2d THEN r
                ELSE IF r.mode = "b" THEN BmodeDmode(c) ELSE fmode_dmode(o)
           b == IF Local(a) THEN mark_global(a) ELSE a
           It(x) == /\ x \in Globals /\ SameOwners(x, r) /\ SameSlips(x, r)
                    /\ (Columns(r) => Columns(x)) /\ x.mode = "d" /\ x.twocols = r.twocols
                    /\ r.mode # "f" => x.from_fmode = r.from_fmode
<1>0. r.mode \in {"b", "f", "d"}
  BY DEF Globals
<1>1. c \in Globals /\ c.mark = NULL /\ Same(c, r) /\ SameSlips(c, r)
  BY ClrMark
<1>2. o \in Globals /\ o.mark = NULL /\ SameMode(o, r) /\ SameOwners(o, r) /\ SameSlips(o, r)
  <2> DEFINE i == IF tree = 1 THEN 1 ELSE 0
             q == [c.syspth EXCEPT ![i] = r.syspth[1 - i]]
             f == r.syspth[i]
             x == [c EXCEPT !.fpath = f, !.syspth = q]
  <2>1. q \in [0..1 -> Path] /\ f \in Maybe
    BY <1>1 DEF Globals, Maybe
  <2>2. tree \in {1, 2} => o = x
    <3>1. tree = 1 => o = x
      BY <1>1 DEF Globals
    <3>2. tree = 2 => o = x
      BY <1>1 DEF Globals
    <3> QED
      BY <3>1, <3>2
  <2>3. tree \notin {1, 2} => o = c
    OBVIOUS
  <2> HIDE DEF o, c, q, f
  <2>4. x \in Globals /\ x.mark = NULL /\ SameMode(x, r) /\ SameOwners(x, r) /\ SameSlips(x, r)
    BY <1>1, <2>1 DEF Globals, Same, SameMode, SameOwners, SameStack, SameTemps, SameSlips
  <2> HIDE DEF x
  <2>5. CASE tree \in {1, 2}
    BY <2>2, <2>4, <2>5
  <2>6. CASE tree \notin {1, 2}
    BY <1>1, <2>3, <2>6 DEF Same, SameOwners
  <2> QED
    BY <2>5, <2>6
<1> HIDE DEF c, o
<1>3. It(a)
  <2>1. CASE ~f2d
    BY <2>1 DEF SameOwners, SameStack, SameTemps, SameSlips
  <2>2. CASE f2d /\ r.mode = "b"
    <3> DEFINE x == BmodeDmode(c)
    <3>1. a = x
      BY <2>2
    <3>2. FromB(x, c)
      BY <1>1, BmodeDmodeIs
    <3> HIDE DEF x, a
    <3>3. /\ x \in Globals /\ SameOwners(x, r) /\ SameSlips(x, r) /\ x.mode = "d" /\ x.twocols = r.twocols
          /\ x.from_fmode = r.from_fmode /\ x.right_col = r.right_col
      BY <1>1, <3>2 DEF FromB, Same, SameMode, SameOwners, SameStack, SameTemps, SameSlips
    <3>4. Columns(r) => Columns(x)
      BY <2>2, <3>3 DEF Columns
    <3> QED
      BY <3>1, <3>3, <3>4
  <2>3. CASE f2d /\ r.mode = "f"
    <3> DEFINE x == fmode_dmode(o)
    <3>1. a = x
      BY <2>3
    <3>2. ToD(x, o)
      BY <1>2, FmodeDmode DEF Local
    <3> HIDE DEF x, a
    <3>3. /\ x \in Globals /\ SameOwners(x, r) /\ SameSlips(x, r) /\ x.mode = "d" /\ x.twocols = r.twocols
          /\ x.right_col = 0
      BY <1>2, <2>3, <3>2 DEF ToD, SameMode, SameOwners, SameStack, SameTemps, SameSlips
    <3>4. Columns(r) => Columns(x)
      BY <3>3 DEF Columns
    <3> QED
      BY <2>3, <3>1, <3>3, <3>4
  <2> QED
    BY <1>0, <2>1, <2>2, <2>3
<1> HIDE DEF a
<1>4. It(b) /\ ~Local(b)
  <2>1. CASE Local(a)
    <3> DEFINE x == mark_global(a)
    <3>1. b = x
      BY <2>1
    <3>2. x \in Globals /\ Same(x, a) /\ SameSlips(x, a) /\ ~Local(x)
      BY <1>3, <2>1, MarkGlobal
    <3> HIDE DEF x, b
    <3> QED
      BY <1>3, <3>1, <3>2 DEF Same, SameMode, SameOwners, SameStack, SameTemps, SameSlips, Columns
  <2>2. CASE ~Local(a)
    BY <1>3, <2>2
  <2> QED
    BY <2>1, <2>2
<1> HIDE DEF b
<1>5. Entered(b, r) /\ SameStack(b, r)
  BY <1>4 DEF Entered, SameOwners
<1> QED
  BY <1>5 DEF b, a, o, c

LEMMA EnterBothIs ==
  ASSUME s \in Globals, NEW r \in Globals, NEW name \in Maybe, NEW rnam \in Maybe,
         NEW lzip \in BOOLEAN, NEW rzip \in BOOLEAN, NEW tree,
         ~(name = NULL /\ rnam = NULL), r.mode = "d" \/ (name # NULL /\ rnam # NULL)
  PROVE  LET a == EnterBoth(r, name, rnam, lzip, rzip, tree)
         IN  Entered(a, r) /\ Deeper(a, r, name, rnam, lzip, rzip, r.mode # "d")
<1> DEFINE f2d == name # NULL /\ rnam # NULL /\ r.mode # "d"
           c == clr_mark(r)
           o == IF tree = 1 THEN [c EXCEPT !.fpath = r.syspth[1], !.syspth[1] = r.syspth[0]]
                ELSE IF tree = 2
                THEN [c EXCEPT !.fpath = r.syspth[0], !.syspth[0] = r.syspth[1]]
                ELSE c
           a == IF ~f2d THEN r
                ELSE IF r.mode = "b" THEN BmodeDmode(c) ELSE fmode_dmode(o)
           b == IF Local(a) THEN mark_global(a) ELSE a
           p == push_state(b, name, rnam, lzip, rzip, f2d)
           sub == (IF name # NULL THEN 1 ELSE 0) + (IF rnam # NULL THEN 2 ELSE 0)
           q == [p EXCEPT !.subtree = sub]
           e == scan_subdir(q, name, rnam, q.subtree)
<1>0. f2d \in BOOLEAN /\ (f2d <=> r.mode # "d")
  OBVIOUS
<1>1. EnterBoth(r, name, rnam, lzip, rzip, tree) = e
  BY DEF EnterBoth
<1>2. Entered(b, r) /\ SameStack(b, r)
  <2> HIDE DEF f2d
  <2> QED
    BY <1>0, Ready
<1>3. sub \in 1..3
  OBVIOUS
<1> HIDE DEF b, f2d, sub
<1>4. /\ p \in Globals /\ SameMode(p, b) /\ SameTemps(p, b) /\ SameMark(p, b) /\ SameSlips(p, b)
      /\ Deeper(p, b, name, rnam, lzip, rzip, f2d)
  <2>1. b \in Globals
    BY <1>2 DEF Entered
  <2> QED
    BY <1>0, <2>1, PushState
<1> HIDE DEF p
<1>5. /\ q \in Globals /\ SameMode(q, p) /\ SameOwners(q, p) /\ SameMark(q, p) /\ SameSlips(q, p)
  BY <1>3, <1>4 DEF Globals, SameMode, SameOwners, SameStack, SameTemps, SameMark, SameSlips
<1> HIDE DEF q
<1>6. BuildOnly(e, q) /\ SameMark(e, q)
  <2>1. name \in Names2 /\ rnam \in Names2
    BY DEF Names2, Maybe
  <2> QED
    BY <1>5, <2>1, ScanSubdir
<1> HIDE DEF e
<1>7. Entered(e, r)
  <2>1. SameMode(e, b) /\ SameTemps(e, b) /\ SameMark(e, b) /\ SameSlips(e, b) /\ e \in Globals
    BY <1>4, <1>5, <1>6 DEF BuildOnly, SameMode, SameOwners, SameTemps, SameMark, SameSlips
  <2> QED
    BY <1>2, <2>1 DEF Entered, SameMode, SameTemps, SameMark, SameSlips, Columns, Local
<1>8. e.ui_stack = p.ui_stack
  BY <1>5, <1>6 DEF BuildOnly, SameOwners, SameStack
<1>9. Deeper(e, r, name, rnam, lzip, rzip, r.mode # "d")
  BY <1>0, <1>2, <1>4, <1>8 DEF Deeper, SameStack
<1> QED
  BY <1>1, <1>7, <1>9

\* The level that is pushed owns what was unpacked for it.
LEMMA PushOwns ==
  ASSUME NEW r \in Globals, NEW a \in Globals, SameTemps(a, r), SameSlips(a, r),
         NEW st \in Level, a.ui_stack = <<st>> \o r.ui_stack, st.lzip # NULL => st.lzip # st.rzip,
         Owned(r, Zips(st))
  PROVE  Owned(a, {})
<1> DEFINE n == Len(r.ui_stack)
           Z == ZipsOf(r.ui_stack)
<1>0. n \in Nat /\ DOMAIN r.ui_stack = 1..n /\ r.ui_stack \in Seq(Level)
  BY DEF Globals
<1>1. /\ DOMAIN a.ui_stack = 1..(n + 1) /\ a.ui_stack[1] = st
      /\ \A k \in 1..(n + 1) : k # 1 => k - 1 \in 1..n /\ a.ui_stack[k] = r.ui_stack[k - 1]
      /\ \A k \in 1..n : k + 1 \in 1..(n + 1) /\ a.ui_stack[k + 1] = r.ui_stack[k]
  BY <1>0
<1>2. ZipsOf(a.ui_stack) = Zips(st) \cup Z
  <2>1. ASSUME NEW x \in ZipsOf(a.ui_stack) PROVE x \in Zips(st) \cup Z
    <3>1. PICK k \in 1..(n + 1) : x \in Zips(a.ui_stack[k])
      BY <1>1 DEF ZipsOf
    <3>2. CASE k = 1
      BY <1>1, <3>1, <3>2
    <3>3. CASE k # 1
      BY <1>0, <1>1, <3>1, <3>3 DEF ZipsOf
    <3> QED
      BY <3>2, <3>3
  <2>2. ASSUME NEW x \in Zips(st) PROVE x \in ZipsOf(a.ui_stack)
    <3>1. 1 \in 1..(n + 1)
      BY <1>0
    <3> QED
      BY <1>1, <3>1 DEF ZipsOf
  <2>3. ASSUME NEW x \in Z PROVE x \in ZipsOf(a.ui_stack)
    <3>1. PICK k \in 1..n : x \in Zips(r.ui_stack[k])
      BY <1>0 DEF ZipsOf
    <3> QED
      BY <1>1, <3>1 DEF ZipsOf
  <2> QED
    BY <2>1, <2>2, <2>3
<1>3. Fit(a.ui_stack, a.tmps)
  <2>0. a.tmps = r.tmps /\ Zips(st) \subseteq Dirs(r.tmps) /\ Zips(st) \cap Z = {} /\ Fit(r.ui_stack, r.tmps)
    <3>1. a.tmps = r.tmps
      BY DEF SameTemps
    <3>2. KeysOf(r) \cup Z \cup Zips(st) = Dirs(r.tmps) /\ Zips(st) \cap (KeysOf(r) \cup Z) = {} /\ Fit(r.ui_stack, r.tmps)
      BY DEF Owned
    <3> HIDE DEF Z
    <3> QED
      BY <3>1, <3>2
  <2>1. ASSUME NEW k \in 1..(n + 1)
        PROVE  /\ Zips(a.ui_stack[k]) \subseteq Dirs(r.tmps)
               /\ a.ui_stack[k].lzip # NULL => a.ui_stack[k].lzip # a.ui_stack[k].rzip
    <3>1. CASE k = 1
      BY <1>1, <2>0, <3>1
    <3>2. CASE k # 1
      BY <1>0, <1>1, <2>0, <3>2 DEF Fit
    <3> QED
      BY <3>1, <3>2
  <2>2. ASSUME NEW k \in 1..(n + 1), NEW l \in 1..(n + 1), k # l
        PROVE  Zips(a.ui_stack[k]) \cap Zips(a.ui_stack[l]) = {}
    <3>1. \A j \in 1..n : Zips(st) \cap Zips(r.ui_stack[j]) = {}
      BY <1>0, <2>0 DEF ZipsOf
    <3>2. CASE k = 1
      BY <1>1, <2>2, <3>1, <3>2
    <3>3. CASE l = 1
      BY <1>1, <2>2, <3>1, <3>3
    <3>4. CASE k # 1 /\ l # 1
      <4>1. k - 1 \in 1..n /\ l - 1 \in 1..n /\ k - 1 # l - 1
        BY <1>0, <1>1, <2>2, <3>4
      <4>2. Zips(r.ui_stack[k - 1]) \cap Zips(r.ui_stack[l - 1]) = {}
        BY <1>0, <2>0, <4>1 DEF Fit
      <4> QED
        BY <1>1, <3>4, <4>2
    <3> QED
      BY <3>2, <3>3, <3>4
  <2> QED
    BY <1>1, <2>0, <2>1, <2>2 DEF Fit
<1>4. KeysOf(a) = KeysOf(r)
  BY DEF KeysOf, SameTemps
<1> DEFINE K == KeysOf(r)
           N == Zips(st)
           D == Dirs(r.tmps)
<1>5. K \cup (N \cup Z) \cup {} = D /\ K \cap (N \cup Z) = {}
  <2>1. K \cup Z \cup N = D /\ K \cap Z = {} /\ N \cap (K \cup Z) = {}
    BY DEF Owned
  <2> HIDE DEF K, Z, N, D
  <2> QED
    BY <2>1
<1>6. a.slips = r.slips /\ a.tmps = r.tmps /\ a.made = r.made /\ a.uz_path_db = r.uz_path_db
  BY DEF SameTemps, SameSlips
<1>7. /\ r.slips = {} /\ \A d, e \in r.uz_path_db : d.key = e.key => d = e
      /\ IsFiniteSet(r.uz_path_db) /\ r.tmps \subseteq {TempName[i] : i \in 1..r.made}
  BY DEF Owned
<1> HIDE DEF Z
<1> QED
  BY <1>2, <1>3, <1>4, <1>5, <1>6, <1>7 DEF Owned, Z

-----------------------------------------------------------------------------
(* enter_dir(): one directory, in browse mode and in file manager mode.    *)
\* The archives that are remembered: one more, as many, or one less
Remembered(a, r, name, zip, k) ==
  \/ zip /\ \E p \in Path : a.uz_path_db = r.uz_path_db \cup {[key |-> name, pth |-> p]}
  \/ ~zip /\ a.uz_path_db = r.uz_path_db
  \/ ~zip /\ a.uz_path_db = r.uz_path_db \ {e \in r.uz_path_db : e.key = k}
          /\ (r.mode = "f" => ~Inside(r.syspth[Other(r.right_col)], k))
Moved(a, r, name, zip, k) ==
  /\ a \in Globals /\ SameMode(a, r) /\ SameStack(a, r) /\ SameMark(a, r)
  /\ a.tmps = r.tmps /\ a.made = r.made
  /\ r.mode = "b" => a.syspth[0] = r.syspth[0]
  /\ r.mode = "f" => a.syspth[Other(r.right_col)] = r.syspth[Other(r.right_col)]
  /\ ~(Local(r) /\ r.mark.list = r.right_col) => SameSlips(a, r)
  /\ Remembered(a, r, name, zip, k)
Key == [key : Path, pth : Path]

LEMMA EnterBIs ==
  ASSUME NEW r \in Globals, r.mode = "b", r.right_col = 0, NEW zip \in BOOLEAN,
         NEW name \in Path \cup {DotDot}, zip => name \in Path
  PROVE  \E k : Moved(EnterB(r, name, zip), r, name, zip, k)
<1> DEFINE new == [key |-> name, pth |-> r.cwd]
           a0 == IF zip THEN [r EXCEPT !.uz_path_db = @ \cup {new}] ELSE r
           up == IF zip \/ name # DotDot THEN {} ELSE Kept(r, 1)
           n == IF up = {} THEN name ELSE (CHOOSE e \in up : TRUE).pth
           u == a0.uz_path_db \ up
           c == [a0 EXCEPT !.uz_path_db = u]
           b == ChdirB(c, n)
           d == diff_db_free(b, 0)
           a == build_diff_db(d, 1)
<1>1. EnterB(r, name, zip) = a
  BY DEF EnterB
<1>2. r.uz_path_db \in SUBSET Key /\ r.cwd \in Path /\ up \in SUBSET r.uz_path_db
  BY DEF Globals, Key, Kept
<1>3. u = (IF zip THEN r.uz_path_db \cup {new} ELSE r.uz_path_db \ up) /\ u \in SUBSET Key
  <2>1. CASE zip
    <3>1. a0.uz_path_db = r.uz_path_db \cup {new} /\ up = {}
      BY <2>1 DEF Globals
    <3>2. new \in Key
      BY <1>2, <2>1 DEF Key
    <3> QED
      BY <1>2, <2>1, <3>1, <3>2
  <2>2. CASE ~zip
    BY <1>2, <2>2
  <2> QED
    BY <2>1, <2>2
<1>4. n \in Path \cup {DotDot}
  <2>1. CASE up = {}
    BY <2>1
  <2>2. CASE up # {}
    <3>1. (CHOOSE e \in up : TRUE) \in Key
      BY <1>2, <2>2
    <3> HIDE DEF up
    <3> QED
      BY <2>2, <3>1 DEF Key
  <2> QED
    BY <2>1, <2>2
<1>5. c = [r EXCEPT !.uz_path_db = u]
  <2>1. CASE zip
    BY <2>1 DEF Globals
  <2>2. CASE ~zip
    BY <2>2 DEF Globals
  <2> QED
    BY <2>1, <2>2
<1> HIDE DEF c, n, u, new, a0
<1>6. /\ c \in Globals /\ SameMode(c, r) /\ SameStack(c, r) /\ SameMark(c, r) /\ SameSlips(c, r) /\ SamePaths(c, r)
      /\ c.tmps = r.tmps /\ c.made = r.made /\ c.uz_path_db = u
  <2>1. u \in SUBSET Key
    BY <1>3
  <2> DEFINE c1 == [r EXCEPT !.uz_path_db = u]
  <2>2. /\ c1 \in Globals /\ SameMode(c1, r) /\ SameStack(c1, r) /\ SameMark(c1, r) /\ SameSlips(c1, r)
        /\ SamePaths(c1, r) /\ c1.tmps = r.tmps /\ c1.made = r.made /\ c1.uz_path_db = u
    BY <2>1 DEF Key, Globals, SameMode, SameStack, SameMark, SameSlips, SamePaths
  <2> HIDE DEF c1
  <2> QED
    BY <1>5, <2>2 DEF c1
<1>7. CwdOnly(b, c)
  <2>1. CASE Absolute(n)
    <3>1. n \in Path
      BY <1>4, <2>1 DEF Absolute, DotDot
    <3> QED
      BY <1>6, <2>1, <3>1, Chdir DEF ChdirB
  <2>2. CASE ~Absolute(n)
    <3>1. c.cwd \in Path
      BY <1>6 DEF Globals
    <3>2. pthcat(c.cwd, n) \in Path
      BY <1>4, <3>1, PathOps
    <3> QED
      BY <1>6, <2>2, <3>2, Chdir DEF ChdirB
  <2> QED
    BY <2>1, <2>2
<1> HIDE DEF b
<1>8. d \in Globals /\ Same(d, b) /\ SameMark(d, b) /\ (~(Local(b) /\ b.mark.list = 0) => d = b)
  BY <1>7, FreeList DEF CwdOnly
<1> HIDE DEF d
<1>9. BuildOnly(a, d) /\ SameMark(a, d) /\ a.syspth[0] = d.syspth[0]
  BY <1>8, Build
<1> HIDE DEF a
<1>10. /\ a \in Globals /\ SameMode(a, r) /\ SameStack(a, r) /\ SameMark(a, r)
       /\ a.tmps = r.tmps /\ a.made = r.made /\ a.syspth[0] = r.syspth[0] /\ a.uz_path_db = u
  BY <1>6, <1>7, <1>8, <1>9 DEF CwdOnly, Same, BuildOnly, SameMode, SameStack, SameTemps, SameMark, SamePaths
<1>11. ~(Local(r) /\ r.mark.list = r.right_col) => SameSlips(a, r)
  <2>1. b.mark = r.mark /\ b.slips = r.slips
    BY <1>6, <1>7 DEF CwdOnly, SameMark, SameSlips
  <2>2. Local(b) /\ b.mark.list = 0 => Local(r) /\ r.mark.list = r.right_col
    BY <2>1 DEF Local
  <2> QED
    BY <1>8, <1>9, <2>1, <2>2 DEF BuildOnly, SameSlips
<1>12. \E k : Remembered(a, r, name, zip, k)
  <2>1. CASE zip
    BY <1>2, <1>3, <1>10, <2>1 DEF Remembered, new
  <2>2. CASE ~zip /\ up = {}
    BY <1>3, <1>10, <2>2 DEF Remembered
  <2>3. CASE ~zip /\ up # {}
    <3>1. up = {e \in r.uz_path_db : e.key = r.syspth[1]}
      BY <2>3 DEF Kept
    <3> HIDE DEF up
    <3>2. Remembered(a, r, name, zip, r.syspth[1])
      BY <1>3, <1>10, <2>3, <3>1 DEF Remembered
    <3> QED
      BY <3>2
  <2> QED
    BY <2>1, <2>2, <2>3
<1> QED
  BY <1>1, <1>10, <1>11, <1>12 DEF Moved

LEMMA EnterFIs ==
  ASSUME NEW r \in Globals, r.mode = "f", NEW zip \in BOOLEAN,
         NEW name \in Names2, zip => name \in Path
  PROVE  \E k : Moved(EnterF(r, name, zip), r, name, zip, k)
<1> DEFINE i == r.right_col
           up == IF zip \/ name # DotDot THEN {} ELSE Kept(r, i)
           e == CHOOSE x \in up : TRUE
           open == up # {} /\ StillOpen(r, i, e.key)
           new == [key |-> name, pth |-> r.syspth[i]]
           a0 == IF zip
                 THEN [r EXCEPT !.uz_path_db = @ \cup {new}, !.syspth[i] = <<>>]
                 ELSE IF up # {}
                 THEN [r EXCEPT !.syspth[i] = e.pth, !.uz_path_db = IF open THEN @ ELSE @ \ up]
                 ELSE [r EXCEPT !.syspth[i] = IF Absolute(name) THEN <<>> ELSE @]
           c == diff_db_free(a0, i)
           nm == IF up = {} THEN name ELSE NULL
           b == scan_subdir(c, nm, NULL, i + 1)
           x == IF IsDir(b, b.syspth[i]) THEN fmode_chdir(b)
                ELSE build_diff_db([b EXCEPT !.syspth[i] = r.syspth[i]], i + 1)
           u == IF zip THEN r.uz_path_db \cup {new}
                ELSE IF up # {} /\ ~open THEN r.uz_path_db \ up ELSE r.uz_path_db
           w == IF zip THEN <<>> ELSE IF up # {} THEN e.pth ELSE IF Absolute(name) THEN <<>> ELSE r.syspth[i]
           q == [r.syspth EXCEPT ![i] = w]
           a1 == [r EXCEPT !.uz_path_db = u, !.syspth = q]
<1>1. EnterF(r, name, zip) = x
  BY DEF EnterF
<1>2. i \in 0..1 /\ Other(i) \in 0..1 /\ Other(i) # i
  BY DEF Globals, Other
<1>3. r.uz_path_db \in SUBSET Key /\ r.syspth \in [0..1 -> Path] /\ r.syspth[i] \in Path /\ up \in SUBSET r.uz_path_db
  BY <1>2 DEF Globals, Key, Kept
<1>4. up # {} => e \in up /\ e \in Key
  BY <1>3
<1>5. u \in SUBSET Key
  <2>1. zip => new \in Key
    BY <1>3 DEF Key
  <2> HIDE DEF new, up, open
  <2> QED
    BY <1>3, <2>1
<1>6. w \in Path
  <2>1. up # {} => e.pth \in Path
    BY <1>4 DEF Key
  <2> HIDE DEF up, e
  <2> QED
    BY <1>3, <2>1, PathsAre
<1>7. q \in [0..1 -> Path] /\ q[i] = w /\ q[Other(i)] = r.syspth[Other(i)]
  <2> HIDE DEF w, i
  <2> QED
    BY <1>2, <1>3, <1>6
<1>8. a0 = a1
  <2>0. r = [r EXCEPT !.uz_path_db = r.uz_path_db]
    BY DEF Globals
  <2>1. CASE zip
    <3>1. u = r.uz_path_db \cup {new} /\ w = <<>>
      BY <2>1
    <3> HIDE DEF new, up, e, open
    <3> QED
      BY <2>1
  <2>2. CASE ~zip /\ up # {}
    <3>1. u = (IF open THEN r.uz_path_db ELSE r.uz_path_db \ up) /\ w = e.pth
      BY <2>2
    <3> HIDE DEF new, up, e, open
    <3>2. a0 = [r EXCEPT !.syspth[i] = e.pth, !.uz_path_db = IF open THEN @ ELSE @ \ up]
      BY <2>2
    <3> HIDE DEF a0, u, w
    <3> QED
      BY <3>1, <3>2
  <2>3. CASE ~zip /\ up = {}
    <3>1. u = r.uz_path_db /\ w = (IF Absolute(name) THEN <<>> ELSE r.syspth[i])
      BY <2>3
    <3> HIDE DEF new, up, e, open
    <3>2. a0 = [r EXCEPT !.syspth[i] = IF Absolute(name) THEN <<>> ELSE @]
      BY <2>3
    <3> HIDE DEF a0, u, w
    <3> QED
      BY <2>0, <3>1, <3>2
  <2> QED
    BY <2>1, <2>2, <2>3
<1>9. nm \in Names2
  BY DEF Names2
<1>10. \E k : Remembered(a1, r, name, zip, k)
  <2>0. a1.uz_path_db = u
    <3> HIDE DEF u, q
    <3> QED
      BY DEF Globals
  <2>1. CASE zip
    <3>1. a1.uz_path_db = r.uz_path_db \cup {new}
      BY <2>0, <2>1
    <3> HIDE DEF a1
    <3> QED
      BY <1>3, <2>1, <3>1 DEF Remembered
  <2>2. CASE ~zip /\ ~(up # {} /\ ~open)
    <3>1. a1.uz_path_db = r.uz_path_db
      BY <2>0, <2>2
    <3> HIDE DEF a1
    <3> QED
      BY <2>2, <3>1 DEF Remembered
  <2>3. CASE ~zip /\ up # {} /\ ~open
    <3>1. up = {y \in r.uz_path_db : y.key = r.syspth[i]}
      BY <2>3 DEF Kept
    <3>2. e.key = r.syspth[i]
      BY <1>4, <2>3, <3>1
    <3>3. ~Inside(r.syspth[Other(i)], r.syspth[i])
      BY <2>3, <3>2 DEF StillOpen
    <3>4. a1.uz_path_db = r.uz_path_db \ {y \in r.uz_path_db : y.key = r.syspth[i]}
      BY <2>0, <2>3, <3>1
    <3> HIDE DEF a1, up, open, e
    <3>5. Remembered(a1, r, name, zip, r.syspth[i])
      BY <2>3, <3>3, <3>4 DEF Remembered
    <3> QED
      BY <3>5
  <2> QED
    BY <2>1, <2>2, <2>3
<1>11. b = scan_subdir(diff_db_free(a1, i), nm, NULL, i + 1)
  BY <1>8
<1> HIDE DEF a0, c, nm, up, e, open, new, u, w, q
<1>12. /\ a1 \in Globals /\ SameMode(a1, r) /\ SameStack(a1, r) /\ SameMark(a1, r) /\ SameSlips(a1, r)
       /\ a1.tmps = r.tmps /\ a1.made = r.made /\ a1.syspth = q
  BY <1>5, <1>7 DEF Key, Globals, SameMode, SameStack, SameMark, SameSlips
<1> HIDE DEF a1
<1> DEFINE d == diff_db_free(a1, i)
<1>13. d \in Globals /\ Same(d, a1) /\ SameMark(d, a1) /\ (~(Local(a1) /\ a1.mark.list = i) => d = a1)
  BY <1>12, FreeList
<1>14. /\ d \in Globals /\ SameMode(d, r) /\ SameStack(d, r) /\ SameMark(d, r)
       /\ (~(Local(r) /\ r.mark.list = i) => SameSlips(d, r))
       /\ d.tmps = r.tmps /\ d.made = r.made /\ d.syspth = q /\ d.uz_path_db = a1.uz_path_db
  <2>1. ~(Local(r) /\ r.mark.list = i) => d = a1
    BY <1>12, <1>13 DEF SameMark, Local
  <2> HIDE DEF d
  <2> QED
    BY <1>12, <1>13, <2>1 DEF Same, SameMode, SameStack, SameTemps, SameMark, SamePaths, SameSlips
<1> HIDE DEF d
<1> DEFINE Good(y) == /\ y \in Globals /\ SameMode(y, r) /\ SameStack(y, r) /\ SameMark(y, r)
                      /\ (~(Local(r) /\ r.mark.list = i) => SameSlips(y, r))
                      /\ y.tmps = r.tmps /\ y.made = r.made /\ y.uz_path_db = a1.uz_path_db
                      /\ y.syspth[Other(i)] = r.syspth[Other(i)]
<1>15. Good(b)
  <2>1. b = scan_subdir(d, nm, NULL, i + 1)
    BY <1>11 DEF d
  <2>2. NULL \in Names2
    BY DEF Names2
  <2> DEFINE n == <<nm, IF NULL = NULL THEN nm ELSE NULL>>
             p(j) == IF n[j+1] # NULL /\ (IF j = 0 THEN Odd(i + 1) ELSE i + 1 > 1)
                     THEN pthcat(d.syspth[j], n[j+1]) ELSE d.syspth[j]
  <2> HIDE DEF b
  <2>3. /\ BuildOnly(b, d) /\ SameMark(b, d)
        /\ b.syspth[0] = p(0)
        /\ b.syspth[1] = IF d.mode = "b" /\ Odd(i + 1) THEN d.cwd ELSE p(1)
    BY <1>9, <1>14, <2>1, <2>2, ScanSubdir
  <2>4. b.syspth[Other(i)] = d.syspth[Other(i)]
    <3>1. CASE i = 0
      <4>1. Other(i) = 1 /\ ~(i + 1 > 1)
        BY <3>1 DEF Other
      <4>2. d.mode # "b"
        BY <1>14 DEF SameMode
      <4> HIDE DEF i
      <4> QED
        BY <2>3, <4>1, <4>2
    <3>2. CASE i = 1
      <4>1. Other(i) = 0 /\ ~Odd(i + 1)
        BY <3>2 DEF Other, Odd
      <4> HIDE DEF i
      <4> QED
        BY <2>3, <4>1
    <3> QED
      BY <1>2, <3>1, <3>2
  <2> QED
    BY <1>7, <1>14, <2>3, <2>4 DEF BuildOnly, SameMode, SameStack, SameTemps, SameMark, SameSlips
<1> HIDE DEF b
<1>16. Good(x)
  <2>1. CASE IsDir(b, b.syspth[i])
    <3> DEFINE y == fmode_chdir(b)
    <3>1. CwdOnly(y, b)
      BY <1>15, FmodeChdir
    <3>2. x = y
      BY <2>1
    <3> HIDE DEF x, y
    <3> QED
      BY <1>15, <3>1, <3>2 DEF CwdOnly, SameMode, SameStack, SameTemps, SameMark, SameSlips
  <2>2. CASE ~IsDir(b, b.syspth[i])
    <3> DEFINE z == [b EXCEPT !.syspth[i] = r.syspth[i]]
               y == build_diff_db(z, i + 1)
               v == [b.syspth EXCEPT ![i] = r.syspth[i]]
               z1 == [b EXCEPT !.syspth = v]
    <3>1. z = z1
      BY <1>15 DEF Globals
    <3>2. v \in [0..1 -> Path] /\ v[Other(i)] = b.syspth[Other(i)]
      <4>1. b.syspth \in [0..1 -> Path]
        BY <1>15 DEF Globals
      <4> QED
        BY <1>2, <1>3, <4>1
    <3> HIDE DEF v
    <3>3. z1 \in Globals /\ SameMode(z1, b) /\ SameStack(z1, b) /\ SameTemps(z1, b) /\ SameMark(z1, b) /\ SameSlips(z1, b)
          /\ z1.syspth = v
      BY <1>15, <3>2 DEF Globals, SameMode, SameStack, SameTemps, SameMark, SameSlips
    <3>4. x = build_diff_db(z1, i + 1)
      BY <2>2, <3>1
    <3> HIDE DEF z1, x
    <3>5. BuildOnly(x, z1) /\ SameMark(x, z1) /\ x.syspth[0] = z1.syspth[0]
          /\ x.syspth[1] = IF z1.mode = "b" /\ Odd(i + 1) THEN z1.cwd ELSE z1.syspth[1]
      BY <3>3, <3>4, Build
    <3>6. z1.mode # "b"
      BY <1>15, <3>3 DEF SameMode
    <3>7. x.syspth[Other(i)] = r.syspth[Other(i)]
      <4>1. \A j \in 0..1 : x.syspth[j] = z1.syspth[j]
        BY <3>5, <3>6
      <4> QED
        BY <1>2, <1>15, <3>2, <3>3, <4>1
    <3> QED
      BY <1>15, <3>3, <3>5, <3>7 DEF BuildOnly, SameMode, SameStack, SameTemps, SameMark, SameSlips
  <2> QED
    BY <2>1, <2>2
<1> HIDE DEF x
<1>17. \E k : Remembered(x, r, name, zip, k)
  BY <1>10, <1>16 DEF Remembered
<1> QED
  BY <1>1, <1>16, <1>17 DEF Moved

-----------------------------------------------------------------------------
\* The directory of an archive that is left for good, and a mark in it, go.
Rest(r, k) == {t \in r.tmps : <<"/", t>> # k}
Gone(a, r0, k) ==
  /\ Rest(r0, k) \subseteq a.tmps
  /\ r0.mode = "f" => ~Inside(r0.syspth[Other(r0.right_col)], k)
  /\ Global(a) => ~Inside(gl_mark(a), k)
Out(a, r0, r) ==
  /\ a \in Globals /\ SameMode(a, r) /\ SameStack(a, r) /\ SamePaths(a, r) /\ a.made = r.made
  /\ a.uz_path_db = r.uz_path_db /\ a.mark \in {r.mark, NULL} /\ (Local(r) => a.mark = r.mark)
  /\ r0.tmps \subseteq a.tmps \/ \E k : Gone(a, r0, k)

\* What becomes of the archive that is left
LeftFor(a, r0, r, zip, k) ==
  \/ a = r /\ (zip \/ r.uz_path_db = r0.uz_path_db)
  \/ /\ ~zip /\ r.uz_path_db = r0.uz_path_db \ {e \in r0.uz_path_db : e.key = k}
     /\ k \in KeysOf(r0)
     /\ \A t \in r0.tmps : k = <<"/", t>> => a.tmps = r0.tmps \ {t} /\ a.slips = r.slips

LEMMA RmLeaves ==
  ASSUME NEW r \in Globals, NEW name
  PROVE  Rest(r, name) \subseteq rmtmpdirs(r, name).tmps
<1>1. CASE \E t \in r.tmps : name = <<"/", t>>
  <2>1. PICK t \in r.tmps : name = <<"/", t>>
    BY <1>1
  <2>2. rmtmpdirs(r, name).tmps = r.tmps \ {t}
    BY <2>1, RmTmp
  <2> QED
    BY <2>1, <2>2 DEF Rest
<1>2. CASE ~\E t \in r.tmps : name = <<"/", t>>
  <2> DEFINE a == [r EXCEPT !.slips = @ \cup {"rmtmpdirs"}]
  <2>1. rmtmpdirs(r, name) = a
    BY <1>2 DEF rmtmpdirs
  <2>2. a.tmps = r.tmps
    BY DEF Globals
  <2> HIDE DEF a
  <2> QED
    BY <2>1, <2>2 DEF Rest
<1> QED
  BY <1>1, <1>2

LEMMA LeaveKeptIs ==
  ASSUME NEW r0 \in Globals, NEW r, NEW name, NEW zip \in BOOLEAN, NEW k, Moved(r, r0, name, zip, k)
  PROVE  Out(LeaveKept(r0, r), r0, r) /\ LeftFor(LeaveKept(r0, r), r0, r, zip, k)
<1> DEFINE gone == {e.key : e \in r0.uz_path_db \ r.uz_path_db}
           j == CHOOSE x \in gone : TRUE
           c == IF Global(r) /\ Inside(gl_mark(r), j) THEN clr_mark(r) ELSE r
           a == LeaveKept(r0, r)
<1>0. r \in Globals /\ r.tmps = r0.tmps /\ Remembered(r, r0, name, zip, k)
  BY DEF Moved
<1>1. CASE gone = {}
  <2>1. a = r
    BY <1>1 DEF LeaveKept
  <2> HIDE DEF a
  <2>2. Out(a, r0, r)
    BY <1>0, <2>1 DEF Out, SameMode, SameStack, SamePaths
  <2>3. zip \/ r.uz_path_db = r0.uz_path_db
    <3>1. CASE ~zip /\ r.uz_path_db = r0.uz_path_db \ {e \in r0.uz_path_db : e.key = k}
      <4>1. r0.uz_path_db \ r.uz_path_db = {}
        BY <1>1
      <4> QED
        BY <3>1, <4>1
    <3> QED
      BY <1>0, <3>1 DEF Remembered
  <2> QED
    BY <2>1, <2>2, <2>3 DEF a, LeftFor
<1>2. CASE gone # {}
  <2>1. /\ ~zip /\ r.uz_path_db = r0.uz_path_db \ {e \in r0.uz_path_db : e.key = k}
        /\ r0.mode = "f" => ~Inside(r0.syspth[Other(r0.right_col)], k)
    <3>1. PICK e \in r0.uz_path_db : e \notin r.uz_path_db
      BY <1>2
    <3>2. ~\E p \in Path : r.uz_path_db = r0.uz_path_db \cup {[key |-> name, pth |-> p]}
      BY <3>1
    <3>3. r.uz_path_db # r0.uz_path_db
      BY <3>1
    <3> QED
      BY <1>0, <3>2, <3>3, Zenon DEF Remembered
  <2>2. \A y \in gone : y = k
    BY <2>1
  <2>3. j = k /\ k \in gone
    <3>1. j \in gone
      BY <1>2
    <3> HIDE DEF gone, j
    <3> QED
      BY <2>2, <3>1
  <2>4. k \in KeysOf(r0)
    BY <2>3 DEF KeysOf
  <2>5. a = rmtmpdirs(c, k)
    <3> HIDE DEF gone, c
    <3>1. a = rmtmpdirs(c, j)
      BY <1>2 DEF LeaveKept, gone, c
    <3> QED
      BY <2>3, <3>1
  <2>6. /\ c \in Globals /\ Same(c, r) /\ SameSlips(c, r) /\ c.mark \in {r.mark, NULL}
        /\ (Local(r) => c.mark = r.mark) /\ (Global(c) => ~Inside(gl_mark(c), k))
    <3>1. CASE Global(r) /\ Inside(gl_mark(r), j)
      <4>1. c = clr_mark(r)
        BY <3>1
      <4> HIDE DEF c
      <4> QED
        BY <1>0, <3>1, <4>1, ClrMark DEF Global, Local
    <3>2. CASE ~(Global(r) /\ Inside(gl_mark(r), j))
      <4>1. c = r
        BY <3>2
      <4> HIDE DEF c, j
      <4> QED
        BY <1>0, <2>3, <3>2, <4>1 DEF Same, SameMode, SamePaths, SameStack, SameTemps, SameSlips
    <3> QED
      BY <3>1, <3>2
  <2> HIDE DEF c, a, j
  <2>7. /\ a \in Globals /\ SameMode(a, c) /\ SamePaths(a, c) /\ SameStack(a, c) /\ SameMark(a, c)
        /\ a.uz_path_db = c.uz_path_db /\ a.made = c.made
        /\ \A t \in c.tmps : k = <<"/", t>> => a.tmps = c.tmps \ {t} /\ a.slips = c.slips
    BY <2>5, <2>6, RmTmp
  <2>8. Rest(c, k) \subseteq a.tmps
    BY <2>5, <2>6, RmLeaves
  <2>9. Gone(a, r0, k)
    <3>1. c.tmps = r0.tmps
      BY <1>0, <2>6 DEF Same, SameTemps
    <3>2. Global(a) => Global(c) /\ gl_mark(a) = gl_mark(c)
      BY <2>7 DEF Global, gl_mark, SameMark
    <3> QED
      BY <2>1, <2>6, <2>8, <3>1, <3>2 DEF Gone, Rest
  <2>10. Out(a, r0, r)
    <3>1. /\ SameMode(a, r) /\ SameStack(a, r) /\ SamePaths(a, r) /\ a.made = r.made
          /\ a.uz_path_db = r.uz_path_db /\ a.mark = c.mark
      BY <2>6, <2>7 DEF Same, SameMode, SameStack, SamePaths, SameTemps, SameMark
    <3> QED
      BY <2>6, <2>7, <2>9, <3>1 DEF Out
  <2>11. \A t \in r0.tmps : k = <<"/", t>> => a.tmps = r0.tmps \ {t} /\ a.slips = r.slips
    BY <1>0, <2>6, <2>7 DEF Same, SameTemps, SameSlips
  <2> QED
    BY <2>1, <2>4, <2>10, <2>11 DEF a, LeftFor
<1> QED
  BY <1>1, <1>2

LEMMA OwnedIs ==
  ASSUME NEW r, r.slips = {}, Fit(r.ui_stack, r.tmps), IsFiniteSet(r.uz_path_db),
         r.tmps \subseteq {TempName[i] : i \in 1..r.made},
         \A d, e \in r.uz_path_db : d.key = e.key => d = e,
         KeysOf(r) \cup ZipsOf(r.ui_stack) = Dirs(r.tmps),
         KeysOf(r) \cap ZipsOf(r.ui_stack) = {}
  PROVE  Owned(r, {})
<1>1. /\ KeysOf(r) \cup ZipsOf(r.ui_stack) \cup {} = Dirs(r.tmps)
      /\ {} \cap (KeysOf(r) \cup ZipsOf(r.ui_stack)) = {}
  OBVIOUS
<1> QED
  BY <1>1 DEF Owned

LEMMA OneOwned ==
  ASSUME NEW r0 \in Globals, NEW r, NEW name, NEW zip \in BOOLEAN, NEW k, Moved(r, r0, name, zip, k),
         SameSlips(r, r0), Owned(r0, IF zip THEN {name} ELSE {})
  PROVE  Owned(LeaveKept(r0, r), {})
<1> DEFINE a == LeaveKept(r0, r)
<1>0. /\ r \in Globals /\ r.tmps = r0.tmps /\ r.made = r0.made /\ r.slips = r0.slips
      /\ Remembered(r, r0, name, zip, k) /\ r.ui_stack = r0.ui_stack
  BY DEF Moved, SameSlips, SameStack
<1>1. Out(a, r0, r) /\ LeftFor(a, r0, r, zip, k)
  BY LeaveKeptIs
<1> HIDE DEF a
<1>2. /\ r0.slips = {} /\ Fit(r0.ui_stack, r0.tmps) /\ KeysOf(r0) \cap ZipsOf(r0.ui_stack) = {}
      /\ \A d, e \in r0.uz_path_db : d.key = e.key => d = e
      /\ IsFiniteSet(r0.uz_path_db) /\ r0.tmps \subseteq {TempName[i] : i \in 1..r0.made}
  BY DEF Owned
<1>3. ASSUME zip, a = r PROVE Owned(a, {})
  <2>1. PICK p \in Path : r.uz_path_db = r0.uz_path_db \cup {[key |-> name, pth |-> p]}
    BY <1>0, <1>3 DEF Remembered
  <2>2. /\ KeysOf(r0) \cup ZipsOf(r0.ui_stack) \cup {name} = Dirs(r0.tmps)
        /\ {name} \cap (KeysOf(r0) \cup ZipsOf(r0.ui_stack)) = {}
    BY <1>3 DEF Owned
  <2> DEFINE new == [key |-> name, pth |-> p]
  <2>3. new.key = name /\ r.uz_path_db = r0.uz_path_db \cup {new}
    BY <2>1
  <2> HIDE DEF new
  <2>4. KeysOf(r) = KeysOf(r0) \cup {name}
    <3>1. KeysOf(r) \subseteq KeysOf(r0) \cup {name}
      BY <2>3 DEF KeysOf
    <3>2. KeysOf(r0) \cup {name} \subseteq KeysOf(r)
      BY <2>3 DEF KeysOf
    <3> QED
      BY <3>1, <3>2
  <2>5. \A d, e \in r.uz_path_db : d.key = e.key => d = e
    <3>1. \A d \in r0.uz_path_db : d.key # name
      BY <2>2 DEF KeysOf
    <3> QED
      BY <1>2, <2>3, <3>1
  <2>6. IsFiniteSet(r.uz_path_db)
    <3>1. IsFiniteSet(r0.uz_path_db \cup {new})
      BY <1>2, FS_AddElement
    <3> QED
      BY <2>3, <3>1
  <2>7. /\ KeysOf(r) \cup ZipsOf(r.ui_stack) = Dirs(r.tmps)
        /\ KeysOf(r) \cap ZipsOf(r.ui_stack) = {}
    BY <1>0, <1>2, <2>2, <2>4
  <2>8. Owned(r, {})
    BY <1>0, <1>2, <2>5, <2>6, <2>7, OwnedIs
  <2> QED
    BY <1>3, <2>8
<1>4. ASSUME ~zip, a = r, r.uz_path_db = r0.uz_path_db PROVE Owned(a, {})
  <2>1. Owned(r0, {})
    BY <1>4
  <2>2. SameOwners(r, r0) /\ SameSlips(r, r0)
    BY <1>0, <1>4 DEF SameOwners, SameStack, SameTemps, SameSlips
  <2>3. Keeps(r, r0)
    BY <1>0, <2>2, SameKeeps
  <2>4. {} \in SUBSET Path
    OBVIOUS
  <2>5. Owned(r, {})
    BY <2>1, <2>3, <2>4 DEF Keeps
  <2> QED
    BY <1>4, <2>5
<1>5. ASSUME ~zip, r.uz_path_db = r0.uz_path_db \ {e \in r0.uz_path_db : e.key = k},
             k \in KeysOf(r0),
             \A t \in r0.tmps : k = <<"/", t>> => a.tmps = r0.tmps \ {t} /\ a.slips = r.slips
      PROVE  Owned(a, {})
  <2>1. KeysOf(r0) \cup ZipsOf(r0.ui_stack) = Dirs(r0.tmps)
    <3>1. KeysOf(r0) \cup ZipsOf(r0.ui_stack) \cup {} = Dirs(r0.tmps)
      BY <1>5 DEF Owned
    <3> QED
      BY <3>1
  <2>2. PICK t \in r0.tmps : k = <<"/", t>>
    BY <1>5, <2>1 DEF Dirs
  <2>3. a.tmps = r0.tmps \ {t} /\ a.slips = {}
    BY <1>0, <1>2, <1>5, <2>2
  <2>4. /\ a.uz_path_db = r.uz_path_db /\ a.ui_stack = r0.ui_stack /\ a.made = r0.made
    BY <1>0, <1>1 DEF Out, SameStack
  <2>5. KeysOf(a) = KeysOf(r0) \ {k}
    BY <1>5, <2>4 DEF KeysOf
  <2>6. Dirs(a.tmps) = Dirs(r0.tmps) \ {k}
    <3>1. \A x \in r0.tmps : <<"/", x>> = k <=> x = t
      BY <2>2
    <3> QED
      BY <2>3, <3>1 DEF Dirs
  <2>7. k \notin ZipsOf(r0.ui_stack)
    BY <1>2, <1>5
  <2>8. /\ KeysOf(a) \cup ZipsOf(a.ui_stack) = Dirs(a.tmps)
        /\ KeysOf(a) \cap ZipsOf(a.ui_stack) = {}
    BY <1>2, <2>1, <2>4, <2>5, <2>6, <2>7
  <2>9. Fit(a.ui_stack, a.tmps)
    <3>1. ASSUME NEW j \in DOMAIN r0.ui_stack PROVE Zips(r0.ui_stack[j]) \subseteq Dirs(a.tmps)
      <4>1. Zips(r0.ui_stack[j]) \subseteq Dirs(r0.tmps)
        BY <1>2 DEF Fit
      <4>2. k \notin Zips(r0.ui_stack[j])
        BY <2>7 DEF ZipsOf
      <4> QED
        BY <2>6, <4>1, <4>2
    <3> QED
      BY <1>2, <2>4, <3>1 DEF Fit
  <2>10. a.tmps \subseteq {TempName[i] : i \in 1..a.made}
    BY <1>2, <2>3, <2>4
  <2>11. IsFiniteSet(a.uz_path_db) /\ \A d, e \in a.uz_path_db : d.key = e.key => d = e
    <3>1. a.uz_path_db \subseteq r0.uz_path_db
      BY <1>5, <2>4
    <3> QED
      BY <1>2, <3>1, FS_Subset
  <2> QED
    BY <2>3, <2>8, <2>9, <2>10, <2>11, OwnedIs
<1>6. Owned(a, {})
  BY <1>1, <1>3, <1>4, <1>5 DEF LeftFor
<1> QED
  BY <1>6 DEF a

-----------------------------------------------------------------------------
(* enter_dir().                                                            *)
New(name, rnam, lzip, rzip) ==
  (IF lzip = TRUE THEN {name} ELSE {}) \cup (IF rzip = TRUE THEN {rnam} ELSE {})
\* A mark of the active column is not freed with its list: it has its type there.
Active(r) ==
  Local(r) /\ r.mode = "f" /\ r.mark.list = r.right_col => r.mark.t[r.right_col + 1] # "none"
OneMark(r) ==
  IF Local(r) /\ (r.mode = "b" \/ r.mark.t[r.right_col + 1] # "none") THEN mark_global(r) ELSE r
Elsewhere(a, r, new) ==
  /\ a \in Globals /\ SameMode(a, r) /\ SameStack(a, r) /\ a.made = r.made
  /\ r.mode = "b" => a.syspth[0] = r.syspth[0]
  /\ r.mode = "f" => a.syspth[Other(r.right_col)] = r.syspth[Other(r.right_col)]
  /\ a.mark \in {OneMark(r).mark, NULL}
  /\ Local(OneMark(r)) => a.mark = OneMark(r).mark
  /\ r.tmps \subseteq a.tmps \/ \E k : Gone(a, r, k)
  /\ Active(r) /\ Owned(r, new) => Owned(a, {})

LEMMA OneMarkIs ==
  ASSUME NEW r \in Globals
  PROVE  /\ OneMark(r) \in Globals /\ Same(OneMark(r), r) /\ SameSlips(OneMark(r), r)
         /\ r.mode = "b" => ~Local(OneMark(r))
         /\ Local(OneMark(r)) => OneMark(r) = r /\ r.mark.t[r.right_col + 1] = "none"
<1>1. CASE Local(r) /\ (r.mode = "b" \/ r.mark.t[r.right_col + 1] # "none")
  <2>1. OneMark(r) = mark_global(r)
    BY <1>1 DEF OneMark
  <2> QED
    BY <1>1, <2>1, MarkGlobal
<1>2. CASE ~(Local(r) /\ (r.mode = "b" \/ r.mark.t[r.right_col + 1] # "none"))
  <2>1. OneMark(r) = r
    BY <1>2 DEF OneMark
  <2> QED
    BY <1>2, <2>1 DEF Same, SameMode, SamePaths, SameStack, SameTemps, SameSlips
<1> QED
  BY <1>1, <1>2

LEMMA EnterOneIs ==
  ASSUME NEW r \in Globals, Columns(r), r.mode # "d", NEW name \in Names2, NEW rnam \in Names2,
         NEW lzip \in BOOLEAN, NEW rzip \in BOOLEAN, name = NULL \/ rnam = NULL,
         r.mode = "b" => ~(name = NULL /\ rnam = NULL),
         lzip = TRUE => name \in Path, rzip = TRUE => rnam \in Path
  PROVE  Elsewhere(EnterOne(r, name, rnam, lzip, rzip), r, New(name, rnam, lzip, rzip))
<1> DEFINE a == OneMark(r)
           n == IF name = NULL THEN rnam ELSE name
           z == IF name = NULL THEN rzip ELSE lzip
           new == New(name, rnam, lzip, rzip)
           b == IF r.mode = "b" THEN EnterB(a, n, z) ELSE EnterF(a, n, z)
           c == EnterOne(r, name, rnam, lzip, rzip)
<1>1. /\ n \in Names2 /\ z \in BOOLEAN /\ (z => n \in Path) /\ (r.mode = "b" => n # NULL)
      /\ new = IF z THEN {n} ELSE {}
  BY NamesAre DEF New
<1>2. /\ a \in Globals /\ Same(a, r) /\ SameSlips(a, r) /\ (r.mode = "b" => ~Local(a))
      /\ Local(a) => a = r /\ r.mark.t[r.right_col + 1] = "none"
  BY OneMarkIs
<1>3. c = LeaveKept(a, b)
  <2>1. (IF r.mode = "b" THEN EnterB(a, n, z) ELSE EnterF(a, n, z))
        = (IF a.mode = "b" THEN EnterB(a, n, z) ELSE EnterF(a, n, z))
    BY <1>2 DEF Same, SameMode
  <2> QED
    BY <1>2, <2>1 DEF EnterOne, OneMark, Same, SameMode
<1> HIDE DEF n, z, c, new
<1>4. /\ a.mode = r.mode /\ a.right_col = r.right_col /\ a.tmps = r.tmps /\ a.made = r.made
      /\ a.syspth = r.syspth /\ a.ui_stack = r.ui_stack
  BY <1>2 DEF Same, SameMode, SameTemps, SamePaths, SameStack
<1>5. PICK k : Moved(b, a, n, z, k)
  <2>1. CASE r.mode = "b"
    <3>1. n \in Path \cup {DotDot}
      BY <1>1, <2>1 DEF Names2
    <3>2. a.right_col = 0
      BY <1>4, <2>1 DEF Columns
    <3> HIDE DEF a
    <3>3. \E k : Moved(EnterB(a, n, z), a, n, z, k)
      BY <1>1, <1>2, <1>4, <2>1, <3>1, <3>2, EnterBIs
    <3> QED
      BY <2>1, <3>3
  <2>2. CASE r.mode = "f"
    <3> HIDE DEF a
    <3>1. \E k : Moved(EnterF(a, n, z), a, n, z, k)
      BY <1>1, <1>2, <1>4, <2>2, EnterFIs
    <3> QED
      BY <2>2, <3>1
  <2>3. r.mode \in {"b", "f", "d"}
    BY DEF Globals
  <2> QED
    BY <2>1, <2>2, <2>3
<1> HIDE DEF a, b
<1>6. Out(c, a, b)
  BY <1>1, <1>2, <1>3, <1>5, LeaveKeptIs
<1>7. /\ SameMode(c, r) /\ SameStack(c, r) /\ c.made = r.made /\ c \in Globals
      /\ r.mode = "b" => c.syspth[0] = r.syspth[0]
      /\ r.mode = "f" => c.syspth[Other(r.right_col)] = r.syspth[Other(r.right_col)]
  BY <1>2, <1>4, <1>5, <1>6 DEF Out, Moved, SameMode, SameStack, SamePaths, Same
<1>8. c.mark \in {a.mark, NULL} /\ (Local(a) => c.mark = a.mark)
  BY <1>5, <1>6 DEF Out, Moved, SameMark, Local
<1>9. r.tmps \subseteq c.tmps \/ \E j : Gone(c, r, j)
  <2>1. CASE a.tmps \subseteq c.tmps
    BY <1>4, <2>1
  <2>2. ASSUME NEW j, Gone(c, a, j) PROVE Gone(c, r, j)
    BY <1>4, <2>2 DEF Gone, Rest
  <2> QED
    BY <1>6, <2>1, <2>2 DEF Out
<1>10. ASSUME Active(r), Owned(r, new) PROVE Owned(c, {})
  <2>1. ~(Local(a) /\ a.mark.list = a.right_col)
    BY <1>2, <1>4, <1>10 DEF Active, Columns, Globals
  <2>2. SameSlips(b, a)
    BY <1>5, <2>1 DEF Moved
  <2>3. Owned(a, IF z THEN {n} ELSE {})
    BY <1>1, <1>2, <1>10 DEF Owned, KeysOf, Same, SameStack, SameTemps, SameSlips
  <2> QED
    BY <1>1, <1>2, <1>3, <1>5, <2>2, <2>3, OneOwned
<1>11. Elsewhere(c, r, new)
  BY <1>7, <1>8, <1>9, <1>10 DEF Elsewhere, a
<1> QED
  BY <1>11 DEF c, new

\* Levels are in diff mode only, and the one whose entering changed the mode
\* is the lowest.
Levels(r) ==
  /\ r.mode # "d" => r.ui_stack = <<>>
  /\ \A k \in DOMAIN r.ui_stack : k # Len(r.ui_stack) => r.ui_stack[k].fl = FALSE
Modes(r) ==
  /\ r.mode = "b" => r.syspth[0] = Dot
  /\ r.mode = "d" /\ r.from_fmode = TRUE => r.twocols = TRUE
\* The names an enter_dir() is given
Given(r, name, rnam, lzip, rzip) ==
  /\ name \in Names2 /\ rnam \in Names2 /\ lzip \in BOOLEAN /\ rzip \in BOOLEAN
  /\ r.mode # "f" => ~(name = NULL /\ rnam = NULL)
  /\ r.mode = "d" => name # DotDot /\ rnam # DotDot
  /\ lzip = TRUE => name \in Path
  /\ rzip = TRUE => rnam \in Path
Both(r, name, rnam) == r.mode = "d" \/ (name # NULL /\ rnam # NULL)

Gone2(a, r, new) ==
  /\ a \in Globals /\ a.made = r.made /\ (Columns(r) => Columns(a)) /\ (Levels(r) => Levels(a))
  /\ \/ a.mode = "d" /\ ~Local(a)
     \/ r.mode # "d" /\ Elsewhere(a, r, new)
     \/ a = r

LEMMA LevelsBelow ==
  ASSUME NEW r \in Globals, Levels(r), NEW a \in Globals, a.mode = "d",
         NEW st \in Level, a.ui_stack = <<st>> \o r.ui_stack, st.fl = TRUE <=> r.mode # "d"
  PROVE  Levels(a)
<1>1. r.ui_stack \in Seq(Level)
  BY DEF Globals
<1>2. Len(a.ui_stack) = Len(r.ui_stack) + 1 /\ Len(r.ui_stack) \in Nat
  BY <1>1
<1>3. ASSUME NEW k \in DOMAIN a.ui_stack, k # Len(a.ui_stack) PROVE a.ui_stack[k].fl = FALSE
  <2>1. k \in 1..Len(r.ui_stack)
    BY <1>1, <1>2, <1>3
  <2>2. r.mode = "d"
    BY <1>1, <2>1 DEF Levels
  <2>3. CASE k = 1
    <3>1. a.ui_stack[k] = st
      BY <1>1, <2>3
    <3>2. st.fl \in BOOLEAN
      BY DEF Level
    <3> QED
      BY <2>2, <3>1, <3>2
  <2>4. CASE k # 1
    <3>1. a.ui_stack[k] = r.ui_stack[k - 1] /\ k - 1 \in DOMAIN r.ui_stack
      BY <1>1, <2>1, <2>4
    <3>2. k - 1 # Len(r.ui_stack)
      BY <1>1, <1>2, <1>3, <2>1
    <3> QED
      BY <3>1, <3>2 DEF Levels
  <2> QED
    BY <2>3, <2>4
<1> QED
  BY <1>3 DEF Levels

LEMMA EnterDir ==
  ASSUME s \in Globals, NEW r \in Globals, Columns(r), NEW name, NEW rnam, NEW lzip, NEW rzip,
         Given(r, name, rnam, lzip, rzip), NEW tree
  PROVE  Gone2(enter_dir(r, name, rnam, lzip, rzip, tree), r, New(name, rnam, lzip, rzip))
<1> DEFINE a == enter_dir(r, name, rnam, lzip, rzip, tree)
           new == New(name, rnam, lzip, rzip)
           back == (name = DotDot /\ rnam # NULL) \/ (rnam = DotDot /\ name # NULL)
<1>1. CASE back
  <2>1. a = r
    BY <1>1 DEF enter_dir
  <2> HIDE DEF a
  <2> QED
    BY <2>1 DEF Gone2, a
<1>2. CASE ~back /\ Both(r, name, rnam)
  <2> DEFINE b == EnterBoth(r, name, rnam, lzip, rzip, tree)
  <2>1. a = b
    BY <1>2 DEF enter_dir, Both
  <2>2. name \in Maybe /\ rnam \in Maybe /\ ~(name = NULL /\ rnam = NULL)
        /\ lzip \in BOOLEAN /\ rzip \in BOOLEAN
    BY <1>2, NamesAre DEF Given, Names2, Maybe, Both
  <2>3. Entered(b, r) /\ Deeper(b, r, name, rnam, lzip, rzip, r.mode # "d")
    <3>1. r.mode = "d" \/ (name # NULL /\ rnam # NULL)
      BY <1>2 DEF Both
    <3> QED
      BY <2>2, <3>1, EnterBothIs
  <2> HIDE DEF a, b
  <2>4. b \in Globals /\ b.made = r.made /\ (Columns(r) => Columns(b)) /\ b.mode = "d" /\ ~Local(b)
    BY <2>3 DEF Entered, SameTemps
  <2>5. ASSUME Levels(r) PROVE Levels(b)
    <3>1. CASE name = <<>> /\ rnam = <<>>
      BY <2>3, <2>4, <2>5, <3>1 DEF Deeper, Levels
    <3>2. CASE ~(name = <<>> /\ rnam = <<>>)
      <4>1. PICK st \in Level : b.ui_stack = <<st>> \o r.ui_stack /\ (st.fl = TRUE <=> r.mode # "d")
        BY <2>3, <3>2 DEF Deeper
      <4> QED
        BY <2>4, <2>5, <4>1, LevelsBelow
    <3> QED
      BY <3>1, <3>2
  <2>6. Gone2(b, r, new)
    BY <2>4, <2>5 DEF Gone2
  <2> QED
    BY <2>1, <2>6 DEF a
<1>3. CASE ~back /\ ~Both(r, name, rnam)
  <2> DEFINE b == EnterOne(r, name, rnam, lzip, rzip)
  <2>1. a = b
    BY <1>3 DEF enter_dir, Both
  <2>2. r.mode # "d" /\ (name = NULL \/ rnam = NULL)
    BY <1>3 DEF Both
  <2>3. Elsewhere(b, r, new)
    <3>1. /\ name \in Names2 /\ rnam \in Names2 /\ lzip \in BOOLEAN /\ rzip \in BOOLEAN
          /\ r.mode = "b" => ~(name = NULL /\ rnam = NULL)
          /\ lzip = TRUE => name \in Path
          /\ rzip = TRUE => rnam \in Path
      BY DEF Given
    <3> QED
      BY <2>2, <3>1, EnterOneIs
  <2> HIDE DEF a, b, new
  <2>4. Columns(b) /\ (Levels(r) => Levels(b)) /\ b.made = r.made /\ b \in Globals
    BY <2>2, <2>3 DEF Elsewhere, SameMode, SameStack, Columns, Levels
  <2>5. Gone2(b, r, new)
    BY <2>2, <2>3, <2>4 DEF Gone2
  <2> QED
    BY <2>1, <2>5 DEF a, new
<1> QED
  BY <1>1, <1>2, <1>3

\* Browse mode keeps its list, and diff mode that will go back to file manager
\* mode its two columns.
LEMMA EnterModes ==
  ASSUME s \in Globals, NEW r \in Globals, NEW name, NEW rnam, NEW lzip, NEW rzip,
         Columns(r), Given(r, name, rnam, lzip, rzip), NEW tree, Modes(r),
         r.mode = "b" /\ r.from_fmode = TRUE => ~Both(r, name, rnam)
  PROVE  Modes(enter_dir(r, name, rnam, lzip, rzip, tree))
<1> DEFINE a == enter_dir(r, name, rnam, lzip, rzip, tree)
           back == (name = DotDot /\ rnam # NULL) \/ (rnam = DotDot /\ name # NULL)
<1>1. CASE back
  <2>1. a = r
    BY <1>1 DEF enter_dir
  <2> HIDE DEF a
  <2> QED
    BY <2>1 DEF a
<1>2. CASE ~back /\ Both(r, name, rnam)
  <2> DEFINE b == EnterBoth(r, name, rnam, lzip, rzip, tree)
  <2>1. a = b
    BY <1>2 DEF enter_dir, Both
  <2>2. name \in Maybe /\ rnam \in Maybe /\ ~(name = NULL /\ rnam = NULL)
        /\ lzip \in BOOLEAN /\ rzip \in BOOLEAN
    BY <1>2, NamesAre DEF Given, Names2, Maybe, Both
  <2>3. Entered(b, r)
    <3>1. r.mode = "d" \/ (name # NULL /\ rnam # NULL)
      BY <1>2 DEF Both
    <3> QED
      BY <2>2, <3>1, EnterBothIs
  <2>4. r.mode \in {"b", "f", "d"} /\ r.from_fmode \in BOOLEAN
    BY DEF Globals
  <2> HIDE DEF a, b
  <2>5. Modes(b)
    BY <1>2, <2>3, <2>4 DEF Entered, Modes, Columns
  <2> QED
    BY <2>1, <2>5 DEF a
<1>3. CASE ~back /\ ~Both(r, name, rnam)
  <2> DEFINE b == EnterOne(r, name, rnam, lzip, rzip)
  <2>1. a = b
    BY <1>3 DEF enter_dir, Both
  <2>2. r.mode # "d" /\ (name = NULL \/ rnam = NULL)
    BY <1>3 DEF Both
  <2>3. Elsewhere(b, r, New(name, rnam, lzip, rzip))
    <3>1. /\ name \in Names2 /\ rnam \in Names2 /\ lzip \in BOOLEAN /\ rzip \in BOOLEAN
          /\ r.mode = "b" => ~(name = NULL /\ rnam = NULL)
          /\ lzip = TRUE => name \in Path
          /\ rzip = TRUE => rnam \in Path
      BY DEF Given
    <3> QED
      BY <2>2, <3>1, EnterOneIs
  <2> HIDE DEF a, b
  <2>4. Modes(b)
    BY <2>2, <2>3 DEF Elsewhere, SameMode, Modes
  <2> QED
    BY <2>1, <2>4 DEF a
<1> QED
  BY <1>1, <1>2, <1>3

\* What was unpacked belongs to the level, or to the list of entered archives.
LEMMA EnterOwned ==
  ASSUME s \in Globals, NEW r \in Globals, NEW name, NEW rnam, NEW lzip, NEW rzip,
         Columns(r), Given(r, name, rnam, lzip, rzip), NEW tree, Active(r),
         Owned(r, New(name, rnam, lzip, rzip)), lzip = TRUE /\ rzip = TRUE => name # rnam,
         lzip = TRUE => name # <<>>, rzip = TRUE => rnam # <<>>,
         lzip = TRUE \/ rzip = TRUE => name # DotDot /\ rnam # DotDot
  PROVE  Owned(enter_dir(r, name, rnam, lzip, rzip, tree), {})
<1> DEFINE a == enter_dir(r, name, rnam, lzip, rzip, tree)
           new == New(name, rnam, lzip, rzip)
           back == (name = DotDot /\ rnam # NULL) \/ (rnam = DotDot /\ name # NULL)
<1>1. CASE back
  <2>1. a = r
    BY <1>1 DEF enter_dir
  <2>2. new = {}
    BY <1>1 DEF New, Given
  <2> HIDE DEF a, new
  <2> QED
    BY <2>1, <2>2 DEF a, new
<1>2. CASE ~back /\ Both(r, name, rnam)
  <2> DEFINE b == EnterBoth(r, name, rnam, lzip, rzip, tree)
  <2>1. a = b
    BY <1>2 DEF enter_dir, Both
  <2>2. name \in Maybe /\ rnam \in Maybe /\ ~(name = NULL /\ rnam = NULL)
        /\ lzip \in BOOLEAN /\ rzip \in BOOLEAN
    BY <1>2, NamesAre DEF Given, Names2, Maybe, Both
  <2>3. Entered(b, r) /\ Deeper(b, r, name, rnam, lzip, rzip, r.mode # "d")
    <3>1. r.mode = "d" \/ (name # NULL /\ rnam # NULL)
      BY <1>2 DEF Both
    <3> QED
      BY <2>2, <3>1, EnterBothIs
  <2> HIDE DEF a, b, new
  <2>4. b \in Globals /\ SameTemps(b, r) /\ SameSlips(b, r)
    BY <2>3 DEF Entered
  <2>5. CASE name = <<>> /\ rnam = <<>>
    <3>1. SameOwners(b, r)
      BY <2>3, <2>4, <2>5 DEF Deeper, SameOwners, SameStack
    <3>2. new = {}
      BY <2>2, <2>5 DEF new, New
    <3>3. Keeps(b, r)
      BY <2>4, <3>1, SameKeeps
    <3>4. Owned(b, {})
      <4>1. {} \in SUBSET Path
        OBVIOUS
      <4>2. Owned(r, {})
        BY <3>2 DEF new
      <4> QED
        BY <3>3, <4>1, <4>2 DEF Keeps
    <3> QED
      BY <2>1, <3>4 DEF a
  <2>6. CASE ~(name = <<>> /\ rnam = <<>>)
    <3>1. PICK st \in Level : /\ b.ui_stack = <<st>> \o r.ui_stack
                              /\ st.lzip = (IF lzip THEN name ELSE NULL)
                              /\ st.rzip = (IF rzip THEN rnam ELSE NULL)
      BY <2>3, <2>6 DEF Deeper
    <3>2. lzip = TRUE => name # NULL
      BY NamesAre DEF Given
    <3>3. rzip = TRUE => rnam # NULL
      BY NamesAre DEF Given
    <3>4. Zips(st) = new /\ (st.lzip # NULL => st.lzip # st.rzip)
      BY <2>2, <3>1, <3>2, <3>3 DEF Zips, new, New
    <3>5. Owned(r, Zips(st))
      BY <3>4 DEF new
    <3>6. Owned(b, {})
      BY <2>4, <3>1, <3>4, <3>5, PushOwns
    <3> QED
      BY <2>1, <3>6 DEF a
  <2> QED
    BY <2>5, <2>6
<1>3. CASE ~back /\ ~Both(r, name, rnam)
  <2> DEFINE b == EnterOne(r, name, rnam, lzip, rzip)
  <2>1. a = b
    BY <1>3 DEF enter_dir, Both
  <2>2. r.mode # "d" /\ (name = NULL \/ rnam = NULL)
    BY <1>3 DEF Both
  <2>3. Elsewhere(b, r, new)
    <3>1. /\ name \in Names2 /\ rnam \in Names2 /\ lzip \in BOOLEAN /\ rzip \in BOOLEAN
          /\ r.mode = "b" => ~(name = NULL /\ rnam = NULL)
          /\ lzip = TRUE => name \in Path
          /\ rzip = TRUE => rnam \in Path
      BY DEF Given
    <3> QED
      BY <2>2, <3>1, EnterOneIs
  <2> HIDE DEF a, b, new
  <2>4. Owned(b, {})
    BY <2>3 DEF Elsewhere, new
  <2> QED
    BY <2>1, <2>4 DEF a
<1> QED
  BY <1>1, <1>2, <1>3

-----------------------------------------------------------------------------
(* action().                                                               *)
Zips1(t, i) == IF t[i] = "zip" THEN 1 ELSE 0

LEMMA ZippedIs ==
  ASSUME NEW t \in [1..2 -> Kinds]
  PROVE  Zipped(t) = Zips1(t, 1) + Zips1(t, 2) /\ Zipped(t) \in 0..2
<1> DEFINE S == {i \in 1..2 : t[i] = "zip"}
<1>1. Zipped(t) = Cardinality(S)
  BY DEF Zipped
<1>2. IsFiniteSet({}) /\ Cardinality({}) = 0
  BY FS_EmptySet
<1>3. IsFiniteSet({1}) /\ Cardinality({1}) = 1 /\ IsFiniteSet({2}) /\ Cardinality({2}) = 1
  BY FS_Singleton
<1>4. Cardinality({1} \cup {2}) = 2
  <2>1. Cardinality({1} \cup {2}) = Cardinality({1}) + 1
    BY <1>3, FS_AddElement
  <2> QED
    BY <1>3, <2>1
<1>5. CASE t[1] = "zip" /\ t[2] = "zip"
  <2>1. S = {1} \cup {2}
    BY <1>5
  <2> QED
    BY <1>1, <1>4, <1>5, <2>1 DEF Zips1
<1>6. CASE t[1] = "zip" /\ t[2] # "zip"
  <2>1. S = {1}
    BY <1>6
  <2> QED
    BY <1>1, <1>3, <1>6, <2>1 DEF Zips1
<1>7. CASE t[1] # "zip" /\ t[2] = "zip"
  <2>1. S = {2}
    BY <1>7
  <2> QED
    BY <1>1, <1>3, <1>7, <2>1 DEF Zips1
<1>8. CASE t[1] # "zip" /\ t[2] # "zip"
  <2>1. S = {}
    BY <1>8
  <2> QED
    BY <1>1, <1>2, <1>8, <2>1 DEF Zips1
<1> QED
  BY <1>5, <1>6, <1>7, <1>8

\* The globals but for the temporary directories that were made
MadeOnly(q, r) ==
  /\ q \in Globals /\ SameMode(q, r) /\ SamePaths(q, r) /\ SameStack(q, r) /\ SameMark(q, r)
  /\ SameSlips(q, r) /\ q.uz_path_db = r.uz_path_db /\ r.tmps \subseteq q.tmps
Unpacked(q, g, r, f, i) ==
  /\ MadeOnly(q, r) /\ q.made = r.made + Zips1(f.t, i)
  /\ f.t[i] # "zip" => q = r /\ g = f
  /\ f.t[i] = "zip" => /\ g.t = [k \in 1..2 |-> IF k = i THEN "dir" ELSE "none"]
                       /\ g.z = TRUE /\ g.name = Fresh(r) /\ Fresh(r) \in Path
                       /\ q.tmps = r.tmps \cup {TempName[r.made + 1]}

LEMMA UnpackIs ==
  ASSUME NEW r \in Globals, NEW f, NEW i \in 1..2, f.t[i] = "zip" => r.made < Len(TempName)
  PROVE  Unpacked(unpack(r, f, i).r, unpack(r, f, i).f, r, f, i)
<1> DEFINE q == unpack(r, f, i).r
           g == unpack(r, f, i).f
<1>1. CASE f.t[i] # "zip"
  <2>1. q = r /\ g = f
    BY <1>1 DEF unpack
  <2> HIDE DEF q, g
  <2>2. MadeOnly(q, r)
    BY <2>1 DEF MadeOnly, SameMode, SamePaths, SameStack, SameMark, SameSlips
  <2>3. q.made = r.made + Zips1(f.t, i)
    BY <1>1, <2>1 DEF Zips1, Globals
  <2>4. Unpacked(q, g, r, f, i)
    BY <1>1, <2>1, <2>2, <2>3 DEF Unpacked
  <2> QED
    BY <2>4 DEF q, g
<1>2. CASE f.t[i] = "zip"
  <2> DEFINE h == Entry([k \in 1..2 |-> IF k = i THEN "dir" ELSE "none"], Fresh(r), TRUE)
  <2>1. q = mktmpdirs(r) /\ g = h
    BY <1>2 DEF unpack
  <2>2. /\ h.t = [k \in 1..2 |-> IF k = i THEN "dir" ELSE "none"]
        /\ h.name = Fresh(r) /\ h.z = TRUE
    BY DEF Entry
  <2> HIDE DEF q, g, h
  <2>3. /\ q \in Globals /\ SameMode(q, r) /\ SamePaths(q, r) /\ SameStack(q, r)
        /\ SameMark(q, r) /\ SameSlips(q, r) /\ q.uz_path_db = r.uz_path_db
        /\ q.made = r.made + 1 /\ q.tmps = r.tmps \cup {TempName[r.made + 1]}
        /\ Fresh(r) \in Path /\ TempName[r.made + 1] \in Temps
    BY <1>2, <2>1, MkTmp
  <2>4. MadeOnly(q, r)
    BY <2>3 DEF MadeOnly
  <2>5. q.made = r.made + Zips1(f.t, i)
    BY <1>2, <2>3 DEF Zips1
  <2>6. Unpacked(q, g, r, f, i)
    BY <1>2, <2>1, <2>2, <2>3, <2>4, <2>5 DEF Unpacked
  <2> QED
    BY <2>6 DEF q, g
<1> QED
  BY <1>1, <1>2

\* A directory that was just made is new.
LEMMA FreshOwned ==
  ASSUME NEW r \in Globals, r.made < Len(TempName), NEW new, Owned(r, new),
         NEW q, MadeOnly(q, r), q.made = r.made + 1, q.tmps = r.tmps \cup {TempName[r.made + 1]}
  PROVE  Owned(q, new \cup {Fresh(r)}) /\ Fresh(r) \notin new
<1> DEFINE t == TempName[r.made + 1]
<1>0. r.made \in Nat /\ r.made + 1 \in DOMAIN TempName /\ TempName \in Seq(Temps) /\ Len(TempName) \in Nat
  BY UiStackAssumption DEF Globals
<1>1. t \notin r.tmps
  <2>1. SUFFICES ASSUME t \in r.tmps PROVE FALSE
    OBVIOUS
  <2>2. PICK i \in 1..r.made : t = TempName[i]
    BY <2>1 DEF Owned
  <2>3. i \in DOMAIN TempName /\ i # r.made + 1
    BY <1>0
  <2> QED
    BY <1>0, <2>2, <2>3, UiStackAssumption
<1>2. Fresh(r) = <<"/", t>>
  BY DEF Fresh
<1> HIDE DEF t
<1>3. Dirs(q.tmps) = Dirs(r.tmps) \cup {Fresh(r)}
  BY <1>2 DEF Dirs, t
<1>4. Fresh(r) \notin Dirs(r.tmps)
  <2>1. SUFFICES ASSUME Fresh(r) \in Dirs(r.tmps) PROVE FALSE
    OBVIOUS
  <2>2. PICK x \in r.tmps : <<"/", t>> = <<"/", x>>
    BY <1>2, <2>1 DEF Dirs
  <2>3. <<"/", t>>[2] = <<"/", x>>[2]
    BY <2>2
  <2>4. t = x
    BY <2>3
  <2> QED
    BY <1>1, <2>4
<1>5. /\ KeysOf(r) \cup ZipsOf(r.ui_stack) \cup new = Dirs(r.tmps)
      /\ KeysOf(r) \cap ZipsOf(r.ui_stack) = {}
      /\ new \cap (KeysOf(r) \cup ZipsOf(r.ui_stack)) = {}
      /\ r.slips = {} /\ Fit(r.ui_stack, r.tmps)
      /\ \A d, e \in r.uz_path_db : d.key = e.key => d = e
      /\ IsFiniteSet(r.uz_path_db)
      /\ r.tmps \subseteq {TempName[i] : i \in 1..r.made}
  BY DEF Owned
<1>6. KeysOf(q) = KeysOf(r) /\ q.ui_stack = r.ui_stack /\ q.slips = {} /\ q.uz_path_db = r.uz_path_db
  BY <1>5 DEF KeysOf, MadeOnly, SameStack, SameSlips
<1>7. /\ KeysOf(q) \cup ZipsOf(q.ui_stack) \cup (new \cup {Fresh(r)}) = Dirs(q.tmps)
      /\ (new \cup {Fresh(r)}) \cap (KeysOf(q) \cup ZipsOf(q.ui_stack)) = {}
      /\ KeysOf(q) \cap ZipsOf(q.ui_stack) = {}
      /\ Fresh(r) \notin new
  BY <1>3, <1>4, <1>5, <1>6
<1>8. Fit(q.ui_stack, q.tmps)
  <2>1. Dirs(r.tmps) \subseteq Dirs(q.tmps)
    BY <1>3
  <2> QED
    BY <1>5, <1>6, <2>1 DEF Fit
<1>9. q.tmps \subseteq {TempName[i] : i \in 1..q.made}
  <2>1. ASSUME NEW x \in q.tmps PROVE x \in {TempName[i] : i \in 1..q.made}
    <3>1. CASE x \in r.tmps
      <4>1. PICK i \in 1..r.made : x = TempName[i]
        BY <1>5, <3>1
      <4>2. i \in 1..q.made
        BY <1>0
      <4> QED
        BY <4>1, <4>2
    <3>2. CASE x = TempName[r.made + 1]
      <4>1. r.made + 1 \in 1..q.made
        BY <1>0
      <4> QED
        BY <3>2, <4>1
    <3> QED
      BY <3>1, <3>2
  <2> QED
    BY <2>1
<1> QED
  BY <1>5, <1>6, <1>7, <1>8, <1>9 DEF Owned

\* Two entries are unpacked, one after the other.
Opened(e, i) ==
  /\ e.t = [k \in 1..2 |-> IF k = i THEN "dir" ELSE "none"] /\ e.z = TRUE
  /\ e.name \in Path /\ e.name # <<>> /\ e.name # DotDot
Pair(q, f1, g1, r, f, g, i, j) ==
  /\ MadeOnly(q, r) /\ q.made = r.made + Zips1(f.t, i) + Zips1(g.t, j)
  /\ IF f.t[i] = "zip" THEN Opened(f1, i) ELSE f1 = f
  /\ IF g.t[j] = "zip" THEN Opened(g1, j) ELSE g1 = g
  /\ f.t[i] # "zip" /\ g.t[j] # "zip" => q = r
  /\ Owned(r, {}) => /\ Owned(q, New(f1.name, g1.name, f1.z, g1.z))
                     /\ f1.z = TRUE /\ g1.z = TRUE => f1.name # g1.name

LEMMA MadeOn ==
  ASSUME NEW r, NEW p, NEW q, MadeOnly(p, r), MadeOnly(q, p)
  PROVE  MadeOnly(q, r)
BY DEF MadeOnly, SameMode, SamePaths, SameStack, SameMark, SameSlips

LEMMA FreshIs ==
  ASSUME NEW r
  PROVE  Fresh(r) # <<>> /\ Fresh(r) # DotDot
BY DEF Fresh, DotDot

LEMMA UnpackTwo ==
  ASSUME NEW r \in Globals, NEW f, NEW g, NEW i \in 1..2, NEW j \in 1..2,
         f.z = FALSE, g.z = FALSE, r.made + Zips1(f.t, i) + Zips1(g.t, j) <= Len(TempName)
  PROVE  LET u1 == unpack(r, f, i)
             u2 == unpack(u1.r, g, j)
         IN  Pair(u2.r, u1.f, u2.f, r, f, g, i, j)
<1> DEFINE u1 == unpack(r, f, i)
           u2 == unpack(u1.r, g, j)
           p  == u1.r
           f1 == u1.f
           q  == u2.r
           g1 == u2.f
           new == New(f1.name, g1.name, f1.z, g1.z)
<1>0. Len(TempName) \in Nat /\ r.made \in Nat /\ Zips1(f.t, i) \in 0..1 /\ Zips1(g.t, j) \in 0..1
  BY UiStackAssumption DEF Zips1, Globals
<1>1. Unpacked(p, f1, r, f, i)
  <2>1. f.t[i] = "zip" => r.made < Len(TempName)
    BY <1>0 DEF Zips1
  <2> QED
    BY <2>1, UnpackIs
<1>2. Unpacked(q, g1, p, g, j)
  <2>1. p \in Globals /\ p.made = r.made + Zips1(f.t, i)
    BY <1>1 DEF Unpacked, MadeOnly
  <2>2. g.t[j] = "zip" => p.made < Len(TempName)
    BY <1>0, <2>1 DEF Zips1
  <2> HIDE DEF p
  <2>3. Unpacked(unpack(p, g, j).r, unpack(p, g, j).f, p, g, j)
    BY <2>1, <2>2, UnpackIs
  <2> QED
    BY <2>3 DEF p
<1> HIDE DEF p, q, f1, g1
<1>3. MadeOnly(q, r) /\ q.made = r.made + Zips1(f.t, i) + Zips1(g.t, j)
  BY <1>0, <1>1, <1>2, MadeOn DEF Unpacked
<1>4. /\ IF f.t[i] = "zip" THEN Opened(f1, i) ELSE f1 = f
      /\ IF g.t[j] = "zip" THEN Opened(g1, j) ELSE g1 = g
      /\ f.t[i] # "zip" /\ g.t[j] # "zip" => q = r
  BY <1>1, <1>2, FreshIs DEF Unpacked, Opened
<1>5. ASSUME Owned(r, {})
      PROVE  Owned(q, new) /\ (f1.z = TRUE /\ g1.z = TRUE => f1.name # g1.name)
  <2> DEFINE n1 == IF f1.z = TRUE THEN {f1.name} ELSE {}
             n2 == IF g1.z = TRUE THEN {g1.name} ELSE {}
  <2>1. p \in Globals /\ Owned(p, n1)
    <3>1. CASE f.t[i] = "zip"
      <4>1. /\ MadeOnly(p, r) /\ p.made = r.made + 1 /\ p.tmps = r.tmps \cup {TempName[r.made + 1]}
            /\ f1.z = TRUE /\ f1.name = Fresh(r) /\ r.made < Len(TempName)
        BY <1>0, <1>1, <3>1 DEF Unpacked, Zips1
      <4>2. Owned(p, {} \cup {Fresh(r)})
        BY <1>5, <4>1, FreshOwned
      <4>3. {} \cup {Fresh(r)} = n1
        BY <4>1
      <4>4. p \in Globals
        BY <4>1 DEF MadeOnly
      <4> HIDE DEF n1
      <4> QED
        BY <4>2, <4>3, <4>4
    <3>2. CASE f.t[i] # "zip"
      <4>1. p = r /\ n1 = {}
        BY <1>1, <3>2 DEF Unpacked
      <4> HIDE DEF n1
      <4> QED
        BY <1>5, <4>1
    <3> QED
      BY <3>1, <3>2
  <2>2. new = n1 \cup n2
    BY DEF New
  <2>3. CASE g.t[j] = "zip"
    <3>1. /\ MadeOnly(q, p) /\ q.made = p.made + 1 /\ q.tmps = p.tmps \cup {TempName[p.made + 1]}
          /\ g1.z = TRUE /\ g1.name = Fresh(p)
      BY <1>2, <2>3 DEF Unpacked, Zips1
    <3>2. p.made < Len(TempName)
      BY <1>0, <1>1, <2>3 DEF Unpacked, Zips1
    <3>3. n2 = {Fresh(p)} /\ (f1.z = TRUE => n1 = {f1.name})
      BY <3>1
    <3> HIDE DEF n1, n2, new
    <3>4. Owned(q, n1 \cup {Fresh(p)}) /\ Fresh(p) \notin n1
      BY <2>1, <3>1, <3>2, FreshOwned
    <3> QED
      BY <2>2, <3>1, <3>3, <3>4
  <2>4. CASE g.t[j] # "zip"
    <3>1. q = p /\ n2 = {} /\ g1.z = FALSE
      BY <1>2, <2>4 DEF Unpacked
    <3> HIDE DEF n1, n2, new
    <3> QED
      BY <2>1, <2>2, <3>1
  <2> QED
    BY <2>3, <2>4
<1>6. Pair(q, f1, g1, r, f, g, i, j)
  BY <1>3, <1>4, <1>5 DEF Pair
<1> QED
  BY <1>6 DEF p, q, f1, g1

\* Where action() ends: it has entered something, or has done nothing.
Tidy(name, rnam, lzip, rzip) ==
  /\ lzip = TRUE /\ rzip = TRUE => name # rnam
  /\ lzip = TRUE => name # <<>>
  /\ rzip = TRUE => rnam # <<>>
  /\ lzip = TRUE \/ rzip = TRUE => name # DotDot /\ rnam # DotDot
Call(a, q, own, new, marked) ==
  \E p, name, rnam, lzip, rzip, tree :
    /\ a = enter_dir(p, name, rnam, lzip, rzip, tree)
    /\ ScanOnly(p, q) /\ Given(p, name, rnam, lzip, rzip)
    /\ p.mode = "b" /\ marked = FALSE => ~Both(p, name, rnam)
    /\ own = TRUE => New(name, rnam, lzip, rzip) = new /\ Tidy(name, rnam, lzip, rzip)

LEMMA CallIs ==
  ASSUME s \in Globals, NEW q \in Globals, Columns(q), NEW a, NEW own, NEW new, NEW marked,
         Call(a, q, own, new, marked)
  PROVE  /\ a \in Globals /\ Columns(a) /\ a.made = q.made /\ (Levels(q) => Levels(a))
         /\ Modes(q) /\ (q.mode = "b" /\ q.from_fmode = TRUE => marked = FALSE) => Modes(a)
         /\ own = TRUE /\ Active(q) /\ Owned(q, new) => Owned(a, {})
<1>1. PICK p, name, rnam, lzip, rzip, tree :
        /\ a = enter_dir(p, name, rnam, lzip, rzip, tree)
        /\ ScanOnly(p, q) /\ Given(p, name, rnam, lzip, rzip)
        /\ p.mode = "b" /\ marked = FALSE => ~Both(p, name, rnam)
        /\ own = TRUE => New(name, rnam, lzip, rzip) = new /\ Tidy(name, rnam, lzip, rzip)
  BY DEF Call
<1>2. p \in Globals /\ Columns(p) /\ (Levels(q) => Levels(p)) /\ (Modes(q) => Modes(p))
      /\ p.made = q.made /\ (Active(q) => Active(p)) /\ p.mode = q.mode /\ p.from_fmode = q.from_fmode
  BY <1>1 DEF ScanOnly, Same, SameMode, SamePaths, SameStack, SameTemps, SameMark, Columns, Levels,
              Modes, Active, Local
<1>3. ASSUME NEW x, Owned(q, x) PROVE Owned(p, x)
  BY <1>1, <1>3 DEF ScanOnly, Same, SameStack, SameTemps, SameSlips, Owned, KeysOf
<1>4. Gone2(a, p, New(name, rnam, lzip, rzip))
  BY <1>1, <1>2, EnterDir
<1>5. a \in Globals /\ a.made = p.made /\ Columns(a) /\ (Levels(p) => Levels(a))
  BY <1>2, <1>4 DEF Gone2
<1>6. ASSUME Modes(q), q.mode = "b" /\ q.from_fmode = TRUE => marked = FALSE PROVE Modes(a)
  BY <1>1, <1>2, <1>6, EnterModes
<1>7. ASSUME own = TRUE, Active(q), Owned(q, new) PROVE Owned(a, {})
  <2>1. Owned(p, New(name, rnam, lzip, rzip)) /\ Tidy(name, rnam, lzip, rzip) /\ Active(p)
    BY <1>1, <1>2, <1>3, <1>7
  <2>2. /\ lzip = TRUE /\ rzip = TRUE => name # rnam
        /\ lzip = TRUE => name # <<>>
        /\ rzip = TRUE => rnam # <<>>
        /\ lzip = TRUE \/ rzip = TRUE => name # DotDot /\ rnam # DotDot
    BY <2>1 DEF Tidy
  <2> QED
    BY <1>1, <1>2, <2>1, <2>2, EnterOwned
<1> QED
  BY <1>2, <1>5, <1>6, <1>7

LEMMA CallWith ==
  ASSUME NEW q, NEW own, NEW new, NEW marked, NEW p, NEW name, NEW rnam, NEW lzip, NEW rzip, NEW tree,
         ScanOnly(p, q), Given(p, name, rnam, lzip, rzip),
         p.mode = "b" /\ marked = FALSE => ~Both(p, name, rnam),
         own = TRUE => New(name, rnam, lzip, rzip) = new /\ Tidy(name, rnam, lzip, rzip)
  PROVE  Call(enter_dir(p, name, rnam, lzip, rzip, tree), q, own, new, marked)
BY DEF Call

Done(a, r, own, marked) ==
  \E q, new :
    /\ MadeOnly(q, r) /\ (own = TRUE => Owned(q, new))
    /\ \/ a = q /\ (own = TRUE => new = {})
       \/ a = clr_mark(q) /\ (own = TRUE => new = {})
       \/ a = [q EXCEPT !.slips = @ \cup {"NULL"}] /\ own = FALSE
       \/ Call(a, q, own, new, marked)

\* The scan databases before a call
LEMMA ScanOnlyOf ==
  ASSUME NEW q \in Globals
  PROVE  ScanOnly(q, q) /\ ScanOnly(push_scan_db(q), q) /\ push_scan_db(q).mode = q.mode
<1>1. ScanOnly(q, q)
  BY DEF ScanOnly, Same, SameMode, SamePaths, SameStack, SameTemps, SameMark, SameSlips
<1>2. ScanOnly(push_scan_db(q), q)
  BY ScanDbs
<1>3. push_scan_db(q).mode = q.mode
  BY <1>2 DEF ScanOnly, Same, SameMode
<1> QED
  BY <1>1, <1>2, <1>3

\* What an entry is after it has been unpacked
LEMMA EntryIs ==
  ASSUME NEW t \in [1..2 -> Kinds], NEW f, f.t = t, f.z = FALSE,
         f.name \in Path, f.name # <<>>, f.name # DotDot,
         NEW i \in 1..2, NEW e, IF f.t[i] = "zip" THEN Opened(e, i) ELSE e = f
  PROVE  /\ e.name \in Path /\ e.name # <<>> /\ e.name # DotDot /\ e.z \in BOOLEAN
         /\ e.t[i] \in {"none", "dir"} /\ (e.z = TRUE <=> t[i] = "zip")
         /\ (e.t[i] = "none" <=> t[i] = "none")
<1>1. CASE t[i] = "zip"
  <2>1. Opened(e, i)
    BY <1>1
  <2>2. e.t[i] = "dir" /\ e.z = TRUE /\ e.name \in Path /\ e.name # <<>> /\ e.name # DotDot
    BY <2>1 DEF Opened
  <2> QED
    BY <1>1, <2>2
<1>2. CASE t[i] # "zip"
  <2>1. e = f
    BY <1>2
  <2>2. t[i] \in {"none", "dir"}
    BY <1>2 DEF Kinds
  <2> QED
    BY <1>2, <2>1, <2>2
<1> QED
  BY <1>1, <1>2

LEMMA ActIs ==
  ASSUME NEW r \in Globals, Columns(r), NEW n \in Names, Types(r, n) # <<"none", "none">>,
         r.made + Zipped(Types(r, n)) <= Len(TempName), NEW tree \in 1..3, NEW enter \in BOOLEAN,
         NEW own \in BOOLEAN,
         own = TRUE => Owned(r, {}) /\ (tree = 3 \/ Zipped(Types(r, n)) = 0)
  PROVE  Done(Act(r, n, tree, enter), r, own, FALSE)
<1> DEFINE t  == Types(r, n)
           f  == Entry(t, <<n>>, FALSE)
           i  == 1
           j  == 2
           u1 == unpack(r, f, i)
           u2 == unpack(u1.r, f, j)
           f1 == u1.f
           f2 == u2.f
           q  == u2.r
           lt == f1.t[i]
           rt == f2.t[j]
           act == r.mode = "d" /\ tree = 3 /\ enter
           p  == IF f1.z \/ f2.z THEN push_scan_db(q) ELSE q
           a  == Act(r, n, tree, enter)
           new == New(f1.name, f2.name, f1.z, f2.z)
<1>1. a = IF lt = "none" \/ (act /\ rt = "dir" /\ lt # "dir") \/ tree = 2
          THEN IF rt # "dir" THEN q
               ELSE enter_dir(q, IF act THEN f2.name ELSE NULL, f2.name, FALSE, f2.z, 0)
          ELSE IF rt = "none" \/ (act /\ lt = "dir" /\ rt # "dir") \/ tree = 1
          THEN IF lt # "dir" THEN q
               ELSE enter_dir(q, f1.name, IF act THEN f1.name ELSE NULL, f1.z, FALSE, 0)
          ELSE IF lt # "dir" \/ rt # "dir" THEN q
          ELSE enter_dir(p, f1.name, f2.name, f1.z, f2.z, 0)
  BY DEF Act
<1>2. /\ t \in [1..2 -> Kinds] /\ t # <<"none", "none">> /\ f.t = t /\ f.z = FALSE /\ f.name = <<n>>
      /\ r.mode = "b" => t[2] = "none"
  <2>1. r.mode = "b" => t[2] = "none"
    BY DEF Types
  <2> QED
    BY <2>1, TypesIs DEF Entry
<1> HIDE DEF t, f
<1>3. r.made + Zips1(f.t, 1) + Zips1(f.t, 2) <= Len(TempName)
  <2>1. Zipped(t) = Zips1(t, 1) + Zips1(t, 2) /\ r.made + Zipped(t) <= Len(TempName)
    <3>1. r.made + Zipped(t) <= Len(TempName)
      BY DEF t
    <3> QED
      BY <1>2, <3>1, ZippedIs
  <2>2. r.made \in Nat /\ Zips1(t, 1) \in Nat /\ Zips1(t, 2) \in Nat /\ Len(TempName) \in Nat
    BY UiStackAssumption DEF Globals, Zips1
  <2> QED
    BY <1>2, <2>1, <2>2
<1>19. i \in 1..2 /\ j \in 1..2 /\ i = 1 /\ j = 2
  OBVIOUS
<1> HIDE DEF i, j
<1>4. Pair(q, f1, f2, r, f, f, i, j)
  <2>1. r.made + Zips1(f.t, i) + Zips1(f.t, j) <= Len(TempName)
    BY <1>3, <1>19
  <2> QED
    BY <1>2, <1>19, <2>1, UnpackTwo
<1> HIDE DEF u1, u2, f1, f2, q, a
<1>5. <<n>> \in Path /\ <<n>> # NULL /\ <<n>> # DotDot /\ <<n>> # <<>>
  BY PathsAre
<1>6. /\ f1.name \in Path /\ f1.name # <<>> /\ f1.name # DotDot /\ f1.z \in BOOLEAN
      /\ f2.name \in Path /\ f2.name # <<>> /\ f2.name # DotDot /\ f2.z \in BOOLEAN
      /\ lt \in {"none", "dir"} /\ rt \in {"none", "dir"} /\ ~(lt = "none" /\ rt = "none")
      /\ lt = "none" => f1.z = FALSE
      /\ rt = "none" => f2.z = FALSE
      /\ r.mode = "b" => rt = "none"
  <2>1. IF f.t[i] = "zip" THEN Opened(f1, i) ELSE f1 = f
    BY <1>4 DEF Pair
  <2>2. IF f.t[j] = "zip" THEN Opened(f2, j) ELSE f2 = f
    BY <1>4 DEF Pair
  <2>6. f.name \in Path /\ f.name # <<>> /\ f.name # DotDot
    BY <1>2, <1>5
  <2>3. /\ f1.name \in Path /\ f1.name # <<>> /\ f1.name # DotDot /\ f1.z \in BOOLEAN
        /\ lt \in {"none", "dir"} /\ (f1.z = TRUE <=> t[i] = "zip") /\ (lt = "none" <=> t[i] = "none")
    BY <1>2, <1>19, <2>1, <2>6, EntryIs
  <2>4. /\ f2.name \in Path /\ f2.name # <<>> /\ f2.name # DotDot /\ f2.z \in BOOLEAN
        /\ rt \in {"none", "dir"} /\ (f2.z = TRUE <=> t[j] = "zip") /\ (rt = "none" <=> t[j] = "none")
    BY <1>2, <1>19, <2>2, <2>6, EntryIs
  <2>5. ~(t[1] = "none" /\ t[2] = "none")
    BY <1>2
  <2> QED
    BY <1>2, <1>19, <2>3, <2>4, <2>5
<1>7. own = TRUE /\ tree # 3 => f1.z = FALSE /\ f2.z = FALSE
  <2>1. SUFFICES ASSUME own = TRUE, tree # 3 PROVE f1.z = FALSE /\ f2.z = FALSE
    OBVIOUS
  <2>2. Zips1(t, 1) = 0 /\ Zips1(t, 2) = 0
    <3>1. Zipped(t) = 0
      BY <2>1 DEF t
    <3>2. Zipped(t) = Zips1(t, 1) + Zips1(t, 2)
      BY <1>2, ZippedIs
    <3> QED
      BY <3>1, <3>2 DEF Zips1
  <2> QED
    BY <1>2, <1>4, <1>19, <2>2 DEF Pair, Zips1
<1>8. /\ MadeOnly(q, r) /\ q \in Globals /\ q.mode = r.mode
      /\ own = TRUE => Owned(q, new) /\ (f1.z = TRUE /\ f2.z = TRUE => f1.name # f2.name)
  BY <1>4 DEF Pair, MadeOnly, SameMode
<1>9. /\ ScanOnly(q, q) /\ ScanOnly(p, q) /\ p.mode = q.mode
  BY <1>8, ScanOnlyOf
<1> HIDE DEF lt, rt, p, act
<1>10. ASSUME NEW b, Call(b, q, own, new, FALSE) PROVE Done(b, r, own, FALSE)
  BY <1>8, <1>10 DEF Done
<1>11. CASE lt = "none" \/ tree = 2
  <2>1. CASE rt # "dir"
    <3>1. a = q
      BY <1>1, <1>11, <2>1
    <3>2. own = TRUE => new = {}
      BY <1>6, <1>7, <1>11, <2>1 DEF New
    <3>3. Done(a, r, own, FALSE)
      BY <1>8, <3>1, <3>2 DEF Done
    <3> QED
      BY <3>3 DEF a
  <2>2. CASE rt = "dir"
    <3> DEFINE name == IF act THEN f2.name ELSE NULL
    <3>1. a = enter_dir(q, name, f2.name, FALSE, f2.z, 0)
      BY <1>1, <1>11, <2>2
    <3>2. Given(q, name, f2.name, FALSE, f2.z)
      BY <1>6, NamesAre DEF Given, Names2
    <3>3. q.mode # "b"
      BY <1>6, <1>8, <2>2
    <3>4. own = TRUE => New(name, f2.name, FALSE, f2.z) = new /\ Tidy(name, f2.name, FALSE, f2.z)
      <4>1. own = TRUE => f1.z = FALSE
        BY <1>6, <1>7, <1>11
      <4> QED
        BY <1>6, <4>1, NamesAre DEF New, Tidy
    <3> HIDE DEF name
    <3>5. Call(enter_dir(q, name, f2.name, FALSE, f2.z, 0), q, own, new, FALSE)
      BY <1>9, <3>2, <3>3, <3>4, CallWith
    <3> QED
      BY <1>10, <3>1, <3>5 DEF a
  <2> QED
    BY <2>1, <2>2
<1>12. CASE ~(lt = "none" \/ tree = 2) /\ (rt = "none" \/ tree = 1)
  <2> DEFINE rnam == IF act THEN f1.name ELSE NULL
  <2>1. a = enter_dir(q, f1.name, rnam, f1.z, FALSE, 0)
    BY <1>1, <1>6, <1>12
  <2>2. Given(q, f1.name, rnam, f1.z, FALSE)
    BY <1>6, NamesAre DEF Given, Names2
  <2>3. q.mode = "b" => ~Both(q, f1.name, rnam)
    BY <1>8 DEF Both, act
  <2>4. own = TRUE => New(f1.name, rnam, f1.z, FALSE) = new /\ Tidy(f1.name, rnam, f1.z, FALSE)
    <3>1. own = TRUE => f2.z = FALSE
      BY <1>6, <1>7, <1>12
    <3> QED
      BY <1>6, <3>1, NamesAre DEF New, Tidy
  <2> HIDE DEF rnam
  <2>5. Call(enter_dir(q, f1.name, rnam, f1.z, FALSE, 0), q, own, new, FALSE)
    BY <1>9, <2>2, <2>3, <2>4, CallWith
  <2> QED
    BY <1>10, <2>1, <2>5 DEF a
<1>13. CASE ~(lt = "none" \/ tree = 2) /\ ~(rt = "none" \/ tree = 1)
  <2>1. a = enter_dir(p, f1.name, f2.name, f1.z, f2.z, 0)
    BY <1>1, <1>6, <1>13
  <2>2. Given(p, f1.name, f2.name, f1.z, f2.z)
    BY <1>6, NamesAre DEF Given, Names2
  <2>3. p.mode # "b"
    BY <1>6, <1>8, <1>9, <1>13
  <2>4. own = TRUE => Tidy(f1.name, f2.name, f1.z, f2.z)
    BY <1>6, <1>8 DEF Tidy
  <2>5. own = TRUE => New(f1.name, f2.name, f1.z, f2.z) = new
    OBVIOUS
  <2> HIDE DEF new
  <2>6. Call(enter_dir(p, f1.name, f2.name, f1.z, f2.z, 0), q, own, new, FALSE)
    BY <1>9, <2>2, <2>3, <2>4, <2>5, CallWith
  <2> QED
    BY <1>10, <2>1, <2>6 DEF a
<1> QED
  BY <1>11, <1>12, <1>13

\* The mark is something that is in the list, or in a directory that is there.
Fits(r) ==
  /\ Local(r) /\ r.mode = "b" => /\ r.mark.t[1] # "none" /\ r.mark.t[2] = "none"
                                 /\ Kind(r, r.cwd, r.mark.n) # "none"
  /\ Local(r) /\ r.mode = "f" => \E i \in 0..1 : /\ r.mark.list = i /\ r.mark.t[i + 1] # "none"
                                                 /\ r.mark.t[2 - i] = "none"
                                                 /\ Kind(r, r.syspth[i], r.mark.n) # "none"
  /\ Local(r) /\ r.mode = "d" =>
       \A i \in 0..1 : r.mark.t[i + 1] # "none" => Kind(r, r.syspth[i], r.mark.n) # "none"
  /\ Global(r) /\ r.mode = "b" => /\ r.mark.t[1] # "none" /\ r.mark.t[2] = "none"
                                  /\ r.mark.l # NULL /\ IsDir(r, Front(r.mark.l))

LEMMA NoDotDot == DotDot \notin Path
<1>1. SUFFICES ASSUME DotDot \in Path PROVE FALSE
  OBVIOUS
<1>2. DotDot[1] \in Part
  BY <1>1, NamesAre DEF DotDot
<1>3. ".." \notin Part
  BY UiStackAssumption DEF Part
<1> QED
  BY <1>2, <1>3 DEF DotDot

LEMMA DirsGrow ==
  ASSUME NEW r, NEW q, r.tmps \subseteq q.tmps, NEW p
  PROVE  /\ IsDir(r, p) => IsDir(q, p)
         /\ \A n : Kind(r, p, n) # "none" => Kind(q, p, n) # "none"
<1>1. IsDir(r, p) => IsDir(q, p)
  BY DEF IsDir
<1>2. ASSUME NEW n, Kind(r, p, n) # "none" PROVE Kind(q, p, n) # "none"
  BY <1>1, <1>2 DEF Kind
<1> QED
  BY <1>1, <1>2

\* A directory whose parent is one begins at the root.
LEMMA ParentAbsolute ==
  ASSUME NEW r, NEW p \in Path, IsDir(r, Front(p))
  PROVE  Absolute(p)
<1>1. p \in Seq(Part)
  BY NamesAre
<1>2. Front(p) = SubSeq(p, 1, Len(p) - 1)
  BY DEF Front
<1>3. Front(p) # <<>> /\ Head(Front(p)) = "/"
  BY DEF IsDir, Root
<1>4. Len(p) > 1 /\ Len(p) \in Nat
  BY <1>1, <1>2, <1>3
<1>5. Front(p)[1] = p[1] /\ Head(Front(p)) = Front(p)[1]
  BY <1>1, <1>2, <1>3, <1>4
<1>6. Head(p) = p[1] /\ p # <<>> /\ p # NULL
  BY <1>1, <1>4, NamesAre
<1> QED
  BY <1>3, <1>5, <1>6 DEF Absolute

LEMMA SidesAre ==
  ASSUME NEW r \in Globals, r.mark # NULL, NEW m, NEW f, m.name \in Maybe, f.name \in Path
  PROVE  LET x    == Sides(r, m, f, 3)
             name == IF x.old = 1 THEN x.l ELSE x.r
         IN  /\ x.old \in 1..2
             /\ name # NULL => x.l \in Path /\ x.r \in Path
             /\ Local(r) /\ m.name # NULL => name = m.name
             /\ r.mode = "b" => /\ x.l = (IF m.name = NULL THEN gl_mark(r) ELSE m.name) /\ x.old = 1
                                /\ x.r = f.name /\ x.lt = m.t[1] /\ x.rt = f.t[1]
             /\ r.mode # "b" /\ m.t[1] # "none" /\ f.t[2] # "none" =>
                  /\ x.l = (IF m.name = NULL THEN r.mark.l ELSE m.name) /\ x.old = 1
                  /\ x.r = f.name /\ x.lt = m.t[1] /\ x.rt = f.t[2]
<1> DEFINE x == Sides(r, m, f, 3)
           mark(p) == IF m.name = NULL THEN p ELSE m.name
           side(l, lt, g, rt, tr, old) ==
             [l |-> l, lt |-> lt, r |-> g, rt |-> rt, tree |-> tr, old |-> old]
<1>1. r.mark.l \in Maybe /\ r.mark.r \in Maybe /\ gl_mark(r) \in Maybe /\ f.name # NULL
  BY NamesAre DEF Globals, Mark, gl_mark, Maybe
<1>2. CASE r.mode = "b"
  <2>1. x = side(mark(gl_mark(r)), m.t[1], f.name, f.t[1], 3, 1)
    BY <1>2 DEF Sides
  <2> HIDE DEF x
  <2> QED
    BY <1>1, <1>2, <2>1 DEF x, Maybe
<1>3. CASE r.mode # "b" /\ m.t[1] # "none" /\ f.t[2] # "none"
  <2>1. x = side(mark(r.mark.l), m.t[1], f.name, f.t[2], 3, 1)
    BY <1>3 DEF Sides
  <2> HIDE DEF x
  <2> QED
    BY <1>1, <1>3, <2>1 DEF x, Maybe
<1>4. CASE r.mode # "b" /\ ~(m.t[1] # "none" /\ f.t[2] # "none") /\ f.t[1] # "none" /\ m.t[2] # "none"
  <2>1. x = side(f.name, f.t[1], mark(r.mark.r), m.t[2], 3, 2)
    BY <1>4 DEF Sides, Odd
  <2> HIDE DEF x
  <2> QED
    BY <1>1, <1>4, <2>1 DEF x, Maybe
<1>5. CASE r.mode # "b" /\ ~(m.t[1] # "none" /\ f.t[2] # "none") /\ ~(f.t[1] # "none" /\ m.t[2] # "none")
  <2>1. \E t1, t2, tr : x = side(m.name, t1, f.name, t2, tr, 1)
    BY <1>5 DEF Sides, Odd
  <2> HIDE DEF x
  <2> QED
    BY <1>1, <1>5, <2>1 DEF x, Maybe
<1> QED
  BY <1>2, <1>3, <1>4, <1>5

\* Why nothing is lost when an archive is compared with the mark
Comparable(r, t) ==
  /\ Owned(r, {}) /\ Fits(r) /\ (r.mode = "b" => r.syspth[0] = Dot) /\ (Global(r) => r.mode = "b")
  /\ "zip" \in {r.mark.t[1], r.mark.t[2], t[1], t[2]} =>
       r.mode = "b" \/ (r.mark.t[1] # "none" /\ t[2] # "none")

LEMMA MarkedIs ==
  ASSUME NEW r \in Globals, r.mark # NULL
  PROVE  /\ r.mark \in Mark /\ r.mark.t \in [1..2 -> Kinds] /\ (Local(r) <=> r.mark.n # NULL)
         /\ (Global(r) <=> r.mark.n = NULL)
         /\ Local(r) => /\ r.mark.n \in Names /\ <<r.mark.n>> \in Path /\ <<r.mark.n>> # NULL
                        /\ ~Absolute(<<r.mark.n>>) /\ <<r.mark.n>>[1] = r.mark.n
<1>1. r.mark \in Mark
  BY DEF Globals
<1>2. r.mark.t \in [1..2 -> Kinds] /\ r.mark.n \in Names \cup {NULL}
  BY <1>1 DEF Mark
<1>3. (Local(r) <=> r.mark.n # NULL) /\ (Global(r) <=> r.mark.n = NULL)
  BY DEF Local, Global
<1>4. ASSUME Local(r)
      PROVE  /\ r.mark.n \in Names /\ <<r.mark.n>> \in Path /\ <<r.mark.n>> # NULL
             /\ ~Absolute(<<r.mark.n>>) /\ <<r.mark.n>>[1] = r.mark.n
  <2>1. r.mark.n \in Names
    BY <1>2, <1>3, <1>4
  <2>2. r.mark.n # "/"
    BY <2>1, NamesAre
  <2> QED
    BY <2>1, <2>2, PathsAre DEF Absolute
<1> QED
  BY <1>1, <1>2, <1>3, <1>4

\* The mark is found where it was left.
LEMMA MarkFound ==
  ASSUME NEW r \in Globals, r.mark # NULL, NEW t, Comparable(r, t),
         r.mode = "b" \/ r.mark.t[1] # "none"
  PROVE  /\ Local(r) => Kind(r, Shown(r, 0), r.mark.n) # "none"
         /\ Global(r) => /\ r.mark.l \in Path /\ Absolute(r.mark.l) /\ IsDir(r, Front(r.mark.l))
                         /\ gl_mark(r) = r.mark.l
<1>1. ASSUME Local(r) PROVE Kind(r, Shown(r, 0), r.mark.n) # "none"
  <2>1. CASE r.mode = "b"
    <3>1. Shown(r, 0) = r.cwd
      BY <2>1 DEF Comparable, Shown
    <3> QED
      BY <1>1, <2>1, <3>1 DEF Comparable, Fits
  <2>2. CASE r.mode # "b"
    <3>1. Kind(r, r.syspth[0], r.mark.n) # "none"
      <4>1. CASE r.mode = "f"
        <5>1. PICK i \in 0..1 : r.mark.t[2 - i] = "none" /\ Kind(r, r.syspth[i], r.mark.n) # "none"
          BY <1>1, <4>1 DEF Comparable, Fits
        <5>2. i = 0
          BY <2>2, <5>1
        <5> QED
          BY <5>1, <5>2
      <4>2. CASE r.mode = "d"
        <5>1. \A i \in 0..1 : r.mark.t[i + 1] # "none" => Kind(r, r.syspth[i], r.mark.n) # "none"
          BY <1>1, <4>2 DEF Comparable, Fits
        <5>2. r.mark.t[0 + 1] # "none"
          BY <2>2
        <5> QED
          BY <5>1, <5>2
      <4>3. r.mode \in {"b", "f", "d"}
        BY DEF Globals
      <4> QED
        BY <2>2, <4>1, <4>2, <4>3
    <3>2. r.syspth[0] # Dot
      <4>1. Len(Dot) = 1
        BY DEF Dot
      <4>2. Kind(r, Dot, r.mark.n) = "none"
        BY <4>1 DEF Kind
      <4> QED
        BY <3>1, <4>2
    <3> QED
      BY <3>1, <3>2 DEF Shown
  <2> QED
    BY <2>1, <2>2
<1>2. ASSUME Global(r)
      PROVE  /\ r.mark.l \in Path /\ Absolute(r.mark.l) /\ IsDir(r, Front(r.mark.l))
             /\ gl_mark(r) = r.mark.l
  <2>1. r.mark.l # NULL /\ IsDir(r, Front(r.mark.l))
    BY <1>2 DEF Comparable, Fits
  <2>2. r.mark.l \in Path
    BY <2>1, MarkedIs DEF Mark, Maybe
  <2> QED
    BY <2>1, <2>2, ParentAbsolute DEF gl_mark
<1> QED
  BY <1>1, <1>2

LEMMA ActMarkedIs ==
  ASSUME NEW r \in Globals, Columns(r), r.mark # NULL, NEW n \in Names,
         Types(r, n) # <<"none", "none">>,
         r.made + Zipped(Types(r, n)) + Zipped(r.mark.t) <= Len(TempName), NEW own \in BOOLEAN,
         own = TRUE => Comparable(r, Types(r, n))
  PROVE  Done(ActMarked(r, n, 3), r, own, TRUE)
<1> DEFINE t  == Types(r, n)
           f0 == Entry(t, <<n>>, FALSE)
           mt == r.mark.t
           ml == Entry(mt, IF r.mark.n = NULL THEN NULL ELSE <<r.mark.n>>, FALSE)
           i  == IF mt[1] # "none" /\ (f0.t[2] # "none" \/ mt[2] = "none") THEN 1 ELSE 2
           j  == IF f0.t[2] # "none" THEN 2 ELSE 1
           u1 == unpack(r, ml, i)
           u2 == unpack(u1.r, f0, j)
           m  == u1.f
           f  == u2.f
           q  == u2.r
           x  == Sides(r, m, f, 3)
           name == IF x.old = 1 THEN x.l ELSE x.r
           missing == ~Absolute(name) /\ name # NULL /\ ~m.z
                      /\ Kind(r, Shown(r, x.old - 1), name[1]) = "none"
           lost == Absolute(name) /\ ~m.z /\ ~IsDir(q, SubSeq(name, 1, Len(name) - 1))
           p   == push_scan_db(q)
           a   == ActMarked(r, n, 3)
           new == New(m.name, f.name, m.z, f.z)
<1>1. a = IF name = NULL THEN [q EXCEPT !.slips = @ \cup {"NULL"}]
          ELSE IF missing \/ lost THEN clr_mark(q)
          ELSE IF x.lt # "dir" /\ x.rt # "dir" THEN q
          ELSE IF x.lt # "dir" THEN enter_dir(q, NULL, x.r, FALSE, f.z, x.tree)
          ELSE IF x.rt # "dir" THEN enter_dir(q, x.l, NULL, m.z, FALSE, x.tree)
          ELSE enter_dir(p, x.l, x.r, m.z, f.z, x.tree)
  BY DEF ActMarked
<1> HIDE DEF a
<1>2. /\ t \in [1..2 -> Kinds] /\ t # <<"none", "none">> /\ f0.t = t /\ f0.z = FALSE /\ f0.name = <<n>>
      /\ ml.t = mt /\ ml.z = FALSE /\ ml.name = (IF r.mark.n = NULL THEN NULL ELSE <<r.mark.n>>)
      /\ mt \in [1..2 -> Kinds] /\ i \in 1..2 /\ j \in 1..2
      /\ r.mode = "b" => t[2] = "none"
  <2>1. r.mode = "b" => t[2] = "none"
    BY DEF Types
  <2>2. t \in [1..2 -> Kinds] /\ t # <<"none", "none">>
    BY TypesIs
  <2>3. mt \in [1..2 -> Kinds]
    BY MarkedIs
  <2> HIDE DEF t, mt
  <2>4. f0.t = t /\ f0.z = FALSE /\ f0.name = <<n>>
    BY DEF Entry
  <2>5. ml.t = mt /\ ml.z = FALSE /\ ml.name = (IF r.mark.n = NULL THEN NULL ELSE <<r.mark.n>>)
    BY DEF Entry
  <2> HIDE DEF f0, ml
  <2> QED
    BY <2>1, <2>2, <2>3, <2>4, <2>5
<1>3. own = TRUE => Comparable(r, t)
  OBVIOUS
<1>4. r.made + Zips1(mt, i) + Zips1(t, j) <= Len(TempName)
  <2>1. /\ Zipped(t) = Zips1(t, 1) + Zips1(t, 2) /\ Zipped(mt) = Zips1(mt, 1) + Zips1(mt, 2)
        /\ r.made + Zipped(t) + Zipped(mt) <= Len(TempName)
    <3>1. r.made + Zipped(t) + Zipped(mt) <= Len(TempName)
      OBVIOUS
    <3> HIDE DEF t, mt
    <3> QED
      BY <1>2, <3>1, ZippedIs
  <2>2. /\ r.made \in Nat /\ Zips1(t, 1) \in Nat /\ Zips1(t, 2) \in Nat /\ Len(TempName) \in Nat
        /\ Zips1(mt, 1) \in Nat /\ Zips1(mt, 2) \in Nat
    BY UiStackAssumption DEF Globals, Zips1
  <2> HIDE DEF t, mt, i, j
  <2>3. Zips1(mt, i) <= Zips1(mt, 1) + Zips1(mt, 2) /\ Zips1(mt, i) \in Nat
    BY <1>2, <2>2
  <2>4. Zips1(t, j) <= Zips1(t, 1) + Zips1(t, 2) /\ Zips1(t, j) \in Nat
    BY <1>2, <2>2
  <2> QED
    BY <2>1, <2>2, <2>3, <2>4
<1>5. i = (IF mt[1] # "none" /\ (t[2] # "none" \/ mt[2] = "none") THEN 1 ELSE 2)
      /\ j = (IF t[2] # "none" THEN 2 ELSE 1)
  BY <1>2
<1> HIDE DEF t, f0, ml, i, j, mt
<1>6. Pair(q, m, f, r, ml, f0, i, j)
  BY <1>2, <1>4, UnpackTwo
<1> HIDE DEF u1, u2, m, f, q
<1>7. /\ IF mt[i] = "zip" THEN Opened(m, i) ELSE m = ml
      /\ IF t[j] = "zip" THEN Opened(f, j) ELSE f = f0
  BY <1>2, <1>6 DEF Pair
<1>8. <<n>> \in Path /\ <<n>> # <<>>
  BY PathsAre
<1>9. /\ m.name \in Maybe /\ m.z \in BOOLEAN /\ (m.z = TRUE => m.name \in Path /\ m.name # <<>>)
      /\ Local(r) => m.name # NULL
      /\ m.z = TRUE <=> mt[i] = "zip"
  <2>1. CASE mt[i] = "zip"
    BY <1>7, <2>1, NamesAre DEF Opened, Maybe
  <2>2. CASE mt[i] # "zip"
    BY <1>2, <1>7, <2>2, MarkedIs DEF Maybe
  <2> QED
    BY <2>1, <2>2
<1>10. /\ f.name \in Path /\ f.z \in BOOLEAN /\ f.name # <<>>
       /\ f.z = TRUE <=> t[j] = "zip"
  <2>1. CASE t[j] = "zip"
    BY <1>7, <2>1 DEF Opened
  <2>2. CASE t[j] # "zip"
    BY <1>2, <1>7, <1>8, <2>2
  <2> QED
    BY <2>1, <2>2
<1>11. /\ x.old \in 1..2
       /\ name # NULL => x.l \in Path /\ x.r \in Path
       /\ Local(r) /\ m.name # NULL => name = m.name
       /\ r.mode = "b" => /\ x.l = (IF m.name = NULL THEN gl_mark(r) ELSE m.name) /\ x.old = 1
                          /\ x.r = f.name /\ x.lt = m.t[1] /\ x.rt = f.t[1]
       /\ r.mode # "b" /\ m.t[1] # "none" /\ f.t[2] # "none" =>
            /\ x.l = (IF m.name = NULL THEN r.mark.l ELSE m.name) /\ x.old = 1
            /\ x.r = f.name /\ x.lt = m.t[1] /\ x.rt = f.t[2]
  BY <1>9, <1>10, SidesAre
<1>12. /\ MadeOnly(q, r) /\ q \in Globals /\ q.mode = r.mode /\ r.tmps \subseteq q.tmps
       /\ own = TRUE => Owned(q, new) /\ (m.z = TRUE /\ f.z = TRUE => m.name # f.name)
  BY <1>3, <1>6 DEF Pair, MadeOnly, SameMode, Comparable
<1>13. ScanOnly(q, q) /\ ScanOnly(p, q) /\ p.mode = q.mode
  BY <1>12, ScanOnlyOf
<1>14. ASSUME NEW b, Call(b, q, own, new, TRUE) PROVE Done(b, r, own, TRUE)
  BY <1>12, <1>14 DEF Done
<1>15. ASSUME m.z = FALSE, f.z = FALSE PROVE new = {}
  BY <1>15 DEF New
\* Without an archive there is nothing to be lost.
<1>16. ASSUME own = TRUE PROVE name # NULL
  <2>1. CASE Local(r)
    BY <1>9, <1>11, <2>1
  <2>2. CASE ~Local(r)
    <3>1. Global(r) /\ r.mode = "b"
      BY <1>3, <1>16, <2>2, MarkedIs DEF Comparable
    <3>2. gl_mark(r) # NULL
      <4>1. gl_mark(r) = r.mark.l /\ r.mark.l \in Path
        BY <1>3, <1>16, <3>1, MarkFound
      <4> QED
        BY <4>1, NamesAre
    <3> QED
      BY <1>11, <3>1, <3>2
  <2> QED
    BY <2>1, <2>2
\* With one, both are directories, and neither is missing.
<1>17. ASSUME own = TRUE, m.z = TRUE \/ f.z = TRUE
       PROVE  /\ x.lt = "dir" /\ x.rt = "dir" /\ ~missing /\ ~lost
              /\ x.r = f.name /\ (m.z = TRUE => x.l = m.name)
  <2>1. "zip" \in {mt[1], mt[2], t[1], t[2]}
    BY <1>2, <1>9, <1>10, <1>17
  <2>2. r.mode = "b" \/ (mt[1] # "none" /\ t[2] # "none")
    BY <1>3, <1>17, <2>1 DEF Comparable, mt
  <2>3. mt[1] # "none" /\ i = 1 /\ j = (IF r.mode = "b" THEN 1 ELSE 2) /\ t[j] # "none"
    <3>1. CASE r.mode = "b"
      <4>1. mt[1] # "none" /\ mt[2] = "none"
        BY <1>3, <1>17, <3>1, MarkedIs DEF Comparable, Fits, mt
      <4>2. t[2] = "none" /\ t[1] # "none"
        BY <1>2, <3>1
      <4> QED
        BY <1>5, <3>1, <4>1, <4>2
    <3>2. CASE r.mode # "b"
      BY <1>5, <2>2, <3>2
    <3> QED
      BY <3>1, <3>2
  <2>4. m.t[1] = "dir"
    <3>1. CASE mt[1] = "zip"
      BY <1>7, <2>3, <3>1 DEF Opened
    <3>2. CASE mt[1] # "zip"
      BY <1>2, <1>7, <2>3, <3>2 DEF Kinds
    <3> QED
      BY <3>1, <3>2
  <2>5. f.t[j] = "dir"
    <3>1. CASE t[j] = "zip"
      BY <1>2, <1>7, <3>1 DEF Opened
    <3>2. CASE t[j] # "zip"
      BY <1>2, <1>7, <2>3, <3>2 DEF Kinds
    <3> QED
      BY <3>1, <3>2
  <2>6. /\ x.lt = "dir" /\ x.rt = "dir" /\ x.r = f.name /\ x.old = 1 /\ name = x.l
        /\ m.name # NULL => x.l = m.name
        /\ m.name = NULL => x.l = r.mark.l
    <3>1. CASE r.mode = "b"
      <4>1. ASSUME m.name = NULL PROVE gl_mark(r) = r.mark.l
        <5>1. Global(r)
          BY <1>9, <4>1, MarkedIs
        <5> QED
          BY <1>3, <1>17, <3>1, <5>1, MarkFound
      <4> QED
        BY <1>11, <2>3, <2>4, <2>5, <3>1, <4>1
    <3>2. CASE r.mode # "b"
      BY <1>11, <2>3, <2>4, <2>5, <3>2
    <3> QED
      BY <3>1, <3>2
  <2>7. m.z = TRUE => m.name # NULL
    BY <1>9, NamesAre
  <2>8. ASSUME m.z = FALSE PROVE ~missing /\ ~lost
    <3>1. m.name = (IF r.mark.n = NULL THEN NULL ELSE <<r.mark.n>>)
      BY <1>2, <1>7, <1>9, <2>8
    <3>2. /\ Local(r) => Kind(r, Shown(r, 0), r.mark.n) # "none"
          /\ Global(r) => /\ r.mark.l \in Path /\ Absolute(r.mark.l) /\ IsDir(r, Front(r.mark.l))
      BY <1>3, <1>17, <2>3, MarkFound DEF mt
    <3>3. CASE Local(r)
      <4>1. /\ name = <<r.mark.n>> /\ ~Absolute(<<r.mark.n>>) /\ <<r.mark.n>>[1] = r.mark.n
        BY <1>9, <1>11, <3>1, <3>3, MarkedIs
      <4>2. x.old - 1 = 0
        BY <2>6
      <4> HIDE DEF name, x
      <4> QED
        BY <3>2, <3>3, <4>1, <4>2
    <3>4. CASE ~Local(r)
      <4>1. Global(r) /\ name = r.mark.l
        BY <2>6, <3>1, <3>4, MarkedIs
      <4>2. Front(name) = SubSeq(name, 1, Len(name) - 1)
        BY DEF Front
      <4> HIDE DEF name, x
      <4>3. Absolute(name) /\ IsDir(q, Front(name))
        BY <1>12, <3>2, <4>1, DirsGrow
      <4> QED
        BY <4>2, <4>3
    <3> QED
      BY <3>3, <3>4
  <2> HIDE DEF x, name, missing, lost
  <2>9. ~missing /\ ~lost
    <3>1. m.z = TRUE => ~missing /\ ~lost
      BY DEF missing, lost
    <3> QED
      BY <1>9, <2>8, <3>1
  <2> QED
    BY <2>6, <2>7, <2>9
<1> HIDE DEF x, missing, lost, p, new
<1>18. CASE name = NULL
  <2>1. a = [q EXCEPT !.slips = @ \cup {"NULL"}]
    BY <1>1, <1>18
  <2>2. own = FALSE
    BY <1>16, <1>18
  <2>3. Done(a, r, own, TRUE)
    BY <1>12, <2>1, <2>2 DEF Done
  <2> QED
    BY <2>3 DEF a
<1>19. CASE name # NULL /\ (missing \/ lost)
  <2>1. a = clr_mark(q)
    BY <1>1, <1>19
  <2>2. own = TRUE => new = {}
    BY <1>9, <1>10, <1>15, <1>17, <1>19
  <2>3. Done(a, r, own, TRUE)
    BY <1>12, <2>1, <2>2 DEF Done
  <2> QED
    BY <2>3 DEF a
<1>20. CASE name # NULL /\ ~(missing \/ lost) /\ x.lt # "dir" /\ x.rt # "dir"
  <2>1. a = q
    BY <1>1, <1>20
  <2>2. own = TRUE => new = {}
    BY <1>9, <1>10, <1>15, <1>17, <1>20
  <2>3. Done(a, r, own, TRUE)
    BY <1>12, <2>1, <2>2 DEF Done
  <2> QED
    BY <2>3 DEF a
<1>21. ASSUME NEW c, NEW l, NEW h, NEW lz, NEW hz, name # NULL,
              ScanOnly(c, q), a = enter_dir(c, l, h, lz, hz, x.tree),
              \/ l = NULL /\ h = x.r /\ lz = FALSE /\ hz = f.z /\ x.lt # "dir"
              \/ l = x.l /\ h = NULL /\ lz = m.z /\ hz = FALSE /\ x.rt # "dir"
              \/ l = x.l /\ h = x.r /\ lz = m.z /\ hz = f.z
       PROVE  Done(a, r, own, TRUE)
  <2>1. x.l \in Path /\ x.r \in Path
    BY <1>11, <1>21 DEF name
  <2>2. Given(c, l, h, lz, hz)
    <3>1. NULL \notin Path /\ NULL # DotDot /\ DotDot \notin Path
      BY NamesAre, NoDotDot
    <3>2. /\ l \in Path \cup {NULL} /\ h \in Path \cup {NULL} /\ ~(l = NULL /\ h = NULL)
          /\ lz \in BOOLEAN /\ hz \in BOOLEAN
          /\ lz = TRUE => l \in Path
          /\ hz = TRUE => h \in Path
      BY <1>9, <1>10, <1>21, <2>1, <3>1
    <3>3. l \in Names2 /\ h \in Names2 /\ l # DotDot /\ h # DotDot
      BY <3>1, <3>2 DEF Names2
    <3> QED
      BY <3>2, <3>3 DEF Given
  <2>3. ASSUME own = TRUE PROVE New(l, h, lz, hz) = new /\ Tidy(l, h, lz, hz)
    <3>1. CASE m.z = FALSE /\ f.z = FALSE
      <4>1. lz = FALSE /\ hz = FALSE
        BY <1>21, <3>1
      <4> QED
        BY <1>15, <3>1, <4>1 DEF New, Tidy
    <3>2. CASE m.z = TRUE \/ f.z = TRUE
      <4>1. /\ x.lt = "dir" /\ x.rt = "dir" /\ x.r = f.name /\ (m.z = TRUE => x.l = m.name)
        BY <1>17, <2>3, <3>2
      <4>2. l = x.l /\ h = x.r /\ lz = m.z /\ hz = f.z
        BY <1>21, <4>1
      <4> QED
        BY <1>9, <1>10, <1>12, <2>1, <2>3, <4>1, <4>2, NoDotDot DEF New, Tidy, new
    <3> QED
      BY <1>9, <1>10, <3>1, <3>2
  <2>4. Call(enter_dir(c, l, h, lz, hz, x.tree), q, own, new, TRUE)
    BY <1>21, <2>2, <2>3, CallWith
  <2> QED
    BY <1>14, <1>21, <2>4
<1>22. CASE name # NULL /\ ~(missing \/ lost) /\ x.lt # "dir" /\ x.rt = "dir"
  <2>1. a = enter_dir(q, NULL, x.r, FALSE, f.z, x.tree)
    BY <1>1, <1>22
  <2>2. Done(a, r, own, TRUE)
    BY <1>13, <1>21, <1>22, <2>1
  <2> QED
    BY <2>2 DEF a
<1>23. CASE name # NULL /\ ~(missing \/ lost) /\ x.lt = "dir" /\ x.rt # "dir"
  <2>1. a = enter_dir(q, x.l, NULL, m.z, FALSE, x.tree)
    BY <1>1, <1>23
  <2>2. Done(a, r, own, TRUE)
    BY <1>13, <1>21, <1>23, <2>1
  <2> QED
    BY <2>2 DEF a
<1>24. CASE name # NULL /\ ~(missing \/ lost) /\ x.lt = "dir" /\ x.rt = "dir"
  <2>1. a = enter_dir(p, x.l, x.r, m.z, f.z, x.tree)
    BY <1>1, <1>24
  <2>2. Done(a, r, own, TRUE)
    BY <1>13, <1>21, <1>24, <2>1
  <2> QED
    BY <2>2 DEF a
<1> HIDE DEF name
<1> QED
  BY <1>18, <1>19, <1>20, <1>22, <1>23, <1>24

-----------------------------------------------------------------------------
(* What the mark stands for is kept.                                       *)
LEMMA WithinTemp ==
  ASSUME NEW p \in Path, NEW t, Len(p) > 1, p[1] = "/", p[2] = t
  PROVE  Inside(p, <<"/", t>>)
<1>1. p \in Seq(Part) /\ Len(p) \in Nat
  BY NamesAre
<1> DEFINE k == <<"/", t>>
<1>2. k \in Seq(Part) /\ Len(k) = 2 /\ k[1] = p[1] /\ k[2] = p[2]
  BY <1>1, NamesAre
<1> HIDE DEF k
<1>3. /\ SubSeq(k, 1, 2) \in Seq(Part) /\ Len(SubSeq(k, 1, 2)) = 2
      /\ SubSeq(k, 1, 2)[1] = k[1] /\ SubSeq(k, 1, 2)[2] = k[2]
  <2>1. \A i \in 1..2 : k[i] \in Part
    BY <1>2
  <2>2. /\ SubSeq(k, 1, 2) \in Seq(Part) /\ Len(SubSeq(k, 1, 2)) = IF 1 <= 2 THEN 2 - 1 + 1 ELSE 0
        /\ \A i \in 1..2-1+1 : SubSeq(k, 1, 2)[i] = k[1+i-1]
    BY <2>1, SubSeqProperties
  <2> QED
    BY <2>2
<1>4. /\ SubSeq(p, 1, 2) \in Seq(Part) /\ Len(SubSeq(p, 1, 2)) = 2
      /\ SubSeq(p, 1, 2)[1] = p[1] /\ SubSeq(p, 1, 2)[2] = p[2]
  BY <1>1
<1>5. SubSeq(k, 1, 2) = SubSeq(p, 1, 2)
  BY <1>2, <1>3, <1>4, SeqEqual
<1>6. IsPrefix(k, p)
  BY <1>1, <1>2, <1>5 DEF IsPrefix
<1> QED
  BY <1>6 DEF Inside, k

\* A directory outlives the one that is removed, if it is not inside it.
LEMMA DirStays ==
  ASSUME NEW r, NEW a, NEW k, Rest(r, k) \subseteq a.tmps,
         NEW p \in Path, ~Inside(p, k)
  PROVE  /\ IsDir(r, p) => IsDir(a, p)
         /\ \A n : Kind(r, p, n) # "none" => Kind(a, p, n) # "none"
<1>1. ASSUME IsDir(r, p) PROVE IsDir(a, p)
  <2>1. CASE p = Root
    BY <2>1 DEF IsDir
  <2>2. CASE p # Root
    <3>1. /\ Len(p) > 1 /\ Head(p) = "/" /\ p[2] \in {Top[0], Top[1]} \cup r.tmps
          /\ \A j \in 3..Len(p) : /\ p[j] \in DOMAIN Content[Label(p[2])]
                                  /\ Content[Label(p[2])][p[j]] = "dir"
      BY <1>1, <2>2 DEF IsDir
    <3>2. p[1] = "/"
      <4>1. p \in Seq(Part)
        BY NamesAre
      <4> QED
        BY <3>1, <4>1
    <3>3. <<"/", p[2]>> # k
      BY <3>1, <3>2, WithinTemp
    <3>4. p[2] \in {Top[0], Top[1]} \cup a.tmps
      BY <3>1, <3>3 DEF Rest
    <3> QED
      BY <3>1, <3>4 DEF IsDir
  <2> QED
    BY <2>1, <2>2
<1>2. ASSUME NEW n, Kind(r, p, n) # "none" PROVE Kind(a, p, n) # "none"
  BY <1>1, <1>2 DEF Kind
<1> QED
  BY <1>1, <1>2

\* A marked file of the list, with its absolute path
LEMMA GlobalFits ==
  ASSUME NEW r \in Globals, Fits(r), r.mode = "b", r.syspth[0] = Dot, NEW a \in Globals,
         a.mode = "b", a.mark = mark_global(r).mark, Local(r), r.tmps \subseteq a.tmps
  PROVE  Fits(a) /\ ~Local(a) /\ (a.mark # NULL => a.mark.l = r.cwd \o <<r.mark.n>>)
<1>1. CASE a.mark = NULL
  BY <1>1 DEF Fits, Local, Global
<1>2. CASE a.mark # NULL
  <2> DEFINE g == GlobalMark(r)
  <2>1. a.mark = g
    BY <1>2, MarkGlobal
  <2>2. /\ g \in Mark /\ g.n = NULL /\ g.t[1] = r.mark.t[1] /\ g.t[2] \in {r.mark.t[2], "none"}
        /\ g.l = (IF g.t[1] = "none" THEN NULL ELSE Shown(r, 0) \o <<r.mark.n>>)
    BY GlobalMarkIs
  <2> HIDE DEF g
  <2>3. r.mark.t[1] # "none" /\ r.mark.t[2] = "none" /\ Kind(r, r.cwd, r.mark.n) # "none"
    BY DEF Fits
  <2>4. g.l = r.cwd \o <<r.mark.n>>
    BY <2>2, <2>3 DEF Shown
  <2>5. r.cwd \in Seq(Part) /\ r.mark.n \in Part
    <3>1. r.mark \in Mark
      BY <1>2, <2>1 DEF Globals, Local
    <3>2. r.mark.n \in Names
      BY <3>1 DEF Mark, Local
    <3> QED
      BY <3>2, NamesAre DEF Globals
  <2>6. Front(g.l) = r.cwd
    BY <2>4, <2>5 DEF Front
  <2>7. IsDir(a, r.cwd)
    <3>1. IsDir(r, r.cwd)
      BY <2>3 DEF Kind
    <3> QED
      BY <3>1, DirsGrow
  <2>8. g.l # NULL
    <3>1. <<r.mark.n>> \in Seq(Part)
      BY <2>5
    <3>2. r.cwd \o <<r.mark.n>> \in Seq(Part)
      BY <2>5, <3>1
    <3> QED
      BY <2>4, <3>2, NamesAre
  <2>9. ~Local(a)
    BY <2>1, <2>2 DEF Local
  <2> QED
    BY <2>1, <2>2, <2>3, <2>4, <2>6, <2>7, <2>8, <2>9 DEF Fits
<1> QED
  BY <1>1, <1>2

\* For a step to somewhere else in browse or file manager mode
FitsThere(r) ==
  /\ r.mode = "b" => Fits(r) /\ r.syspth[0] = Dot
  /\ r.mode = "f" /\ Local(r) => \E i \in 0..1 : /\ r.mark.t[i + 1] # "none" /\ r.mark.t[2 - i] = "none"
                                                 /\ r.mark.list = i
                                                 /\ i # r.right_col => Kind(r, r.syspth[i], r.mark.n) # "none"

LEMMA ElsewhereFits ==
  ASSUME NEW r \in Globals, Columns(r), r.mode # "d", FitsThere(r), NEW a, NEW new,
         Elsewhere(a, r, new)
  PROVE  Fits(a)
<1> DEFINE o == OneMark(r)
<1>0. r.mode \in {"b", "f", "d"} /\ r.right_col \in 0..1 /\ r.tmps \subseteq Temps
  BY DEF Globals
<1>1. /\ a \in Globals /\ a.mode = r.mode /\ a.mark \in {o.mark, NULL} /\ (Local(o) => a.mark = o.mark)
      /\ r.tmps \subseteq a.tmps \/ \E k : Gone(a, r, k)
  BY DEF Elsewhere, SameMode
<1>2. o \in Globals /\ (r.mode = "b" => ~Local(o)) /\ (Local(o) => o = r /\ r.mark.t[r.right_col + 1] = "none")
  BY OneMarkIs
<1>3. CASE r.mode = "b"
  <2>1. CASE a.mark = NULL
    BY <2>1 DEF Fits, Local, Global
  <2>2. CASE a.mark # NULL
    <3>1. /\ o.mark.n = NULL /\ a.mark = o.mark /\ o.mark.t[1] # "none" /\ o.mark.t[2] = "none"
          /\ o.mark.l # NULL /\ IsDir(r, Front(o.mark.l))
      <4>1. CASE Local(r)
        <5>1. o = mark_global(r)
          BY <1>3, <4>1 DEF OneMark
        <5>2. o.mode = "b" /\ o.tmps = r.tmps
          BY <1>3, <4>1, <5>1, MarkGlobal DEF Same, SameMode, SameTemps
        <5> HIDE DEF o
        <5>3. Fits(o) /\ ~Local(o)
          BY <1>2, <1>3, <4>1, <5>1, <5>2, GlobalFits DEF FitsThere
        <5>4. o.mark # NULL /\ a.mark = o.mark
          BY <1>1, <2>2
        <5>5. Global(o)
          BY <5>3, <5>4 DEF Global, Local
        <5>6. IsDir(r, Front(o.mark.l))
          <6>1. IsDir(o, Front(o.mark.l))
            BY <5>2, <5>3, <5>5 DEF Fits
          <6> QED
            BY <5>2, <6>1, DirsGrow
        <5> QED
          BY <5>2, <5>3, <5>4, <5>5, <5>6 DEF Fits, Global
      <4>2. CASE ~Local(r)
        <5>1. o = r
          BY <4>2 DEF OneMark
        <5> HIDE DEF o
        <5>2. Global(r) /\ a.mark = r.mark
          BY <1>1, <2>2, <4>2, <5>1 DEF Global, Local
        <5> QED
          BY <1>3, <5>1, <5>2 DEF FitsThere, Fits, Global
      <4> QED
        BY <4>1, <4>2
    <3> HIDE DEF o
    <3>2. o.mark.l \in Path /\ gl_mark(a) = o.mark.l /\ Global(a) /\ ~Local(a)
      BY <1>2, <2>2, <3>1 DEF Globals, Mark, Maybe, gl_mark, Global, Local
    <3>3. IsDir(a, Front(o.mark.l))
      <4>1. CASE r.tmps \subseteq a.tmps
        BY <3>1, <4>1, DirsGrow
      <4>2. ASSUME NEW k, Gone(a, r, k) PROVE IsDir(a, Front(o.mark.l))
        <5>1. ~Inside(o.mark.l, k) /\ Rest(r, k) \subseteq a.tmps
          BY <3>2, <4>2 DEF Gone
        <5>2. o.mark.l \in Seq(Part)
          BY <3>2, NamesAre
        <5>3. Front(o.mark.l) = SubSeq(o.mark.l, 1, Len(o.mark.l) - 1)
          BY DEF Front
        <5>4. CASE Front(o.mark.l) = Root
          BY <5>4 DEF IsDir
        <5>5. CASE Front(o.mark.l) # Root
          <6>1. Len(Front(o.mark.l)) > 1
            BY <3>1, <5>5 DEF IsDir
          <6>2. Len(o.mark.l) > 2 /\ Front(o.mark.l) \in Seq(Part)
            BY <5>2, <5>3, <6>1
          <6>3. Front(o.mark.l)[1] = o.mark.l[1] /\ Front(o.mark.l)[2] = o.mark.l[2]
            BY <5>2, <5>3, <6>2
          <6> DEFINE p == Front(o.mark.l)
          <6>4. Head(p) = "/" /\ p[2] \in {Top[0], Top[1]} \cup r.tmps
                /\ \A j \in 3..Len(p) : /\ p[j] \in DOMAIN Content[Label(p[2])]
                                        /\ Content[Label(p[2])][p[j]] = "dir"
            BY <3>1, <5>5 DEF IsDir
          <6>5. o.mark.l[1] = "/"
            BY <6>1, <6>2, <6>3, <6>4
          <6>6. Inside(o.mark.l, <<"/", o.mark.l[2]>>)
            BY <3>2, <6>2, <6>5, WithinTemp
          <6>7. p[2] \in {Top[0], Top[1]} \cup a.tmps
            <7>1. p[2] = o.mark.l[2]
              BY <6>3
            <7> HIDE DEF p
            <7> QED
              BY <5>1, <6>4, <6>6, <7>1 DEF Rest
          <6>8. Len(p) > 1
            BY <6>1
          <6> HIDE DEF p
          <6>9. IsDir(a, p)
            BY <6>4, <6>7, <6>8 DEF IsDir
          <6> QED
            BY <6>9 DEF p
        <5> QED
          BY <5>4, <5>5
      <4> QED
        BY <1>1, <4>1, <4>2
    <3> QED
      BY <1>1, <1>3, <3>1, <3>2, <3>3 DEF Fits
  <2> QED
    BY <2>1, <2>2
<1>4. CASE r.mode = "f"
  <2> HIDE DEF o
  <2>1. CASE Local(a)
    <3>1. Local(r) /\ a.mark = r.mark /\ r.mark.t[r.right_col + 1] = "none"
      <4>1. a.mark = o.mark /\ Local(o)
        BY <1>1, <2>1 DEF Local
      <4> QED
        BY <1>2, <4>1
    <3>2. PICK i \in 0..1 : /\ r.mark.t[i + 1] # "none" /\ r.mark.t[2 - i] = "none" /\ r.mark.list = i
                            /\ i # r.right_col => Kind(r, r.syspth[i], r.mark.n) # "none"
      BY <1>4, <3>1 DEF FitsThere
    <3>3. i # r.right_col
      BY <3>1, <3>2
    <3>4. i = Other(r.right_col)
      BY <1>0, <3>3 DEF Other
    <3>5. a.syspth[i] = r.syspth[i] /\ r.syspth[i] \in Path
      BY <1>4, <3>4 DEF Elsewhere, Globals
    <3>6. Kind(a, r.syspth[i], r.mark.n) # "none"
      <4>1. Kind(r, r.syspth[i], r.mark.n) # "none"
        BY <3>2, <3>3
      <4>2. CASE r.tmps \subseteq a.tmps
        BY <4>1, <4>2, DirsGrow
      <4>3. ASSUME NEW k, Gone(a, r, k) PROVE Kind(a, r.syspth[i], r.mark.n) # "none"
        <5>1. ~Inside(r.syspth[i], k) /\ Rest(r, k) \subseteq a.tmps
          BY <1>4, <3>4, <4>3 DEF Gone
        <5> QED
          BY <3>5, <4>1, <5>1, DirStays
      <4> QED
        BY <1>1, <4>2, <4>3
    <3> QED
      BY <1>1, <1>4, <3>1, <3>2, <3>5, <3>6 DEF Fits
  <2>2. CASE ~Local(a)
    BY <1>1, <1>4, <2>2 DEF Fits
  <2> QED
    BY <2>1, <2>2
<1> QED
  BY <1>0, <1>3, <1>4

LEMMA FitsIs ==
  ASSUME NEW r, Fits(r), r.mode = "b" => r.syspth[0] = Dot, r.mode # "d"
  PROVE  FitsThere(r)
BY DEF Fits, FitsThere

LEMMA EnterFits ==
  ASSUME s \in Globals, NEW r \in Globals, NEW name, NEW rnam, NEW lzip, NEW rzip,
         Columns(r), Given(r, name, rnam, lzip, rzip), NEW tree, Fits(r),
         r.mode = "b" => r.syspth[0] = Dot
  PROVE  Fits(enter_dir(r, name, rnam, lzip, rzip, tree))
<1> DEFINE a == enter_dir(r, name, rnam, lzip, rzip, tree)
<1>1. Gone2(a, r, New(name, rnam, lzip, rzip))
  BY EnterDir
<1> HIDE DEF a
<1>2. CASE a.mode = "d" /\ ~Local(a)
  BY <1>2 DEF Fits, a
<1>3. CASE r.mode # "d" /\ Elsewhere(a, r, New(name, rnam, lzip, rzip))
  <2>1. Fits(a)
    BY <1>3, FitsIs, ElsewhereFits
  <2> QED
    BY <2>1 DEF a
<1>4. CASE a = r
  BY <1>4 DEF a
<1> QED
  BY <1>1, <1>2, <1>3, <1>4 DEF Gone2

\* More temporary directories, and other scan databases
Alike(q, r) ==
  /\ q \in Globals /\ SameMode(q, r) /\ SamePaths(q, r) /\ SameStack(q, r) /\ r.tmps \subseteq q.tmps

LEMMA AlikeKeeps ==
  ASSUME NEW r \in Globals, NEW q, Alike(q, r)
  PROVE  /\ Columns(r) => Columns(q)
         /\ Levels(r) => Levels(q)
         /\ Modes(r) => Modes(q)
         /\ Fits(r) /\ SameMark(q, r) => Fits(q)
         /\ Active(r) /\ SameMark(q, r) => Active(q)
         /\ q.mark = NULL => Fits(q)
<1>1. /\ q.mode = r.mode /\ q.twocols = r.twocols /\ q.from_fmode = r.from_fmode
      /\ q.right_col = r.right_col /\ q.syspth = r.syspth /\ q.cwd = r.cwd /\ q.ui_stack = r.ui_stack
      /\ r.tmps \subseteq q.tmps
  BY DEF Alike, SameMode, SamePaths, SameStack
<1>2. Columns(r) => Columns(q)
  BY <1>1 DEF Columns
<1>3. Levels(r) => Levels(q)
  BY <1>1 DEF Levels
<1>4. Modes(r) => Modes(q)
  BY <1>1 DEF Modes
<1>5. ASSUME SameMark(q, r), Fits(r) PROVE Fits(q)
  <2>1. \A p, n : Kind(r, p, n) # "none" => Kind(q, p, n) # "none"
    BY <1>1, DirsGrow
  <2>2. \A p : IsDir(r, p) => IsDir(q, p)
    BY <1>1, DirsGrow
  <2>3. (Local(q) <=> Local(r)) /\ (Global(q) <=> Global(r)) /\ q.mark = r.mark
    BY <1>5 DEF SameMark, Local, Global
  <2>4. Local(q) /\ q.mode = "b" => /\ q.mark.t[1] # "none" /\ q.mark.t[2] = "none"
                                    /\ Kind(q, q.cwd, q.mark.n) # "none"
    BY <1>1, <1>5, <2>1, <2>3 DEF Fits
  <2>5. Local(q) /\ q.mode = "f" =>
          \E i \in 0..1 : /\ q.mark.list = i /\ q.mark.t[i + 1] # "none"
                          /\ q.mark.t[2 - i] = "none" /\ Kind(q, q.syspth[i], q.mark.n) # "none"
    BY <1>1, <1>5, <2>1, <2>3 DEF Fits
  <2>6. Local(q) /\ q.mode = "d" =>
          \A i \in 0..1 : q.mark.t[i + 1] # "none" => Kind(q, q.syspth[i], q.mark.n) # "none"
    BY <1>1, <1>5, <2>1, <2>3 DEF Fits
  <2>7. Global(q) /\ q.mode = "b" => /\ q.mark.t[1] # "none" /\ q.mark.t[2] = "none"
                                     /\ q.mark.l # NULL /\ IsDir(q, Front(q.mark.l))
    BY <1>1, <1>5, <2>2, <2>3 DEF Fits
  <2> QED
    BY <2>4, <2>5, <2>6, <2>7 DEF Fits
<1>6. ASSUME SameMark(q, r), Active(r) PROVE Active(q)
  BY <1>1, <1>6 DEF Active, Local, SameMark
<1>7. q.mark = NULL => Fits(q)
  BY DEF Fits, Local, Global
<1> QED
  BY <1>2, <1>3, <1>4, <1>5, <1>6, <1>7

LEMMA CallFits ==
  ASSUME s \in Globals, NEW q \in Globals, Columns(q), NEW a, NEW own, NEW new, NEW marked,
         Call(a, q, own, new, marked), Fits(q), Modes(q)
  PROVE  Fits(a)
<1>1. PICK p, name, rnam, lzip, rzip, tree :
        /\ a = enter_dir(p, name, rnam, lzip, rzip, tree)
        /\ ScanOnly(p, q) /\ Given(p, name, rnam, lzip, rzip)
  BY DEF Call
<1>2. Alike(p, q) /\ SameMark(p, q)
  BY <1>1 DEF ScanOnly, Alike, Same, SameTemps
<1>3. p \in Globals /\ Columns(p) /\ Fits(p) /\ Modes(p)
  BY <1>2, AlikeKeeps DEF Alike
<1> QED
  BY <1>1, <1>3, EnterFits DEF Modes

LEMMA DoneIs ==
  ASSUME s \in Globals, NEW r \in Globals, Columns(r), NEW a, NEW own \in BOOLEAN,
         NEW marked \in BOOLEAN, Done(a, r, own, marked)
  PROVE  /\ a \in Globals /\ Columns(a) /\ (Levels(r) => Levels(a))
         /\ Modes(r) /\ (r.mode = "b" /\ r.from_fmode = TRUE => marked = FALSE) => Modes(a)
         /\ Modes(r) /\ Fits(r) => Fits(a)
         /\ own = TRUE /\ Active(r) => Owned(a, {})
<1>1. PICK q, new :
        /\ MadeOnly(q, r) /\ (own = TRUE => Owned(q, new))
        /\ \/ a = q /\ (own = TRUE => new = {})
           \/ a = clr_mark(q) /\ (own = TRUE => new = {})
           \/ a = [q EXCEPT !.slips = @ \cup {"NULL"}] /\ own = FALSE
           \/ Call(a, q, own, new, marked)
  BY DEF Done
<1>2. /\ Alike(q, r) /\ q \in Globals /\ SameMark(q, r) /\ q.mode = r.mode
      /\ q.from_fmode = r.from_fmode
  BY <1>1 DEF MadeOnly, Alike, SameMode
<1>3. /\ Columns(q) /\ (Levels(r) => Levels(q)) /\ (Modes(r) => Modes(q))
      /\ (Fits(r) => Fits(q)) /\ (Active(r) => Active(q))
  BY <1>2, AlikeKeeps
<1>4. CASE a = q /\ (own = TRUE => new = {})
  BY <1>1, <1>2, <1>3, <1>4
<1>5. CASE a = clr_mark(q) /\ (own = TRUE => new = {})
  <2>1. a \in Globals /\ a.mark = NULL /\ Same(a, q) /\ SameSlips(a, q)
    BY <1>2, <1>5, ClrMark
  <2>2. Alike(a, q)
    BY <2>1 DEF Alike, Same, SameTemps
  <2>3. ASSUME own = TRUE PROVE Owned(a, {})
    <3>1. Owned(q, {})
      BY <1>1, <1>5, <2>3
    <3> QED
      BY <2>1, <3>1 DEF Owned, KeysOf, Same, SameStack, SameTemps, SameSlips
  <2> QED
    BY <1>2, <1>3, <2>1, <2>2, <2>3, AlikeKeeps
<1>6. CASE a = [q EXCEPT !.slips = @ \cup {"NULL"}] /\ own = FALSE
  <2>1. a \in Globals /\ Alike(a, q) /\ SameMark(a, q)
    BY <1>2, <1>6 DEF Globals, Alike, SameMode, SamePaths, SameStack, SameMark
  <2> QED
    BY <1>2, <1>3, <1>6, <2>1, AlikeKeeps
<1>7. CASE Call(a, q, own, new, marked)
  <2>1. /\ a \in Globals /\ Columns(a) /\ (Levels(q) => Levels(a))
        /\ Modes(q) /\ (q.mode = "b" /\ q.from_fmode = TRUE => marked = FALSE) => Modes(a)
        /\ own = TRUE /\ Active(q) /\ Owned(q, new) => Owned(a, {})
    BY <1>2, <1>3, <1>7, CallIs
  <2>2. Modes(q) /\ Fits(q) => Fits(a)
    BY <1>2, <1>3, <1>7, CallFits
  <2> QED
    BY <1>1, <1>2, <1>3, <2>1, <2>2
<1> QED
  BY <1>1, <1>4, <1>5, <1>6, <1>7

-----------------------------------------------------------------------------
(* The keys.                                                               *)
Whole(r) == r \in Globals /\ Columns(r)
Inv(r)   == Levels(r) /\ Modes(r) /\ Fits(r) /\ Owned(r, {})

LEMMA OwnedOn ==
  ASSUME NEW r, NEW a, Keeps(a, r), Owned(r, {})
  PROVE  Owned(a, {})
<1>1. {} \in SUBSET Path
  OBVIOUS
<1> QED
  BY <1>1 DEF Keeps

LEMMA SameOwned ==
  ASSUME NEW r \in Globals, NEW a \in Globals, SameOwners(a, r), SameSlips(a, r), Owned(r, {})
  PROVE  Owned(a, {})
BY SameKeeps, OwnedOn

LEMMA FitsActive ==
  ASSUME NEW r, Fits(r)
  PROVE  Active(r)
BY DEF Fits, Active

LEMMA NoMark ==
  ASSUME NEW r
  PROVE  /\ r.mark = NULL => Fits(r) /\ Active(r)
         /\ ~Local(r) /\ r.mode # "b" => Fits(r) /\ Active(r)
BY DEF Fits, Active, Local, Global

LEMMA DoneStep ==
  ASSUME Whole(s), NEW own \in BOOLEAN, NEW marked \in BOOLEAN, Done(s', s, own, marked),
         NEW ok \in BOOLEAN, ok = TRUE => own = TRUE,
         ok = TRUE /\ s.mode = "b" /\ s.from_fmode = TRUE => marked = FALSE
  PROVE  Whole(s)' /\ (Inv(s) /\ ok = TRUE => Inv(s)')
<1>1. /\ s' \in Globals /\ Columns(s)' /\ (Levels(s) => Levels(s)')
      /\ Modes(s) /\ (s.mode = "b" /\ s.from_fmode = TRUE => marked = FALSE) => Modes(s)'
      /\ Modes(s) /\ Fits(s) => Fits(s)'
      /\ own = TRUE /\ Active(s) => Owned(s, {})'
  <2>1. \A a : Done(a, s, own, marked) =>
          /\ a \in Globals /\ Columns(a) /\ (Levels(s) => Levels(a))
          /\ Modes(s) /\ (s.mode = "b" /\ s.from_fmode = TRUE => marked = FALSE) => Modes(a)
          /\ Modes(s) /\ Fits(s) => Fits(a)
          /\ own = TRUE /\ Active(s) => Owned(a, {})
    BY DoneIs DEF Whole
  <2> QED
    BY <2>1
<1> QED
  BY <1>1, FitsActive DEF Whole, Inv

LEMMA SetMarkStep ==
  ASSUME Whole(s), NEW n \in Names, SetMark(n)
  PROVE  Whole(s)' /\ (Inv(s) => Inv(s)')
<1> DEFINE t  == Types(s, n)
           mk == Marked(s, n)
           c  == clr_mark(s)
           a  == [c EXCEPT !.mark = mk]
<1>1. s' = a /\ t # <<"none", "none">>
  BY DEF SetMark, Listed
<1>2. t \in [1..2 -> Kinds]
  BY TypesIs DEF Whole
<1>3. mk \in Mark /\ mk.n = n /\ mk.t = t /\ mk.list = s.right_col
  <2>1. s.right_col \in 0..1
    BY DEF Whole, Globals
  <2> QED
    BY <1>2, <2>1 DEF Marked, Mark, Maybe
<1>4. c \in Globals /\ c.mark = NULL /\ Same(c, s) /\ SameSlips(c, s)
  BY ClrMark DEF Whole
<1> HIDE DEF mk, c
<1>5. /\ a \in Globals /\ a.mark = mk /\ Same(a, c) /\ SameSlips(a, c)
  BY <1>3, <1>4 DEF Globals, Same, SameMode, SamePaths, SameStack, SameTemps, SameSlips
<1> HIDE DEF a
<1>6. Alike(a, s)
  BY <1>4, <1>5 DEF Alike, Same, SameMode, SamePaths, SameStack, SameTemps
<1>7. Columns(a) /\ (Levels(s) => Levels(a)) /\ (Modes(s) => Modes(a))
  BY <1>6, AlikeKeeps DEF Whole
<1>8. ASSUME Inv(s) PROVE Fits(a)
  <2>1. /\ a.mode = s.mode /\ a.syspth = s.syspth /\ a.cwd = s.cwd
        /\ \A p : Kind(s, p, n) # "none" => Kind(a, p, n) # "none"
    BY <1>6, DirsGrow DEF Alike, SameMode, SamePaths
  <2>2. /\ Local(a) => a.mark = mk /\ n # NULL
        /\ ~Global(a)
    <3>1. n # NULL
      BY NamesAre
    <3> QED
      BY <1>3, <1>5, <3>1 DEF Local, Global
  <2>3. CASE s.mode = "b"
    <3>1. Shown(s, 0) = s.cwd
      BY <1>8, <2>3 DEF Inv, Modes, Shown
    <3>2. t = <<Kind(s, s.cwd, n), "none">>
      BY <2>3, <3>1 DEF Types
    <3>3. t[1] # "none" /\ t[2] = "none" /\ Kind(s, s.cwd, n) # "none"
      BY <1>1, <3>2
    <3> HIDE DEF t
    <3> QED
      BY <1>3, <1>5, <2>1, <2>2, <2>3, <3>3 DEF Fits
  <2>4. CASE s.mode = "f"
    <3>1. s.right_col \in 0..1
      BY DEF Whole, Globals
    <3>2. /\ t[s.right_col + 1] # "none" /\ t[2 - s.right_col] = "none"
          /\ Kind(s, s.syspth[s.right_col], n) # "none"
      <4>1. CASE s.right_col = 0
        <5>1. t = <<Kind(s, s.syspth[0], n), "none">>
          BY <2>4, <4>1 DEF Types
        <5> QED
          BY <1>1, <4>1, <5>1
      <4>2. CASE s.right_col = 1
        <5>1. t = <<"none", Kind(s, s.syspth[1], n)>>
          BY <2>4, <4>2 DEF Types
        <5> QED
          BY <1>1, <4>2, <5>1
      <4> QED
        BY <3>1, <4>1, <4>2
    <3> HIDE DEF t
    <3>3. /\ a.mark.list = s.right_col /\ a.mark.t[s.right_col + 1] # "none"
          /\ a.mark.t[2 - s.right_col] = "none"
          /\ Kind(a, a.syspth[s.right_col], a.mark.n) # "none"
      BY <1>3, <1>5, <2>1, <3>2
    <3> QED
      BY <2>1, <2>2, <2>4, <3>1, <3>3 DEF Fits
  <2>5. CASE s.mode = "d"
    <3>1. \A i \in 0..1 : t[i + 1] # "none" => t[i + 1] = Kind(s, s.syspth[i], n)
      BY <2>5 DEF Types
    <3> HIDE DEF t
    <3>2. \A i \in 0..1 : a.mark.t[i + 1] # "none" => Kind(a, a.syspth[i], a.mark.n) # "none"
      BY <1>3, <1>5, <2>1, <3>1
    <3> QED
      BY <2>1, <2>2, <2>5, <3>2 DEF Fits
  <2>6. s.mode \in {"b", "f", "d"}
    BY DEF Whole, Globals
  <2> QED
    BY <2>3, <2>4, <2>5, <2>6
<1>9. ASSUME Inv(s) PROVE Owned(a, {})
  <2>1. SameOwners(a, s) /\ SameSlips(a, s)
    BY <1>4, <1>5 DEF Same, SameOwners, SameStack, SameTemps, SameSlips
  <2> QED
    BY <1>5, <1>9, <2>1, SameOwned DEF Inv, Whole
<1> QED
  BY <1>1, <1>5, <1>7, <1>8, <1>9 DEF Whole, Inv, a

LEMMA KeyRStep ==
  ASSUME Whole(s), KeyR
  PROVE  Whole(s)' /\ (Inv(s) => Inv(s)')
<1> DEFINE a == clr_mark(s)
<1>1. s' = a
  BY DEF KeyR
<1>2. a \in Globals /\ a.mark = NULL /\ Same(a, s) /\ SameSlips(a, s)
  BY ClrMark DEF Whole
<1> HIDE DEF a
<1>3. Alike(a, s) /\ SameOwners(a, s)
  BY <1>2 DEF Alike, Same, SameTemps, SameOwners
<1>4. Columns(a) /\ (Levels(s) => Levels(a)) /\ (Modes(s) => Modes(a)) /\ Fits(a)
  BY <1>2, <1>3, AlikeKeeps DEF Whole
<1>5. Inv(s) => Owned(a, {})
  BY <1>2, <1>3, SameOwned DEF Inv, Whole
<1> QED
  BY <1>1, <1>2, <1>4, <1>5 DEF Whole, Inv

LEMMA TabStep ==
  ASSUME Whole(s), Tab
  PROVE  Whole(s)' /\ (Inv(s) => Inv(s)')
<1> DEFINE r == [s EXCEPT !.right_col = Other(@)]
           a == fmode_chdir(r)
<1>1. s' = a /\ s.mode = "f"
  BY DEF Tab
<1>2. /\ r \in Globals /\ r.mode = "f" /\ r.twocols = s.twocols /\ r.from_fmode = s.from_fmode
      /\ r.syspth = s.syspth /\ SameStack(r, s) /\ SameTemps(r, s) /\ SameSlips(r, s)
      /\ SameMark(r, s)
  <2>1. s \in Globals /\ Other(s.right_col) \in 0..1
    BY DEF Whole, Globals, Other
  <2> QED
    BY <1>1, <2>1 DEF Globals, SameStack, SameTemps, SameSlips, SameMark
<1> HIDE DEF r
<1>3. CwdOnly(a, r)
  BY <1>2, FmodeChdir
<1> HIDE DEF a
<1>4. /\ a \in Globals /\ a.mode = "f" /\ a.twocols = s.twocols /\ a.syspth = s.syspth
      /\ a.ui_stack = s.ui_stack /\ a.mark = s.mark /\ a.tmps = s.tmps
      /\ SameOwners(a, s) /\ SameSlips(a, s)
  BY <1>2, <1>3 DEF CwdOnly, SameMode, SameStack, SameTemps, SameMark, SameSlips, SameOwners
<1>5. Columns(a)
  BY <1>1, <1>4 DEF Whole, Columns
<1>6. (Levels(s) => Levels(a)) /\ Modes(a)
  BY <1>1, <1>4 DEF Levels, Modes
<1>7. Fits(s) => Fits(a)
  <2>1. \A p, n : Kind(s, p, n) # "none" => Kind(a, p, n) # "none"
    BY <1>4, DirsGrow
  <2>2. Local(a) <=> Local(s)
    BY <1>4 DEF Local
  <2>3. ASSUME Local(a), Fits(s)
        PROVE  \E i \in 0..1 : /\ a.mark.list = i /\ a.mark.t[i + 1] # "none"
                               /\ a.mark.t[2 - i] = "none" /\ Kind(a, a.syspth[i], a.mark.n) # "none"
    BY <1>1, <1>4, <2>1, <2>2, <2>3 DEF Fits
  <2> QED
    BY <1>4, <2>3 DEF Fits
<1>8. Inv(s) => Owned(a, {})
  BY <1>4, SameOwned DEF Inv, Whole
<1> QED
  BY <1>1, <1>4, <1>5, <1>6, <1>7, <1>8 DEF Whole, Inv, a

\* Archives of the entries, counted and named
LEMMA ZippedArchive ==
  ASSUME NEW t \in [1..2 -> Kinds]
  PROVE  /\ Zipped(t) \in Nat
         /\ ~Archive(t) => Zipped(t) = 0
         /\ Archive(t) <=> "zip" \in {t[1], t[2]}
<1>1. Zipped(t) = Zips1(t, 1) + Zips1(t, 2) /\ Zipped(t) \in 0..2
  BY ZippedIs
<1> QED
  BY <1>1 DEF Archive, Zips1

LEMMA RoomIs ==
  ASSUME Whole(s), NEW zips \in Nat, Room(zips)
  PROVE  s.made + zips <= Len(TempName)
BY DEF Room

LEMMA ActStep ==
  ASSUME Whole(s), NEW n \in Names, NEW tree \in 1..3, NEW enter \in BOOLEAN,
         Listed(n), Room(Zipped(Types(s, n))), s' = Act(s, n, tree, enter)
  PROVE  Whole(s)' /\ (Inv(s) /\ (tree = 3 \/ Plain(n)) => Inv(s)')
<1>1. Types(s, n) # <<"none", "none">> /\ Types(s, n) \in [1..2 -> Kinds]
  BY TypesIs DEF Listed, Whole
<1>2. s.made + Zipped(Types(s, n)) <= Len(TempName)
  BY <1>1, ZippedArchive, RoomIs
<1>3. ASSUME Inv(s), tree = 3 \/ Plain(n) PROVE Inv(s)'
  <2>1. Owned(s, {}) /\ (tree = 3 \/ Zipped(Types(s, n)) = 0)
    BY <1>1, <1>3, ZippedArchive DEF Inv, Plain
  <2>2. Done(Act(s, n, tree, enter), s, TRUE, FALSE)
    BY <1>1, <1>2, <2>1, ActIs DEF Whole
  <2>3. Done(s', s, TRUE, FALSE)
    BY <2>2
  <2>4. TRUE \in BOOLEAN /\ FALSE \in BOOLEAN
    OBVIOUS
  <2>5. Whole(s)' /\ (Inv(s) /\ TRUE = TRUE => Inv(s)')
    BY <2>3, <2>4, DoneStep
  <2> QED
    BY <1>3, <2>5
<1>4. Whole(s)'
  <2>1. Done(Act(s, n, tree, enter), s, FALSE, FALSE)
    BY <1>1, <1>2, ActIs DEF Whole
  <2>2. Done(s', s, FALSE, FALSE)
    BY <2>1
  <2>3. FALSE \in BOOLEAN
    OBVIOUS
  <2>4. Whole(s)' /\ (Inv(s) /\ FALSE = TRUE => Inv(s)')
    BY <2>2, <2>3, DoneStep
  <2> QED
    BY <2>4
<1> QED
  BY <1>3, <1>4

LEMMA KeyRightStep ==
  ASSUME Whole(s), NEW n \in Names, KeyRight(n)
  PROVE  Whole(s)' /\ (Inv(s) => Inv(s)')
<1>1. s' = Act(s, n, 3, FALSE)
  BY DEF KeyRight, action
<1>2. /\ 3 \in 1..3 /\ FALSE \in BOOLEAN /\ Listed(n) /\ Room(Zipped(Types(s, n)))
  BY DEF KeyRight
<1> QED
  BY <1>1, <1>2, ActStep, Zenon

LEMMA KeyOStep ==
  ASSUME Whole(s), NEW n \in Names, NEW tree \in 1..2, KeyO(n, tree)
  PROVE  Whole(s)' /\ (Inv(s) /\ Plain(n) => Inv(s)')
<1>1. s' = Act(s, n, tree, FALSE)
  BY DEF KeyO, action
<1>2. tree \in 1..3
  OBVIOUS
<1> QED
  BY <1>1, <1>2, ActStep DEF KeyO

LEMMA KeyEnterStep ==
  ASSUME Whole(s), NEW n \in Names, KeyEnter(n)
  PROVE  /\ Whole(s)'
         /\ Inv(s) /\ (s.mark # NULL => Straight(n) /\ Near /\ ~Detour) => Inv(s)'
<1>1. /\ Listed(n) /\ s' = action(s, n, 3, TRUE)
      /\ Room(Zipped(Types(s, n)) + IF s.mark = NULL THEN 0 ELSE Zipped(s.mark.t))
  BY DEF KeyEnter
<1>2. Types(s, n) # <<"none", "none">> /\ Types(s, n) \in [1..2 -> Kinds]
  BY <1>1, TypesIs DEF Listed, Whole
<1>3. Zipped(Types(s, n)) \in Nat
  BY <1>2, ZippedArchive
<1>4. CASE s.mark = NULL
  <2>1. s' = Act(s, n, 3, TRUE)
    BY <1>1, <1>4 DEF action
  <2>2. Room(Zipped(Types(s, n)))
    <3>1. Zipped(Types(s, n)) + (IF s.mark = NULL THEN 0 ELSE Zipped(s.mark.t)) = Zipped(Types(s, n))
      BY <1>3, <1>4
    <3> QED
      BY <1>1, <3>1
  <2>3. 3 \in 1..3 /\ TRUE \in BOOLEAN /\ Listed(n)
    BY <1>1
  <2> QED
    BY <2>1, <2>2, <2>3, ActStep, Zenon
<1>5. CASE s.mark # NULL
  <2>1. s' = ActMarked(s, n, 3)
    BY <1>1, <1>5 DEF action
  <2>2. s.mark.t \in [1..2 -> Kinds] /\ Zipped(s.mark.t) \in Nat
    BY <1>5, MarkedIs, ZippedArchive DEF Whole
  <2>3. s.made + Zipped(Types(s, n)) + Zipped(s.mark.t) <= Len(TempName)
    <3>1. s.made + (Zipped(Types(s, n)) + Zipped(s.mark.t)) <= Len(TempName)
      <4>1. Zipped(Types(s, n)) + (IF s.mark = NULL THEN 0 ELSE Zipped(s.mark.t))
            = Zipped(Types(s, n)) + Zipped(s.mark.t)
        BY <1>5
      <4>2. Room(Zipped(Types(s, n)) + Zipped(s.mark.t))
        BY <1>1, <4>1
      <4>3. Zipped(Types(s, n)) + Zipped(s.mark.t) \in Nat
        BY <1>3, <2>2
      <4> QED
        BY <4>2, <4>3, RoomIs
    <3>2. s.made \in Nat
      BY DEF Whole, Globals
    <3> QED
      BY <1>3, <2>2, <3>1, <3>2
  <2>4. ASSUME Inv(s), Straight(n) /\ Near /\ ~Detour PROVE Inv(s)'
    <3>1. Straight(n) /\ Near /\ ~Detour
      BY <2>4
    <3>2. Comparable(s, Types(s, n))
      <4>1. Owned(s, {}) /\ Fits(s) /\ (s.mode = "b" => s.syspth[0] = Dot)
        BY <2>4 DEF Inv, Modes
      <4>2. Global(s) => s.mode = "b"
        BY <3>1 DEF Near
      <4>3. "zip" \in {s.mark.t[1], s.mark.t[2], Types(s, n)[1], Types(s, n)[2]} =>
              s.mode = "b" \/ (s.mark.t[1] # "none" /\ Types(s, n)[2] # "none")
        <5>1. "zip" \in {s.mark.t[1], s.mark.t[2], Types(s, n)[1], Types(s, n)[2]}
              => Archive(s.mark.t) \/ Archive(Types(s, n))
          BY DEF Archive
        <5> QED
          BY <3>1, <5>1 DEF Straight
      <4> QED
        BY <4>1, <4>2, <4>3 DEF Comparable
    <3>3. Done(ActMarked(s, n, 3), s, TRUE, TRUE)
      BY <1>2, <1>5, <2>3, <3>2, ActMarkedIs DEF Whole
    <3>4. Done(s', s, TRUE, TRUE)
      BY <2>1, <3>3
    <3>5. ~(s.mode = "b" /\ s.from_fmode = TRUE)
      BY <3>1 DEF Detour
    <3>6. TRUE \in BOOLEAN
      OBVIOUS
    <3>7. Whole(s)' /\ (Inv(s) /\ TRUE = TRUE => Inv(s)')
      BY <3>4, <3>5, <3>6, DoneStep
    <3> QED
      BY <2>4, <3>7
  <2>5. Whole(s)'
    <3>1. Done(ActMarked(s, n, 3), s, FALSE, TRUE)
      BY <1>2, <1>5, <2>3, ActMarkedIs DEF Whole
    <3>2. s' \in Globals /\ Columns(s)'
      <4>1. \A a : Done(a, s, FALSE, TRUE) => a \in Globals /\ Columns(a)
        BY DoneIs DEF Whole
      <4> QED
        BY <2>1, <3>1, <4>1
    <3> QED
      BY <3>2 DEF Whole
  <2> QED
    BY <1>5, <2>4, <2>5
<1> QED
  BY <1>4, <1>5

\* enter_dir(), without an archive
LEMMA EnterStep ==
  ASSUME s \in Globals, NEW r, Whole(r), NEW name, NEW rnam,
         Given(r, name, rnam, FALSE, FALSE), NEW tree
  PROVE  /\ Whole(enter_dir(r, name, rnam, FALSE, FALSE, tree))
         /\ Inv(r) /\ (r.mode = "b" => ~Both(r, name, rnam))
              => Inv(enter_dir(r, name, rnam, FALSE, FALSE, tree))
<1> DEFINE a == enter_dir(r, name, rnam, FALSE, FALSE, tree)
<1>1. New(name, rnam, FALSE, FALSE) = {}
  BY DEF New
<1>2. Gone2(a, r, New(name, rnam, FALSE, FALSE))
  BY EnterDir DEF Whole
<1>3. Whole(a) /\ (Levels(r) => Levels(a))
  BY <1>2 DEF Gone2, Whole
<1>4. ASSUME Inv(r), r.mode = "b" => ~Both(r, name, rnam) PROVE Inv(a)
  <2>1. Modes(a)
    BY <1>4, EnterModes DEF Inv, Whole
  <2>2. Fits(a)
    BY <1>4, EnterFits DEF Inv, Whole, Modes
  <2>3. Owned(r, New(name, rnam, FALSE, FALSE)) /\ Active(r)
    BY <1>1, <1>4, FitsActive DEF Inv
  <2>4. Owned(a, {})
    BY <2>3, EnterOwned DEF Whole
  <2> QED
    BY <1>3, <1>4, <2>1, <2>2, <2>4 DEF Inv
<1> QED
  BY <1>3, <1>4

LEMMA JumpStep ==
  ASSUME Whole(s), Jump
  PROVE  Whole(s)' /\ (Inv(s) => Inv(s)')
<1>1. s.mode # "d" /\ s' = enter_dir(s, TopDir(0), NULL, FALSE, FALSE, 0)
  BY DEF Jump
<1>2. TopDir(0) \in Path /\ NULL \notin Path
  BY PathsAre, NamesAre
<1>3. Given(s, TopDir(0), NULL, FALSE, FALSE)
  BY <1>1, <1>2 DEF Given, Names2
<1>4. ~Both(s, TopDir(0), NULL)
  BY <1>1 DEF Both
<1>5. /\ Whole(enter_dir(s, TopDir(0), NULL, FALSE, FALSE, 0))
      /\ Inv(s) => Inv(enter_dir(s, TopDir(0), NULL, FALSE, FALSE, 0))
  BY <1>3, <1>4, EnterStep DEF Whole
<1> QED
  BY <1>1, <1>5 DEF Whole, Inv

LEMMA EqualStep ==
  ASSUME Whole(s), Equal
  PROVE  Whole(s)' /\ (Inv(s) => Inv(s)')
<1> DEFINE i == s.right_col
           r == [s EXCEPT !.syspth[i] = s.syspth[Other(i)]]
           a == enter_dir(r, NULL, NULL, FALSE, FALSE, 0)
<1>1. s' = a /\ s.mode = "f"
  BY DEF Equal
<1>2. i \in 0..1 /\ Other(i) \in 0..1 /\ i # Other(i) /\ s \in Globals /\ s.syspth \in [0..1 -> Path]
  BY DEF Whole, Globals, Other
<1> HIDE DEF i
<1>3. /\ r \in Globals /\ r.mode = "f" /\ r.right_col = s.right_col /\ SameMode(r, s)
      /\ r.syspth[Other(i)] = s.syspth[Other(i)] /\ SameStack(r, s) /\ SameTemps(r, s)
      /\ SameSlips(r, s) /\ SameMark(r, s)
  <2>1. s.syspth[Other(i)] \in Path
    BY <1>2
  <2> QED
    BY <1>1, <1>2, <2>1 DEF Globals, SameMode, SameStack, SameTemps, SameSlips, SameMark
<1> HIDE DEF r
<1>4. a = EnterOne(r, NULL, NULL, FALSE, FALSE)
  BY <1>3, NamesAre DEF enter_dir
<1>5. Columns(r)
  BY <1>1, <1>3 DEF Whole, Columns, SameMode
<1>6. Elsewhere(EnterOne(r, NULL, NULL, FALSE, FALSE), r, New(NULL, NULL, FALSE, FALSE))
  <2>1. NULL \in Names2
    BY DEF Names2
  <2> QED
    BY <1>3, <1>5, <2>1, EnterOneIs
<1>7. New(NULL, NULL, FALSE, FALSE) = {}
  BY DEF New
<1> DEFINE new == New(NULL, NULL, FALSE, FALSE)
<1>8. Elsewhere(a, r, new)
  BY <1>4, <1>6
<1> HIDE DEF a, new
<1>9. /\ a \in Globals /\ a.mode = "f" /\ a.ui_stack = s.ui_stack /\ Columns(a)
  BY <1>3, <1>5, <1>8 DEF Elsewhere, SameMode, SameStack, Columns
<1>10. ASSUME Inv(s) PROVE Inv(a)
  <2>1. Levels(a) /\ Modes(a)
    BY <1>1, <1>9, <1>10 DEF Inv, Levels, Modes
  <2>2. FitsThere(r)
    <3>1. ASSUME Local(r)
          PROVE  \E j \in 0..1 : /\ r.mark.t[j + 1] # "none" /\ r.mark.t[2 - j] = "none" /\ r.mark.list = j
                                 /\ j # r.right_col => Kind(r, r.syspth[j], r.mark.n) # "none"
      <4>1. Local(s) /\ r.mark = s.mark
        BY <1>3, <3>1 DEF Local, SameMark
      <4>2. PICK j \in 0..1 : /\ s.mark.list = j /\ s.mark.t[j + 1] # "none" /\ s.mark.t[2 - j] = "none"
                              /\ Kind(s, s.syspth[j], s.mark.n) # "none"
        BY <1>1, <1>10, <4>1 DEF Inv, Fits
      <4>3. j # r.right_col => Kind(r, r.syspth[j], r.mark.n) # "none"
        <5>1. SUFFICES ASSUME j # r.right_col PROVE Kind(r, r.syspth[j], r.mark.n) # "none"
          OBVIOUS
        <5>2. j = Other(i)
          BY <1>2, <1>3, <5>1 DEF Other, i
        <5>3. r.syspth[j] = s.syspth[j] /\ s.tmps \subseteq r.tmps
          BY <1>3, <5>2 DEF SameTemps
        <5>4. Kind(s, r.syspth[j], r.mark.n) # "none"
          BY <4>1, <4>2, <5>3
        <5> QED
          BY <5>3, <5>4, DirsGrow
      <4> QED
        BY <4>1, <4>2, <4>3
    <3> QED
      BY <1>3, <3>1 DEF FitsThere
  <2>3. Fits(a)
    BY <1>3, <1>5, <1>8, <2>2, ElsewhereFits
  <2>4. Active(r) /\ Owned(r, {})
    <3>1. Active(s) /\ Owned(s, {})
      BY <1>10, FitsActive DEF Inv
    <3>2. Active(r)
      BY <1>3, <3>1 DEF Active, Local, SameMode, SameMark
    <3>3. SameOwners(r, s)
      BY <1>3 DEF SameOwners
    <3> QED
      BY <1>2, <1>3, <3>1, <3>2, <3>3, SameOwned
  <2>5. Owned(r, new)
    <3>1. new = {}
      BY <1>7 DEF new
    <3> QED
      BY <2>4, <3>1
  <2>6. Owned(a, {})
    BY <1>8, <2>4, <2>5 DEF Elsewhere
  <2> QED
    BY <2>1, <2>3, <2>6 DEF Inv
<1> QED
  BY <1>1, <1>9, <1>10 DEF Whole, Inv, a

LEMMA KeyLeftStep ==
  ASSUME Whole(s), KeyLeft
  PROVE  Whole(s)' /\ (Inv(s) => Inv(s)')
<1>0. s \in Globals /\ Columns(s)
  BY DEF Whole
<1>1. CASE s.mode # "d"
  <2>1. s' = enter_dir(s, DotDot, NULL, FALSE, FALSE, 0)
    BY <1>1 DEF KeyLeft
  <2>2. Given(s, DotDot, NULL, FALSE, FALSE)
    BY <1>1, NamesAre DEF Given, Names2
  <2>3. ~Both(s, DotDot, NULL)
    BY <1>1 DEF Both
  <2>4. /\ Whole(enter_dir(s, DotDot, NULL, FALSE, FALSE, 0))
        /\ Inv(s) => Inv(enter_dir(s, DotDot, NULL, FALSE, FALSE, 0))
    BY <1>0, <2>2, <2>3, EnterStep
  <2> QED
    BY <2>1, <2>4 DEF Whole, Inv
<1>2. CASE s.mode = "d"
  <2> DEFINE a == pop_state(s)
             b == rebuild_db(a)
  <2>1. s' = b
    BY <1>2 DEF KeyLeft
  <2>2. PS(a, s)
    BY <1>0, <1>2, PopStateIs
  <2> HIDE DEF a
  <2>3. /\ Keeps(a, s) /\ a \in Globals /\ Columns(a)
        /\ a.ui_stack = IF s.ui_stack = <<>> THEN <<>> ELSE Tail(s.ui_stack)
        /\ \/ a.mode = "d" /\ a.from_fmode = s.from_fmode /\ a.twocols = s.twocols
           \/ /\ s.ui_stack # <<>> => Head(s.ui_stack).fl = TRUE
              /\ a.mode = "f" \/ (a.mode = "b" /\ (a.syspth[0] = Dot \/ Astray(s)))
              /\ ~Local(a)
        /\ a.mode = "b" => a.mark = NULL \/ Astray(s)
    BY <1>0, <2>2 DEF PS, Keeps
  <2>4. /\ BuildOnly(b, a) /\ ~Local(b) /\ b.syspth[0] = a.syspth[0]
        /\ ~Local(a) => b.mark = a.mark
    <3>1. BuildOnly(b, a) /\ ~Local(b) /\ b.mark = (IF Local(a) THEN mark_global(a) ELSE a).mark
          /\ b.syspth[0] = a.syspth[0]
      BY <2>3, RebuildDb
    <3> QED
      BY <3>1
  <2> HIDE DEF b
  <2>5. /\ b \in Globals /\ b.mode = a.mode /\ b.ui_stack = a.ui_stack /\ SameOwners(b, a)
        /\ SameSlips(b, a) /\ b.from_fmode = a.from_fmode /\ b.twocols = a.twocols
        /\ b.right_col = a.right_col
    BY <2>4 DEF BuildOnly, SameMode, SameStack, SameOwners
  <2>6. Columns(b)
    BY <2>3, <2>5 DEF Columns
  <2>7. ASSUME Inv(s) PROVE Inv(b)
    <3>0. s.ui_stack \in Seq(Level)
      BY <1>0 DEF Globals
    <3>1. ~Astray(s)
      BY <1>2, <2>7 DEF Inv, Modes, Astray
    <3>2. Levels(b)
      <4>1. CASE s.ui_stack = <<>>
        BY <2>3, <2>5, <4>1 DEF Levels
      <4>2. CASE s.ui_stack # <<>>
        <5>1. /\ b.ui_stack = Tail(s.ui_stack) /\ Len(s.ui_stack) \in Nat /\ Len(s.ui_stack) > 0
              /\ Len(b.ui_stack) = Len(s.ui_stack) - 1
              /\ \A k \in 1..Len(b.ui_stack) : b.ui_stack[k] = s.ui_stack[k + 1]
              /\ DOMAIN b.ui_stack = 1..Len(b.ui_stack)
          BY <2>3, <2>5, <3>0, <4>2
        <5>2. ASSUME b.mode # "d" PROVE b.ui_stack = <<>>
          <6>1. Head(s.ui_stack).fl = TRUE /\ Head(s.ui_stack) = s.ui_stack[1]
            BY <2>3, <2>5, <3>0, <4>2, <5>2
          <6>2. \A k \in DOMAIN s.ui_stack : k # Len(s.ui_stack) => s.ui_stack[k].fl = FALSE
            BY <2>7 DEF Inv, Levels
          <6>3. 1 \in DOMAIN s.ui_stack
            BY <3>0, <5>1
          <6>4. 1 # Len(s.ui_stack) => s.ui_stack[1].fl = FALSE
            BY <6>2, <6>3
          <6>5. s.ui_stack[1].fl = TRUE
            BY <6>1
          <6>6. Len(s.ui_stack) = 1
            BY <6>4, <6>5
          <6>7. Len(b.ui_stack) = 0 /\ b.ui_stack \in Seq(Level)
            BY <3>0, <4>2, <5>1, <6>6
          <6> QED
            BY <6>7
        <5>3. ASSUME NEW k \in DOMAIN b.ui_stack, k # Len(b.ui_stack) PROVE b.ui_stack[k].fl = FALSE
          <6>1. k + 1 \in DOMAIN s.ui_stack /\ k + 1 # Len(s.ui_stack)
            BY <3>0, <5>1, <5>3
          <6> QED
            BY <2>7, <5>1, <5>3, <6>1 DEF Inv, Levels
        <5> QED
          BY <5>2, <5>3 DEF Levels
      <4> QED
        BY <4>1, <4>2
    <3>3. Modes(b)
      BY <1>2, <2>3, <2>4, <2>5, <2>7, <3>1 DEF Inv, Modes
    <3>4. Fits(b)
      <4>1. CASE b.mode = "b"
        <5>1. ~Local(a) /\ a.mark = NULL
          BY <2>3, <2>5, <3>1, <4>1
        <5> QED
          BY <2>4, <5>1, NoMark
      <4>2. CASE b.mode # "b"
        BY <2>4, <4>2, NoMark
      <4> QED
        BY <4>1, <4>2
    <3>5. Owned(b, {})
      <4>1. Owned(a, {})
        BY <2>3, <2>7, OwnedOn DEF Inv
      <4> QED
        BY <2>3, <2>5, <4>1, SameOwned
    <3> QED
      BY <3>2, <3>3, <3>4, <3>5 DEF Inv
  <2> QED
    BY <2>1, <2>5, <2>6, <2>7 DEF Whole, Inv
<1> QED
  BY <1>1, <1>2

\* A step to another mode, with no level and no mark in the list.
LEMMA ModeStep ==
  ASSUME Inv(s), NEW a, Whole(a), Keeps(a, s), ~Local(a), a.mode = "b" => a.mark = NULL,
         Modes(a), a.ui_stack = <<>>
  PROVE  Inv(a)
<1>1. Levels(a) /\ Modes(a)
  BY DEF Levels
<1>2. Fits(a)
  BY NoMark
<1>3. Owned(a, {})
  BY OwnedOn DEF Inv
<1> QED
  BY <1>1, <1>2, <1>3 DEF Inv

LEMMA CtrlWStep ==
  ASSUME Whole(s), CtrlW
  PROVE  Whole(s)' /\ (Inv(s) /\ (s.mode = "d" => ~s.from_fmode) => Inv(s)')
<1>0. s \in Globals /\ Columns(s)
  BY DEF Whole
<1>1. CASE s.mode = "b"
  <2> DEFINE a == BmodeFmode(s)
  <2>1. s' = a
    BY <1>1 DEF CtrlW, tgl2c0
  <2>2. /\ Keeps(a, s) /\ Columns(a) /\ a.ui_stack = s.ui_stack
        /\ ~Local(a) /\ a.mode = "f"
    BY <1>0, <1>1, BmodeFmodeIs
  <2> HIDE DEF a
  <2>3. Whole(a) /\ (Inv(s) => Modes(a) /\ a.ui_stack = <<>>)
    BY <1>1, <2>2 DEF Whole, Keeps, Modes, Inv, Levels
  <2>4. Inv(s) => Inv(a)
    BY <2>2, <2>3, ModeStep
  <2> QED
    BY <2>1, <2>3, <2>4 DEF Whole, Inv
<1>2. CASE s.mode = "f"
  <2> DEFINE a == FmodeBmode(s)
  <2>1. s' = a
    BY <1>2 DEF CtrlW, tgl2c0
  <2>2. ToB(a, s)
    BY <1>0, FmodeBmodeIs
  <2> HIDE DEF a
  <2>3. /\ Whole(a) /\ a.ui_stack = s.ui_stack /\ a.mark = NULL /\ a.mode = "b" /\ a.syspth[0] = Dot
        /\ SameOwners(a, s) /\ SameSlips(a, s) /\ ~Local(a)
    BY <1>0, <2>2 DEF ToB, Whole, SameOwners, SameStack, Local
  <2>4. Keeps(a, s)
    BY <1>0, <2>3, SameKeeps DEF Whole
  <2>5. Inv(s) => Modes(a) /\ a.ui_stack = <<>>
    BY <1>2, <2>3 DEF Modes, Inv, Levels
  <2>6. Inv(s) => Inv(a)
    BY <2>3, <2>4, <2>5, ModeStep
  <2> QED
    BY <2>1, <2>3, <2>6 DEF Whole, Inv
<1>3. CASE s.mode = "d"
  <2> DEFINE a == [s EXCEPT !.twocols = ~@]
  <2>1. s' = a
    BY <1>3 DEF CtrlW, tgl2c0
  <2>2. /\ a \in Globals /\ a.mode = "d" /\ a.right_col = s.right_col /\ a.from_fmode = s.from_fmode
        /\ SamePaths(a, s) /\ SameOwners(a, s) /\ SameSlips(a, s) /\ SameMark(a, s)
    BY <1>0, <1>3 DEF Globals, SamePaths, SameOwners, SameStack, SameTemps, SameSlips, SameMark
  <2> HIDE DEF a
  <2>3. Whole(a)
    BY <1>0, <1>3, <2>2 DEF Whole, Columns
  <2>4. ASSUME Inv(s), ~s.from_fmode PROVE Inv(a)
    <3>1. Levels(a) /\ Modes(a)
      BY <1>3, <2>2, <2>4 DEF Inv, Levels, Modes, SameOwners, SameStack
    <3>2. \A p, n : Kind(a, p, n) = Kind(s, p, n)
      BY <2>2 DEF Kind, IsDir, SameOwners, SameTemps
    <3>3. Fits(a)
      BY <1>3, <2>2, <2>4, <3>2 DEF Inv, Fits, Local, Global, SamePaths, SameMark
    <3>4. Owned(a, {})
      BY <1>0, <2>2, <2>4, SameOwned DEF Inv
    <3> QED
      BY <3>1, <3>3, <3>4 DEF Inv
  <2> QED
    BY <1>3, <2>1, <2>3, <2>4 DEF Whole, Inv
<1> QED
  BY <1>0, <1>1, <1>2, <1>3 DEF Globals

LEMMA SharpStep ==
  ASSUME Whole(s), Sharp
  PROVE  Whole(s)' /\ (Inv(s) /\ s.ui_stack = <<>> /\ ~Detour => Inv(s)')
<1> DEFINE Ok == Inv(s) /\ s.ui_stack = <<>> /\ ~Detour
<1> SUFFICES Whole(s)' /\ (Ok => Inv(s)')
  OBVIOUS
<1>01. Ok => Inv(s) /\ s.ui_stack = <<>> /\ ~Detour
  OBVIOUS
<1> HIDE DEF Ok
<1> DEFINE c == clr_mark(s)
<1>0. s \in Globals /\ Columns(s)
  BY DEF Whole
<1>1. c \in Globals /\ c.mark = NULL /\ Same(c, s) /\ SameSlips(c, s)
  BY <1>0, ClrMark
<1> HIDE DEF c
<1>2. /\ c.mode = s.mode /\ Columns(c) /\ SameOwners(c, s) /\ Keeps(c, s) /\ c.ui_stack = s.ui_stack
      /\ ~Local(c) /\ Whole(c)
  <2>1. c.mode = s.mode /\ Columns(c) /\ SameOwners(c, s) /\ c.ui_stack = s.ui_stack /\ ~Local(c)
    BY <1>0, <1>1 DEF Same, SameMode, SameOwners, SameStack, Columns, Local
  <2> QED
    BY <1>0, <1>1, <2>1, SameKeeps DEF Whole
<1>3. CASE s.mode = "b"
  <2> DEFINE a == BmodeDmode(c)
  <2>1. s' = a
    BY <1>3 DEF Sharp, c
  <2>2. FromB(a, c)
    BY <1>1, BmodeDmodeIs
  <2> HIDE DEF a
  <2>3. /\ a \in Globals /\ a.mode = "d" /\ a.mark = NULL /\ ~Local(a) /\ a.right_col = 0
        /\ a.from_fmode = s.from_fmode /\ a.ui_stack = s.ui_stack
        /\ SameOwners(a, c) /\ SameSlips(a, c)
    BY <1>0, <1>1, <1>2, <1>3, <2>2 DEF FromB, Same, SameMode, SameOwners, SameStack, Local, Columns
  <2>4. Whole(a) /\ Keeps(a, s)
    BY <1>1, <1>2, <2>3, SameKeeps, KeepsOn DEF Whole, Columns
  <2>5. Ok => Modes(a) /\ a.ui_stack = <<>>
    BY <1>01, <1>3, <2>3 DEF Modes, Detour
  <2>6. Ok => Inv(a)
    BY <1>01, <2>3, <2>4, <2>5, ModeStep
  <2> QED
    BY <2>1, <2>4, <2>6 DEF Whole, Inv
<1>4. CASE s.mode = "f"
  <2> DEFINE d == fmode_dmode(c)
             p == push_scan_db(d)
             a == enter_dir(p, <<>>, <<>>, FALSE, FALSE, 0)
  <2>1. s' = a
    BY <1>4 DEF Sharp, c
  <2>2. ToD(d, c)
    BY <1>1, <1>2, FmodeDmode
  <2> HIDE DEF d
  <2>3. /\ d \in Globals /\ d.mode = "d" /\ d.right_col = 0 /\ d.twocols = TRUE
        /\ d.mark = NULL /\ ~Local(d) /\ SameOwners(d, c) /\ SameSlips(d, c)
    BY <1>1, <1>2, <1>4, <2>2 DEF ToD, SameMark, Local, Columns
  <2>4. ScanOnly(p, d)
    BY <2>3, ScanDbs
  <2> HIDE DEF p
  <2>5. /\ p \in Globals /\ p.mode = "d" /\ p.right_col = 0 /\ p.twocols = TRUE /\ p.mark = NULL
        /\ SameOwners(p, c) /\ SameSlips(p, c) /\ p.ui_stack = s.ui_stack /\ ~Local(p)
    BY <1>2, <2>3, <2>4
    DEF ScanOnly, Same, SameMode, SameOwners, SameStack, SameTemps, SameSlips, SameMark, Local
  <2>6. Whole(p) /\ Keeps(p, s)
    BY <1>1, <1>2, <2>5, SameKeeps, KeepsOn DEF Whole, Columns
  <2>7. Ok => Modes(p) /\ p.ui_stack = <<>>
    BY <1>01, <2>5 DEF Modes
  <2>8. Ok => Inv(p)
    BY <1>01, <2>5, <2>6, <2>7, ModeStep
  <2>9. Given(p, <<>>, <<>>, FALSE, FALSE)
    BY <2>5, NamesAre, PathsAre DEF Given, Names2, DotDot
  <2>10. Whole(a) /\ (Inv(p) => Inv(a))
    BY <1>0, <2>5, <2>6, <2>9, EnterStep
  <2> QED
    BY <2>1, <2>8, <2>10 DEF Whole, Inv
<1>5. CASE s.mode = "d" /\ s.twocols = TRUE
  <2> DEFINE a == dmode_fmode(c)
  <2>1. s' = a
    BY <1>5 DEF Sharp, c
  <2>2. DF(a, c)
    BY <1>1, DmodeFmode
  <2> HIDE DEF a
  <2>3. c.twocols = TRUE
    BY <1>1, <1>5 DEF Same, SameMode
  <2>4. Keeps(a, c) /\ Columns(a) /\ a.ui_stack = <<>> /\ ~Local(a) /\ a.mode = "f"
    BY <1>2, <1>5, <2>2, <2>3 DEF DF
  <2>5. Whole(a) /\ Keeps(a, s) /\ Modes(a)
    BY <1>2, <2>4, KeepsOn DEF Whole, Keeps, Modes
  <2>6. Ok => Inv(a)
    BY <1>01, <2>4, <2>5, ModeStep
  <2> QED
    BY <2>1, <2>5, <2>6 DEF Whole, Inv
<1>6. CASE s.mode = "d" /\ s.twocols = FALSE
  <2> DEFINE a == DmodeBmode(c)
  <2>1. s' = a
    BY <1>6 DEF Sharp, c
  <2>2. ToB(a, c)
    BY <1>1, DmodeBmodeIs
  <2> HIDE DEF a
  <2>3. /\ Whole(a) /\ a.ui_stack = s.ui_stack /\ a.mark = NULL /\ a.mode = "b" /\ a.syspth[0] = Dot
        /\ SameOwners(a, c) /\ SameSlips(a, c) /\ ~Local(a)
    BY <1>2, <2>2 DEF ToB, Whole, SameOwners, SameStack, Local
  <2>4. Keeps(a, s)
    BY <1>1, <1>2, <2>3, SameKeeps, KeepsOn DEF Whole
  <2>5. Ok => Modes(a) /\ a.ui_stack = <<>>
    BY <1>01, <2>3 DEF Modes
  <2>6. Ok => Inv(a)
    BY <1>01, <2>3, <2>4, <2>5, ModeStep
  <2> QED
    BY <2>1, <2>3, <2>6 DEF Whole, Inv
<1> QED
  <2>1. s.mode \in {"b", "f", "d"} /\ s.twocols \in BOOLEAN
    BY <1>0 DEF Globals
  <2> QED
    BY <2>1, <1>3, <1>4, <1>5, <1>6

LEMMA DlStep ==
  ASSUME Whole(s), dl_act
  PROVE  Whole(s)' /\ (Inv(s) /\ (Local(s) => s.ui_stack # <<>>) => Inv(s)')
<1> DEFINE a == PopAll(s, 0)
           b == free_scan_db(a, TRUE)
           c == diff_db_free(b, 0)
           d == [c EXCEPT !.syspth = [i \in 0..1 |-> <<>>]]
           e == scan_subdir(d, TopDir(0), TopDir(1), 3)
<1>0. s \in Globals /\ Columns(s) /\ s.mode = "d"
  BY DEF Whole, dl_act
<1>1. s' = e
  BY DEF dl_act
<1>2. Emptied(a, s, 0) /\ Keeps(a, s)
  BY <1>0, PopAllIs, PopAllKeeps
<1> HIDE DEF a
<1>3. /\ a \in Globals /\ a.mode = "d" /\ a.ui_stack = <<>> /\ SameMode(a, s)
      /\ s.ui_stack # <<>> => ~Local(a)
      /\ s.ui_stack = <<>> => a = s
  BY <1>0, <1>2 DEF Emptied, SameMode
<1>4. ScanOnly(b, a)
  BY <1>3, ScanDbs
<1> HIDE DEF b
<1>5. b \in Globals /\ SameMode(b, s) /\ SameOwners(b, a) /\ SameSlips(b, a) /\ b.mark = a.mark
  BY <1>3, <1>4 DEF ScanOnly, Same, SameMode, SameOwners, SameStack, SameTemps, SameSlips, SameMark
<1>6. /\ c \in Globals /\ Same(c, b) /\ SameMark(c, b)
      /\ ~Local(b) => c = b
  BY <1>5, FreeList
<1> HIDE DEF c
<1>7. /\ d \in Globals /\ SameMode(d, s) /\ SameOwners(d, a) /\ d.slips = c.slips /\ d.mark = a.mark
  BY <1>5, <1>6, PathsAre
  DEF Globals, Same, SameMode, SameOwners, SameStack, SameTemps, SameSlips, SameMark
<1> HIDE DEF d
<1>8. BuildOnly(e, d) /\ SameMark(e, d)
  BY <1>7, PathsAre, ScanSubdir DEF Names2
<1> HIDE DEF e
<1>9. /\ e \in Globals /\ SameMode(e, s) /\ e.mode = "d" /\ SameOwners(e, a) /\ e.slips = c.slips
      /\ e.mark = a.mark /\ e.ui_stack = <<>>
  BY <1>0, <1>3, <1>7, <1>8 DEF BuildOnly, SameMode, SameOwners, SameStack, SameTemps, SameSlips, SameMark
<1>10. Whole(e)
  BY <1>0, <1>9 DEF Whole, Columns, SameMode
<1>11. ASSUME Inv(s), Local(s) => s.ui_stack # <<>> PROVE Inv(e)
  <2>1. ~Local(a)
    BY <1>3, <1>11
  <2>2. ~Local(b) /\ ~Local(e)
    BY <1>5, <1>9, <2>1 DEF Local
  <2>3. SameSlips(e, a)
    BY <1>5, <1>6, <1>9, <2>2 DEF SameSlips
  <2>4. Keeps(e, s)
    BY <1>2, <1>3, <1>9, <2>3, SameKeeps, KeepsOn
  <2>5. Modes(e)
    BY <1>0, <1>9, <1>11 DEF Inv, Modes, SameMode
  <2> QED
    BY <1>9, <1>10, <1>11, <2>2, <2>4, <2>5, ModeStep
<1> QED
  BY <1>1, <1>10, <1>11 DEF Whole, Inv

-----------------------------------------------------------------------------
(* The theorems.                                                           *)
LEMMA InitStep ==
  ASSUME Init
  PROVE  Whole(s) /\ Inv(s)
<1>1. PICK m \in {"b", "f", "d"}, two \in BOOLEAN :
        /\ m = "b" => ~two
        /\ m = "f" => two
        /\ s = [mode |-> m, twocols |-> two, from_fmode |-> FALSE, old_col |-> 0,
                right_col |-> 0, fpath |-> NULL, cwd |-> TopDir(0),
                syspth |-> [i \in 0..1 |-> IF m # "b" THEN TopDir(i)
                                           ELSE IF i = 0 THEN Dot ELSE TopDir(0)],
                subtree |-> 3, ui_stack |-> <<>>, mark |-> NULL, uz_path_db |-> {},
                tmps |-> {}, made |-> 0,
                scan_db |-> IF m = "d" THEN {<<TopDir(0), TopDir(1)>>} ELSE {},
                scan_db_list |-> <<>>, one_scan |-> FALSE,
                slips |-> {}]
  BY DEF Init
<1>2. /\ s.mode = m /\ s.twocols = two /\ s.from_fmode = FALSE /\ s.right_col = 0
      /\ s.ui_stack = <<>> /\ s.mark = NULL /\ s.uz_path_db = {} /\ s.tmps = {} /\ s.slips = {}
  BY <1>1
<1>3. s.syspth \in [0..1 -> Path] /\ (m = "b" => s.syspth[0] = Dot)
  <2>1. \A i \in 0..1 : TopDir(i) \in Path /\ Dot \in Path
    BY PathsAre
  <2> QED
    BY <1>1, <2>1
<1>4. s \in Globals
  <2>1. TopDir(0) \in Path /\ TopDir(1) \in Path /\ Len(TempName) \in Nat
    BY PathsAre, UiStackAssumption
  <2>2. s.scan_db \in SUBSET (Path \X Path) /\ s.scan_db_list \in Seq(SUBSET (Path \X Path))
    BY <1>1, <2>1
  <2>3. s = [mode |-> m, twocols |-> two, from_fmode |-> FALSE, old_col |-> 0,
             right_col |-> 0, fpath |-> NULL, cwd |-> TopDir(0), syspth |-> s.syspth,
             subtree |-> 3, ui_stack |-> <<>>, mark |-> NULL, uz_path_db |-> {},
             tmps |-> {}, made |-> 0, scan_db |-> s.scan_db, scan_db_list |-> s.scan_db_list,
             one_scan |-> FALSE, slips |-> {}]
    BY <1>1
  <2>4. 0 \in 0..Len(TempName) /\ <<>> \in Seq(Level)
    BY <2>1
  <2> QED
    <3>1. /\ s.mode \in {"b", "f", "d"} /\ s.twocols \in BOOLEAN /\ s.from_fmode \in BOOLEAN
          /\ s.old_col \in 0..1 /\ s.right_col \in 0..1 /\ s.fpath \in Maybe /\ s.cwd \in Path
      BY <1>1, <2>1 DEF Maybe
    <3>2. /\ s.subtree \in 1..3 /\ s.ui_stack \in Seq(Level) /\ s.mark \in Mark \cup {NULL}
          /\ s.uz_path_db \in SUBSET [key : Path, pth : Path] /\ s.tmps \in SUBSET Temps
          /\ s.made \in 0..Len(TempName) /\ s.one_scan \in BOOLEAN
          /\ s.slips \in SUBSET {"mark", "rmtmpdirs", "NULL"}
      <4>1. s.subtree = 3 /\ s.made = 0 /\ s.one_scan = FALSE
        BY <1>1
      <4>2. s.ui_stack \in Seq(Level) /\ s.mark \in Mark \cup {NULL} /\ s.made \in 0..Len(TempName)
        BY <1>2, <2>4, <4>1
      <4>3. \A S : {} \in SUBSET S
        OBVIOUS
      <4>4. /\ s.uz_path_db \in SUBSET [key : Path, pth : Path] /\ s.tmps \in SUBSET Temps
            /\ s.slips \in SUBSET {"mark", "rmtmpdirs", "NULL"}
        BY <1>2, <4>3, Zenon
      <4> QED
        <5>1. s.subtree \in 1..3
          BY <4>1
        <5>2. s.one_scan \in BOOLEAN
          BY <4>1, Zenon
        <5> QED
          BY <4>2, <4>4, <5>1, <5>2, Zenon
    <3>3. s = [mode |-> s.mode, twocols |-> s.twocols, from_fmode |-> s.from_fmode,
               old_col |-> s.old_col, right_col |-> s.right_col, fpath |-> s.fpath,
               cwd |-> s.cwd, syspth |-> s.syspth, subtree |-> s.subtree,
               ui_stack |-> s.ui_stack, mark |-> s.mark, uz_path_db |-> s.uz_path_db,
               tmps |-> s.tmps, made |-> s.made, scan_db |-> s.scan_db,
               scan_db_list |-> s.scan_db_list, one_scan |-> s.one_scan, slips |-> s.slips]
      BY <2>3
    <3> QED
      BY <1>3, <2>2, <3>1, <3>2, <3>3 DEF Globals
<1>5. Columns(s)
  BY <1>1, <1>2 DEF Columns
<1>6. Levels(s) /\ Modes(s)
  BY <1>2, <1>3 DEF Levels, Modes
<1>7. Fits(s)
  BY <1>2, NoMark
<1>8. Owned(s, {})
  <2>1. ZipsOf(s.ui_stack) = {} /\ Fit(s.ui_stack, s.tmps)
    BY <1>2, NoLevels
  <2>2. KeysOf(s) = {} /\ Dirs(s.tmps) = {} /\ IsFiniteSet(s.uz_path_db)
    BY <1>2, FS_EmptySet DEF KeysOf, Dirs
  <2> QED
    BY <1>2, <2>1, <2>2 DEF Owned
<1> QED
  BY <1>4, <1>5, <1>6, <1>7, <1>8 DEF Whole, Inv

LEMMA NextStep ==
  ASSUME Whole(s), [Next]_s
  PROVE  Whole(s)'
<1>1. ASSUME NEW n \in Names, SetMark(n) PROVE Whole(s)'
  BY <1>1, SetMarkStep
<1>2. ASSUME NEW n \in Names, KeyRight(n) PROVE Whole(s)'
  BY <1>2, KeyRightStep
<1>3. ASSUME NEW n \in Names, KeyEnter(n) PROVE Whole(s)'
  BY <1>3, KeyEnterStep
<1>4. ASSUME NEW n \in Names, NEW tree \in 1..2, KeyO(n, tree) PROVE Whole(s)'
  BY <1>4, KeyOStep
<1>5. CASE KeyR
  BY <1>5, KeyRStep
<1>6. CASE KeyLeft
  BY <1>6, KeyLeftStep
<1>7. CASE Tab
  BY <1>7, TabStep
<1>8. CASE CtrlW
  BY <1>8, CtrlWStep
<1>9. CASE Sharp
  BY <1>9, SharpStep
<1>10. CASE Equal
  BY <1>10, EqualStep
<1>11. CASE Jump
  BY <1>11, JumpStep
<1>12. CASE dl_act
  BY <1>12, DlStep
<1>13. CASE UNCHANGED s
  BY <1>13 DEF Whole
<1> QED
  BY <1>1, <1>2, <1>3, <1>4, <1>5, <1>6, <1>7, <1>8, <1>9, <1>10, <1>11, <1>12, <1>13 DEF Next

LEMMA CarefulStep ==
  ASSUME Whole(s), Inv(s), [Careful]_s
  PROVE  Whole(s)' /\ Inv(s)'
<1>1. ASSUME NEW n \in Names, SetMark(n) PROVE Whole(s)' /\ Inv(s)'
  BY <1>1, SetMarkStep
<1>2. ASSUME NEW n \in Names, KeyRight(n) PROVE Whole(s)' /\ Inv(s)'
  BY <1>2, KeyRightStep
<1>3. ASSUME NEW n \in Names, s.mark # NULL => Straight(n) /\ Near /\ ~Detour, KeyEnter(n)
      PROVE  Whole(s)' /\ Inv(s)'
  BY <1>3, KeyEnterStep
<1>4. ASSUME NEW n \in Names, NEW tree \in 1..2, Plain(n), KeyO(n, tree)
      PROVE  Whole(s)' /\ Inv(s)'
  BY <1>4, KeyOStep
<1>5. CASE KeyR
  BY <1>5, KeyRStep
<1>6. CASE KeyLeft
  BY <1>6, KeyLeftStep
<1>7. CASE Tab
  BY <1>7, TabStep
<1>8. CASE (s.mode = "d" => ~s.from_fmode) /\ CtrlW
  BY <1>8, CtrlWStep
<1>9. CASE s.ui_stack = <<>> /\ ~Detour /\ Sharp
  BY <1>9, SharpStep
<1>10. CASE Equal
  BY <1>10, EqualStep
<1>11. CASE Jump
  BY <1>11, JumpStep
<1>12. CASE (Local(s) => s.ui_stack # <<>>) /\ dl_act
  BY <1>12, DlStep
<1>13. CASE UNCHANGED s
  BY <1>13 DEF Whole, Inv
<1> QED
  BY <1>1, <1>2, <1>3, <1>4, <1>5, <1>6, <1>7, <1>8, <1>9, <1>10, <1>11, <1>12, <1>13 DEF Careful

LEMMA TypesFit ==
  ASSUME Whole(s)
  PROVE  TypeOK
<1>1. s \in Globals /\ Columns(s)
  BY DEF Whole
<1>2. ASSUME NEW k \in DOMAIN s.ui_stack
      PROVE  [f \in DOMAIN s.ui_stack[k] \ {"two", "left"} |-> s.ui_stack[k][f]] \in State
  <2> DEFINE st == s.ui_stack[k]
             q == [f \in DOMAIN st \ {"two", "left"} |-> st[f]]
  <2>1. st \in Level
    BY <1>1, <1>2 DEF Globals
  <2> HIDE DEF st
  <2>2. DOMAIN st = {"lpth", "rpth", "llen", "rlen", "lzip", "rzip", "fl", "tree", "two", "left"}
    BY <2>1 DEF Level
  <2>3. q = [lpth |-> st.lpth, rpth |-> st.rpth, llen |-> st.llen, rlen |-> st.rlen,
             lzip |-> st.lzip, rzip |-> st.rzip, fl |-> st.fl, tree |-> st.tree]
    BY <2>2
  <2>4. q \in State
    BY <2>1, <2>3 DEF Level, State, Maybe
  <2> QED
    BY <2>4 DEF st
<1>3. s.mark # NULL => \A i \in 1..2 : s.mark.t[i] \in {"none", "dir", "zip"}
  BY <1>1 DEF Globals, Mark, Kinds
<1>4. \A e \in s.uz_path_db : e.key \in Path /\ e.pth \in Path
  BY <1>1 DEF Globals
<1>5. s.old_col \in 0..1 /\ s.right_col \in 0..(IF s.mode = "f" THEN 1 ELSE 0)
  BY <1>1 DEF Globals, Columns
<1> QED
  BY <1>1, <1>2, <1>3, <1>4, <1>5 DEF TypeOK, Globals, Columns, Maybe

\* Types hold after any keys, and so does what the modes have in common:
\* browse mode has one column, file manager mode two, and only it an active
\* right one, whatever was entered, left and switched before.
THEOREM TypesHold == Spec => []TypeOK
<1>1. Init => Whole(s)
  BY InitStep
<1>2. Whole(s) /\ [Next]_s => Whole(s)'
  BY NextStep
<1>3. Whole(s) => TypeOK
  BY TypesFit
<1> QED
  BY <1>1, <1>2, <1>3, PTL DEF Spec

\* What the careful keys keep.
LEMMA CarefulInv == CarefulSpec => [](Whole(s) /\ Inv(s))
<1>1. Init => Whole(s) /\ Inv(s)
  BY InitStep
<1>2. (Whole(s) /\ Inv(s)) /\ [Careful]_s => (Whole(s) /\ Inv(s))'
  <2> SUFFICES ASSUME Whole(s), Inv(s), [Careful]_s PROVE Whole(s)' /\ Inv(s)'
    OBVIOUS
  <2> QED
    BY CarefulStep
<1> QED
  BY <1>1, <1>2, PTL DEF CarefulSpec

\* With careful keys only diff mode has levels to go back to: whatever way it is
\* left by, the cursor key LEFT, "#", or a mode that was changed to, the stack
\* is empty (pop_state(), dmode_fmode()).
THEOREM LevelsOnlyInDiffMode == CarefulSpec => []StackD
<1>1. Whole(s) /\ Inv(s) => StackD
  BY DEF Inv, Levels, StackD
<1> QED
  BY <1>1, CarefulInv, PTL

\* With careful keys the list of browse mode is that of the current directory,
\* whatever mode was left for it (tgl2c(), pop_state()).
THEOREM BrowsesHere == CarefulSpec => []BmodeDot
<1>1. Whole(s) /\ Inv(s) => BmodeDot
  BY DEF Inv, Modes, BmodeDot
<1> QED
  BY <1>1, CarefulInv, PTL

LEMMA OwnersAre ==
  ASSUME NEW r
  PROVE  Owners(r) = KeysOf(r) \cup ZipsOf(r.ui_stack)
BY DEF Owners, KeysOf, ZipsOf

\* With careful keys each temporary directory is known to what will remove it,
\* and nothing else is ever removed, after any number of archives that were
\* entered within each other, in any mode, and left in any of the ways there
\* are (push_state(), pop_state(), enter_dir(), rmtmpdirs()).
THEOREM TempsAreOwned == CarefulSpec => []TempsOwned
<1>1. Whole(s) /\ Inv(s) => TempsOwned
  <2> SUFFICES ASSUME Whole(s), Inv(s) PROVE TempsOwned
    OBVIOUS
  <2>1. s.slips = {} /\ KeysOf(s) \cup ZipsOf(s.ui_stack) \cup {} = Dirs(s.tmps)
    BY DEF Inv, Owned
  <2>2. Owners(s) = KeysOf(s) \cup ZipsOf(s.ui_stack)
    BY OwnersAre
  <2> QED
    BY <2>1, <2>2 DEF TempsOwned, Dirs
<1> QED
  BY <1>1, CarefulInv, PTL

-----------------------------------------------------------------------------
(* The end of the program: the levels first, then the archives entered in  *)
(* browse mode and file manager mode, one after the other.                 *)
RmUz(e, q)  == rmtmpdirs([q EXCEPT !.uz_path_db = @ \ {e}], e.key)
Some(S)     == CHOOSE x \in S : TRUE
Small(U, n) == {S \in SUBSET U : Cardinality(S) <= n}
\* The globals after the archives in S were removed
Removals(r, g, D) == g = [S \in D |-> IF S = {} THEN r ELSE RmUz(Some(S), g[S \ {Some(S)}])]

LEMMA SmallIs ==
  ASSUME NEW U, IsFiniteSet(U), NEW n \in Nat, NEW S \in Small(U, n)
  PROVE  /\ S \in SUBSET U /\ IsFiniteSet(S) /\ Cardinality(S) \in Nat /\ Cardinality(S) <= n
         /\ S # {} => Some(S) \in S /\ n # 0 /\ S \ {Some(S)} \in Small(U, n - 1)
                      /\ S \ {Some(S)} \in Small(U, n)
<1>1. S \in SUBSET U /\ Cardinality(S) <= n
  BY DEF Small
<1>2. IsFiniteSet(S)
  BY <1>1, FS_Subset
<1>3. Cardinality(S) \in Nat
  BY <1>2, FS_CardinalityType
<1>4. ASSUME S # {} PROVE Some(S) \in S /\ n # 0 /\ S \ {Some(S)} \in Small(U, n - 1) /\ S \ {Some(S)} \in Small(U, n)
  <2>1. Some(S) \in S
    BY <1>4 DEF Some
  <2>2. Cardinality(S \ {Some(S)}) = Cardinality(S) - 1
    BY <2>1, <1>2, FS_RemoveElement
  <2>3. Cardinality(S) # 0
    BY <1>2, <1>4, FS_EmptySet
  <2>4. S \ {Some(S)} \in SUBSET U
    BY <1>1
  <2>5. Cardinality(S \ {Some(S)}) <= n - 1 /\ Cardinality(S \ {Some(S)}) <= n /\ n # 0
    BY <1>1, <1>3, <2>2, <2>3
  <2> QED
    BY <2>1, <2>4, <2>5 DEF Small
<1> QED
  BY <1>1, <1>2, <1>3, <1>4

LEMMA RemovalsExist ==
  ASSUME NEW r, NEW U, IsFiniteSet(U)
  PROVE  \A n \in Nat : \E g : Removals(r, g, Small(U, n))
<1> DEFINE Is(g, n) == Removals(r, g, Small(U, n))
           Step(e, q) == RmUz(e, q)
           Bad == {n \in Nat : ~\E g : Is(g, n)}
<1>0. \A g, n : Is(g, n) <=>
        g = [S \in Small(U, n) |-> IF S = {} THEN r ELSE Step(Some(S), g[S \ {Some(S)}])]
  BY DEF Removals
<1> HIDE DEF Is, Step
<1> SUFFICES ASSUME Bad # {} PROVE FALSE
  BY DEF Is
<1>1. PICK n \in Bad : \A y \in Bad : n <= y
  BY LeastExists
<1>2. n \in Nat
  OBVIOUS
<1>3. n # 0
  <2> SUFFICES \E g : Is(g, 0)
    BY <1>1
  <2> DEFINE g0 == [S \in Small(U, 0) |-> r]
  <2>1. \A S \in Small(U, 0) : S = {}
    BY SmallIs
  <2>2. Is(g0, 0)
    BY <1>0, <2>1
  <2> QED
    BY <2>2
<1>4. n - 1 \in Nat /\ n - 1 \notin Bad
  BY <1>1, <1>3
<1>5. PICK g : Is(g, n - 1)
  BY <1>4
<1> DEFINE F(S, h) == IF S = {} THEN r ELSE Step(Some(S), h[S \ {Some(S)}])
           f == [S \in Small(U, n) |-> F(S, g)]
<1>6. ASSUME NEW S \in Small(U, n - 1) PROVE f[S] = g[S]
  <2>1. S \in Small(U, n)
    <3> DEFINE k == n - 1
    <3>1. k \in Nat /\ S \in Small(U, k)
      BY <1>4, <1>6
    <3> HIDE DEF k
    <3>2. S \in SUBSET U /\ Cardinality(S) \in Nat /\ Cardinality(S) <= k
      BY <3>1, SmallIs
    <3> QED
      BY <1>2, <3>2 DEF Small, k
  <2>2. g[S] = F(S, g)
    BY <1>0, <1>5
  <2> HIDE DEF F
  <2> QED
    BY <2>1, <2>2
<1>7. ASSUME NEW S \in Small(U, n) PROVE f[S] = F(S, f)
  <2>1. S # {} => f[S \ {Some(S)}] = g[S \ {Some(S)}]
    BY <1>2, <1>6, <1>7, SmallIs
  <2>2. F(S, g) = F(S, f)
    <3> HIDE DEF f
    <3> QED
      BY <2>1
  <2> HIDE DEF F
  <2> QED
    BY <2>2
<1> HIDE DEF F
<1>8. f = [S \in Small(U, n) |-> F(S, f)]
  BY <1>7
<1> HIDE DEF f
<1>9. Is(f, n)
  BY <1>8, <1>0 DEF F
<1> QED
  BY <1>1, <1>9

LEMMA QuitInTurn ==
  ASSUME NEW r, IsFiniteSet(r.uz_path_db)
  PROVE  \E g : /\ Removals(PopAll([r EXCEPT !.cwd = Root], 0), g, SUBSET r.uz_path_db)
                /\ Quit(r) = g[r.uz_path_db]
<1> DEFINE U == r.uz_path_db
           b == PopAll([r EXCEPT !.cwd = Root], 0)
           n == Cardinality(U)
<1>1. n \in Nat /\ Small(U, n) = SUBSET U
  BY FS_CardinalityType, FS_Subset DEF Small
<1>2. Quit(r) = (CHOOSE g : g = [S \in SUBSET U |-> IF S = {} THEN b
                   ELSE RmUz(Some(S), g[S \ {Some(S)}])])[U]
  <2> HIDE DEF b
  <2> QED
    BY DEF b, Quit, FoldSet, MapThenFoldSet, RmUz, Some
<1> HIDE DEF b, n
<1>3. Quit(r) = (CHOOSE g : Removals(b, g, SUBSET U))[U]
  BY <1>2 DEF Removals
<1>4. \E g : Removals(b, g, SUBSET U)
  BY <1>1, RemovalsExist
<1> QED
  BY <1>3, <1>4 DEF b

\* What is left when the archives in S were removed
Remaining(a, r, S) == a \in Globals /\ a.tmps = Without(r.tmps, {e.key : e \in S})
LEMMA Removed ==
  ASSUME NEW r \in Globals, KeysOf(r) = Dirs(r.tmps), IsFiniteSet(r.uz_path_db),
         \A d, e \in r.uz_path_db : d.key = e.key => d = e,
         NEW g, Removals(r, g, SUBSET r.uz_path_db)
  PROVE  \A S \in SUBSET r.uz_path_db : Remaining(g[S], r, S)
<1> DEFINE U == r.uz_path_db
           Bad == {n \in Nat : \E S \in Small(U, n) : ~Remaining(g[S], r, S)}
<1>1. ASSUME Bad # {} PROVE FALSE
  <2>1. PICK n \in Bad : \A y \in Bad : n <= y
    BY <1>1, LeastExists
  <2>2. PICK S \in Small(U, n) : ~Remaining(g[S], r, S)
    OBVIOUS
  <2>3. S # {}
    <3> SUFFICES ASSUME S = {} PROVE FALSE
      OBVIOUS
    <3>1. g[S] = r
      BY DEF Removals
    <3>2. Remaining(r, r, {})
      BY DEF Remaining, Without
    <3> QED
      BY <2>2, <3>1, <3>2
  <2> DEFINE x == Some(S)
             b == g[S \ {x}]
             c == [b EXCEPT !.uz_path_db = @ \ {x}]
             a == rmtmpdirs(c, x.key)
  <2>4. x \in S /\ S \in SUBSET U /\ n # 0 /\ S \ {x} \in Small(U, n - 1)
    <3>1. IsFiniteSet(U) /\ n \in Nat /\ S \in Small(U, n)
      OBVIOUS
    <3> HIDE DEF U, Bad
    <3>2. S \in SUBSET U /\ (S # {} => Some(S) \in S /\ n # 0 /\ S \ {Some(S)} \in Small(U, n - 1))
      BY <3>1, SmallIs
    <3> QED
      BY <2>3, <3>2
  <2>5. g[S] = a
    BY <2>3, <2>4 DEF Removals, RmUz
  <2>6. Remaining(b, r, S \ {x})
    <3>1. n - 1 \in Nat /\ n - 1 \notin Bad
      BY <2>1, <2>4
    <3> QED
      BY <2>4, <3>1
  <2> HIDE DEF b, x
  <2>7. c \in Globals /\ c.tmps = b.tmps
    BY <2>6 DEF Remaining, Globals
  <2> HIDE DEF c
  <2>8. PICK t \in r.tmps : x.key = <<"/", t>>
    <3>1. x.key \in KeysOf(r)
      BY <2>4 DEF KeysOf
    <3> QED
      BY <3>1 DEF Dirs
  <2>9. t \in c.tmps
    <3>1. \A e \in S \ {x} : e.key # x.key
      BY <2>4
    <3>2. c.tmps = Without(r.tmps, {e.key : e \in S \ {x}})
      BY <2>6, <2>7 DEF Remaining
    <3> QED
      BY <2>8, <3>1, <3>2 DEF Without
  <2>10. a \in Globals /\ a.tmps = c.tmps \ {t}
    BY <2>7, <2>8, <2>9, RmTmp
  <2> HIDE DEF a
  <2>11. a.tmps = Without(r.tmps, {e.key : e \in S})
    <3>1. c.tmps = Without(r.tmps, {e.key : e \in S \ {x}})
      BY <2>6, <2>7 DEF Remaining
    <3>2. \A k : k \in {e.key : e \in S} <=> k \in {e.key : e \in S \ {x}} \/ k = x.key
      BY <2>4
    <3>3. \A u \in r.tmps : <<"/", u>> = x.key <=> u = t
      BY <2>8
    <3> QED
      BY <2>10, <3>1, <3>2, <3>3 DEF Without
  <2> QED
    BY <2>2, <2>5, <2>10, <2>11 DEF Remaining
<1>2. ASSUME NEW S \in SUBSET U PROVE Remaining(g[S], r, S)
  <2>1. Cardinality(S) \in Nat
    BY FS_Subset, FS_CardinalityType
  <2>2. S \in Small(U, Cardinality(S))
    BY <2>1 DEF Small
  <2> QED
    BY <1>1, <2>1, <2>2
<1> QED
  BY <1>2

LEMMA QuitIs ==
  ASSUME NEW r \in Globals, Owned(r, {})
  PROVE  Quit(r).tmps = {}
<1> DEFINE c == [r EXCEPT !.cwd = Root]
           b == PopAll(c, 0)
<1>1. c \in Globals /\ c.uz_path_db = r.uz_path_db /\ Owned(c, {})
  <2>1. c \in Globals
    BY PathsAre DEF Globals
  <2>2. SameOwners(c, r) /\ SameSlips(c, r)
    BY DEF Globals, SameOwners, SameStack, SameTemps, SameSlips
  <2> HIDE DEF c
  <2>3. Owned(c, {})
    BY <2>1, <2>2, SameOwned
  <2> QED
    BY <2>1, <2>2, <2>3 DEF SameOwners, SameTemps
<1> HIDE DEF c
<1>2. b \in Globals /\ b.uz_path_db = r.uz_path_db /\ b.ui_stack = <<>>
  BY <1>1, PopAllIs DEF Emptied
<1>3. Owned(b, {})
  BY <1>1, PopAllKeeps, OwnedOn
<1> HIDE DEF b
<1>4. ZipsOf(b.ui_stack) = {}
  BY <1>2, NoLevels
<1>5. /\ KeysOf(b) = Dirs(b.tmps) /\ IsFiniteSet(b.uz_path_db)
      /\ \A d, e \in b.uz_path_db : d.key = e.key => d = e
  BY <1>3, <1>4 DEF Owned
<1>6. PICK g : Removals(b, g, SUBSET b.uz_path_db) /\ Quit(r) = g[b.uz_path_db]
  BY <1>2, <1>5, QuitInTurn DEF b, c
<1>7. Quit(r).tmps = Without(b.tmps, {e.key : e \in b.uz_path_db})
  <2>1. \A S \in SUBSET b.uz_path_db : Remaining(g[S], b, S)
    BY <1>2, <1>5, <1>6, Removed
  <2>2. b.uz_path_db \in SUBSET b.uz_path_db
    OBVIOUS
  <2>3. Remaining(g[b.uz_path_db], b, b.uz_path_db)
    BY <2>1, <2>2
  <2> QED
    BY <1>6, <2>3 DEF Remaining
<1> QED
  BY <1>5, <1>7 DEF Without, KeysOf, Dirs

\* Whenever the program is left after careful keys, in whatever archives on
\* whatever levels, no temporary directory stays behind (main()).
THEOREM TempsAllRemoved == CarefulSpec => []AllRemoved
<1>1. Whole(s) /\ Inv(s) => AllRemoved
  BY QuitIs DEF Whole, Inv, AllRemoved
<1> QED
  BY <1>1, CarefulInv, PTL
=============================================================================
