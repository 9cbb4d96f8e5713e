------------------------------ MODULE UiStack ------------------------------
(***************************************************************************)
(* Where the user is, and the way back: the modes of the program (tc.c),   *)
(* directories and archives that are entered and left (action(),           *)
(* enter_dir(), push_state() and pop_state() of ui.c), the temporary       *)
(* directories archives are unpacked into (uzp.c), the mark, and the stack *)
(* of scan databases (db.c).                                               *)
(*                                                                         *)
(* All of this is global state, changed by functions that call each other; *)
(* it is one record here, and a function of the program is an operator     *)
(* from the record before the call to the record after it.  A step is a    *)
(* key.                                                                    *)
(***************************************************************************)
EXTENDS Integers, Sequences, FiniteSets, SequencesExt, FiniteSetsExt

CONSTANTS
  NULL,
  Top,       (* the two directories of the command line, as names          *)
  TempName,  (* the names mkdtemp() makes, in their order                  *)
  Content,   (* what a directory below Top[0], Top[1] or one of TempName   *)
             (* contains: its names, and "dir" or "zip" for each           *)
  MaxLen,    (* bound on the components of a path                          *)
  MaxStack   (* bound on ui_stack and on scan_db_list                      *)

(* Content["t"] is what is in an archive.                                   *)
VARIABLE s   \* the globals; see TypeOK
-----------------------------------------------------------------------------
(* Paths and names are sequences of components; "." is the path of browse  *)
(* mode, whose list is that of the current directory.                      *)
Root   == <<"/">>
Dot    == <<".">>
DotDot == <<"..">>
Lost   == <<"?">>    \* the first bytes of a path that is not the one meant
Temps  == {TempName[i] : i \in DOMAIN TempName}
Names  == UNION {DOMAIN Content[d] : d \in DOMAIN Content}
Path   == Seq(Names \cup {Top[0], Top[1]} \cup Temps \cup {"/", ".", "?"})
TopDir(i) == <<"/", Top[i]>>

\* Content["t"] is what is in an archive; mkdtemp() never makes a name twice.
ASSUME UiStackAssumption ==
  /\ MaxLen \in Nat /\ MaxStack \in Nat
  /\ DOMAIN Top = 0..1 /\ DOMAIN Content = {Top[0], Top[1], "t"}
  /\ \A d \in DOMAIN Content : \A n \in DOMAIN Content[d] : Content[d][n] \in {"dir", "zip"}
  /\ (Names \cup {Top[0], Top[1]} \cup Temps) \cap {"/", ".", "..", "?"} = {}
  /\ TempName \in Seq(Temps) /\ Temps \cap DOMAIN Content = {}
  /\ \A i, j \in DOMAIN TempName : TempName[i] = TempName[j] => i = j
  /\ NULL \notin Names /\ NULL \notin Path /\ NULL # DotDot

Other(col) == 1 - col

Absolute(n) == n # NULL /\ n # <<>> /\ Head(n) = "/"
Inside(p, q) == IsPrefix(q, p)

pthcut(p) == IF Len(p) < 2 THEN p ELSE Front(p)
pthcat(p, n) == IF n = DotDot THEN pthcut(p) ELSE p \o n

Label(name) == IF name \in Temps THEN "t" ELSE name
IsDir(r, p) ==
  \/ p = Root
  \/ /\ Len(p) > 1 /\ Head(p) = "/" /\ p[2] \in {Top[0], Top[1]} \cup r.tmps
     /\ \A k \in 3..Len(p) : /\ p[k] \in DOMAIN Content[Label(p[2])]
                             /\ Content[Label(p[2])][p[k]] = "dir"
Kind(r, p, n) ==
  IF Len(p) < 2 \/ Len(p) >= MaxLen \/ ~IsDir(r, p) THEN "none"
  ELSE IF n \in DOMAIN Content[Label(p[2])] THEN Content[Label(p[2])][n]
  ELSE "none"

\* The directory whose list column i shows.
Shown(r, i) == IF r.syspth[i] = Dot THEN r.cwd ELSE r.syspth[i]
View(r) == IF r.mode = "b" THEN <<"b", r.cwd>>
           ELSE <<r.mode, r.syspth[0], r.syspth[1]>>
\* f->type[]: what the entry n is in each directory of the active list.
Types(r, n) ==
  CASE r.mode = "b" -> <<Kind(r, Shown(r, 0), n), "none">>
    [] r.mode = "f" /\ r.right_col = 0 -> <<Kind(r, r.syspth[0], n), "none">>
    [] r.mode = "f" /\ r.right_col = 1 -> <<"none", Kind(r, r.syspth[1], n)>>
    [] OTHER ->
         <<IF r.subtree # 2 THEN Kind(r, r.syspth[0], n) ELSE "none",
           IF r.subtree # 1 THEN Kind(r, r.syspth[1], n) ELSE "none">>
-----------------------------------------------------------------------------
(* The mark: an entry of a list (n is its name), or a copy of one with     *)
(* absolute paths (n is NULL).                                             *)
Local(r)  == r.mark # NULL /\ r.mark.n # NULL
Global(r) == r.mark # NULL /\ r.mark.n = NULL
gl_mark(r) == IF r.mark.l # NULL THEN r.mark.l ELSE r.mark.r
clr_mark(r) == [r EXCEPT !.mark = NULL]
Marked(r, n) ==
  [n |-> n, t |-> Types(r, n), l |-> NULL, r |-> NULL, list |-> r.right_col]

GlobalMark(r) ==
  LET m == r.mark
      t == IF r.mode = "b" THEN m.t
           ELSE [i \in 1..2 |-> IF r.syspth[i-1] = <<>> THEN "none" ELSE m.t[i]]
      at(i) == IF t[i] = "none" THEN NULL ELSE Shown(r, i-1) \o <<m.n>>
  IN  [m EXCEPT !.n = NULL, !.t = t, !.l = at(1), !.r = at(2)]
mark_global(r) ==
  IF \/ r.mode = "f"
     \/ \A i \in 1..2 : GlobalMark(r).t[i] = "none"
     \/ r.mode = "b" /\ Kind(r, r.cwd, r.mark.n) = "none"
  THEN clr_mark(r) ELSE [r EXCEPT !.mark = GlobalMark(r)]

\* diff_db_free(): a mark that still is in this list points to nothing.
diff_db_free(r, i) ==
  IF Local(r) /\ r.mark.list = i THEN [r EXCEPT !.slips = @ \cup {"mark"}] ELSE r
-----------------------------------------------------------------------------
(* Lists.  scan_db is the set of the pairs of directories it was filled    *)
(* from.                                                                   *)
push_scan_db(r) ==
  [r EXCEPT !.scan_db_list = <<r.scan_db>> \o @, !.scan_db = {},
            !.one_scan = TRUE]
free_scan_db(r, os) == [r EXCEPT !.scan_db = {}, !.one_scan = os]
\* (a slip: what was pushed is not fetched)
FreedOnly(r) == free_scan_db(r, FALSE)
pop_scan_db(r) ==
  LET e == free_scan_db(r, FALSE)
  IN  IF r.scan_db_list = <<>> THEN e
      ELSE [e EXCEPT !.scan_db = Head(r.scan_db_list), !.scan_db_list = Tail(@)]

Odd(tree) == tree \in {1, 3}
build_diff_db(r, tree) ==
  IF r.mode # "d"
  THEN [r EXCEPT !.one_scan = FALSE,
                 !.syspth[1] = IF r.mode = "b" /\ Odd(tree) THEN r.cwd ELSE @]
  ELSE IF r.one_scan
       THEN [r EXCEPT !.one_scan = FALSE,
                      !.scan_db = @ \cup {<<r.syspth[0], r.syspth[1]>>}]
       ELSE r

scan_subdir(r, name, rnam, tree) ==
  LET n == <<name, IF rnam = NULL THEN name ELSE rnam>>
      on(i) == n[i+1] # NULL /\ (IF i = 0 THEN Odd(tree) ELSE tree > 1)
  IN  build_diff_db([r EXCEPT !.syspth =
        [i \in 0..1 |-> IF on(i) THEN pthcat(@[i], n[i+1]) ELSE @[i]]], tree)

rebuild_db(r) ==
  LET a == IF Local(r) THEN mark_global(r) ELSE r
      b == build_diff_db(diff_db_free(a, 0),
                         IF a.mode = "d" THEN a.subtree ELSE 1)
  IN  IF r.mode = "f" THEN build_diff_db(diff_db_free(b, 1), 2) ELSE b
-----------------------------------------------------------------------------
(* Temporary directories.                                                  *)
Fresh(r) == <<"/", TempName[r.made + 1]>>
mktmpdirs(r) ==
  [r EXCEPT !.made = @ + 1, !.tmps = @ \cup {TempName[r.made + 1]}]
rmtmpdirs(r, name) ==
  IF \E t \in r.tmps : name = <<"/", t>>
  THEN [r EXCEPT !.tmps = @ \ {name[2]}]
  ELSE [r EXCEPT !.slips = @ \cup {"rmtmpdirs"}]

chdir(r, p) == IF IsDir(r, p) THEN [r EXCEPT !.cwd = p] ELSE r
fmode_chdir(r) == chdir(r, r.syspth[r.right_col])
mk_abs_pth(r) ==
  [r EXCEPT !.syspth = [i \in 0..1 |-> IF @[i] = Dot THEN r.cwd ELSE @[i]]]
-----------------------------------------------------------------------------
(* Entering a directory in diff mode, and leaving it.                      *)
push_state(r, name, rnam, lzip, rzip, f2d) ==
  IF name = <<>> /\ rnam = <<>> THEN r
  ELSE LET n  == <<name, rnam>>
           st == [lpth |-> IF Absolute(name) THEN r.syspth[0] ELSE NULL,
                  rpth |-> IF Absolute(rnam) THEN r.syspth[1] ELSE NULL,
                  llen |-> Len(r.syspth[0]), rlen |-> Len(r.syspth[1]),
                  lzip |-> IF lzip THEN name ELSE NULL,
                  rzip |-> IF rzip THEN rnam ELSE NULL,
                  fl |-> f2d, tree |-> r.subtree, two |-> s.twocols, left |-> View(s)]
       IN  [r EXCEPT !.ui_stack = <<st>> \o @,
                     !.syspth = [i \in 0..1 |-> IF Absolute(n[i+1]) THEN <<>>
                                                ELSE @[i]]]

\* The paths of a level: cut off what was added, or the path saved.
Truncated(p, len) == IF Len(p) < len THEN Lost ELSE SubSeq(p, 1, len)
\* (a slip: the saved path is not used)
CutOff(p, len, kept, mode) == Truncated(p, len)
Restored(p, len, kept, mode) ==
  IF kept = NULL THEN Truncated(p, len) ELSE IF mode = 1 THEN kept ELSE Lost

\* An archive is left: the mark in it goes, and its temporary directory.
\* (a slip: only marks of the list)
LocalOnly(r, i) == Local(r)
MarkWithin(r, i) ==
  \/ Local(r)
  \/ /\ Global(r)
     /\ LET m == IF i = 0 THEN r.mark.l ELSE r.mark.r
        IN  m # NULL /\ Inside(m, r.syspth[i])
\* (a slip: the directory is not removed)
MarkOnly(r, i, zip, mode) ==
  IF zip # NULL /\ mode = 1 /\ MarkWithin(r, i) THEN clr_mark(r) ELSE r
LeaveZip(r, i, zip, mode) ==
  IF zip = NULL THEN r
  ELSE rmtmpdirs(IF mode = 1 /\ MarkWithin(r, i) THEN clr_mark(r) ELSE r, zip)

\* pop_state() up to the change of the mode
Pop(r, mode) ==
  LET st == Head(r.ui_stack)
      a == IF st.lzip # NULL \/ st.rzip # NULL THEN pop_scan_db(r) ELSE r
      b == LeaveZip(LeaveZip(a, 0, st.lzip, mode), 1, st.rzip, mode)
      c == IF mode # 1 THEN clr_mark(b) ELSE IF Local(b) THEN mark_global(b) ELSE b
      d == [c EXCEPT !.syspth[0] = Restored(@, st.llen, st.lpth, mode),
                     !.syspth[1] = Restored(@, st.rlen, st.rpth, mode),
                     !.subtree = st.tree, !.ui_stack = Tail(@),
                     !.fpath = IF mode = 0 THEN NULL ELSE @]
  IN  diff_db_free(d, 0)
\* (a slip: one level only)
PopOne(r, mode) == IF r.ui_stack = <<>> THEN r ELSE Pop(r, mode)
PopAll(r, mode) == FoldLeft(LAMBDA a, st : Pop(a, mode), r, r.ui_stack)
-----------------------------------------------------------------------------
(* tc.c: changes of the mode.                                              *)
\* (a slip: the right column stays active)
StaysRight(r) ==
  IF r.mode # "f" THEN r
  ELSE [r EXCEPT !.mode = "d", !.old_col = r.right_col, !.from_fmode = TRUE]
fmode_dmode(r) ==
  IF r.mode # "f" THEN r
  ELSE diff_db_free(diff_db_free(
         [r EXCEPT !.mode = "d", !.old_col = r.right_col, !.right_col = 0,
                   !.from_fmode = TRUE], 0), 1)

\* dmode_fmode() after the states were popped
ToFmode(r) ==
  rebuild_db(mk_abs_pth(
    IF r.mode = "b" \/ r.twocols
    THEN [r EXCEPT !.mode = "f", !.twocols = TRUE, !.right_col = r.old_col]
    ELSE [r EXCEPT !.mode = "b"]))

\* No state is left when it is called.
restore_fmode(r) ==
  ToFmode(IF r.fpath = NULL THEN r
          ELSE [r EXCEPT !.syspth[Other(r.old_col)] = r.fpath, !.fpath = NULL])

\* tgl2c(1): browse mode and diff mode with one column
BmodeDmode(r) ==
  LET a == [clr_mark(r) EXCEPT !.one_scan = FALSE, !.mode = "d",
              !.syspth = [i \in 0..1 |-> r.syspth[1]]]
  IN  [rebuild_db(a) EXCEPT !.one_scan = r.one_scan]
\* tgl2c(): to browse mode, in the directory syspth[1]
ToBmode(r) ==
  LET a == [chdir(r, r.syspth[1]) EXCEPT !.syspth[0] = Dot]
  IN  rebuild_db([fmode_dmode(a) EXCEPT !.mode = "b", !.twocols = FALSE])
DmodeBmode(r) == ToBmode(clr_mark(r))
FmodeBmode(r) ==
  LET c == clr_mark(r)
  IN  ToBmode(IF r.right_col = 1 THEN [c EXCEPT !.fpath = r.syspth[0]]
              ELSE [c EXCEPT !.fpath = r.syspth[1], !.syspth[1] = r.syspth[0]])

dmode_fmode(r) ==
  IF r.mode = "f" THEN r
  ELSE IF r.mode = "b" \/ r.ui_stack = <<>> THEN ToFmode(r)
  ELSE LET p == PopAll(r, 2)
           q == IF ~Last(r.ui_stack).fl THEN p
                ELSE IF r.from_fmode THEN restore_fmode(p) ELSE DmodeBmode(p)
       IN  ToFmode(q)

BmodeFmode(r) ==
  LET o == IF r.fpath = NULL THEN r.syspth[1] ELSE r.fpath
      p == IF r.old_col = 1 THEN <<o, r.syspth[1]>> ELSE <<r.syspth[1], o>>
  IN  [dmode_fmode([clr_mark(r) EXCEPT !.fpath = NULL, !.one_scan = FALSE,
                      !.syspth = [i \in 0..1 |-> p[i+1]]])
        EXCEPT !.one_scan = r.one_scan]

tgl2c0(r) ==
  CASE r.mode = "b" -> BmodeFmode(r)
    [] r.mode = "f" -> FmodeBmode(r)
    [] r.mode = "d" -> [r EXCEPT !.twocols = ~@]

\* The level whose flag tells that the mode was changed when it was entered.
Entrance(stack) == Head(stack)
pop_state(r) ==
  IF r.ui_stack = <<>> THEN IF r.from_fmode THEN restore_fmode(r) ELSE r
  ELSE LET p == Pop(r, 1)
       IN  IF ~Entrance(r.ui_stack).fl THEN p
           ELSE IF r.from_fmode THEN restore_fmode(p) ELSE DmodeBmode(p)
-----------------------------------------------------------------------------
(* enter_dir(): with two names, or in diff mode.                           *)
EnterBoth(r, name, rnam, lzip, rzip, tree) ==
  LET f2d == name # NULL /\ rnam # NULL /\ r.mode # "d"
      c == clr_mark(r)
      o == IF tree = 1 THEN [c EXCEPT !.fpath = r.syspth[1], !.syspth[1] = r.syspth[0]]
           ELSE IF tree = 2
           THEN [c EXCEPT !.fpath = r.syspth[0], !.syspth[0] = r.syspth[1]]
           ELSE c
      a == IF ~f2d THEN r
           ELSE IF r.mode = "b" THEN BmodeDmode(c) ELSE fmode_dmode(o)
      b == IF Local(a) THEN mark_global(a) ELSE a
      p == [push_state(b, name, rnam, lzip, rzip, f2d) EXCEPT !.subtree =
              (IF name # NULL THEN 1 ELSE 0) + (IF rnam # NULL THEN 2 ELSE 0)]
  IN  scan_subdir(p, name, rnam, p.subtree)

\* The archive whose uppermost directory column i shows, as ".." finds it
Kept(r, i) == {e \in r.uz_path_db : e.key = r.syspth[i]}

ChdirB(r, name) == IF Absolute(name) THEN chdir(r, name)
                   ELSE chdir(r, pthcat(r.cwd, name))

\* One directory, in browse mode.
EnterB(r, name, zip) ==
  LET a == IF zip THEN [r EXCEPT !.uz_path_db = @ \cup {[key |-> name, pth |-> r.cwd]}]
           ELSE r
      up == IF zip \/ name # DotDot THEN {} ELSE Kept(r, 1)
      n == IF up = {} THEN name ELSE (CHOOSE e \in up : TRUE).pth
      b == ChdirB([a EXCEPT !.uz_path_db = @ \ up], n)
  IN  build_diff_db(diff_db_free(b, 0), 1)

\* Is the archive open on the other side too?  (a slip: nobody looks)
NotOpen(r, i, key)   == FALSE
StillOpen(r, i, key) == Inside(r.syspth[Other(i)], key)
\* One directory, in the active column.
EnterF(r, name, zip) ==
  LET i == r.right_col
      up == IF zip \/ name # DotDot THEN {} ELSE Kept(r, i)
      e == CHOOSE x \in up : TRUE
      open == up # {} /\ StillOpen(r, i, e.key)
      a == IF zip
           THEN [r EXCEPT !.uz_path_db = @ \cup {[key |-> name, pth |-> r.syspth[i]]},
                          !.syspth[i] = <<>>]
           ELSE IF up # {}
           THEN [r EXCEPT !.syspth[i] = e.pth, !.uz_path_db = IF open THEN @ ELSE @ \ up]
           ELSE [r EXCEPT !.syspth[i] = IF Absolute(name) THEN <<>> ELSE @]
      b == scan_subdir(diff_db_free(a, i), IF up = {} THEN name ELSE NULL, NULL, i + 1)
  IN  IF IsDir(b, b.syspth[i]) THEN fmode_chdir(b)
      ELSE build_diff_db([b EXCEPT !.syspth[i] = r.syspth[i]], i + 1)

\* The archives that were left for good
LeaveKept(r0, r) ==
  LET gone == {e.key : e \in r0.uz_path_db \ r.uz_path_db}
      k == CHOOSE x \in gone : TRUE
      c == IF Global(r) /\ Inside(gl_mark(r), k) THEN clr_mark(r) ELSE r
  IN  IF gone = {} THEN r ELSE rmtmpdirs(c, k)

EnterOne(r, name, rnam, lzip, rzip) ==
  LET a == IF Local(r) /\ (r.mode = "b" \/ r.mark.t[r.right_col + 1] # "none")
           THEN mark_global(r) ELSE r
      n == IF name = NULL THEN rnam ELSE name
      z == IF name = NULL THEN rzip ELSE lzip
  IN  LeaveKept(a, IF r.mode = "b" THEN EnterB(a, n, z) ELSE EnterF(a, n, z))

enter_dir(r, name, rnam, lzip, rzip, tree) ==
  IF (name = DotDot /\ rnam # NULL) \/ (rnam = DotDot /\ name # NULL) THEN r
  ELSE IF r.mode = "d" \/ (name # NULL /\ rnam # NULL)
  THEN EnterBoth(r, name, rnam, lzip, rzip, tree)
  ELSE EnterOne(r, name, rnam, lzip, rzip)
-----------------------------------------------------------------------------
(* action().  unpack() returns the entry with the types and the name of    *)
(* what was unpacked: z is NULL if it is no archive.                       *)
Entry(t, name, z) == [t |-> t, name |-> name, z |-> z]
unpack(r, f, i) ==
  IF f.t[i] # "zip" THEN [r |-> r, f |-> f]
  ELSE [r |-> mktmpdirs(r),
        f |-> Entry([k \in 1..2 |-> IF k = i THEN "dir" ELSE "none"], Fresh(r), TRUE)]

\* Without a mark: the entry n, on the sides it is on
Act(r, n, tree, enter) ==
  LET f  == Entry(Types(r, n), <<n>>, FALSE)
      u1 == unpack(r, f, 1)
      u2 == unpack(u1.r, f, 2)
      f1 == u1.f
      f2 == u2.f
      q  == u2.r
      lt == f1.t[1]
      rt == f2.t[2]
      act == r.mode = "d" /\ tree = 3 /\ enter    \* diff_act_
  IN  IF lt = "none" \/ (act /\ rt = "dir" /\ lt # "dir") \/ tree = 2
      THEN IF rt # "dir" THEN q
           ELSE enter_dir(q, IF act THEN f2.name ELSE NULL, f2.name,
                          FALSE, f2.z, 0)
      ELSE IF rt = "none" \/ (act /\ lt = "dir" /\ rt # "dir") \/ tree = 1
      THEN IF lt # "dir" THEN q
           ELSE enter_dir(q, f1.name,
                          IF act THEN f1.name ELSE NULL, f1.z, FALSE, 0)
      ELSE IF lt # "dir" \/ rt # "dir" THEN q
      ELSE LET p == IF f1.z \/ f2.z THEN push_scan_db(q) ELSE q
           IN  enter_dir(p, f1.name, f2.name,
                         f1.z, f2.z, 0)

\* With a mark: what stands on the left and on the right, and tree
Sides(r, m, f, tree) ==
  LET side(l, lt, g, rt, tr, old) ==
        [l |-> l, lt |-> lt, r |-> g, rt |-> rt, tree |-> tr, old |-> old]
      mark(p) == IF m.name = NULL THEN p ELSE m.name
  IN  CASE r.mode = "b" ->
             side(mark(gl_mark(r)), m.t[1], f.name, f.t[1], tree, 1)
        [] r.mode # "b" /\ m.t[1] # "none" /\ f.t[2] # "none" /\ tree \in 2..3 ->
             side(mark(r.mark.l), m.t[1], f.name, f.t[2], tree, 1)
        [] OTHER ->
           IF f.t[1] # "none" /\ m.t[2] # "none" /\ Odd(tree)
           THEN side(f.name, f.t[1], mark(r.mark.r), m.t[2], tree, 2)
           ELSE IF m.t[1] # "none" /\ f.t[1] # "none"
           THEN side(m.name, m.t[1], f.name, f.t[1], 1, 1)
           ELSE side(m.name, m.t[2], f.name, f.t[2], 2, 1)

ActMarked(r, n, tree) ==
  LET m0 == r.mark
      f0 == Entry(Types(r, n), <<n>>, FALSE)
      mt == m0.t
      ml == Entry(mt, IF m0.n = NULL THEN NULL ELSE <<m0.n>>, FALSE)
      u1 == unpack(r, ml, IF mt[1] # "none" /\ (f0.t[2] # "none" \/ mt[2] = "none")
                          THEN 1 ELSE 2)
      u2 == unpack(u1.r, f0, IF f0.t[2] # "none" THEN 2 ELSE 1)
      m  == u1.f
      f  == u2.f
      q  == u2.r
      x  == Sides(r, m, f, tree)
      name == IF x.old = 1 THEN x.l ELSE x.r    \* what chk_mark() looks for
      missing == ~Absolute(name) /\ name # NULL /\ ~m.z
                 /\ Kind(r, Shown(r, x.old - 1), name[1]) = "none"
      lost == Absolute(name) /\ ~m.z /\ ~IsDir(q, SubSeq(name, 1, Len(name) - 1))
  IN  IF name = NULL THEN [q EXCEPT !.slips = @ \cup {"NULL"}]
      ELSE IF missing \/ lost THEN clr_mark(q)
      ELSE IF x.lt # "dir" /\ x.rt # "dir" THEN q
      ELSE IF x.lt # "dir"
      THEN enter_dir(q, NULL, x.r, FALSE, f.z, x.tree)
      ELSE IF x.rt # "dir"
      THEN enter_dir(q, x.l, NULL, m.z, FALSE, x.tree)
      ELSE enter_dir(push_scan_db(q), x.l, x.r,
                     m.z, f.z, x.tree)

action(r, n, tree, enter) ==
  IF r.mark # NULL /\ enter THEN ActMarked(r, n, tree) ELSE Act(r, n, tree, enter)
-----------------------------------------------------------------------------
(* Keys.                                                                   *)
Listed(n) == Types(s, n) # <<"none", "none">>

Init ==
  \E m \in {"b", "f", "d"}, two \in BOOLEAN :
    /\ m = "b" => ~two
    /\ m = "f" => two
    /\ s = [mode |-> m, twocols |-> two, from_fmode |-> FALSE, old_col |-> 0,
            right_col |-> 0, fpath |-> NULL, cwd |-> TopDir(0),
            syspth |-> [i \in 0..1 |-> IF m # "b" THEN TopDir(i)
                                       ELSE IF i = 0 THEN Dot ELSE TopDir(0)],
            subtree |-> 3, ui_stack |-> <<>>, mark |-> NULL, uz_path_db |-> {},
            tmps |-> {}, made |-> 0,
            scan_db |-> IF m = "d" THEN {<<TopDir(0), TopDir(1)>>} ELSE {},
            scan_db_list |-> <<>>, one_scan |-> FALSE,
            slips |-> {}]

\* Bounds: there are names for what will be unpacked, and the stacks grow.
Zipped(t) == Cardinality({i \in 1..2 : t[i] = "zip"})
Room(zips) == /\ s.made + zips <= Len(TempName)
              /\ Len(s.ui_stack) < MaxStack /\ Len(s.scan_db_list) < MaxStack

SetMark(n) == Listed(n) /\ s' = [clr_mark(s) EXCEPT !.mark = Marked(s, n)]
KeyR == s.mark # NULL /\ s' = clr_mark(s)
KeyRight(n) == Listed(n) /\ Room(Zipped(Types(s, n))) /\ s' = action(s, n, 3, FALSE)
KeyEnter(n) ==
  /\ Listed(n)
  /\ Room(Zipped(Types(s, n)) + IF s.mark = NULL THEN 0 ELSE Zipped(s.mark.t))
  /\ s' = action(s, n, 3, TRUE)
KeyO(n, tree) ==
  s.mode = "d" /\ Listed(n) /\ Room(Zipped(Types(s, n)))
  /\ s' = action(s, n, tree, FALSE)
KeyLeft ==
  s' = IF s.mode = "d" THEN rebuild_db(pop_state(s))
             ELSE enter_dir(s, DotDot, NULL, FALSE, FALSE, 0)
Tab == s.mode = "f" /\ s' = fmode_chdir([s EXCEPT !.right_col = Other(@)])
CtrlW == s' = tgl2c0(s)
Sharp ==
  /\ Room(0)
  /\ s' = LET c == clr_mark(s)
          IN  CASE s.mode = "b" -> BmodeDmode(c)
                [] s.mode = "f" ->
                     enter_dir(push_scan_db(fmode_dmode(c)), <<>>, <<>>, FALSE, FALSE, 0)
                [] s.mode = "d" -> IF s.twocols THEN dmode_fmode(c) ELSE DmodeBmode(c)
Equal ==
  /\ s.mode = "f"
  /\ s' = LET i == s.right_col
          IN  enter_dir([s EXCEPT !.syspth[i] = s.syspth[Other(i)]],
                        NULL, NULL, FALSE, FALSE, 0)
Jump ==
  /\ s.mode # "d"
  /\ s' = enter_dir(s, TopDir(0), NULL, FALSE, FALSE, 0)
dl_act ==
  /\ s.mode = "d"
  /\ s' = LET p == diff_db_free(free_scan_db(PopAll(s, 0), TRUE), 0)
          IN  scan_subdir([p EXCEPT !.syspth = [i \in 0..1 |-> <<>>]],
                          TopDir(0), TopDir(1), 3)

\* The program is left: main()
Quit(r) == FoldSet(LAMBDA e, q : rmtmpdirs([q EXCEPT !.uz_path_db = @ \ {e}], e.key),
                   PopAll([r EXCEPT !.cwd = Root], 0), r.uz_path_db)

Next ==
  \/ \E n \in Names : SetMark(n) \/ KeyRight(n) \/ KeyEnter(n)
  \/ \E n \in Names, tree \in 1..2 : KeyO(n, tree)
  \/ KeyR \/ KeyLeft \/ Tab \/ CtrlW \/ Sharp \/ Equal \/ Jump \/ dl_act
Spec == Init /\ [][Next]_s

(* After some keys the program has lost something (see the README).  These *)
(* are the keys without them.                                              *)
Archive(t) == "zip" \in {t[1], t[2]}
\* Back from file manager mode to browse mode: from_fmode stays set.
Detour == s.mode = "b" /\ s.from_fmode
\* An archive is not compared with something that stands left of it.
Straight(n) ==
  Archive(s.mark.t) \/ Archive(Types(s, n)) =>
    s.mode = "b" \/ (s.mark.t[1] # "none" /\ Types(s, n)[2] # "none")
\* Nor is an entry compared with a mark of another directory, but in browse
\* mode, nor on the detour.
Near == Global(s) => s.mode = "b"
\* "vl", "vr" and the like are typed on entries that are no archives.
Plain(n) == ~Archive(Types(s, n))

Careful ==
  \/ \E n \in Names :
       \/ SetMark(n)
       \/ KeyRight(n)
       \/ (s.mark # NULL => Straight(n) /\ Near /\ ~Detour) /\ KeyEnter(n)
  \/ \E n \in Names, tree \in 1..2 : Plain(n) /\ KeyO(n, tree)
  \/ KeyR \/ KeyLeft \/ Tab \/ Equal \/ Jump
  \/ (s.mode = "d" => ~s.from_fmode) /\ CtrlW
  \/ s.ui_stack = <<>> /\ ~Detour /\ Sharp
  \/ (Local(s) => s.ui_stack # <<>>) /\ dl_act
CarefulSpec == Init /\ [][Careful]_s
-----------------------------------------------------------------------------
(* Properties.                                                             *)
State ==
  [lpth : Path \cup {NULL}, rpth : Path \cup {NULL}, llen : Nat,
   rlen : Nat, lzip : Path \cup {NULL}, rzip : Path \cup {NULL},
   fl : BOOLEAN, tree : 1..3]

\* Types, and what the modes have in common: browse mode has one column, file
\* manager mode two, and only it has an active right one (tc.c).
TypeOK ==
  /\ s.mode \in {"b", "f", "d"}
  /\ s.twocols \in BOOLEAN /\ s.from_fmode \in BOOLEAN /\ s.one_scan \in BOOLEAN
  /\ s.mode = "b" => ~s.twocols
  /\ s.mode = "f" => s.twocols
  /\ s.old_col \in 0..1 /\ s.right_col \in 0..(IF s.mode = "f" THEN 1 ELSE 0)
  /\ s.cwd \in Path /\ s.fpath \in Path \cup {NULL} /\ s.subtree \in 1..3
  /\ \A i \in 0..1 : s.syspth[i] \in Path
  /\ \A k \in DOMAIN s.ui_stack :
       [f \in DOMAIN s.ui_stack[k] \ {"two", "left"} |-> s.ui_stack[k][f]] \in State
  /\ s.mark # NULL => \A i \in 1..2 : s.mark.t[i] \in {"none", "dir", "zip"}
  /\ \A e \in s.uz_path_db : e.key \in Path /\ e.pth \in Path
  /\ s.tmps \subseteq Temps /\ s.made \in 0..Len(TempName)

Zips(st)  == {st.lzip, st.rzip} \ {NULL}
Owners(r) == {e.key : e \in r.uz_path_db}
             \cup UNION {Zips(r.ui_stack[k]) : k \in DOMAIN r.ui_stack}
\* Each temporary directory is known to exactly what will remove it, a level
\* of the stack or an entered archive; nothing else is ever removed, and no
\* pointer is used that points to nothing (rmtmpdirs(), mktmpdirs(), uzp.c).
TempsOwned == s.slips = {} /\ Owners(s) = {<<"/", t>> : t \in s.tmps}
\* Whenever the user leaves the program, in whatever archives on whatever
\* levels, no temporary directory stays behind (main()).
AllRemoved == Quit(s).tmps = {}
\* What each mode takes for granted: browse mode, that its list is that of the
\* current directory (action(), enter_dir()); file manager mode, that the
\* directory of a column exists, and browse mode, that the one it will go back
\* to does: no archive is removed while a column is in it (enter_dir()); diff
\* mode, that it alone has levels to go back to: whatever way it is left by,
\* the stack has been emptied (dmode_fmode(), pop_state()).
BmodeDot == s.mode = "b" => s.syspth[0] = Dot
PathsExist ==
  \A i \in 0..1 : s.mode = "f" \/ (s.mode = "b" /\ i = 1) => IsDir(s, s.syspth[i])
StackD == s.mode # "d" => s.ui_stack = <<>>
ModesHold == BmodeDot /\ PathsExist /\ StackD
\* The mark is an entry of the list, or a path to something that still
\* exists, whatever was entered, left and removed since (mark_global()).
MarkExists ==
  /\ Local(s) => \E i \in 1..2 : /\ s.mark.t[i] # "none"
                                 /\ Kind(s, Shown(s, i-1), s.mark.n) # "none"
  /\ Global(s) => IsDir(s, Front(gl_mark(s)))
\* What the scan database was filled from contains the pair of directories
\* that is shown: with -r nothing of it is missing, however archives were
\* entered and left (push_scan_db(), pop_scan_db()).
ScanCovers ==
  s.mode = "d" /\ s.subtree = 3 /\ s.syspth[0] # s.syspth[1] =>
    \E p \in s.scan_db : Inside(s.syspth[0], p[1]) /\ Inside(s.syspth[1], p[2])
\* The cursor key LEFT shows the mode and the directories that were shown
\* when this level was entered, if the number of columns is the same again.
LeftReturns ==
  [][KeyLeft /\ s.ui_stack # <<>> /\ Head(s.ui_stack).two = s.twocols
       => View(s') = Head(s.ui_stack).left]_s
=============================================================================
