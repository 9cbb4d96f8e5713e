----------------------------- MODULE RangeOps -----------------------------
(***************************************************************************)
(* What a command does with the list of files: the multiple marks, the     *)
(* local mark, and the loops of ui2.c and fs.c over a range of lines or    *)
(* over the marked entries.                                                *)
(*                                                                         *)
(* The list and what belongs to it are one record l; a function of the     *)
(* program is an operator from l to the next l.  What happens to the files *)
(* themselves is the subject of FsOps; here it is enough which entries are *)
(* acted on and on which side, and what the user answered.                 *)
(***************************************************************************)
EXTENDS Integers, Sequences, FiniteSets, SequencesExt, FiniteSetsExt

CONSTANTS
  NumEntry,  (* the number of files                                        *)
  Link,      (* the <<entry, side>> that are symbolic links                *)
  Newer,     (* the side a file is updated on by U, 0 if its times agree   *)
  Filtered   (* what a filter hides                                        *)

Entry == 1..NumEntry     \* in the order of the list

ASSUME RangeOpsAssumption ==
  /\ NumEntry \in Nat
  /\ Link \subseteq Entry \X {1, 2}
  /\ Newer \in [Entry -> 0..2] /\ Filtered \subseteq Entry

DotDot == 0
None   == -1     \* no index, and no entry
Global == -2     \* the mark is a path, not an entry of this list
Foreign == -3    \* an entry of the other column
Nobody == <<None, 0>>

(* The answers of one command: whether the question about many files is    *)
(* answered with y, the file where the user types <ESC> if the command     *)
(* has a question for each, and the one where a system call fails.         *)
Answer(yes, esc, bad) == [yes |-> yes, esc |-> esc, bad |-> bad]
Answers(asks, E) ==
  {Answer(FALSE, Nobody, Nobody), Answer(TRUE, Nobody, Nobody)}
  \cup {Answer(TRUE, Nobody, f) : f \in E \X {1, 2}}
  \cup {Answer(TRUE, f, Nobody) : f \in IF asks THEN E \X {1, 2} ELSE {}}
-----------------------------------------------------------------------------
\* The numbers of a set, the smallest first
InOrder(S) == [i \in 1..Cardinality(S) |->
                 CHOOSE x \in S : Cardinality({y \in S : y <= x}) = i]

(* The list: db_list[right_col].  disk has the <<entry, side>> that there  *)
(* are, type those there were when the list was made.  Its lines are       *)
(* numbered from 0.                                                        *)
On(files, e) == {s \in {1, 2} : <<e, s>> \in files}
db_num(l) == Len(l.list)
At(l, u)  == l.list[u + 1]
Lines(l, u, n) == InOrder({v \in u..(u + n - 1) : v < db_num(l)})

\* ".." is the first line, and there is none in diff mode.
Shown(l) == {e \in Entry : On(l.type, e) # {} /\ e \notin l.hidden}
            \cup {e \in {DotDot} : l.mode # "diff"}
diff_db_sort(l) == [l EXCEPT !.list = InOrder(Shown(l))]
ClampCursor(l) == [l EXCEPT !.cur = Max({0, Min({@, db_num(l) - 1})})]

clr_mark(l) == [l EXCEPT !.mark = None, !.idx = None]
mark_global(l) ==
  IF l.mode = "fmode" \/ (l.mode = "bmode" /\ On(l.disk, l.mark) = {})
  THEN clr_mark(l)
  ELSE [l EXCEPT !.mark = Global, !.idx = None]
\* (a slip: the mark is left pointing into the list that is freed)
StaysMarked(l) == l
Unmarked(l) == IF l.mark \in Entry THEN mark_global(l) ELSE l

\* diff_db_free() and build_diff_db() of the column the cursor is in.
rebuild_db(l) ==
  ClampCursor(diff_db_sort([Unmarked(l) EXCEPT !.type = l.disk, !.multi = {}]))

\* r with the cursor at the name it is at in l; if that is gone, at the top.
findlistname(r, l) ==
  LET at == {u \in 0..(db_num(r) - 1) : db_num(l) > 0 /\ At(r, u) = At(l, l.cur)}
  IN  [r EXCEPT !.cur = IF at = {} THEN 0 ELSE Min(at)]
\* The list is made again of the same entries, or read again for a new order.
re_sort_list(l)  == findlistname(diff_db_sort(l), l)
rebuild_db_1(l)  == findlistname(rebuild_db(l), l)
-----------------------------------------------------------------------------
(* Marks.                                                                  *)
set_mark(l) ==
  IF db_num(l) = 0 \/ At(l, l.cur) = DotDot THEN l
  ELSE [l EXCEPT !.mark = At(l, l.cur), !.idx = l.cur]

\* (a slip: ".." can be marked like any entry)
TogglesAll(l, E) == [l EXCEPT !.multi = (@ \ E) \cup (E \ @)]
tgl_mmrk(l, E) == LET F == E \ {DotDot}
                  IN  [l EXCEPT !.multi = (@ \ F) \cup (F \ @)]
EntriesAt(l, a, b) == {At(l, u) : u \in a..b}
MmrkLine(l)  == [tgl_mmrk(l, {At(l, l.cur)}) EXCEPT !.cur = Min({@ + 1, db_num(l) - 1})]
MmrkRange(l) == clr_mark(tgl_mmrk(l, EntriesAt(l, Min({l.idx, l.cur}), Max({l.idx, l.cur}))))
key_mmrk(l)  == IF l.idx < 0 THEN MmrkLine(l) ELSE MmrkRange(l)
mmrktobot(l) == tgl_mmrk(l, EntriesAt(l, l.cur, db_num(l) - 1))

\* (a slip: it begins at the cursor)
MarkedBelow(l) == InOrder({u \in 0..(db_num(l) - 1) : u >= l.cur /\ At(l, u) \in l.multi})
\* What get_mmrk() returns from one call to the next, up to its -1.
Marked(l) == InOrder({u \in 0..(db_num(l) - 1) : u > l.prev /\ At(l, u) \in l.multi})
-----------------------------------------------------------------------------
(* One file.  w is the state of a loop of fs.c: `tree` and `ntr` (next     *)
(* tree), which keep their values from one file to the next; whether no    *)
(* question is due (have: the mode or owner of the file before is used, or *)
(* the question was about all files), whether the user was asked in this   *)
(* command, what was acted on, and how the loop was left.                  *)
Begin(t, have, asked) == [tree |-> t, ntr |-> 0, have |-> have, asked |-> asked,
                          acts |-> {}, again |-> FALSE, stop |-> FALSE, err |-> FALSE]
Asks(op) == op \in {"chmod", "chown", "chgrp"}
Copies(op) == op \in {"cp", "cpdir", "ln", "update", "mv", "xchg"}

Sides(l, e) == On(l.type, e)
Side(op, l, w, e) == IF op = "rm" THEN IF l.mode = "bmode" THEN 1 ELSE w.tree
                     ELSE IF w.tree \in {2, 3} /\ 2 \in Sides(l, e) THEN 2 ELSE 1
Skipped(op, l, e, s) == \/ Asks(op) /\ <<e, s>> \in Link
                        \/ op = "rm" /\ <<e, s>> \notin l.disk

\* (a slip: tree is not set back for the next file)
StaysRight(op, w) == IF w.ntr = 0 THEN [w EXCEPT !.again = FALSE]
                     ELSE [w EXCEPT !.tree = 2, !.ntr = 0, !.again = w.ntr = 2]
\* rename goes on with the right tree, the others also come back to both.
NextTree(op, w) ==
  CASE w.ntr = 0 -> [w EXCEPT !.again = FALSE]
    [] w.ntr = 2 -> [w EXCEPT !.tree = 2, !.ntr = IF op = "rename" THEN 0 ELSE 3, !.again = TRUE]
    [] w.ntr = 3 -> [w EXCEPT !.tree = 3, !.ntr = 0, !.again = FALSE]

OneSide(op, l, a, w, e) ==
  LET s == Side(op, l, w, e)
      q == [w EXCEPT !.have = @ \/ Asks(op), !.asked = @ \/ ~w.have]
  IN  CASE Skipped(op, l, e, s) -> [w EXCEPT !.again = FALSE]
        [] ~Skipped(op, l, e, s) /\ a.esc = <<e, s>> /\ ~w.have ->
             [w EXCEPT !.stop = TRUE, !.again = FALSE]
        [] ~Skipped(op, l, e, s) /\ a.bad = <<e, s>> ->
             [q EXCEPT !.err = TRUE, !.stop = op # "rm", !.again = FALSE]
        [] OTHER -> NextTree(op, [q EXCEPT !.acts = @ \cup {<<e, s, q.asked>>}])
BothSides(op, l, a, w, e) ==
  LET w1 == OneSide(op, l, a, w, e)
  IN  IF w1.again THEN OneSide(op, l, a, w1, e) ELSE w1

\* tree for this entry: both sides one after the other, or the side there is.
Narrow(op, l, w, e) ==
  CASE w.tree # 3 -> w
    [] w.tree = 3 /\ Cardinality(Sides(l, e)) = 2 -> [w EXCEPT !.tree = 1, !.ntr = 2]
    [] w.tree = 3 /\ Cardinality(Sides(l, e)) < 2 ->
         IF op = "rm" THEN [w EXCEPT !.tree = CHOOSE s \in Sides(l, e) : TRUE] ELSE w

\* "dl" and "dr" in fmode take the line from the list of the other column.
fs_rm(l, a, w, e) ==
  IF l.mode = "fmode" /\ w.tree \notin {3, l.col + 1}
  THEN IF a.esc # Nobody \/ a.bad # Nobody THEN w
       ELSE [w EXCEPT !.acts = @ \cup {<<Foreign, w.tree, TRUE>>}]
  ELSE IF e = DotDot \/ w.err THEN w
  ELSE BothSides("rm", l, a, Narrow("rm", l, w, e), e)
Absent(l, w, e) == w.tree # 3 /\ w.tree \notin Sides(l, e)
fs_rename(l, a, w, e) ==
  IF e = DotDot \/ Absent(l, w, e) \/ a.esc[1] = e THEN [w EXCEPT !.stop = TRUE]
  ELSE BothSides("rename", l, a, Narrow("rename", l, w, e), e)
Change(op, l, a, w, e) ==
  IF e = DotDot \/ Absent(l, w, e) THEN w
  ELSE BothSides(op, l, a, Narrow(op, l, w, e), e)

\* 0: not to be determined, 3: exchange
fs_get_dst(l, op, e) ==
  CASE l.mode = "bmode" -> 2
    [] l.mode = "fmode" -> IF op = "update" THEN 0 ELSE 2 - l.col
    [] l.mode = "diff" /\ op = "xchg" ->
         IF Cardinality(Sides(l, e)) = 2 /\ Newer[e] # 0 THEN 3 ELSE 0
    [] l.mode = "diff" /\ op # "xchg" ->
         IF Cardinality(Sides(l, e)) = 2
         THEN IF op = "update" THEN Newer[e] ELSE 0
         ELSE IF 1 \in Sides(l, e) THEN 2 ELSE 1
fs_any_dst(l, op, u, n) ==
  \E i \in 1..n : u + i <= db_num(l) /\ fs_get_dst(l, op, At(l, u + i - 1)) # 0

Source(l, to) == IF l.mode = "bmode" \/ to # 1 THEN 1 ELSE 2
fs_cp(op, l, a, w, e) ==
  LET to == IF w.tree # 0 THEN w.tree ELSE fs_get_dst(l, op, e)
  IN  IF \/ w.err \/ to = 0 \/ e = DotDot
         \/ <<e, Source(l, to)>> \notin l.disk
         \/ l.mode = "bmode" /\ a.esc[1] = e      \* no new name
      THEN w
      ELSE IF a.bad[1] = e THEN [w EXCEPT !.err = TRUE]
      ELSE [w EXCEPT !.acts = @ \cup
              {<<e, s, TRUE>> : s \in IF to = 3 THEN {1, 2} ELSE {to}}]

File(op, l, a, w, e) ==
  CASE w.stop -> w
    [] ~w.stop /\ op = "rm" -> fs_rm(l, a, w, e)
    [] ~w.stop /\ op = "rename" -> fs_rename(l, a, w, e)
    [] ~w.stop /\ Asks(op) -> Change(op, l, a, w, e)
    [] ~w.stop /\ Copies(op) -> fs_cp(op, l, a, w, e)
-----------------------------------------------------------------------------
(* A command: on the lines from u on, or on all marked entries.            *)
Done(acts) == {<<x[1], x[2]>> : x \in acts}
Effect(l, op, acts) ==
  LET gone == CASE op = "rm" -> Done(acts)
                [] op = "mv" -> {<<f[1], 3 - f[2]>> : f \in Done(acts)}
                [] OTHER -> {}
      made == IF l.mode = "diff" /\ Copies(op) THEN Done(acts) ELSE {}
  IN  [l EXCEPT !.disk = (@ \ gone) \cup made]

\* A copy to the other column needs only the list of that column.
Rebuild(l, op) == IF l.mode = "fmode" /\ op \in {"cp", "cpdir", "ln"}
                  THEN Unmarked(l) ELSE rebuild_db(l)

Result(l, acts, did, ret) == [l |-> l, acts |-> acts, did |-> did, ret |-> ret]

OnLines(l, op, t, u, n, a) ==
  LET w == FoldLeft(LAMBDA v, i : File(op, l, a, v, At(l, i)), 
                    Begin(t, op = "rm" /\ n > 1, op = "rm" /\ n > 1), Lines(l, u, n))
      r == Effect(l, op, w.acts)
      rebuilt == ~w.stop /\ (w.acts # {} \/ op = "rename" \/ Asks(op) \/ (op = "rm" /\ w.err))
  IN  IF db_num(l) = 0 \/ (n > 1 /\ ~a.yes) THEN Result(l, {}, TRUE, 0)
      ELSE Result(IF rebuilt THEN Rebuild(r, op) ELSE r, w.acts, TRUE, 0)

\* The questions of one of the marked entries that are not asked: all files
\* of rm were one question, a mode or an owner is that of the file before.
\* (a slip: not even for the first)
SettledAtOnce(op, first) == op = "rm" \/ Asks(op)
Settled(op, first) == op = "rm" \/ (Asks(op) /\ ~first)

\* One call for each marked entry; the loops of ui_dd() and ui_mv() end with
\* the first error, and get_mmrk() is left where it is.
NextMarked(l, op, t, a, v, i) ==
  IF v.left \/ (op \in {"chown", "chgrp"} /\ v.w.stop /\ ~v.w.asked) THEN v
  ELSE LET w == File(op, l, a,
                     [Begin(t, Settled(op, v.at = None), op = "rm" \/ v.w.asked)
                        EXCEPT !.acts = v.w.acts, !.err = v.w.err], At(l, i))
       IN  [w |-> w, at |-> i, left |-> w.err /\ op \in {"rm", "mv"}]
OnMarked(l, op, t, a) ==
  LET v == FoldLeft(LAMBDA x, i : NextMarked(l, op, t, a, x, i),
                    [w |-> Begin(t, FALSE, FALSE), at |-> None, left |-> FALSE], Marked(l))
      r == [Effect(l, op, v.w.acts) EXCEPT !.prev = IF v.left THEN v.at ELSE None]
  IN  IF ~a.yes THEN Result(l, {}, FALSE, 1)
      ELSE Result(IF v.at = None THEN rebuild_db(r) ELSE Rebuild(r, op), v.w.acts, TRUE, 1)

ui_op(l, op, t, u, n, a) ==
  IF l.multi # {} THEN OnMarked(l, op, t, a) ELSE OnLines(l, op, t, u, n, a)
\* In browse mode there is no other side to move to.
ui_mv(l, t, u, n, a) ==
  IF l.mode = "bmode" THEN ui_op(l, "rename", 3, u, n, a) ELSE ui_op(l, "mv", t, u, n, a)
ui_cmd(l, op, t, u, n, a) ==
  IF op = "mv" THEN ui_mv(l, t, u, n, a) ELSE ui_op(l, op, t, u, n, a)
=============================================================================
