------------------------------ MODULE ListView ------------------------------
(***************************************************************************)
(* The file lists and their cursors (ui.c, tc.c, rebuild_db() of fs.c).    *)
(* A column shows the entries from top_idx on in a window of listh lines,  *)
(* with the cursor in line curs: the selected entry is the one with the    *)
(* number top_idx + curs (DB_LST_IDX).  All of these are unsigned, and     *)
(* every one of some forty keys computes them in its own way; nothing but  *)
(* this arithmetic keeps DB_LST_ITM within the array db_list.              *)
(*                                                                         *)
(* In fmode there are two columns and right_col says which is active; in   *)
(* the other modes only column 0 is used.  The value of scrollen is TRUE   *)
(* throughout the program.                                                 *)
(***************************************************************************)
EXTENDS Integers

CONSTANTS
  Word,       (* one more than the largest unsigned                        *)
  MaxNum,     (* bound on the entries of a list                            *)
  MaxH        (* bound on the lines of a window                            *)

ASSUME ListAssumption ==
  /\ Word \in Nat /\ MaxNum \in Nat /\ MaxH \in Nat \ {0}
  /\ 2 * MaxNum < Word /\ MaxNum + MaxH + 3 < Word

Col   == {0, 1}
Value == 0..Word - 1

VARIABLES
  fmode,              \* two columns, for two directories
  listh,              \* lines of the window
  right_col,          \* the active column
  db_num,             \* entries in each list
  top_idx, curs,
  wheeled             \* history: columns that were scrolled down while they
                      \* were not the active one, and not centered since

vars == <<fmode, listh, right_col, db_num, top_idx, curs, wheeled>>
view == <<top_idx, curs>>

\* unsigned arithmetic, and the cast to int
Plus(a, b)  == IF a + b < Word THEN a + b ELSE a + b - Word
Minus(a, b) == IF a >= b THEN a - b ELSE a - b + Word
Signed(a)     == IF 2 * a < Word THEN a ELSE a - Word
\* (a slip: more is scrolled than there is)
NoLimit(a, b) == a
Least(a, b)   == IF a < b THEN a ELSE b

c      == right_col
n      == db_num[right_col]
top    == top_idx[right_col]
cur    == curs[right_col]
Index(k) == Plus(top_idx[k], curs[k])     \* DB_LST_IDX

\* An assignment to top_idx and curs of column k.
Put(k, t, y) == /\ top_idx' = [top_idx EXCEPT ![k] = t]
                /\ curs' = [curs EXCEPT ![k] = y]
Keep == UNCHANGED <<fmode, listh, right_col, db_num>>
Quiet == Keep /\ UNCHANGED wheeled
-----------------------------------------------------------------------------
(* disp_list() repairs what the caller has computed.                       *)

ShownTop(num, t) == IF t < num THEN t ELSE IF num = 0 THEN 0 ELSE num - 1
\* (a slip: the cursor is not repaired)
ShownCurs0(num, t, y) == IF num = 0 THEN 0 ELSE y
ShownCurs(num, t, y) ==
  IF Plus(t, y) < num THEN y
  ELSE IF num = 0 THEN 0 ELSE Minus(Minus(num, t), 1)

disp_list(k, t, y) ==
  LET s == ShownTop(n, t) IN Put(k, s, ShownCurs(n, s, y))

\* Both columns in fmode, of lists that have the sizes num.
disp_fmode(num, t, y) ==
  LET s == [k \in Col |-> ShownTop(num[k], t[k])] IN
  /\ top_idx' = [k \in Col |-> IF fmode \/ k = right_col THEN s[k] ELSE t[k]]
  /\ curs' = [k \in Col |-> IF fmode \/ k = right_col
                            THEN ShownCurs(num[k], s[k], y[k]) ELSE y[k]]

\* center(): entry idx of the active column in the middle of h lines.
CenterTop(num, h, idx) ==
  IF num <= h \/ idx <= h \div 2 THEN 0
  ELSE IF Minus(num, idx) < h \div 2 THEN num - h
  ELSE idx - h \div 2

center(num, h, t, y, idx) ==
  LET s == CenterTop(num[c], h, idx) IN
  /\ disp_fmode(num, [t EXCEPT ![c] = s], [y EXCEPT ![c] = Minus(idx, s)])
  /\ wheeled' = wheeled \ {c}
-----------------------------------------------------------------------------
(* The keys that move the cursor of the active column.                     *)

\* last_line_is_disp() and first_line_is_top() also move the cursor.
LastIsShown == Minus(n, top) <= listh
ToLast      == Put(c, top, Minus(Minus(n, top), 1))
FirstIsTop  == top = 0

page_down ==
  /\ \/ LastIsShown /\ ToLast
     \/ ~LastIsShown /\ disp_list(c, Plus(top, listh), 0)
  /\ Quiet

curs_last ==
  /\ \/ LastIsShown /\ ToLast
     \/ ~LastIsShown /\ disp_list(c, Minus(n, listh), listh - 1)
  /\ Quiet

page_up ==
  /\ \/ FirstIsTop /\ Put(c, 0, 0)
     \/ ~FirstIsTop /\ top < listh /\ disp_list(c, 0, cur)
     \/ ~FirstIsTop /\ top >= listh /\ disp_list(c, top - listh, listh - 1)
  /\ Quiet

curs_first ==
  /\ \/ FirstIsTop /\ Put(c, 0, 0)
     \/ ~FirstIsTop /\ disp_list(c, 0, 0)
  /\ Quiet

\* (a slip: the window has one line more)
LastLine0 == cur >= listh
LastLine  == Plus(cur, 1) >= listh

curs_down ==
  /\ Plus(Plus(top, cur), 1) < n
  /\ \/ LastLine /\ Put(c, Plus(top, 1), cur)
     \/ ~LastLine /\ Put(c, top, Plus(cur, 1))
  /\ Quiet

curs_up ==
  /\ \/ cur = 0 /\ top # 0 /\ Put(c, top - 1, cur)
     \/ cur # 0 /\ Put(c, top, cur - 1)
  /\ Quiet
-----------------------------------------------------------------------------
(* Scrolling, which leaves the cursor on its entry, or (keepscrpos) in its *)
(* line.  The mouse wheel scrolls the column under the pointer; if that is *)
(* not the active one ("fake"), the cursor is left alone.                  *)

scroll_up(lines, keepscrpos, k) ==
  LET fake == k # right_col
      t    == top_idx[k]
      y    == curs[k]
      num  == Least(lines, t)
  IN
  /\ \/ /\ t = 0 /\ y # 0 /\ ~keepscrpos
        /\ Put(k, 0, IF y >= lines THEN y - lines ELSE 0)
     \/ /\ t # 0 /\ (fake \/ keepscrpos)
        /\ Put(k, t - num, y)
     \/ /\ t # 0 /\ ~fake /\ ~keepscrpos
        /\ Put(k, t - num,
               IF Plus(y, num) >= listh THEN listh - 1 ELSE Plus(y, num))
  /\ Quiet

\* (a slip: the cursor stays in its line)
CursKept(y, num)   == IF y < num THEN 0 ELSE y
CursMoved(y, num)  == IF y < num THEN 0 ELSE y - num

scroll_down(lines, keepscrpos, k) ==
  LET fake == k # right_col
      t    == top_idx[k]
      y    == curs[k]
      end  == Minus(db_num[k], 1)
      num  == IF Plus(t, lines) >= db_num[k] THEN Minus(end, t) ELSE lines
      ti   == Plus(t, num)
  IN
  /\ t < end
  /\ \/ fake /\ Put(k, ti, y)
     \/ /\ ~fake /\ keepscrpos
        /\ Put(k, ti, IF Plus(ti, y) >= db_num[k] THEN Minus(end, ti) ELSE y)
     \/ /\ ~fake /\ ~keepscrpos
        /\ Put(k, ti, CursMoved(y, num))
  /\ wheeled' = IF fake THEN wheeled \cup {k} ELSE wheeled
  /\ Keep

\* CTRL-e and CTRL-y, CTRL-d and CTRL-u.
ScrollKey ==
  \/ scroll_down(1, FALSE, c) \/ scroll_up(1, FALSE, c)
  \/ scroll_down(listh \div 2, TRUE, c) \/ scroll_up(listh \div 2, TRUE, c)

Wheel == \E k \in IF fmode THEN Col ELSE {c} :
            scroll_up(3, FALSE, k) \/ scroll_down(3, FALSE, k)
-----------------------------------------------------------------------------
(* Keys H, M, L, z ENTER, z -, z ., TAB, and jumps to an entry.            *)

KeyH == cur # 0 /\ disp_list(c, top, 0) /\ Quiet

Filled == n >= Plus(top, listh)   \* the list goes on below the window

KeyM == /\ disp_list(c, top, IF Filled THEN listh \div 2
                             ELSE Minus(n, top) \div 2)
        /\ Quiet
KeyL == /\ disp_list(c, top, IF Filled THEN listh - 1
                             ELSE Minus(Minus(n, top), 1))
        /\ Quiet

\* The line of the cursor to the top of the window, or to its bottom.
KeyZEnter == cur # 0 /\ disp_list(c, Plus(top, cur), 0) /\ Quiet
KeyZUp ==
  LET below == Minus(listh - 1, cur) IN
  /\ top # 0
  /\ \/ top >= below /\ disp_list(c, top - below, listh - 1)
     \/ top < below /\ disp_list(c, 0, Plus(cur, top))
  /\ Quiet

KeyZDot == center(db_num, listh, top_idx, curs, Plus(top, cur)) /\ Keep

\* "nG", "''", "`n" and a search: the number may be any, and be out of date.
Jump(idx) == center(db_num, listh, top_idx, curs, idx) /\ Keep

\* "`" in front of a command that works on the entries up to the mark.
ToMark(u) ==
  /\ u < Plus(top, cur) /\ u < n
  /\ Put(c, Least(top, u), u - Least(top, u))
  /\ Quiet

Tab == /\ fmode /\ right_col' = 1 - right_col
       /\ UNCHANGED <<fmode, listh, db_num, view, wheeled>>

\* A click in line y of column k, or on the bar between the columns, where the
\* active one stays.
Click(y, k) ==
  /\ fmode => y < listh
  /\ ~fmode => y < Signed(Minus(db_num[0], top_idx[0])) /\ k = 0
  /\ right_col' = k
  /\ curs' = IF y < Signed(Minus(db_num[k], top_idx[k]))
             THEN [curs EXCEPT ![k] = y] ELSE curs
  /\ UNCHANGED <<fmode, listh, db_num, top_idx, wheeled>>
-----------------------------------------------------------------------------
(* The window and the lists change.                                        *)

ui_resize(h) ==
  /\ listh' = h
  /\ \/ /\ cur >= h
        /\ center(db_num, h, top_idx, curs, Plus(top, cur))
     \/ /\ cur < h
        /\ disp_fmode(db_num, top_idx, curs) /\ UNCHANGED wheeled
  /\ UNCHANGED <<fmode, right_col, db_num>>

\* New lists; the cursor stays where it is, or goes to the entry of the same
\* name, if there is one.
rebuild_db(num) ==
  /\ db_num' = num
  /\ ~fmode => num[1] = 0
  /\ \/ disp_fmode(num, top_idx, curs) /\ UNCHANGED wheeled
     \/ /\ Plus(top, cur) < n
        /\ \E idx \in {0} \cup 0..(num[c] - 1) :
              center(num, listh, top_idx, curs, idx)
  /\ UNCHANGED <<fmode, listh, right_col>>

\* The other column of the new order is shown with its old cursor.
re_sort_list ==
  /\ \/ /\ Plus(top, cur) < n
        /\ \E idx \in 0..(n - 1) : center(db_num, listh, top_idx, curs, idx)
     \/ /\ Plus(top, cur) >= n
        /\ disp_fmode(db_num, [top_idx EXCEPT ![c] = 0], [curs EXCEPT ![c] = 0])
        /\ wheeled' = wheeled \ {c}
  /\ Keep

\* Another directory in the active column, with the cursor at its top or where
\* it was when the directory was left.
enter_dir(num) ==
  LET new == [db_num EXCEPT ![c] = num] IN
  /\ db_num' = new /\ wheeled' = wheeled \ {c}
  /\ \/ Put(c, 0, 0)
     \/ \E idx \in {0} \cup 0..(num - 1) :
           center(new, listh, [top_idx EXCEPT ![c] = 0],
                  [curs EXCEPT ![c] = 0], idx)
  /\ UNCHANGED <<fmode, listh, right_col>>
-----------------------------------------------------------------------------
Init ==
  /\ fmode \in BOOLEAN /\ listh \in 1..MaxH /\ right_col = 0
  /\ db_num \in [Col -> 0..MaxNum] /\ (~fmode => db_num[1] = 0)
  /\ top_idx = [k \in Col |-> 0] /\ curs = [k \in Col |-> 0]
  /\ wheeled = {}

\* Keys that move the cursor or the window, of the active column.
Key == \/ page_down \/ curs_last \/ page_up \/ curs_first
       \/ curs_down \/ curs_up \/ ScrollKey
       \/ KeyH \/ KeyM \/ KeyL \/ KeyZEnter \/ KeyZUp \/ KeyZDot
       \/ \E idx \in Value : Jump(idx) \/ ToMark(idx)

Other == \/ Tab \/ Wheel
         \/ \E y \in 0..(listh + 1), k \in Col : Click(y, k)
         \/ \E h \in 1..MaxH : ui_resize(h)
         \/ \E num \in [Col -> 0..MaxNum] : rebuild_db(num)
         \/ re_sort_list
         \/ \E num \in 0..MaxNum : enter_dir(num)

Next == Key \/ Other
Spec == Init /\ [][Next]_vars
-----------------------------------------------------------------------------
(* Properties.                                                             *)

\* Every variable has a value of its type.
TypeOK ==
  /\ fmode \in BOOLEAN /\ listh \in 1..MaxH
  /\ right_col \in Col /\ db_num \in [Col -> 0..MaxNum]
  /\ ~fmode => right_col = 0 /\ db_num[1] = 0
  /\ top_idx \in [Col -> Value] /\ curs \in [Col -> Value]
  /\ wheeled \subseteq Col

\* The selected entry exists, in both columns and after any keys, whatever the
\* lists shrink to or grow to: DB_LST_ITM is within db_list unless the list is
\* empty.  Excepted are columns scrolled by the wheel while they were not active.
SelectionExists ==
  \A k \in Col \ wheeled : db_num[k] > 0 => Index(k) < db_num[k]

\* No key moves the cursor out of the window.
CursorStaysShown ==
  [][Key /\ c \notin wheeled /\ n > 0 /\ cur < listh => curs'[c] < listh]_vars

\* The cursor keys go to the next and the previous entry, the line keys scroll
\* the list under the cursor, which stays on its entry as long as that is shown.
StepByOne ==
  [][n > 0 /\ c \notin wheeled =>
       /\ curs_down => Index(c)' = Index(c) + 1
       /\ curs_up => Index(c)' = Index(c) - 1
       /\ scroll_down(1, FALSE, c) =>
            Index(c)' = Index(c) \/ (cur = 0 /\ Index(c)' = Index(c) + 1)
       /\ scroll_up(1, FALSE, c) /\ top # 0 /\ cur < listh =>
            Index(c)' = Index(c) \/ (cur = listh - 1 /\ Index(c)' = Index(c) - 1)]_vars

\* Why SelectionExists holds: also while a list is empty, and its top_idx and
\* curs have wrapped around, their sum has not.
Within(num, t, y) == IF num > 0 THEN t + y < num ELSE t + y < Word
IndexOK(k) == Within(db_num[k], top_idx[k], curs[k])

IInv == TypeOK /\ \A k \in Col \ wheeled : IndexOK(k)
=============================================================================
