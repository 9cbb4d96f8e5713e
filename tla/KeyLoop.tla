------------------------------ MODULE KeyLoop ------------------------------
(***************************************************************************)
(* ui_ctrl() of ui.c: the loop that reads a key.  A command is one to four *)
(* keys, with a number or ' before them.  What has been typed of it is in  *)
(* c, which becomes *key and then key[1] when the next key comes; a key    *)
(* that does not clear c is the beginning of a command, whether or not it  *)
(* is one.  The loop also keeps the number, the line a ' command begins    *)
(* with, and the command `.` repeats.                                      *)
(*                                                                         *)
(* The commands act on the list of RangeOps.  A step is one key.           *)
(***************************************************************************)
EXTENDS RangeOps

CONSTANTS
  Digit,     (* the digits that are typed: 1 to 9, and 10 for 0            *)
  MaxNum,    (* bound on the number                                        *)
  MaxTyped   (* bound on the keys of a command                             *)

ASSUME KeyLoopAssumption ==
  Digit \subseteq 1..10 /\ MaxNum \in Nat /\ MaxTyped \in Nat

VARIABLES
  l,       \* the list, see RangeOps
  regex,   \* regex_mode
  key,     \* <<*key, key[1]>>, as the next key finds them
  num, ns, \* the number and whether it was typed
  u, us,   \* the first line and whether it is fixed
  saved,   \* c2, key2 and num2
  typed, did, last, span   \* history; see below

vars == <<l, regex, key, num, ns, u, us, saved, typed, did, last, span>>

(* History: the keys since c was last 0, the command of the last step and  *)
(* the last command of all (a renaming also if the question was answered   *)
(* with n: it is saved), and for ' the entries from the cursor to the      *)
(* marked one.                                                             *)
Zero == "none"             \* a character code 0
NotSaved == [c |-> Zero, key |-> <<Zero, Zero>>, num |-> 0]
Nothing  == [op |-> "none", t |-> 0, u |-> 0, n |-> 0, acts |-> {}, whole |-> TRUE]

Digits == <<"1", "2", "3", "4", "5", "6", "7", "8", "9", "0">>
DigitKeys == {Digits[d] : d \in Digit}
Value(k)  == (CHOOSE d \in Digit : Digits[d] = k) % 10

Edits == [p |-> "chmod", n |-> "rename", u |-> "chown", g |-> "chgrp"]
SideKeys == [l |-> 1, r |-> 2]
Singles  == [C |-> "cp", B |-> "cpdir", U |-> "update", DC |-> "rm"]
-----------------------------------------------------------------------------
(* The key, as the switch sees it: the one that was typed, or the saved    *)
(* command for `.`                                                         *)
Repeats(k) == k = "." /\ saved.c # Zero /\ key[1] = Zero
Seen(k) ==
  LET first == IF us THEN u ELSE l.cur
  IN  IF Repeats(k)
      THEN [c |-> saved.c, k0 |-> saved.key[1], k1 |-> saved.key[2], num |-> saved.num, u |-> first]
      ELSE [c |-> k, k0 |-> key[1], k1 |-> key[2], num |-> num, u |-> first]

AnyDst(e, op) == l.mode # "diff" \/ fs_any_dst(l, op, e.u, e.num)
OwnSide == l.col + 1

\* The command a key completes: the operation and the tree.
NoCommand == <<"none", 0>>
SideCommand(e) ==
  LET t == SideKeys[e.c]
  IN  CASE e.k0 = "d" -> <<"rm", t>>
        [] e.k0 = "T" -> <<"mv", t>>
        [] e.k0 = "@" -> <<"ln", t>>
        [] e.k0 = "P" -> <<"mkdir", t>>
        [] OTHER -> NoCommand
\* (a slip: the first of the three keys is not looked at)
EditUnchecked(e) ==
  CASE e.k0 = "e" -> <<Edits[e.c], 3>>
    [] e.k0 \in DOMAIN SideKeys -> <<Edits[e.c], SideKeys[e.k0]>>
    [] OTHER -> NoCommand
EditCommand(e) ==
  CASE e.c = "n" /\ regex -> NoCommand
    [] ~(e.c = "n" /\ regex) /\ e.k0 = "e" -> <<Edits[e.c], 3>>
    [] ~(e.c = "n" /\ regex) /\ e.k1 = "e" /\ e.k0 \in DOMAIN SideKeys ->
         <<Edits[e.c], SideKeys[e.k0]>>
    [] OTHER -> NoCommand
CopyCommand(e) ==
  LET t == IF e.c = "<" THEN 1 ELSE 2
  IN  IF e.k0 # e.c \/ l.mode = "bmode" \/ (l.mode = "fmode" /\ OwnSide = t)
      THEN NoCommand ELSE <<"cp", t>>
OneKeyCommand(e) ==
  CASE e.c \in DOMAIN Singles -> <<Singles[e.c], IF e.c = "DC" THEN 3 ELSE 0>>
    [] e.c = "T" /\ AnyDst(e, "mv") -> <<"mv", 0>>
    [] e.c = "@" /\ AnyDst(e, "ln") -> <<"ln", 0>>
    [] e.c = "X" /\ e.k0 # "S" /\ l.mode = "diff" /\ AnyDst(e, "xchg") -> <<"xchg", 0>>
    [] e.c = "P" /\ l.mode # "diff" -> <<"mkdir", 0>>
    [] OTHER -> NoCommand
Command(e) ==
  CASE e.c = "d" -> IF e.k0 = "d" THEN <<"rm", 3>> ELSE NoCommand
    [] e.c \in DOMAIN SideKeys -> SideCommand(e)
    [] e.c \in DOMAIN Edits -> EditCommand(e)
    [] e.c \in {"<", ">"} -> CopyCommand(e)
    [] OTHER -> OneKeyCommand(e)

\* Other keys that wait for the one after them, by not clearing c.
Single(e) == db_num(l) > 0 /\ At(l, l.cur) # DotDot /\ Cardinality(Sides(l, At(l, l.cur))) = 1
Waits(e) ==
  \/ e.c \in {"e", "q", "z", "A", "D", "R"}
  \/ e.c \in {"d", "S"} /\ e.k0 \notin {"S", e.c}
  \/ e.c \in {"<", ">"} /\ e.k0 # e.c
  \/ e.c = "s" /\ e.k0 \notin {"A", "R"}
  \/ e.c \in {"v", "o"} /\ ~Single(e)
  \/ e.c \in {"T", "@"}
  \/ e.c = "P" /\ l.mode = "diff"
  \/ e.c = "&" /\ l.mode = "diff"
  \/ e.c = "t" /\ e.k0 \notin {"S", "A", "R"}
  \/ e.c = "g" /\ e.k0 \notin {"S", "A", "R", "e", "g"}
  \/ e.c \in DOMAIN SideKeys /\ e.k0 = "e"
  \/ e.c = "r" /\ e.k0 \notin {"s", "v", "o", "&"} /\ l.mark = None /\ ~regex
  \/ e.c = "." /\ e.k0 # "z"
-----------------------------------------------------------------------------
(* What a key does to the loop: c is what it leaves there.                 *)
Read(e, c, l2) ==
  /\ l' = l2 /\ key' = <<c, e.k0>>
  /\ IF c = Zero
     THEN num' = 1 /\ ns' = FALSE /\ us' = FALSE /\ u' = 0 /\ span' = {}
     ELSE num' = e.num /\ UNCHANGED <<ns, us, u, span>>
NoRun == did' = Nothing /\ UNCHANGED <<saved, last>>

Number(k, e) ==
  /\ k \in DigitKeys
  /\ num' = (IF ns THEN num * 10 ELSE 0) + Value(k) /\ num' <= MaxNum
  /\ ns' = TRUE /\ key' = <<k, e.k0>> /\ NoRun
  /\ UNCHANGED <<l, regex, u, us, span>>

\* The mark: lines from the cursor to it, or from it to the cursor.
Position(r, n) == CHOOSE i \in 0..(db_num(r) - 1) : At(r, i) = n
Between(i, j)  == {At(l, v) : v \in Min({i, j})..Max({i, j})}
\* (a slip: without the line the cursor is on)
Exclusive(i, j) == Max({i, j}) - Min({i, j})
Count(i, j)     == Max({i, j}) - Min({i, j}) + 1
QuoteMark(k, e) ==
  /\ e.c = "'" /\ e.k0 # "'" /\ ~ns /\ l.idx >= 0
  /\ key' = <<e.c, e.k0>>
  /\ IF l.cur <= l.idx
     THEN u' = l.cur /\ UNCHANGED <<l, us>>
     ELSE u' = l.idx /\ us' = TRUE /\ l' = [l EXCEPT !.cur = l.idx]
  /\ num' = Count(l.cur, l.idx)
  /\ span' = IF l.mark \in EntriesAt(l, 0, db_num(l) - 1)
             THEN Between(l.cur, Position(l, l.mark)) ELSE {}
  /\ NoRun /\ UNCHANGED <<regex, ns>>

\* After a number or a second ' it jumps; without a mark it only waits.
AnyLine == 0..Max({0, db_num(l) - 1})
Quote(k, e) ==
  /\ e.c = "'" /\ (e.k0 = "'" \/ ns \/ l.idx < 0)
  /\ IF e.k0 = "'" \/ ns
     THEN \E i \in AnyLine : Read(e, Zero, [l EXCEPT !.cur = i])
     ELSE Read(e, e.c, l)
  /\ NoRun /\ UNCHANGED regex

Run(e, op, t, a) ==
  IF op = "mkdir" THEN Result(IF a.yes THEN rebuild_db(l) ELSE l, {}, TRUE, 0)
  ELSE ui_cmd(l, op, t, e.u, e.num, a)
\* c as save_st finds it: some commands have cleared it before.
Repeatable(e, op) == ~(e.c \in {"<", ">"} \/ (op = "mkdir" /\ e.c # "P"))
\* (a slip: the number is not saved)
SavesKeys(e, op, ret) ==
  IF ret # 0 /\ e.c # "n" THEN saved
  ELSE IF Repeatable(e, op) THEN [c |-> e.c, key |-> <<e.k0, e.k1>>, num |-> 1]
  ELSE NotSaved
save_st(e, op, ret) ==
  IF ret # 0 /\ e.c # "n" THEN saved
  ELSE IF Repeatable(e, op) THEN [c |-> e.c, key |-> <<e.k0, e.k1>>, num |-> e.num]
  ELSE NotSaved
Files(e) == IF l.multi # {} THEN l.multi
            ELSE {At(l, i) : i \in ToSet(Lines(l, e.u, e.num))} \ {DotDot}
Perform(e, op, t, a) ==
  \E r \in {Run(e, op, t, a)} :
    /\ Read(e, Zero, r.l)
    /\ saved' = save_st(e, op, r.ret)
    /\ did' = IF r.did THEN [op |-> op, t |-> t, u |-> e.u, n |-> e.num, acts |-> r.acts,
                             whole |-> a.yes /\ a.esc = Nobody /\ a.bad = Nobody]
              ELSE Nothing
    /\ last' = IF r.did \/ e.c = "n"
               THEN [op |-> op, t |-> t, n |-> e.num, multi |-> l.multi # {}] ELSE last
TheirQuestion(e, op) ==
  Asks(op) \/ op = "rename" \/ (op = "rm" /\ e.num = 1) \/ l.mode = "bmode"
Execute(k, e) ==
  /\ Command(e) # NoCommand /\ UNCHANGED regex
  /\ \E cmd \in {Command(e)} : \E a \in Answers(TheirQuestion(e, cmd[1]), Files(e)) :
       Perform(e, cmd[1], cmd[2], a)

\* A function key: on the marked entries, or once for each line from the
\* cursor on, and the list is made again.  c is cleared before save_st.  If
\* function keys are off, or <ESC> leaves its editor, nothing is saved.
FunctionKey(k, e) ==
  LET lines == IF l.multi # {} THEN Marked(l) ELSE Lines(l, l.cur, num)
      acts  == {<<At(l, i), l.col + 1, TRUE>> : i \in ToSet(lines)}
  IN  /\ k = "F1" /\ UNCHANGED regex
      /\ key' = <<Zero, e.k0>> /\ num' = 1 /\ ns' = FALSE /\ us' = FALSE /\ u' = 0 /\ span' = {}
      /\ \/ /\ l' = rebuild_db(l) /\ saved' = NotSaved
            /\ did' = [op |-> "fkey", t |-> 0, u |-> l.cur, n |-> num,
                        acts |-> acts, whole |-> TRUE]
            /\ last' = [op |-> "fkey", t |-> 0, n |-> num, multi |-> l.multi # {}]
         \/ saved' \in {saved, NotSaved} /\ did' = Nothing /\ UNCHANGED <<l, last>>

\* 's' opens a shell at once, and still waits for 'l' or 'r'.
Wait(k, e) ==
  /\ Command(e) = NoCommand /\ Waits(e) /\ NoRun /\ UNCHANGED regex
  /\ \/ e.c \notin {"s", "&"} /\ Read(e, e.c, l)
     \/ e.c = "s" /\ Read(e, e.c, rebuild_db(l))
     \/ e.c = "&" /\ \E h \in {{}, Filtered} : Read(e, e.c, re_sort_list([l EXCEPT !.hidden = h]))

Move(k, e) ==
  /\ NoRun /\ UNCHANGED regex
  /\ \/ e.c = "j" /\ Read(e, Zero, [l EXCEPT !.cur = Max({0, Min({@ + 1, db_num(l) - 1})})])
     \/ e.c = "k" /\ Read(e, Zero, [l EXCEPT !.cur = Max({0, @ - 1})])
     \/ e.c = "g" /\ e.k0 = "g" /\ Read(e, Zero, [l EXCEPT !.cur = 0])
     \/ e.c = "G" /\ (ns \/ e.k0 # "V") /\ \E i \in AnyLine : Read(e, Zero, [l EXCEPT !.cur = i])

\* 'm' marks the line, sorts after 'S', and sets a jump mark after a number.
Mark(k, e) ==
  /\ e.c = "m" /\ NoRun /\ UNCHANGED regex
  /\ IF ns THEN Read(e, Zero, l)
     ELSE IF e.k0 = "S" THEN \E r \in {l, rebuild_db_1(l)} : Read(e, Zero, r)
     ELSE Read(e, Zero, set_mark(clr_mark(l)))
RemoveMark(k, e) ==
  /\ e.c = "r" /\ e.k0 \notin {"s", "&"} /\ Command(e) = NoCommand /\ ~Waits(e) /\ NoRun
  /\ IF e.k0 \in {"v", "o"} THEN UNCHANGED regex /\ Read(e, Zero, l)
     ELSE IF l.mark # None THEN UNCHANGED regex /\ Read(e, Zero, clr_mark(l))
     ELSE regex' = FALSE /\ Read(e, Zero, l)

\* Multiple marks; "VG" goes on from the line after the one V has toggled.
Multi(k, e) ==
  /\ NoRun /\ UNCHANGED regex
  /\ \/ /\ e.c = "V" /\ db_num(l) > 0
        /\ Read(e, IF l.idx < 0 /\ l.cur + 1 < db_num(l) THEN e.c ELSE Zero, key_mmrk(l))
     \/ e.c = "G" /\ e.k0 = "V" /\ ~ns /\ Read(e, Zero, mmrktobot(l))

\* Keys that sort, filter, or read the directory again.
SortKeys == {"d", "X", "t", "S", "l", "g", "u"}
Sort(k, e) ==
  /\ e.k0 = "S" /\ e.c \in SortKeys /\ NoRun /\ UNCHANGED regex
  /\ Read(e, Zero, l) \/ Read(e, Zero, rebuild_db_1(l))
Filter(k, e) ==
  /\ Command(e) = NoCommand /\ NoRun /\ UNCHANGED regex
  /\ \/ e.c = "E"
     \/ e.c = "n" /\ ~regex /\ l.mode = "diff" /\ e.k0 \notin {"A", "R"}
     \/ e.c \in DOMAIN SideKeys /\ e.k0 = "&"
  /\ Read(e, Zero, re_sort_list([l EXCEPT !.hidden = Filtered \ @]))
Reread(k, e) ==
  /\ Command(e) = NoCommand /\ NoRun /\ UNCHANGED regex
  /\ \/ e.c = "F" /\ Read(e, Zero, rebuild_db_1(l))
     \/ e.c = "u" /\ e.k0 \notin {"A", "R", "S"} /\ Read(e, Zero, rebuild_db(l))
     \/ e.c \in DOMAIN SideKeys /\ e.k0 = "s" /\ Read(e, Zero, rebuild_db(l))
Search(k, e) == e.c = "/" /\ NoRun /\ Read(e, Zero, l) /\ regex' \in BOOLEAN

\* Everything else clears c: columns, views, help, what is not defined.
Inert(k, e) ==
  /\ Command(e) = NoCommand /\ ~Waits(e) /\ NoRun /\ UNCHANGED regex /\ Read(e, Zero, l)
  /\ ~(e.k0 = "S" /\ e.c \in SortKeys)
  /\ \/ e.c \in {"v", "o", "p", "a", "h", "C", "B", "U", "X", "P", "&", "<", ">"}
     \/ e.c = "l" /\ e.k0 \notin {"s", "S", "&"}
     \/ e.c = "n" /\ (regex \/ l.mode # "diff" \/ e.k0 \in {"A", "R"})
     \/ e.c \in {"u", "g", "t", "s"} /\ e.k0 \in {"A", "R"}
     \/ e.c = "." /\ e.k0 = "z"

Keys == DigitKeys \cup DOMAIN Edits \cup DOMAIN SideKeys \cup DOMAIN Singles \cup SortKeys \cup
        {"'", ".", "d", "<", ">", "T", "@", "P", "e", "q", "z", "A", "D", "R", "s", "v", "o",
         "&", "j", "k", "G", "m", "V", "E", "F", "F1", "/", "a", "h"}
Typed(k) ==
  /\ typed' = IF key[1] = Zero THEN <<k>> ELSE Append(typed, k)
  /\ Len(typed') <= MaxTyped \/ key'[1] = Zero
Press(k) ==
  \E e \in {Seen(k)} :
      /\ \/ Number(k, e) \/ QuoteMark(k, e) \/ Quote(k, e) \/ FunctionKey(k, e)
         \/ Execute(k, e)
         \/ Wait(k, e) \/ Move(k, e) \/ Mark(k, e) \/ RemoveMark(k, e) \/ Multi(k, e)
         \/ Sort(k, e) \/ Filter(k, e) \/ Reread(k, e) \/ Search(k, e) \/ Inert(k, e)
      /\ Typed(k)
Next == \E k \in Keys : Press(k)

Init ==
  /\ \E mode \in {"bmode", "fmode", "diff"}, col \in {0, 1}, disk \in SUBSET (Entry \X {1, 2}) :
       /\ mode # "fmode" => col = 0
       /\ mode # "diff" => disk \subseteq Entry \X {col + 1}
       /\ l = diff_db_sort([mode |-> mode, col |-> col, disk |-> disk, type |-> disk,
                            hidden |-> {}, list |-> <<>>, multi |-> {}, prev |-> None,
                            mark |-> None, idx |-> None, cur |-> 0])
  /\ regex = FALSE /\ key = <<Zero, Zero>> /\ num = 1 /\ ns = FALSE /\ u = 0 /\ us = FALSE
  /\ saved = NotSaved /\ typed = <<>> /\ did = Nothing
  /\ last = [op |-> "none", t |-> 0, n |-> 0, multi |-> FALSE] /\ span = {}
Spec == Init /\ [][Next]_vars
-----------------------------------------------------------------------------
(* What the manual says of the keys: the operation and the tree, and the   *)
(* modes it is for.                                                        *)
row(keys, op, t, modes) == [keys |-> keys, op |-> op, t |-> t, modes |-> modes]
AllModes == {"bmode", "fmode", "diff"}
EditRows(k, op) == {row(<<"e", k>>, op, 3, AllModes), row(<<"e", "l", k>>, op, 1, {"diff"}),
                    row(<<"e", "r", k>>, op, 2, {"diff"})}
Manual ==
  (UNION {EditRows(k, Edits[k]) : k \in DOMAIN Edits}) \cup
  {row(<<"d", "d">>, "rm", 3, AllModes), row(<<"d", "l">>, "rm", 1, {"diff"}),
   row(<<"d", "r">>, "rm", 2, {"diff"}), row(<<"DC">>, "rm", 3, AllModes),
   row(<<"<", "<">>, "cp", 1, {"diff"}), row(<<">", ">">>, "cp", 2, {"diff"}),
   row(<<"C">>, "cp", 0, AllModes), row(<<"B">>, "cpdir", 0, AllModes),
   row(<<"U">>, "update", 0, AllModes), row(<<"X">>, "xchg", 0, {"diff"}),
   row(<<"T">>, "mv", 0, AllModes), row(<<"T", "l">>, "mv", 1, {"diff"}),
   row(<<"T", "r">>, "mv", 2, {"diff"}),
   row(<<"@">>, "ln", 0, AllModes), row(<<"@", "l">>, "ln", 1, {"diff"}),
   row(<<"@", "r">>, "ln", 2, {"diff"}),
   row(<<"P">>, "mkdir", 0, {"bmode", "fmode"}), row(<<"P", "l">>, "mkdir", 1, {"diff"}),
   row(<<"P", "r">>, "mkdir", 2, {"diff"})}
Here == {r \in Manual : l.mode \in r.modes}
\* Keys for "the first tree" and "the second tree", which there are in diff
\* mode, are commands in the other modes as well: deleting and editing in
\* each, copying to the other column of fmode.
Elsewhere == {r \in Manual : /\ r.op \in {"rm", "cp"} \cup {Edits[k] : k \in DOMAIN Edits}
                             /\ r.op = "cp" => l.mode = "fmode" /\ r.t # OwnSide}

\* The entries of the lines a command is for, the sides of each it is due
\* on, and both together.
Covered(n) == {At(l, v) : v \in ToSet(Lines(l, did'.u, n))} \ {DotDot}
DueOn(op, t, e) ==
  {s \in On(l.type \cap l.disk, e) :
     /\ s = t \/ t = 3 \/ (op = "rm" /\ l.mode = "bmode")
     /\ ~(Asks(op) /\ <<e, s>> \in Link)}
Due(op, t, E) == UNION {{<<e, s>> : s \in DueOn(op, t, e)} : e \in E}
-----------------------------------------------------------------------------
(* Steps that a property is not about, as it does not hold for them: a     *)
(* list that is filtered while it has a mark; `.` after a command for      *)
(* marked entries; a question that is not asked, or answered with <ESC>,   *)
(* before the first of many; lines that differ in their sides; marked      *)
(* entries after a command that ended in the middle; and "dl" for the      *)
(* other column.                                                           *)
Links(e)  == On(Link, e) \cap Sides(l, e)
Half(E)   == \E e \in E : On(l.disk, e) # Sides(l, e) \/ Links(e) \notin {{}, Sides(l, e)}
Uneven(E) == Half(E) \/ \E e, f \in E : Sides(l, e) # Sides(l, f)
MarkFiltered == l'.hidden # l.hidden /\ l.idx >= 0
DotAfterMany == did' # Nothing /\ typed' = <<".">> /\ last.multi
Unasked == /\ Asks(did'.op) /\ Cardinality(l.multi) > 1
           /\ ~did'.whole \/ Uneven(l.multi) \/ \E e \in l.multi : Links(e) # {}
SidesDiffer == /\ did' # Nothing /\ l.mode = "diff"
               /\ IF l.multi = {} THEN Uneven(Covered(did'.n)) ELSE Half(l.multi)
Resumed     == did' # Nothing /\ l.multi # {} /\ l.prev # None
OtherColumn == \E x \in did'.acts : x[1] = Foreign

(* Types.  The number and the first line of a ' command may be those of a  *)
(* list that has become shorter since (a shell, a filter): the loops over  *)
(* lines end with the list.                                                *)
TypeOK ==
  /\ l.disk \subseteq Entry \X {1, 2} /\ l.type \subseteq Entry \X {1, 2}
  /\ l.multi \subseteq Entry /\ l.mark \in Entry \cup {None, Global}
  /\ l.cur \in 0..Max({0, db_num(l) - 1}) /\ l.prev \in {None} \cup 0..NumEntry
  /\ num \in 0..MaxNum \/ num \in 0..(NumEntry + 1)
  /\ us => u \in 0..NumEntry
  /\ key[1] = Zero => ~ns /\ ~us /\ num = 1

(* The local mark is an entry and, beside it, the number of its line, and  *)
(* the two are read by different keys: whatever changes the list has to    *)
(* move or clear both.                                                     *)
MarkOnItsLine ==
  l.mark \in Entry => l.idx \in 0..(db_num(l) - 1) /\ At(l, l.idx) = l.mark

(* "'" and a command are for the entries from the cursor to the marked     *)
(* one, inclusive, wherever the cursor was (vddiff.1: "between the cursor  *)
(* and the local mark (inclusive)"), also if the list was sorted or other  *)
(* keys came in between.                                                   *)
RangeIsBetween ==
  [][did'.op # "none" /\ l.multi = {} /\ Head(typed') = "'" /\ span # {}
       /\ (\E r \in Here : typed' = <<"'">> \o r.keys)
     => Covered(did'.n) = span \ {DotDot}]_vars

(* A documented sequence of keys, alone or after a number, is that command *)
(* with that number from the cursor on; and no command runs unless the     *)
(* keys of its row, one for this mode or one of Elsewhere, were the last   *)
(* ones typed, whatever was typed and abandoned before.  (T and @ wait in  *)
(* diff mode if no file can be copied one way only, also when `.` repeats  *)
(* them; X does nothing without a difference; n searches in a search.)     *)
Declined == did'.op = "none" /\ l.multi # {}
Waiting(r) == /\ l.mode = "diff"
              /\ \/ r.keys \in {<<"T">>, <<"@">>} /\ key'[1] = Head(r.keys)
                 \/ r.keys = <<"X">> /\ key'[1] = Zero
AsDocumented ==
  [][/\ \A r \in Here :
          \A d \in Digit \cup {0} :
             /\ typed' = (IF d = 0 THEN <<>> ELSE <<Digits[d]>>) \o r.keys
             /\ ~(regex /\ "n" = Last(r.keys)) /\ typed' # <<".">>
             => \/ did'.op = r.op /\ did'.t = r.t /\ did'.u = l.cur
                   /\ did'.n = (IF d = 0 THEN 1 ELSE d % 10)
                \/ Declined \/ Waiting(r)
     /\ did'.op \notin {"none", "fkey"}
          => \/ typed' \in {<<".">>, <<".", "l">>, <<".", "r">>}
             \/ \E r \in Here \cup Elsewhere :
                  did'.op = r.op /\ did'.t = r.t /\ IsSuffix(r.keys, typed')]_vars

(* What `.` runs is what ran last: the same operation and tree on the same *)
(* number of files (vddiff.1: "Repeat last file system or function key     *)
(* command", "the number of files is saved").                              *)
DotRepeats ==
  [][typed' = <<".">> /\ did'.op # "none"
     => did'.op = last.op /\ did'.t = last.t /\ did'.n = last.n]_vars

(* With multiple marks a command is for the marked entries and no other,   *)
(* wherever the cursor is, for each on every side it is due on; hidden     *)
(* ones stay as they are.  The loop around get_mmrk() keeps its place in a *)
(* static variable.                                                        *)
MarkedAndNoOther ==
  [][did'.op \notin {"none", "mkdir"} /\ l.multi # {}
     => /\ {x[1] : x \in did'.acts} \subseteq l.multi \cap ToSet(l.list)
        /\ did'.whole /\ did'.op \in {"rm", "rename", "chmod", "chown", "chgrp"}
             => Done(did'.acts) = Due(did'.op, did'.t, l.multi \cap ToSet(l.list))]_vars

(* The same for a number of lines: tree and ntr are changed for one file   *)
(* and must not decide about the next.                                     *)
EveryLineDone ==
  [][did'.op \in {"rm", "chmod", "chown", "chgrp"} /\ did'.whole /\ l.multi = {}
     => Done(did'.acts) = Due(did'.op, did'.t, Covered(did'.n))]_vars

(* A mode or an owner that is set is one the user entered for this         *)
(* command: <ESC> at the question ends it.                                 *)
AskedFirst == [][\A x \in did'.acts : x[3]]_vars
=============================================================================
