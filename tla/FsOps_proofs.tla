---------------------------- MODULE FsOps_proofs ----------------------------
(***************************************************************************)
(* Proofs about the file operations: type correctness, the shape of the    *)
(* trees, that copying takes nothing away from the tree it reads, and that *)
(* a command that was cancelled changes nothing any more.                  *)
(***************************************************************************)
EXTENDS FsOps, TLAPS

\* The part of IInv that holds for all commands.
Basic == TypeOK /\ Control /\ Trees

\* The kinds of objects are different.
LEMMA Kinds ==
  /\ Dir \in Obj /\ Absent \in Obj /\ Dir # Absent
  /\ Dir \notin Leaf /\ Absent \notin Leaf
  /\ \A o \in Obj : o \in Leaf \/ o = Absent \/ o = Dir
  /\ \A o \in Leaf : o \in Obj /\ o.k \in {"reg", "lnk"}
  /\ Dir.k = "dir" /\ Absent.k = "none"
BY DEF Obj, Leaf, Dir, Absent

\* A path is below another one if it is that path, or if its parent is below.
LEMMA UnderStep ==
  ASSUME NEW m \in Node, NEW n \in Node
  PROVE  m \in Under[n] <=> m = n \/ (Parent[m] # Root /\ Parent[m] \in Under[n])
<1>1. Parent[m] \in Node \cup {Root} /\ Root \notin Node
  BY NodeAssumption DEF Root
<1>2. ASSUME m = n PROVE m \in Under[n]
  BY <1>2 DEF Under
<1>3. ASSUME Parent[m] # Root, Parent[m] \in Under[n] PROVE m \in Under[n]
  BY <1>3 DEF Under, Upward
<1>4. ASSUME m \in Under[n], m # n
      PROVE  Parent[m] # Root /\ Parent[m] \in Under[n]
  <2>1. Parent[m] # Root
    <3>1. SUFFICES ASSUME Parent[m] = Root PROVE FALSE
      OBVIOUS
    <3>2. {m} \in Upward
      BY <3>1 DEF Upward
    <3> QED BY <3>2, <1>4 DEF Under
  <2>2. ASSUME NEW S \in Upward, Parent[m] \in S PROVE n \in S
    <3>1. S \cup {m} \in Upward
      BY <2>2 DEF Upward
    <3> QED BY <3>1, <1>4 DEF Under
  <2> QED BY <2>1, <2>2, <1>1 DEF Under
<1> QED BY <1>2, <1>3, <1>4

\* Putting an object into a directory, or over a path with nothing below it,
\* leaves a tree.
LEMMA PutTree ==
  ASSUME NEW t \in Tree, NEW n \in Node, NEW o \in Obj,
         o # Absent => (Parent[n] # Root => t[Parent[n]] = Dir),
         o = Dir \/ \A c \in Node : Parent[c] = n => t[c] = Absent
  PROVE  [t EXCEPT ![n] = o] \in Tree
<1> DEFINE u == [t EXCEPT ![n] = o]
<1>1. u \in [Node -> Obj]
  BY DEF Tree
<1>2. ASSUME NEW c \in Node, u[c] # Absent, Parent[c] # Root
      PROVE  u[Parent[c]] = Dir
  <2>1. Parent[c] \in Node /\ Parent[c] # c
    BY <1>2, NodeAssumption
  <2>2. CASE c = n
    BY <2>1, <2>2, <1>2 DEF Tree
  <2>3. CASE c # n /\ Parent[c] = n
    BY <2>1, <2>3, <1>2 DEF Tree
  <2>4. CASE c # n /\ Parent[c] # n
    BY <2>1, <2>4, <1>2 DEF Tree
  <2> QED BY <2>2, <2>3, <2>4
<1> QED BY <1>1, <1>2 DEF Tree

\* A dialog leaves the flags what they are.
LEMMA DelDialogOK ==
  ASSUME FlagsOK, refused \subseteq Node, NEW n \in Node, NEW yes \in BOOLEAN,
         DelDialog(n, yes)
  PROVE  FlagsOK' /\ refused' \subseteq Node
BY DEF FlagsOK, DelDialog

LEMMA FwrapOK ==
  ASSUME FlagsOK, Fwrap
  PROVE  FlagsOK'
BY DEF FlagsOK, Fwrap

LEMMA FailOK ==
  ASSUME fails \in 0..MaxFail, Fail
  PROVE  fails' \in 0..MaxFail
BY BoundAssumption DEF Fail

\* Assigning one path of one tree.
LEMMA PutOK ==
  ASSUME fs \in [Side -> Tree], NEW s \in Side, NEW n \in Node, NEW o \in Obj,
         o # Absent => InDir(s, n),
         o = Dir \/ \A c \in Node : Parent[c] = n => fs[s][c] = Absent,
         Put(s, n, o)
  PROVE  /\ fs' \in [Side -> Tree]
         /\ fs'[3 - s] = fs[3 - s]
         /\ fs'[s] = [fs[s] EXCEPT ![n] = o]
<1>1. fs[s] \in Tree /\ 3 - s \in Side /\ 3 - s # s
  BY DEF Side
<1>2. [fs[s] EXCEPT ![n] = o] \in Tree
  BY <1>1, PutTree DEF InDir
<1>3. fs' = [fs EXCEPT ![s] = [fs[s] EXCEPT ![n] = o]]
  BY DEF Put
<1> QED BY <1>1, <1>2, <1>3

\* Removing a file, or a directory with nothing in it.
LEMMA RemovalOK ==
  ASSUME TypeOK, Trees, NEW s \in Side, NEW n \in Node,
         rm_dir(s, n) \/ (fs[s][n] # Dir /\ rm_file(s, n))
  PROVE  /\ FlagsOK' /\ fails' \in 0..MaxFail /\ refused' = refused
         /\ fs' \in [Side -> Tree]
         /\ fs'[3 - s] = fs[3 - s]
         /\ \A m \in Node : fs'[s][m] = fs[s][m] \/ fs'[s][m] = Absent
<1>1. FlagsOK /\ fails \in 0..MaxFail /\ fs \in [Side -> Tree]
  BY DEF TypeOK, RecordOK, Trees
<1>2. FlagsOK'
  BY <1>1, FwrapOK DEF rm_dir, rm_file, flags, FlagsOK, EscTyped
<1>3. fails' \in 0..MaxFail /\ refused' = refused
  BY <1>1, FailOK DEF rm_dir, rm_file, EscTyped
<1>4. \/ fs' = fs
      \/ Put(s, n, Absent) /\ \A c \in Node : Parent[c] = n => fs[s][c] = Absent
  <2>1. CASE rm_dir(s, n)
    BY <2>1 DEF rm_dir, Children
  <2>2. CASE fs[s][n] # Dir /\ rm_file(s, n)
    <3>1. \A c \in Node : Parent[c] = n => fs[s][c] = Absent
      BY <1>1, <2>2, NodeAssumption DEF Tree, Root
    <3> QED BY <3>1, <2>2 DEF rm_file
  <2> QED BY <2>1, <2>2
<1>5. CASE fs' = fs
  BY <1>1, <1>2, <1>3, <1>5
<1>6. CASE Put(s, n, Absent) /\ \A c \in Node : Parent[c] = n => fs[s][c] = Absent
  <2>1. /\ fs' \in [Side -> Tree] /\ fs'[3 - s] = fs[3 - s]
        /\ fs'[s] = [fs[s] EXCEPT ![n] = Absent]
    BY <1>1, <1>6, Kinds, PutOK
  <2>2. fs[s] \in [Node -> Obj]
    BY <1>1 DEF Tree
  <2> QED BY <2>1, <2>2, <1>2, <1>3
<1> QED BY <1>4, <1>5, <1>6

\* Leaving a directory.
LEMMA PopOK ==
  ASSUME TypeOK, Control, NEW w \in Walker, NEW where, Walking(w, where),
         where # "off", Pop(w), ent' = ent, tree_op' = tree_op,
         pend' \in Node \cup {Root}, w = "in" => pend' = pend
  PROVE  WalkOK' /\ Control'
<1> USE DEF Walker
<1>1. TopOf(w) \in Node /\ at[w] \in Under[TopOf(w)] /\ ph[w] # "off"
  BY DEF Control, Walking
<1>2. at[w] \in Node
  BY <1>1 DEF Under
<1>3. CASE at[w] # TopOf(w)
  <2>1. Parent[at[w]] \in Under[TopOf(w)] /\ Parent[at[w]] \in Node
    BY <1>1, <1>2, <1>3, UnderStep DEF Under
  <2> QED BY <1>1, <1>2, <1>3, <2>1
          DEF TypeOK, WalkOK, Control, Walking, Active, Pop, TopOf
<1>4. CASE at[w] = TopOf(w)
  BY <1>1, <1>2, <1>4 DEF TypeOK, WalkOK, Control, Walking, Active, Pop, TopOf
<1> QED BY <1>3, <1>4

\* Going on in the same directory.
LEMMA GotoOK ==
  ASSUME TypeOK, Control, NEW w \in Walker, NEW where, Walking(w, where),
         where # "off", NEW to \in {"opendir", "read", "sub"}, Goto(w, to),
         ent' = ent, tree_op' = tree_op,
         pend' \in Node \cup {Root}, w = "in" => pend' = pend
  PROVE  WalkOK' /\ Control'
BY DEF Walker, TypeOK, WalkOK, Control, Walking, Active, Goto, TopOf

LEMMA CreatedOK ==
  ASSUME TypeOK, Control, NEW where, Walking("out", where), where # "off",
         Created("out"), ent' = ent, tree_op' = tree_op,
         pend' \in Node \cup {Root}
  PROVE  WalkOK' /\ Control'
<1>1. "out" \in Walker
  BY DEF Walker
<1> QED BY <1>1, PopOK, GotoOK DEF Created

\* mkdir() in the target tree.
LEMMA MkdirOK ==
  ASSUME TypeOK, Control, Trees, NEW where, Walking("out", where), where # "off",
         NEW n \in Node, fs[dst][n] = Absent, mkdir("out", n), ent' = ent,
         tree_op' = tree_op, pend' \in Node \cup {Root}
  PROVE  /\ WalkOK' /\ Control' /\ fs' \in [Side -> Tree]
         /\ fails' \in 0..MaxFail
         /\ fs'[3 - dst] = fs[3 - dst]
<1>1. "out" \in Walker /\ dst \in Side
  BY DEF Walker, TypeOK, CommandOK, Side, dst
<1>2. CASE InDir(dst, n) /\ Put(dst, n, Dir) /\ Created("out") /\ UNCHANGED fails
  BY <1>1, <1>2, CreatedOK, Kinds, PutOK DEF Trees, TypeOK, RecordOK
<1>3. CASE Pop("out") /\ UNCHANGED fs /\ (UNCHANGED fails \/ Fail)
  BY <1>1, <1>3, PopOK, FailOK DEF Trees, TypeOK, RecordOK
<1> QED BY <1>2, <1>3 DEF mkdir

LEMMA TreeType ==
  ASSUME NEW f \in [Side -> Tree]
  PROVE  f \in [Side -> [Node -> Obj]]
BY DEF Tree
-----------------------------------------------------------------------------
(* Each action preserves Basic.                                            *)

LEMMA EnterBasic ==
  ASSUME Basic, NEW w \in Walker, Enter(w)
  PROVE  Basic'
<1>1. TypeOK /\ Control /\ Trees /\ Walking(w, "enter")
  BY DEF Basic, Enter
<1>2. /\ UNCHANGED <<tree_op, command, ent, goal, thru>>
      /\ ent' = ent /\ tree_op' = tree_op
      /\ pend \in Node \cup {Root} /\ at[w] \in Node
  BY <1>1 DEF Enter, TypeOK, WalkOK, Walking, Control, Under
<1>3. CASE tree_op \in {"rm", "notempty"}
  <2>1. Goto(w, "opendir") /\ UNCHANGED <<fs, fails, flags, pend, refused>>
    BY <1>3 DEF Enter
  <2>2. WalkOK' /\ Control'
    BY <1>1, <1>2, <2>1, GotoOK
  <2> QED BY <1>1, <1>2, <2>1, <2>2
          DEF Basic, TypeOK, FlagsOK, RecordOK, CommandOK, Trees, flags, command
<1>4. CASE tree_op \in {"cp", "empty"}
  <2>1. w = "out" /\ creatdir("out", at["out"])
    BY <1>1, <1>4 DEF Enter, Walking, Control, Walker
  <2> DEFINE n == at["out"]
  <2>2. n \in Node /\ dst \in Side
    BY <1>1, <1>2, <2>1 DEF TypeOK, CommandOK, Side, dst
  <2>3. CASE fs[dst][n] = Dir
    <3>1. Created("out") /\ UNCHANGED <<fs, fails, flags, refused, pend>>
      BY <2>1, <2>3, Kinds DEF creatdir
    <3>2. WalkOK' /\ Control'
      BY <1>1, <1>2, <2>1, <3>1, CreatedOK
    <3> QED BY <1>1, <1>2, <3>1, <3>2
            DEF Basic, TypeOK, FlagsOK, RecordOK, CommandOK, Trees, flags, command
  <2>4. CASE fs[dst][n] = Absent
    <3>1. mkdir("out", n) /\ UNCHANGED <<flags, refused, pend>>
      BY <2>1, <2>4, Kinds DEF creatdir
    <3>2. /\ WalkOK' /\ Control' /\ fs' \in [Side -> Tree]
          /\ fails' \in 0..MaxFail
      BY <1>1, <1>2, <2>1, <2>2, <2>4, <3>1, MkdirOK
    <3> QED BY <1>1, <1>2, <3>1, <3>2, TreeType
            DEF Basic, TypeOK, FlagsOK, RecordOK, CommandOK, Trees, flags, command
  <2>5. CASE fs[dst][n] \notin {Dir, Absent}
    <3>1. /\ UNCHANGED <<fs, fails>>
          /\ \E yes \in BOOLEAN : DelDialog(n, yes)
      BY <2>1, <2>5 DEF creatdir
    <3>2. FlagsOK' /\ refused' \subseteq Node
      BY <1>1, <2>2, <3>1, DelDialogOK DEF TypeOK, RecordOK
    <3>3. ASSUME pend' = n, pc' = "unlink", UNCHANGED <<at, todo, subs>>,
                 ph' = [ph EXCEPT !["out"] = "mkdir"]
          PROVE  WalkOK' /\ Control'
      BY <1>1, <1>2, <2>1, <2>2, <3>3
         DEF TypeOK, WalkOK, Control, Walking, Active, Walker, TopOf
    <3>4. ASSUME pend' = pend, Pop("out") \/ Created("out")
          PROVE  WalkOK' /\ Control'
      BY <1>1, <1>2, <2>1, <3>4, PopOK, CreatedOK
    <3>5. WalkOK' /\ Control'
      BY <2>1, <2>5, <3>3, <3>4 DEF creatdir
    <3> QED BY <1>1, <1>2, <3>1, <3>2, <3>5
            DEF Basic, TypeOK, RecordOK, CommandOK, Trees, command
  <2> QED BY <2>3, <2>4, <2>5
<1> QED BY <1>1, <1>3, <1>4 DEF TypeOK

\* What an action has to show of the flags, the trees and the rest.
LEMMA Assemble ==
  ASSUME Basic, FlagsOK', fails' \in 0..MaxFail, refused' \subseteq Node,
         thru' \subseteq Node, UNCHANGED command, goal' \in {"copy", "remove"},
         tree_op' \in {"rm", "cp", "empty", "notempty"},
         fs' \in [Side -> Tree], WalkOK', Control'
  PROVE  Basic'
BY TreeType DEF Basic, TypeOK, RecordOK, CommandOK, Trees, command

\* The parts of Basic as they are used below.
LEMMA BasicParts ==
  ASSUME Basic
  PROVE  /\ TypeOK /\ Control /\ Trees /\ FlagsOK /\ WalkOK
         /\ fails \in 0..MaxFail /\ refused \subseteq Node /\ thru \subseteq Node
         /\ goal \in {"copy", "remove"} /\ fs \in [Side -> Tree]
         /\ tree_op \in {"rm", "cp", "empty", "notempty"}
         /\ pend \in Node \cup {Root} /\ ent \in Node \cup {Root}
         /\ src \in Side /\ dst \in Side /\ dst # src /\ 3 - dst = src
         /\ UNCHANGED flags => FlagsOK'
         /\ \A w \in Walker : SideOf(w) \in Side
         /\ \A w \in Walker : ph[w] # "off" => at[w] \in Node
BY DEF Basic, TypeOK, RecordOK, CommandOK, WalkOK, FlagsOK, Trees, flags, Side,
       dst, SideOf, Control, Under, Entry, Walker

LEMMA OpendirBasic ==
  ASSUME Basic, NEW w \in Walker, Opendir(w)
  PROVE  Basic'
<1>1. /\ UNCHANGED <<fs, tree_op, flags, command, goal, thru, refused>>
      /\ ent' = ent /\ pend' = pend /\ Walking(w, "opendir")
  BY DEF Opendir
<1>2. WalkOK' /\ Control' /\ fails' \in 0..MaxFail
  <2>1. CASE Fail /\ Pop(w)
    BY <1>1, <2>1, BasicParts, FailOK, PopOK
  <2>2. CASE /\ ph' = [ph EXCEPT ![w] = "read"]
             /\ todo' = [todo EXCEPT ![w] = Children(SideOf(w), at[w])]
             /\ UNCHANGED <<at, subs, pc, fails>>
    BY <1>1, <2>2, BasicParts
       DEF WalkOK, Control, Walking, Active, TopOf, Children, Walker
  <2> QED BY <2>1, <2>2 DEF Opendir
<1> QED BY <1>1, <1>2, BasicParts, Assemble

LEMMA EndReadOK ==
  ASSUME Basic, NEW w \in Walker, Walking(w, "read"), EndRead(w),
         ent' = ent, pend' = pend, tree_op' = tree_op
  PROVE  WalkOK' /\ Control'
<1>1. CASE Pop(w)
  BY <1>1, BasicParts, PopOK
<1>2. CASE /\ ph' = [ph EXCEPT ![w] = "sub"]
           /\ todo' = [todo EXCEPT ![w] = {}]
           /\ UNCHANGED <<at, subs, pc>>
  BY <1>2, BasicParts DEF WalkOK, Control, Walking, Active, TopOf, Walker
<1> QED BY <1>1, <1>2 DEF EndRead

LEMMA ReadEntryBasic ==
  ASSUME Basic, NEW w \in Walker, Walking(w, "read"), NEW n \in todo[w],
         ReadEntry(w, n), UNCHANGED <<tree_op, command, ent, goal, thru>>
  PROVE  Basic'
<1>1. n \in Node /\ SideOf(w) \in Side
  BY BasicParts DEF WalkOK
<1>2. /\ todo' = [todo EXCEPT ![w] = @ \ {n}] /\ ph' = ph /\ at' = at
      /\ ent' = ent /\ tree_op' = tree_op
  BY DEF ReadEntry
<1>3. CASE /\ subs' = [subs EXCEPT ![w] = @ \cup {n}]
           /\ UNCHANGED <<fs, flags, fails, pc, pend, refused>>
  <2>1. WalkOK' /\ Control'
    BY <1>1, <1>2, <1>3, BasicParts DEF WalkOK, Control, TopOf, Walker
  <2> QED BY <1>3, <2>1, BasicParts, Assemble
<1>4. CASE /\ fs[SideOf(w)][n] # Dir
           /\ rm_file(SideOf(w), n)
           /\ UNCHANGED <<subs, pc, pend>>
  <2>1. WalkOK' /\ Control'
    BY <1>1, <1>2, <1>4, BasicParts DEF WalkOK, Control, TopOf, Walker
  <2>2. /\ FlagsOK' /\ fails' \in 0..MaxFail /\ refused' = refused
        /\ fs' \in [Side -> Tree]
    BY <1>1, <1>4, BasicParts, RemovalOK
  <2> QED BY <2>1, <2>2, BasicParts, Assemble
<1>5. CASE /\ tree_op = "cp" /\ pend' = n /\ pc' = "copy"
           /\ UNCHANGED <<fs, flags, fails, subs, refused>>
  <2>1. w = "out"
    BY <1>5, BasicParts DEF Control, Walking, Walker
  <2>2. WalkOK' /\ Control'
    BY <1>1, <1>2, <1>5, <2>1, BasicParts
       DEF WalkOK, Control, TopOf, Walker, Walking, Active
  <2> QED BY <1>5, <2>2, BasicParts, Assemble
<1> QED BY <1>3, <1>4, <1>5 DEF ReadEntry

LEMMA ReadBasic ==
  ASSUME Basic, NEW w \in Walker, Read(w)
  PROVE  Basic'
<1>1. /\ UNCHANGED <<tree_op, command, ent, goal, thru>> /\ ent' = ent
      /\ Walking(w, "read")
  BY DEF Read
<1>2. CASE EndRead(w) /\ UNCHANGED <<fs, flags, pend, refused>>
           /\ (UNCHANGED fails \/ Fail)
  BY <1>1, <1>2, BasicParts, FailOK, EndReadOK, Assemble
<1>3. CASE \E n \in todo[w] : ReadEntry(w, n)
  BY <1>1, <1>3, ReadEntryBasic
<1> QED BY <1>2, <1>3 DEF Read

LEMMA SubdirsBasic ==
  ASSUME Basic, NEW w \in Walker, Subdirs(w)
  PROVE  Basic'
<1>1. /\ UNCHANGED <<tree_op, command, ent, pend, goal, thru>>
      /\ ent' = ent /\ pend' = pend /\ tree_op' = tree_op
      /\ Walking(w, "sub")
  BY DEF Subdirs
<1>2. at[w] \in Node /\ at[w] \in Under[TopOf(w)] /\ TopOf(w) \in Node
  BY <1>1, BasicParts DEF Walking, Control
<1>3. ASSUME NEW n \in subs[w], Parent[n] = at[w], Descend(w, n),
             subs' = [subs EXCEPT ![w] = @ \ {n}],
             UNCHANGED <<fs, flags, fails, todo, pc, refused>>
      PROVE  Basic'
  <2>1. n \in Node
    BY BasicParts DEF WalkOK
  <2>2. n \in Under[TopOf(w)]
    BY <1>2, <1>3, <2>1, UnderStep, NodeAssumption
  <2>3. WalkOK' /\ Control'
    BY <1>1, <1>2, <1>3, <2>1, <2>2, BasicParts
       DEF WalkOK, Control, Walking, Active, TopOf, Walker, Descend
  <2> QED BY <1>1, <1>3, <2>3, BasicParts, Assemble
<1>4. CASE Pop(w) /\ UNCHANGED <<fs, flags, fails, refused>>
  BY <1>1, <1>4, BasicParts, PopOK, Assemble
<1>5. CASE Pop(w) /\ rm_dir(SideOf(w), at[w])
  <2>1. WalkOK' /\ Control'
    BY <1>1, <1>5, BasicParts, PopOK
  <2>2. /\ FlagsOK' /\ fails' \in 0..MaxFail /\ refused' = refused
        /\ fs' \in [Side -> Tree]
    BY <1>2, <1>5, BasicParts, RemovalOK
  <2> QED BY <1>1, <2>1, <2>2, BasicParts, Assemble
<1> QED BY <1>3, <1>4, <1>5 DEF Subdirs

LEMMA MkdirBasic ==
  ASSUME Basic, Mkdir
  PROVE  Basic'
<1>1. /\ UNCHANGED <<tree_op, command, flags, ent, goal, thru, refused>>
      /\ ent' = ent /\ tree_op' = tree_op
      /\ Walking("out", "mkdir") /\ pend' \in Node \cup {Root}
  BY DEF Mkdir
<1>2. pend \in Node
  BY <1>1, BasicParts DEF Walking, Control, Walker
<1>3. CASE fs[dst][pend] = Absent /\ mkdir("out", pend)
  <2>1. /\ WalkOK' /\ Control' /\ fs' \in [Side -> Tree]
        /\ fails' \in 0..MaxFail
    BY <1>1, <1>2, <1>3, BasicParts, MkdirOK
  <2> QED BY <1>1, <2>1, BasicParts, Assemble
<1>4. CASE Created("out") /\ UNCHANGED <<fs, fails>>
  <2>1. WalkOK' /\ Control'
    BY <1>1, <1>4, BasicParts, CreatedOK
  <2> QED BY <1>1, <1>4, <2>1, BasicParts, Assemble
<1> QED BY <1>3, <1>4 DEF Mkdir

\* The control returns to the walk or to the loop over the entries.
LEMMA CopyRetOK ==
  ASSUME Basic, NEW ok \in BOOLEAN, CopyRet(ok), ph["in"] = "off",
         pc \in {"copy", "write"}, UNCHANGED <<ph, at, todo, subs, ent>>
  PROVE  WalkOK' /\ Control'
BY BasicParts DEF WalkOK, Control, TopOf, Walker, CopyRet, Entry

\* The control goes on with the file that is being copied.
LEMMA PendingOK ==
  ASSUME Basic, ph["in"] = "off", pc \in {"copy", "write"},
         pc' \in {"unlink", "write"}, UNCHANGED <<ph, at, todo, subs, ent, pend>>
  PROVE  WalkOK' /\ Control'
BY BasicParts DEF WalkOK, Control, TopOf, Walker

LEMMA OverwriteBasic ==
  ASSUME Basic, pc = "copy", ph["in"] = "off", NEW n \in Node, n = pend,
         overwrite_rm(n), UNCHANGED <<fs, command, ent, goal, todo, subs, thru>>
  PROVE  Basic'
<1>1. \E yes \in BOOLEAN : DelDialog(n, yes)
  BY DEF overwrite_rm
<1>2. FlagsOK' /\ refused' \subseteq Node
  BY <1>1, BasicParts, DelDialogOK
<1>3. CASE pc' \in {"unlink", "write"} /\ UNCHANGED <<pend, ph, at>>
           /\ (UNCHANGED fails \/ Fail)
           /\ tree_op' \in {"rm", "cp", "empty", "notempty"}
  <2>1. WalkOK' /\ Control'
    BY <1>3, BasicParts, PendingOK
  <2> QED BY <1>2, <1>3, <2>1, BasicParts, FailOK, Assemble
<1>4. CASE /\ tree_op' = "rm" /\ pc' = "write" /\ Descend("in", n)
           /\ UNCHANGED pend /\ (UNCHANGED fails \/ Fail)
  <2>1. n \in Under[n]
    BY UnderStep
  <2>2. WalkOK' /\ Control'
    BY <1>4, <2>1, BasicParts DEF WalkOK, Control, TopOf, Walker, Descend
  <2> QED BY <1>2, <1>4, <2>2, BasicParts, FailOK, Assemble
<1>5. CASE /\ CopyRet(FALSE) /\ UNCHANGED <<ph, at, fails>>
           /\ tree_op' \in {"rm", "cp", "empty", "notempty"}
  <2>1. WalkOK' /\ Control'
    BY <1>5, BasicParts, CopyRetOK
  <2> QED BY <1>2, <1>5, <2>1, BasicParts, Assemble
<1> QED BY <1>3, <1>4, <1>5, BasicParts DEF overwrite_rm, NotEmpty

LEMMA CopyFileBasic ==
  ASSUME Basic, cp_file
  PROVE  Basic'
<1>1. /\ UNCHANGED <<fs, command, ent, goal, todo, subs, thru>>
      /\ pc = "copy" /\ ph["in"] = "off" /\ pend \in Node
  BY BasicParts DEF cp_file, Running, Control
<1>2. ASSUME NEW ok \in BOOLEAN, CopyRet(ok), UNCHANGED <<ph, at, tree_op>>,
             FlagsOK', fails' \in 0..MaxFail, refused' \subseteq Node
      PROVE  Basic'
  <2>1. WalkOK' /\ Control'
    BY <1>1, <1>2, CopyRetOK
  <2> QED BY <1>1, <1>2, <2>1, BasicParts, Assemble
<1>3. ASSUME pc' = "write", UNCHANGED <<pend, ph, at, tree_op>>,
             FlagsOK', fails' \in 0..MaxFail, refused' \subseteq Node
      PROVE  Basic'
  <2>1. WalkOK' /\ Control'
    BY <1>1, <1>3, PendingOK
  <2> QED BY <1>1, <1>3, <2>1, BasicParts, Assemble
<1>4. CASE /\ EscTyped /\ CopyRet(FALSE)
           /\ UNCHANGED <<fails, refused, tree_op, ph, at>>
  BY <1>2, <1>4, BasicParts DEF EscTyped, FlagsOK
<1>5. CASE cp_reg(pend)
  <2>1. CASE overwrite_rm(pend)
    BY <1>1, <2>1, OverwriteBasic
  <2>2. CASE UNCHANGED <<flags, fails, refused, tree_op, ph, at>>
             /\ (CopyRet(TRUE) \/ (pc' = "write" /\ UNCHANGED pend))
    BY <1>2, <1>3, <2>2, BasicParts
  <2>3. ASSUME NEW yes \in BOOLEAN, DelDialog(pend, yes),
               UNCHANGED fails \/ Fail, UNCHANGED <<tree_op, ph, at>>,
               CopyRet(FALSE) \/ (pc' = "write" /\ UNCHANGED pend)
        PROVE  Basic'
    <3>1. FlagsOK' /\ refused' \subseteq Node /\ fails' \in 0..MaxFail
      BY <1>1, <2>3, BasicParts, DelDialogOK, FailOK
    <3> QED BY <1>2, <1>3, <2>3, <3>1
  <2> QED BY <1>5, <2>1, <2>2, <2>3 DEF cp_reg
<1>6. CASE cp_link(pend)
  <2>1. CASE overwrite_rm(pend)
    BY <1>1, <2>1, OverwriteBasic
  <2>2. CASE UNCHANGED <<flags, refused, tree_op, ph, at>>
             /\ (UNCHANGED fails \/ Fail)
             /\ (CopyRet(TRUE) \/ CopyRet(FALSE)
                 \/ (pc' = "write" /\ UNCHANGED pend))
    BY <1>2, <1>3, <2>2, BasicParts, FailOK
  <2> QED BY <1>6, <2>1, <2>2 DEF cp_link
<1> QED BY <1>4, <1>5, <1>6 DEF cp_file

LEMMA UnlinkBasic ==
  ASSUME Basic, UnlinkTarget
  PROVE  Basic'
<1>1. /\ UNCHANGED <<tree_op, command, ent, pend, goal, walk, thru>>
      /\ pc = "unlink" /\ ph["in"] = "off" /\ pend \in Node
      /\ pc' = IF ph["out"] = "mkdir" THEN "walk" ELSE "write"
  BY BasicParts DEF UnlinkTarget, Running, Control
<1>2. /\ FlagsOK' /\ fails' \in 0..MaxFail /\ refused' = refused
      /\ fs' \in [Side -> Tree]
  BY <1>1, BasicParts, RemovalOK DEF UnlinkTarget, remove
<1>3. WalkOK' /\ Control'
  BY <1>1, BasicParts DEF WalkOK, Control, TopOf, Walker, walk
<1> QED BY <1>1, <1>2, <1>3, BasicParts, Assemble

LEMMA RemoveSourceBasic ==
  ASSUME Basic, RemoveSource
  PROVE  Basic'
<1>1. /\ UNCHANGED <<tree_op, command, ent, pend, goal, walk, thru>>
      /\ pc = "rmsrc" /\ pc' = "entry" /\ ent \in Node
  BY BasicParts DEF RemoveSource, Control
<1>2. /\ FlagsOK' /\ fails' \in 0..MaxFail /\ refused' = refused
      /\ fs' \in [Side -> Tree]
  BY <1>1, BasicParts, RemovalOK DEF RemoveSource, remove
<1>3. WalkOK' /\ Control'
  BY <1>1, BasicParts DEF WalkOK, Control, TopOf, Walker, walk
<1> QED BY <1>1, <1>2, <1>3, BasicParts, Assemble

\* What may be written over a path that is no directory leaves a tree.
LEMMA WriteOK ==
  ASSUME Basic, NEW n \in Node, NEW o \in Obj, o # Dir,
         fs[dst][n] # Dir, o # Absent => InDir(dst, n), Put(dst, n, o)
  PROVE  fs' \in [Side -> Tree]
<1>1. \A c \in Node : Parent[c] = n => fs[dst][c] = Absent
  BY BasicParts, NodeAssumption DEF Tree, Root
<1> QED BY <1>1, BasicParts, PutOK

LEMMA WriteBasic ==
  ASSUME Basic, WriteFile
  PROVE  Basic'
<1>1. /\ UNCHANGED <<tree_op, command, ent, goal, walk, refused>>
      /\ pc = "write" /\ ph["in"] = "off" /\ pend \in Node
  BY BasicParts DEF WriteFile, Running, Control
<1>2. ASSUME NEW ok \in BOOLEAN, CopyRet(ok), FlagsOK',
             UNCHANGED fails \/ Fail, thru' \subseteq Node,
             fs' \in [Side -> Tree]
      PROVE  Basic'
  <2>1. WalkOK' /\ Control'
    BY <1>1, <1>2, CopyRetOK DEF walk
  <2> QED BY <1>1, <1>2, <2>1, BasicParts, FailOK, Assemble
<1>3. fs[src][pend] \in Obj /\ fs[dst][pend] \in Obj
  BY <1>1, BasicParts DEF Tree
<1>4. CASE fs[src][pend].k = "reg" /\ write_reg(pend)
  <2> DEFINE cut == [k |-> "reg", d |-> Cut]
  <2>1. cut \in Obj /\ cut # Dir /\ fs[src][pend] # Dir
    BY <1>4, Kinds DEF Obj, Leaf, Dir
  <2>2. Writable(pend) => fs[dst][pend] # Dir /\ InDir(dst, pend)
    BY <1>1, <1>3, Kinds, BasicParts DEF Writable, InDir, Tree
  <2>3. \/ fs' = fs
        \/ Writable(pend) /\ Put(dst, pend, fs[src][pend])
        \/ Writable(pend) /\ Put(dst, pend, Absent)
        \/ Writable(pend) /\ Put(dst, pend, cut)
    BY <1>4 DEF write_reg, Copied
  <2>4. fs' \in [Side -> Tree]
    BY <1>1, <1>3, <2>1, <2>2, <2>3, Kinds, WriteOK, BasicParts
  <2>5. FlagsOK' /\ thru' \subseteq Node /\ (UNCHANGED fails \/ Fail)
    BY <1>1, <1>4, BasicParts, FwrapOK DEF write_reg
  <2>6. CopyRet(TRUE) \/ CopyRet(FALSE)
    BY <1>4 DEF write_reg
  <2> QED BY <1>2, <2>4, <2>5, <2>6
<1>5. CASE fs[src][pend].k = "lnk" /\ write_lnk(pend)
  <2>1. fs[src][pend] # Dir /\ UNCHANGED <<flags, thru>>
    BY <1>5, Kinds DEF write_lnk
  <2>2. fs' \in [Side -> Tree]
    BY <1>1, <1>3, <1>5, <2>1, Kinds, WriteOK, BasicParts DEF write_lnk
  <2>3. (CopyRet(TRUE) \/ CopyRet(FALSE)) /\ (UNCHANGED fails \/ Fail)
    BY <1>5 DEF write_lnk
  <2> QED BY <1>2, <2>1, <2>2, <2>3, BasicParts
<1> QED BY <1>4, <1>5 DEF WriteFile

LEMMA NextKeyBasic ==
  ASSUME Basic, NEW o \in {"copy", "move", "empty", "del"}, NEW s \in Side,
         NEW S \in SUBSET Entry, NEW new \in SUBSET Node, NextKey(o, s, S, new)
  PROVE  Basic'
<1>0. FlagsOK'
  BY Zenon DEF NextKey, FlagsOK
<1>1. /\ fails' \in 0..MaxFail /\ thru' = {} /\ refused' = {}
      /\ UNCHANGED <<fs, tree_op, goal>>
  BY BoundAssumption DEF NextKey
<1>2. WalkOK' /\ Control'
  BY BasicParts DEF NextKey, WalkOK, Control, TopOf, Walker, walk
<1>3. op' \in {"copy", "move", "empty", "del"} /\ src' \in Side
      /\ sel' \in SUBSET Entry /\ newer' \in SUBSET Node /\ fs0' = fs
      /\ options' = options
  BY DEF NextKey
<1> QED BY <1>0, <1>1, <1>2, <1>3, BasicParts, TreeType
        DEF Basic, TypeOK, RecordOK, CommandOK, Trees

\* Moving a subtree from one tree to the other one.
LEMMA GraftTree ==
  ASSUME NEW t \in Tree, NEW f \in Tree, NEW u \in Entry
  PROVE  Graft(t, f, u) \in Tree
<1> DEFINE g == Graft(t, f, u)
<1>1. g \in [Node -> Obj]
  BY DEF Graft, Tree
<1>2. ASSUME NEW n \in Node, g[n] # Absent, Parent[n] # Root
      PROVE  g[Parent[n]] = Dir
  <2>1. u \in Node /\ Parent[u] = Root /\ Parent[n] \in Node
    BY <1>2, NodeAssumption DEF Entry
  <2>2. n \in Under[u] <=> Parent[n] \in Under[u]
    BY <1>2, <2>1, UnderStep
  <2> QED BY <1>2, <2>1, <2>2 DEF Graft, Tree
<1> QED BY <1>1, <1>2 DEF Tree

LEMMA NothingTree == Nothing \in Tree
BY Kinds DEF Nothing, Tree

\* The first steps of an entry, one after the other.
LEMMA NextEntryBasic ==
  ASSUME Basic, NEW u \in Remaining,
         NoSource(u) \/ RenameEntry(u) \/ CopyEntry(u) \/ DeleteEntry(u)
  PROVE  Basic'
<1>1. /\ UNCHANGED <<command, todo, subs, thru>> /\ pc = "entry" /\ ent' = u
      /\ ph["out"] = "off" /\ ph["in"] = "off"
  BY BasicParts DEF NoSource, RenameEntry, CopyEntry, DeleteEntry, EntryStep,
                    Control
<1>2. u \in Entry /\ u \in Node
  BY DEF Remaining, Entry, Basic, TypeOK, CommandOK
<1>3. u \in Under[u]
  BY <1>2, UnderStep
<1>4. ASSUME UNCHANGED <<pend, ph, at>>, UNCHANGED pc \/ pc' = "rmsrc"
      PROVE  WalkOK' /\ Control'
  BY <1>1, <1>2, <1>4, BasicParts DEF WalkOK, Control, TopOf, Walker, Entry
<1>5. ASSUME Descend("out", u), pc' = "walk", UNCHANGED pend
      PROVE  WalkOK' /\ Control'
  BY <1>1, <1>2, <1>3, <1>5, BasicParts
     DEF WalkOK, Control, TopOf, Walker, Entry, Descend
<1>6. CASE NoSource(u)
  BY <1>1, <1>4, <1>6, BasicParts, Assemble DEF NoSource
<1>7. CASE RenameEntry(u)
  <2>1. fs' \in [Side -> Tree]
    <3>1. Graft(fs[dst], fs[src], u) \in Tree /\ Graft(fs[src], Nothing, u) \in Tree
      BY <1>2, BasicParts, GraftTree, NothingTree
    <3> QED BY <1>7, <3>1, BasicParts DEF RenameEntry
  <2>2. FlagsOK' /\ fails' \in 0..MaxFail
    BY <1>7, BasicParts, FwrapOK, FailOK DEF RenameEntry
  <2>3. WalkOK' /\ Control' /\ UNCHANGED <<tree_op, goal, refused>>
    BY <1>4, <1>7 DEF RenameEntry
  <2> QED BY <1>1, <2>1, <2>2, <2>3, BasicParts, Assemble
<1>8. CASE CopyEntry(u)
  <2>1. /\ UNCHANGED <<fs, flags, fails, refused>> /\ goal' = "copy"
        /\ tree_op' \in {"rm", "cp", "empty", "notempty"}
    BY <1>8, BasicParts DEF CopyEntry, EntryTreeOp
  <2>2. WalkOK' /\ Control'
    <3>1. CASE Descend("out", u) /\ pc' = "walk" /\ UNCHANGED pend
      BY <1>5, <3>1
    <3>2. CASE pend' = u /\ pc' = "copy" /\ UNCHANGED <<ph, at>>
      BY <1>1, <1>2, <3>2, BasicParts
         DEF WalkOK, Control, TopOf, Walker, Entry
    <3> QED BY <1>8, <3>1, <3>2 DEF CopyEntry
  <2> QED BY <1>1, <2>1, <2>2, BasicParts, Assemble
<1>9. CASE DeleteEntry(u)
  <2>1. FlagsOK' /\ refused' \subseteq Node
    BY <1>2, <1>9, BasicParts, DelDialogOK DEF DeleteEntry
  <2>2. /\ UNCHANGED <<fs, pend>> /\ (UNCHANGED fails \/ Fail)
        /\ tree_op' \in {"rm", "cp", "empty", "notempty"}
        /\ goal' \in {"copy", "remove"}
    BY <1>9, BasicParts DEF DeleteEntry, NotEmpty
  <2>3. WalkOK' /\ Control'
    BY <1>4, <1>5, <1>9 DEF DeleteEntry
  <2> QED BY <1>1, <2>1, <2>2, <2>3, BasicParts, FailOK, Assemble
<1> QED BY <1>6, <1>7, <1>8, <1>9

LEMMA AfterCopyBasic ==
  ASSUME Basic, AfterCopy
  PROVE  Basic'
<1>1. /\ UNCHANGED <<fs, flags, fails, command, ent, pend, todo, subs, thru,
                     refused>>
      /\ pc = "after" /\ ent \in Node /\ ph["out"] = "off" /\ ph["in"] = "off"
      /\ goal' \in {"copy", "remove"}
      /\ tree_op' \in {"rm", "cp", "empty", "notempty"}
  BY BasicParts DEF AfterCopy, Control
<1>2. ent \in Under[ent]
  BY <1>1, UnderStep
<1>3. WalkOK' /\ Control'
  BY <1>1, <1>2, BasicParts
     DEF AfterCopy, WalkOK, Control, TopOf, Walker, Descend
<1> QED BY <1>1, <1>3, BasicParts, Assemble

LEMMA EndOfCommandBasic ==
  ASSUME Basic, EndOfCommand
  PROVE  Basic'
<1>1. /\ UNCHANGED <<fs, tree_op, flags, fails, command, ent, pend, goal,
                     walk, thru, refused>>
      /\ pc = "entry" /\ pc' = "idle"
  BY DEF EndOfCommand
<1>2. WalkOK' /\ Control'
  BY <1>1, BasicParts DEF WalkOK, Control, TopOf, Walker, walk
<1> QED BY <1>1, <1>2, BasicParts, Assemble

LEMMA StutterBasic ==
  ASSUME Basic, UNCHANGED vars
  PROVE  Basic'
<1>1. UNCHANGED <<fs, tree_op, flags, fails, command, ent, pc, pend, goal,
                  ph, at, todo, subs, thru, refused>>
  BY DEF vars, walk
<1>2. WalkOK' /\ Control'
  BY <1>1, BasicParts DEF WalkOK, Control, TopOf
<1> QED BY <1>1, <1>2, BasicParts, Assemble

LEMMA InitBasic == Init => Basic
<1> SUFFICES ASSUME Init PROVE Basic
  OBVIOUS
<1>0. FlagsOK
  BY Zenon DEF Init, FlagsOK
<1>1. RecordOK /\ WalkOK /\ Control
  BY BoundAssumption DEF Init, RecordOK, WalkOK, Control, Walker
<1>2. fs \in [Side -> Tree] /\ fs0 = fs
  BY DEF Init
<1>3. op = "copy" /\ src \in Side /\ sel = {} /\ newer = {} /\ tree_op = "rm"
      /\ goal = "copy" /\ options \subseteq Option
  BY DEF Init, Side
<1> QED BY <1>0, <1>1, <1>2, <1>3, TreeType DEF Basic, TypeOK, CommandOK, Trees

LEMMA StepBasic == Basic /\ [Next]_vars => Basic'
<1> SUFFICES ASSUME Basic, [Next]_vars PROVE Basic'
  OBVIOUS
<1>1. CASE Engine
  <2>1. CASE \E w \in Walker : Walk(w)
    BY <2>1, EnterBasic, OpendirBasic, ReadBasic, SubdirsBasic DEF Walk
  <2>2. CASE NextEntry
    BY <2>2, NextEntryBasic DEF NextEntry
  <2> QED BY <1>1, <2>1, <2>2, AfterCopyBasic, RemoveSourceBasic,
             EndOfCommandBasic, CopyFileBasic, UnlinkBasic, MkdirBasic, WriteBasic
          DEF Engine
<1>2. CASE \E o \in {"copy", "move", "empty", "del"}, s \in Side,
              S \in (SUBSET Entry) \ {{}} :
           \E new \in IF overwrite_if_old THEN SUBSET Node ELSE {{}} :
              NextKey(o, s, S, new)
  BY <1>2, NextKeyBasic
<1>3. CASE UNCHANGED vars
  BY <1>3, StutterBasic
<1> QED BY <1>1, <1>2, <1>3 DEF Next
-----------------------------------------------------------------------------
(* Each action of a copy without clash preserves Copying.                  *)

\* The program copies, and nothing that is a file in the tree that is read is
\* a directory in the other one.
Quiet == Basic /\ op \in {"copy", "empty"} /\ ~Clash /\ Copying

\* The target tree gets no directory but those of the source.
DirsOfSource ==
  \A n \in Node : fs'[dst][n] = Dir => fs[dst][n] = Dir \/ fs0[src][n] = Dir

\* The parts of Quiet as they are used below.
LEMMA QuietParts ==
  ASSUME Quiet
  PROVE  /\ Basic /\ Copying /\ fs[src] = fs0[src] /\ fs0[src] \in Tree
         /\ op \notin {"move", "del"}
         /\ ph["in"] = "off" /\ pc # "rmsrc"
         /\ \A w \in Walker : \A where :
              Walking(w, where) => w = "out" /\ pc = "walk"
         /\ ph["out"] # "off" => /\ tree_op \in {"cp", "empty"}
                                 /\ fs0[src][at["out"]] = Dir
                                 /\ at["out"] \in Node
BY BasicParts
   DEF Quiet, Copying, Basic, Trees, Walking, Active, Control, Under, Walker

\* What stands in the place of a file that is copied is no directory.
LEMMA NoDirInPlace ==
  ASSUME Quiet, NEW n \in Node, fs0[src][n] \in Leaf
  PROVE  fs[dst][n] # Dir /\ fs[src][n] \in Leaf /\ fs[src][n] # Dir
BY Kinds, QuietParts DEF Quiet, Clash, Copying

\* The walk goes up, or on in the same directory.
LEMMA PopSafe ==
  ASSUME Quiet, ph["out"] # "off", pc = "walk", Pop("out"), UNCHANGED command,
         tree_op' = tree_op, fs'[src] = fs[src], DirsOfSource
  PROVE  Copying'
<1>1. /\ at["out"] \in Node /\ at["out"] \in Under[TopOf("out")]
      /\ TopOf("out") \in Node
  BY BasicParts, QuietParts DEF Control, Walker
<1>2. at["out"] # TopOf("out") =>
        Parent[at["out"]] # Root /\ Parent[at["out"]] \in Node
  BY <1>1, UnderStep DEF Under
<1>3. at["out"] # TopOf("out") => fs0[src][Parent[at["out"]]] = Dir
  BY <1>1, <1>2, QuietParts, Kinds DEF Tree
<1> QED BY <1>1, <1>3, QuietParts, BasicParts
        DEF Copying, Pop, WalkOK, Walker, command, dst, DirsOfSource

LEMMA GotoSafe ==
  ASSUME Quiet, ph["out"] # "off", pc = "walk", NEW where, Goto("out", where),
         UNCHANGED command, tree_op' = tree_op, fs'[src] = fs[src], DirsOfSource
  PROVE  Copying'
BY QuietParts, BasicParts
   DEF Copying, Goto, WalkOK, Walker, command, dst, DirsOfSource

\* mkdir() for a directory of the source.
LEMMA MkdirSafe ==
  ASSUME Quiet, ph["out"] # "off", pc = "walk", NEW n \in Node,
         fs0[src][n] = Dir, fs[dst][n] = Absent, mkdir("out", n),
         UNCHANGED command, tree_op' = tree_op
  PROVE  Copying'
<1>1. CASE InDir(dst, n) /\ Put(dst, n, Dir) /\ Created("out")
  <2>1. fs'[src] = fs[src] /\ DirsOfSource
    BY <1>1, QuietParts, BasicParts, TreeType DEF Put, DirsOfSource, Side
  <2> QED BY <1>1, <2>1, PopSafe, GotoSafe DEF Created
<1>2. CASE Pop("out") /\ UNCHANGED fs
  BY <1>2, PopSafe DEF DirsOfSource
<1> QED BY <1>1, <1>2 DEF mkdir

LEMMA EnterSafe ==
  ASSUME Quiet, NEW w \in Walker, Enter(w)
  PROVE  Copying'
<1>1. /\ w = "out" /\ pc = "walk" /\ ph["out"] # "off"
      /\ UNCHANGED <<tree_op, command, ent>> /\ tree_op' = tree_op
      /\ tree_op \in {"cp", "empty"} /\ at["out"] \in Node
      /\ fs0[src][at["out"]] = Dir
  BY QuietParts DEF Enter, Walking
<1> DEFINE n == at["out"]
<1>2. creatdir("out", n)
  BY <1>1 DEF Enter
<1>3. CASE Created("out") /\ UNCHANGED fs
  BY <1>1, <1>3, PopSafe, GotoSafe DEF Created, DirsOfSource
<1>4. CASE fs[dst][n] = Absent /\ mkdir("out", n)
  BY <1>1, <1>4, MkdirSafe
<1>5. CASE UNCHANGED fs /\ pc' = "unlink" /\ UNCHANGED <<at, todo, subs>>
           /\ ph' = [ph EXCEPT !["out"] = "mkdir"]
  BY <1>1, <1>5, QuietParts, BasicParts
     DEF Copying, WalkOK, Walker, command, dst
<1>6. CASE Pop("out") /\ UNCHANGED fs
  BY <1>1, <1>6, PopSafe DEF DirsOfSource
<1> QED BY <1>2, <1>3, <1>4, <1>5, <1>6 DEF creatdir

LEMMA MkdirStepSafe ==
  ASSUME Quiet, Mkdir
  PROVE  Copying'
<1>1. /\ pc = "walk" /\ ph["out"] = "mkdir" /\ pend = at["out"]
      /\ UNCHANGED command /\ tree_op' = tree_op
      /\ pend \in Node /\ fs0[src][pend] = Dir
  BY QuietParts, BasicParts DEF Mkdir, Walking, Control, Walker
<1>2. CASE fs[dst][pend] = Absent /\ mkdir("out", pend)
  BY <1>1, <1>2, MkdirSafe
<1>3. CASE Created("out") /\ UNCHANGED fs
  BY <1>1, <1>3, PopSafe, GotoSafe DEF Created, DirsOfSource
<1> QED BY <1>2, <1>3 DEF Mkdir

LEMMA OpendirSafe ==
  ASSUME Quiet, NEW w \in Walker, Opendir(w)
  PROVE  Copying'
<1>1. /\ w = "out" /\ pc = "walk" /\ ph["out"] # "off" /\ SideOf(w) = src
      /\ UNCHANGED <<fs, command>> /\ tree_op' = tree_op /\ pend' = pend
  BY QuietParts DEF Opendir, Walking, SideOf
<1>2. CASE Pop(w)
  BY <1>1, <1>2, PopSafe DEF DirsOfSource
<1>3. CASE /\ ph' = [ph EXCEPT ![w] = "read"]
           /\ todo' = [todo EXCEPT ![w] = Children(SideOf(w), at[w])]
           /\ UNCHANGED <<at, subs, pc>>
  BY <1>1, <1>3, QuietParts, BasicParts
     DEF Copying, WalkOK, Walker, command, dst, Children
<1> QED BY <1>2, <1>3 DEF Opendir

LEMMA ReadSafe ==
  ASSUME Quiet, NEW w \in Walker, Read(w)
  PROVE  Copying'
<1>1. /\ w = "out" /\ pc = "walk" /\ ph["out"] # "off" /\ SideOf(w) = src
      /\ UNCHANGED command /\ tree_op' = tree_op
      /\ tree_op \in {"cp", "empty"}
  BY QuietParts DEF Read, Walking, SideOf
<1>2. CASE EndRead(w) /\ UNCHANGED fs
  <2>1. CASE Pop(w)
    BY <1>1, <1>2, <2>1, PopSafe DEF DirsOfSource
  <2>2. CASE /\ ph' = [ph EXCEPT ![w] = "sub"]
             /\ todo' = [todo EXCEPT ![w] = {}]
             /\ UNCHANGED <<at, subs, pc>>
    BY <1>1, <1>2, <2>2, QuietParts, BasicParts
       DEF Copying, WalkOK, Walker, command, dst
  <2> QED BY <1>2, <2>1, <2>2 DEF EndRead
<1>3. ASSUME NEW n \in todo[w], ReadEntry(w, n)
      PROVE  Copying'
  <2>1. /\ n \in Node /\ fs[src][n] = fs0[src][n] /\ fs0[src][n] \in Obj
        /\ fs0[src][n] # Absent
    BY <1>1, <1>3, QuietParts, BasicParts DEF Copying, WalkOK, Tree
  <2>2. /\ todo' = [todo EXCEPT ![w] = @ \ {n}] /\ ph' = ph /\ at' = at
    BY <1>3 DEF ReadEntry
  <2>3. CASE /\ fs[src][n] = Dir /\ subs' = [subs EXCEPT ![w] = @ \cup {n}]
             /\ UNCHANGED <<fs, pc>>
    BY <1>1, <2>1, <2>2, <2>3, QuietParts, BasicParts
       DEF Copying, WalkOK, Walker, command, dst
  <2>4. CASE /\ fs[src][n] # Dir /\ pend' = n /\ pc' = "copy"
             /\ UNCHANGED <<fs, subs>>
    <3>1. fs0[src][n] \in Leaf
      BY <2>1, <2>4, Kinds
    <3> QED BY <1>1, <2>1, <2>2, <2>4, <3>1, QuietParts, BasicParts
            DEF Copying, WalkOK, Walker, command, dst
  <2> QED BY <1>1, <1>3, <2>3, <2>4 DEF ReadEntry
<1> QED BY <1>2, <1>3 DEF Read

LEMMA SubdirsSafe ==
  ASSUME Quiet, NEW w \in Walker, Subdirs(w)
  PROVE  Copying'
<1>1. /\ w = "out" /\ pc = "walk" /\ ph["out"] # "off"
      /\ UNCHANGED <<command, pend>> /\ tree_op' = tree_op
      /\ tree_op \in {"cp", "empty"}
  BY QuietParts DEF Subdirs, Walking
<1>2. ASSUME NEW n \in subs[w], Descend(w, n), UNCHANGED <<fs, todo, pc>>,
             subs' = [subs EXCEPT ![w] = @ \ {n}]
      PROVE  Copying'
  <2>1. n \in Node /\ fs0[src][n] = Dir
    BY <1>1, <1>2, QuietParts, BasicParts DEF Copying, WalkOK
  <2> QED BY <1>1, <1>2, <2>1, QuietParts, BasicParts
          DEF Copying, WalkOK, Walker, Descend, command, dst
<1>3. CASE Pop(w) /\ UNCHANGED fs
  BY <1>1, <1>3, PopSafe DEF DirsOfSource
<1> QED BY <1>1, <1>2, <1>3 DEF Subdirs

\* The copying of one file ends, or goes on with the same file.
LEMMA FileSafe ==
  ASSUME Quiet, pc \in {"copy", "write", "unlink"}, UNCHANGED <<command, ph, at>>,
         UNCHANGED <<todo, subs>>, tree_op' = tree_op, fs'[src] = fs[src],
         DirsOfSource,
         \/ pc' \in {"walk", "after", "entry"}
         \/ /\ pc' \in {"unlink", "write"} /\ pend' = pend
            /\ ph["out"] # "mkdir"
  PROVE  Copying'
BY QuietParts, BasicParts DEF Copying, command, dst, DirsOfSource

LEMMA CopyFileSafe ==
  ASSUME Quiet, cp_file
  PROVE  Copying'
<1>1. /\ UNCHANGED <<fs, command, todo, subs>> /\ pc = "copy"
      /\ ph["out"] # "mkdir" /\ pend \in Node /\ fs0[src][pend] \in Leaf
  BY QuietParts, BasicParts DEF cp_file, Control, Copying
<1>2. fs[dst][pend] # Dir
  BY <1>1, NoDirInPlace
<1>3. UNCHANGED <<tree_op, ph, at>>
  BY <1>2 DEF cp_file, cp_reg, cp_link, overwrite_rm
<1>4. \/ pc' \in {"walk", "after", "entry"}
      \/ pc' \in {"unlink", "write"} /\ pend' = pend
  BY <1>2 DEF cp_file, cp_reg, cp_link, overwrite_rm, CopyRet
<1> QED BY <1>1, <1>3, <1>4, FileSafe DEF DirsOfSource

LEMMA UnlinkSafe ==
  ASSUME Quiet, UnlinkTarget
  PROVE  Copying'
<1>1. /\ UNCHANGED <<tree_op, command, ph, at, todo, subs, pend>>
      /\ pc = "unlink" /\ pend \in Node
      /\ pc' = IF ph["out"] = "mkdir" THEN "walk" ELSE "write"
  BY QuietParts, BasicParts DEF UnlinkTarget, Control, walk
<1>2. fs'[src] = fs[src] /\ DirsOfSource
  BY <1>1, QuietParts, BasicParts, RemovalOK, Kinds
     DEF UnlinkTarget, remove, DirsOfSource
<1> QED BY <1>1, <1>2, FileSafe

LEMMA WriteSafe ==
  ASSUME Quiet, WriteFile
  PROVE  Copying'
<1>1. /\ UNCHANGED <<tree_op, command, ph, at, todo, subs>> /\ pc = "write"
      /\ pend \in Node /\ fs0[src][pend] \in Leaf
  BY QuietParts, BasicParts DEF WriteFile, Control, Copying, walk
<1>2. /\ pc' \in {"walk", "after", "entry"}
      /\ \/ fs' = fs
         \/ \E o \in Obj : o # Dir /\ Put(dst, pend, o)
  <2> DEFINE cut == [k |-> "reg", d |-> Cut]
  <2>1. cut \in Obj /\ cut # Dir /\ Absent \in Obj /\ Absent # Dir
        /\ fs[src][pend] \in Obj /\ fs[src][pend] # Dir
    BY <1>1, Kinds, NoDirInPlace DEF Obj, Leaf, Dir
  <2> QED BY <2>1 DEF WriteFile, write_reg, write_lnk, CopyRet, Copied
<1>3. fs'[src] = fs[src] /\ DirsOfSource
  <2>1. CASE fs' = fs
    BY <2>1 DEF DirsOfSource
  <2>2. ASSUME NEW o \in Obj, o # Dir, Put(dst, pend, o)
        PROVE  fs'[src] = fs[src] /\ DirsOfSource
    BY <1>1, <2>2, BasicParts, QuietParts, TreeType DEF Put, DirsOfSource
  <2> QED BY <1>2, <2>1, <2>2
<1> QED BY <1>1, <1>2, <1>3, FileSafe

LEMMA NextEntrySafe ==
  ASSUME Quiet, NEW u \in Remaining,
         NoSource(u) \/ RenameEntry(u) \/ CopyEntry(u) \/ DeleteEntry(u)
  PROVE  Copying'
<1>1. /\ UNCHANGED <<command, todo, subs, fs>> /\ pc = "entry"
      /\ ph["out"] = "off" /\ todo["out"] = {} /\ subs["out"] = {}
      /\ ~RenameEntry(u) /\ ~DeleteEntry(u)
  BY QuietParts, BasicParts
     DEF NoSource, RenameEntry, CopyEntry, DeleteEntry, EntryStep, Control,
         Renames
<1>2. u \in Node /\ fs[src][u] = fs0[src][u] /\ fs0[src][u] \in Obj
  BY QuietParts DEF Remaining, Entry, Basic, TypeOK, CommandOK, Tree
<1>3. CASE NoSource(u)
  BY <1>1, <1>3, QuietParts DEF NoSource, Copying, command, dst
<1>4. CASE CopyEntry(u)
  <2>1. CASE /\ fs[src][u] = Dir /\ tree_op' \in {"cp", "empty"}
             /\ Descend("out", u) /\ pc' = "walk"
    BY <1>1, <1>2, <2>1, QuietParts, BasicParts
       DEF Copying, command, dst, Descend, WalkOK, Walker
  <2>2. CASE /\ fs[src][u] \notin {Dir, Absent} /\ pend' = u /\ pc' = "copy"
             /\ UNCHANGED <<ph, at>>
    BY <1>1, <1>2, <2>2, QuietParts, Kinds DEF Copying, command, dst
  <2> QED BY <1>4, <2>1, <2>2 DEF CopyEntry, EntryTreeOp
<1> QED BY <1>1, <1>3, <1>4

\* A command starts with the trees as they are.
LEMMA NextKeySafe ==
  ASSUME Basic, NEW o, NEW s \in Side, NEW S, NEW new, NextKey(o, s, S, new)
  PROVE  Copying'
<1>1. /\ ph["out"] = "off" /\ ph["in"] = "off"
  BY BasicParts DEF NextKey, Control
<1>2. fs' = fs /\ fs0' = fs /\ ph' = ph /\ pc' = "entry"
  BY DEF NextKey, walk
<1> QED BY <1>1, <1>2 DEF Copying

\* Each step of a copy without clash keeps the trees apart.
LEMMA QuietStep ==
  ASSUME Quiet, Engine
  PROVE  Copying'
<1>1. CASE \E w \in Walker : Walk(w)
  BY <1>1, EnterSafe, OpendirSafe, ReadSafe, SubdirsSafe DEF Walk
<1>2. CASE NextEntry
  BY <1>2, NextEntrySafe DEF NextEntry
<1>3. CASE AfterCopy
  BY <1>3, QuietParts, BasicParts
     DEF AfterCopy, Removes, Copying, Control, command, dst
<1>4. CASE EndOfCommand
  BY <1>4, QuietParts DEF EndOfCommand, Copying, command, walk, dst
<1>5. CASE RemoveSource
  BY <1>5, QuietParts DEF RemoveSource
<1> QED BY <1>1, <1>2, <1>3, <1>4, <1>5, CopyFileSafe, UnlinkSafe,
           MkdirStepSafe, WriteSafe DEF Engine

LEMMA InitIInv == Init => IInv
<1> SUFFICES ASSUME Init PROVE IInv
  OBVIOUS
<1>1. Basic
  BY InitBasic
<1>2. Copying
  BY DEF Init, Copying, Walker
<1> QED BY <1>1, <1>2 DEF IInv, Basic

LEMMA StepIInv == IInv /\ [Next]_vars => IInv'
<1> SUFFICES ASSUME IInv, [Next]_vars PROVE IInv'
  OBVIOUS
<1>1. Basic /\ Basic'
  BY StepBasic DEF IInv, Basic
<1>2. CASE Engine
  <2>1. UNCHANGED command
    BY <1>2 DEF Engine, Walk, Enter, Opendir, Read, Subdirs, cp_file, Mkdir,
                UnlinkTarget, WriteFile, NextEntry, NoSource, RenameEntry,
                CopyEntry, DeleteEntry, EntryStep, AfterCopy, RemoveSource,
                EndOfCommand
  <2>2. op' = op /\ Clash' = Clash
    BY <2>1 DEF command, Clash, dst
  <2>3. op' \in {"copy", "empty"} /\ ~Clash' => Copying'
    BY <1>1, <1>2, <2>2, QuietStep DEF IInv, Quiet
  <2> QED BY <1>1, <2>3 DEF IInv, Basic
<1>3. CASE \E o \in {"copy", "move", "empty", "del"}, s \in Side,
              S \in (SUBSET Entry) \ {{}} :
           \E new \in IF overwrite_if_old THEN SUBSET Node ELSE {{}} :
              NextKey(o, s, S, new)
  BY <1>1, <1>3, NextKeySafe DEF IInv, Basic
<1>4. CASE UNCHANGED vars
  BY <1>1, <1>4 DEF IInv, Basic, vars, command, walk, Copying, Clash, dst
<1> QED BY <1>2, <1>3, <1>4 DEF Next
-----------------------------------------------------------------------------
\* In every state of the program each variable has a value of its type.
THEOREM TypeCorrect == Spec => []TypeOK
<1>1. Basic => TypeOK
  BY DEF Basic
<1> QED BY <1>1, InitBasic, StepBasic, PTL DEF Spec

\* At any time, also in the middle of a command that fails, what is on either
\* side is a tree: no path is left without the directory it is in.
THEOREM TreesStayTrees == Spec => []Trees
<1>1. Basic => Trees
  BY DEF Basic
<1> QED BY <1>1, InitBasic, StepBasic, PTL DEF Spec

\* Copying, and creating empty directories, takes nothing away from the tree
\* that is read, whatever is answered, whatever is cancelled and whatever fails,
\* unless a directory stands in the way of a file.
THEOREM CopySafe == Spec => []CopyKeepsSource
<1>1. IInv => CopyKeepsSource
  BY DEF IInv, Copying, CopyKeepsSource
<1> QED BY <1>1, InitIInv, StepIInv, PTL DEF Spec

-----------------------------------------------------------------------------
(* What is left to a command that was cancelled: after <ESC> the two trees  *)
(* do not change any more.                                                 *)
Halted == fs_error \/ fs_abort

\* What keeps a file from being written: open() follows a link and fails for a
\* directory, symlink() fails for everything.
InWay(n) == \/ fs[src][n].k = "reg" /\ fs[dst][n].k \in {"lnk", "dir"}
            \/ fs[src][n].k = "lnk" /\ fs[dst][n] # Absent

\* A walker is in a directory that is there, and so is what it has read of it.
WalkerOK(w) ==
  /\ ph[w] # "off" => fs[SideOf(w)][at[w]] = Dir
  /\ ph[w] = "off" => subs[w] = {}
  /\ \A n \in subs[w] : fs[SideOf(w)][n] = Dir /\ at[w] \notin Under[n]
  /\ \A n \in todo[w] : fs[SideOf(w)][n] # Absent /\ Parent[n] = at[w]
  /\ ph[w] # "read" => todo[w] = {}

\* The file that is copied is in the directory of the walk, and what is removed
\* for it is what is in its way.
CopyOK ==
  /\ pc \in {"copy", "write"} \/ (pc = "unlink" /\ ph["out"] # "mkdir") =>
       /\ fs[src][pend] \in Leaf
       /\ ph["out"] # "off" => ph["out"] = "read" /\ Parent[pend] = at["out"]
  /\ pc = "unlink" => IF ph["out"] = "mkdir" THEN fs[dst][pend] # Absent
                      ELSE InWay(pend)
  /\ ph["in"] # "off" => fs[dst][pend] = Dir
  /\ ph["out"] = "mkdir" => tree_op \in {"cp", "empty"}
  /\ Halted \/ pc # "entry" => pc = "idle" \/ ent \in sel

\* There is something left in the directory of a walker.
Filled(w) == \E c \in Node : Parent[c] = at[w] /\ fs[SideOf(w)][c] # Absent

\* Where a command that has been cancelled can be: with nothing left to be made
\* or removed, as what it would write is in the way of itself, and what it
\* would remove is not empty.
Cancelled ==
  /\ pc \notin {"copy", "unlink", "rmsrc"}
  /\ pc = "write" /\ ph["in"] = "off" => InWay(pend)
  /\ pc = "walk" /\ ph["out"] = "mkdir" => fs[dst][pend] # Absent
  /\ \A w \in Walker :
       /\ ph[w] # "enter"
       /\ ph[w] = "opendir" => tree_op # "rm"
       /\ ~fs_error /\ tree_op = "rm" /\ ph[w] \in {"read", "sub"} =>
            Filled(w)

Steady == /\ \A w \in Walker : WalkerOK(w)
          /\ CopyOK
          /\ Halted /\ ~many /\ pc # "idle" => Cancelled

\* What holds before each step, and of the types after it.
Now == Basic /\ Steady /\ Basic'

\* What is shown of each step.
Fine == Steady' /\ (Halted /\ ~many => fs' = fs)

LEMMA NowParts ==
  ASSUME Now
  PROVE  /\ WalkerOK("out") /\ WalkerOK("in") /\ CopyOK
         /\ Halted /\ ~many /\ pc # "idle" => Cancelled
         /\ "out" \in Walker /\ "in" \in Walker
         /\ \A w \in Walker : w = "out" \/ w = "in"
         /\ SideOf("out") = src /\ SideOf("in") = dst
         /\ ph["in"] # "off" => /\ pc = "write" /\ tree_op = "rm"
                                /\ ph["in"] # "mkdir" /\ at["in"] \in Node
         /\ fs_error \in BOOLEAN /\ fs_abort \in BOOLEAN
BY BasicParts DEF Now, Steady, Walker, SideOf, Control, Under, FlagsOK

\* What all steps of a command leave alone.
LEMMA Command ==
  ASSUME Now, UNCHANGED command
  PROVE  /\ src' = src /\ dst' = dst /\ sel' = sel /\ many' = many
         /\ SideOf("out")' = src /\ SideOf("in")' = dst
BY DEF command, dst, many, SideOf

\* A path that is below another one has a larger number.
LEMMA UnderIsLarger ==
  ASSUME NEW n \in Node, NEW m \in Under[n]
  PROVE  n <= m
<1> DEFINE S == {k \in Node : k <= m}
<1>1. m \in Node /\ m \in S
  BY NodeAssumption DEF Under
<1>2. \A k \in S : Parent[k] # Root => Parent[k] \in S
  <2>1. ASSUME NEW k \in S, Parent[k] # Root
        PROVE  Parent[k] \in Node /\ Parent[k] \in Nat /\ Parent[k] < k /\ k \in Nat
    BY <2>1, NodeAssumption
  <2> QED BY <1>1, <2>1, NodeAssumption
<1>3. S \in Upward
  BY <1>2 DEF Upward
<1> QED BY <1>1, <1>3 DEF Under

\* A directory is not below one of its entries.
LEMMA ParentNotUnder ==
  ASSUME NEW n \in Node, Parent[n] \in Node
  PROVE  Parent[n] \notin Under[n]
<1>1. Parent[n] < n /\ n \in Nat /\ Parent[n] \in Nat
  BY NodeAssumption
<1> QED BY <1>1, UnderIsLarger

LEMMA Self == ASSUME NEW n \in Node PROVE n \in Under[n]
BY UnderStep

\* A "yes" cancels nothing.
LEMMA YesHalts ==
  ASSUME NEW n, DelDialog(n, TRUE), fs_abort \in BOOLEAN
  PROVE  Halted' = Halted
BY DEF DelDialog, Halted

LEMMA NoHalts ==
  ASSUME NEW n, NEW yes, DelDialog(n, yes)
  PROVE  fs_error' = fs_error
BY DEF DelDialog

\* Either a file or an empty directory is gone, and nothing was typed, or the
\* trees are as they were.
LEMMA Gone ==
  ASSUME Now, NEW s \in Side, NEW n \in Node,
         rm_dir(s, n) \/ (fs[s][n] # Dir /\ rm_file(s, n))
  PROVE  /\ \/ fs' = fs
            \/ /\ fs'[3 - s] = fs[3 - s] /\ fs'[s][n] = Absent
               /\ \A m \in Node \ {n} : fs'[s][m] = fs[s][m]
               /\ UNCHANGED flags /\ Halted' = Halted /\ ~fs_error
               /\ fs[s][n] = Dir => Children(s, n) = {} \/ ~rm_dir(s, n)
         /\ fs_error => fs' = fs /\ fs_error'
<1>1. fs \in [Side -> [Node -> Obj]] /\ 3 - s \in Side /\ 3 - s # s
  BY BasicParts, TreeType DEF Now, Side
<1>2. ASSUME Put(s, n, Absent)
      PROVE  /\ fs'[3 - s] = fs[3 - s] /\ fs'[s][n] = Absent
             /\ \A m \in Node \ {n} : fs'[s][m] = fs[s][m]
  BY <1>1, <1>2 DEF Put
<1>3. UNCHANGED flags => Halted' = Halted /\ fs_error' = fs_error
  BY DEF flags, Halted
<1>4. CASE rm_dir(s, n)
  BY <1>2, <1>3, <1>4 DEF rm_dir
<1>5. CASE fs[s][n] # Dir /\ rm_file(s, n)
  BY <1>2, <1>3, <1>5 DEF rm_file, EscTyped
<1> QED BY <1>4, <1>5
-----------------------------------------------------------------------------
(* The walk.                                                               *)

\* A walker that does nothing.
LEMMA Idle ==
  ASSUME Now, NEW w \in Walker, ph'[w] = "off", subs'[w] = {}, todo'[w] = {}
  PROVE  WalkerOK(w)'
BY DEF WalkerOK

\* A walker that does not move, in a tree that does not change.
LEMMA Waits ==
  ASSUME Now, UNCHANGED command, NEW w \in Walker, WalkerOK(w),
         ph'[w] = ph[w], at'[w] = at[w], subs'[w] = subs[w], todo'[w] = todo[w],
         ph[w] # "off" => fs'[SideOf(w)] = fs[SideOf(w)]
  PROVE  WalkerOK(w)'
<1>1. SideOf(w)' = SideOf(w)
  BY Command, NowParts
<1>2. CASE ph[w] = "off"
  BY <1>2, Idle DEF WalkerOK
<1>3. CASE ph[w] # "off"
  BY <1>1, <1>3 DEF WalkerOK
<1> QED BY <1>2, <1>3

\* Leaving a directory, which may just have been removed.
LEMMA PopWalker ==
  ASSUME Now, UNCHANGED command, NEW w \in Walker, WalkerOK(w), ph[w] # "off",
         Pop(w),
         \A m \in Node \ {at[w]} : fs'[SideOf(w)][m] = fs[SideOf(w)][m]
  PROVE  WalkerOK(w)'
<1>1. /\ SideOf(w)' = SideOf(w) /\ SideOf(w) \in Side
      /\ TopOf(w) \in Node /\ at[w] \in Under[TopOf(w)] /\ at[w] \in Node
      /\ subs[w] \subseteq Node /\ fs[SideOf(w)] \in Tree
      /\ ph \in [Walker -> {"off", "enter", "mkdir", "opendir", "read", "sub"}]
      /\ at \in [Walker -> Node \cup {Root}]
      /\ todo \in [Walker -> SUBSET Node] /\ subs \in [Walker -> SUBSET Node]
  BY Command, NowParts, BasicParts DEF Now, Control, Under, WalkOK
<1>2. CASE at[w] # TopOf(w)
  <2> DEFINE p == Parent[at[w]]
  <2>1. p \in Node /\ p # at[w] /\ p \in Under[TopOf(w)]
    <3>1. Parent[at[w]] # Root /\ Parent[at[w]] \in Under[TopOf(w)]
      BY <1>1, <1>2, UnderStep
    <3>2. p \in Node /\ p < at[w] /\ at[w] \in Nat
      BY <1>1, <3>1, NodeAssumption
    <3> QED BY <3>1, <3>2
  <2>2. fs[SideOf(w)][p] = Dir
    <3>1. fs[SideOf(w)][at[w]] # Absent
      BY Kinds DEF WalkerOK
    <3> QED BY <1>1, <2>1, <3>1, NodeAssumption DEF Tree, Root
  <2>3. /\ ph'[w] = "sub" /\ at'[w] = p /\ todo'[w] = {}
        /\ subs'[w] = {c \in subs[w] : Parent[c] # at[w]}
    BY <1>1, <1>2 DEF Pop
  <2>4. ASSUME NEW n \in subs'[w]
        PROVE  fs'[SideOf(w)][n] = Dir /\ p \notin Under[n]
    <3>1. n \in Node /\ fs[SideOf(w)][n] = Dir /\ at[w] \notin Under[n]
      BY <1>1, <2>3, <2>4 DEF WalkerOK
    <3>2. n # at[w]
      BY <3>1, Self
    <3>3. p \notin Under[n]
      BY <1>1, <2>1, <3>1, UnderStep, NodeAssumption DEF Root
    <3> QED BY <3>1, <3>2, <3>3
  <2> QED BY <1>1, <2>1, <2>2, <2>3, <2>4 DEF WalkerOK
<1>3. CASE at[w] = TopOf(w)
  BY <1>1, <1>3, Idle DEF Pop
<1> QED BY <1>2, <1>3

LEMMA SteadyNext ==
  ASSUME WalkerOK("out")', WalkerOK("in")', CopyOK',
         Halted' /\ ~many' /\ pc' # "idle" => Cancelled'
  PROVE  Steady'
BY DEF Steady, Walker

\* A walk that copies goes on, or up.
LEMMA CopyWalk ==
  ASSUME Now, UNCHANGED command, pc = "walk", ph["out"] # "off",
         tree_op' = tree_op, tree_op # "rm", ent' = ent,
         Pop("out") \/ Goto("out", "opendir"), ph["out"] # "read",
         fs'[src] = fs[src]
  PROVE  Steady'
<1>1. ph["in"] = "off" /\ ph["in"]' = "off" /\ subs["in"]' = {} /\ todo["in"]' = {}
  BY NowParts, BasicParts DEF Now, Pop, Goto, WalkerOK, WalkOK, Walker
<1>2. WalkerOK("in")'
  BY <1>1, NowParts, Idle
<1>3. WalkerOK("out")'
  <2>1. CASE Pop("out")
    BY <2>1, NowParts, PopWalker
  <2>2. CASE Goto("out", "opendir")
    BY <2>2, NowParts, BasicParts, Command DEF Now, WalkerOK, Goto, WalkOK
  <2> QED BY <2>1, <2>2
<1>4. /\ pc' \in {"walk", "after", "entry"}
      /\ ph'["out"] \in {"off", "sub", "opendir"}
  BY NowParts, BasicParts DEF Now, Pop, Goto, WalkOK
<1>5. ent' \in sel'
  BY NowParts, Command DEF CopyOK
<1>6. CopyOK'
  BY <1>1, <1>4, <1>5 DEF CopyOK
<1>7. Cancelled'
  BY <1>1, <1>4, NowParts DEF Cancelled
<1> QED BY <1>2, <1>3, <1>6, <1>7, SteadyNext

\* The way up from a directory.  Once the command is cancelled, a directory that
\* should be removed is still there.
LEMMA PopSteady ==
  ASSUME Now, UNCHANGED command, NEW w \in Walker, NEW where, Walking(w, where),
         where \notin {"off", "mkdir"}, Pop(w), tree_op' = tree_op, ent' = ent,
         pend' = pend, fs'[3 - SideOf(w)] = fs[3 - SideOf(w)],
         \A m \in Node \ {at[w]} : fs'[SideOf(w)][m] = fs[SideOf(w)][m],
         Halted' /\ ~many /\ tree_op = "rm" => fs'[SideOf(w)][at[w]] = Dir
  PROVE  Steady'
<1>1. WalkerOK(w)'
  BY NowParts, PopWalker DEF Walking
<1>2. /\ ph[w] # "off" /\ ph[w] # "mkdir" /\ at[w] \in Node
      /\ TopOf(w) \in Node /\ at[w] \in Under[TopOf(w)]
      /\ ph \in [Walker -> {"off", "enter", "mkdir", "opendir", "read", "sub"}]
      /\ at \in [Walker -> Node \cup {Root}]
      /\ todo \in [Walker -> SUBSET Node] /\ subs \in [Walker -> SUBSET Node]
      /\ src \in Side /\ dst \in Side /\ dst # src /\ 3 - src = dst /\ 3 - dst = src
  BY BasicParts DEF Now, Walking, WalkOK, Control, dst, Side
<1>3. ent' \in sel'
  BY <1>2, NowParts, Command DEF CopyOK, Walking
<1>4. /\ ph'[w] \in {"off", "sub"} /\ (at[w] # TopOf(w) <=> ph'[w] = "sub")
      /\ ph'[w] = "sub" => at'[w] = Parent[at[w]]
      /\ \A v \in Walker : v # w => /\ ph'[v] = ph[v] /\ at'[v] = at[v]
                                    /\ subs'[v] = subs[v] /\ todo'[v] = todo[v]
  BY <1>2 DEF Pop
<1>5. ph'[w] = "sub" => /\ Parent[at[w]] \in Node
                        /\ Halted' /\ ~many /\ tree_op = "rm" => Filled(w)'
  <2>1. ASSUME at[w] # TopOf(w)
        PROVE  Parent[at[w]] \in Node
    BY <1>2, <2>1, UnderStep DEF Under
  <2>2. SideOf(w)' = SideOf(w)
    BY NowParts, Command
  <2> QED BY <1>2, <1>4, <2>1, <2>2, Kinds DEF Filled
<1>6. CASE w = "out"
  <2>1. /\ pc = "walk" /\ ph["in"] = "off" /\ pc' \in {"walk", "after", "entry"}
        /\ TopOf(w) = ent /\ SideOf(w)' = src
    BY <1>2, <1>6, NowParts, Command DEF Walking, Pop, TopOf
  <2>2. WalkerOK("in")'
    BY <1>4, <1>6, <2>1, NowParts, Waits
  <2>3. CopyOK'
    BY <1>3, <1>4, <1>6, <2>1, NowParts DEF CopyOK
  <2>4. Halted' /\ ~many => Cancelled'
    BY <1>4, <1>5, <1>6, <2>1, NowParts, Command DEF Cancelled
  <2> QED BY <1>1, <1>6, <2>2, <2>3, <2>4, SteadyNext, Command
<1>7. CASE w = "in"
  <2>1. /\ pc = "write" /\ pc' = "write" /\ tree_op = "rm" /\ TopOf(w) = pend
        /\ SideOf(w) = dst /\ pend \in Node
        /\ fs[src][pend] \in Leaf /\ fs[dst][pend] = Dir
        /\ ph["out"] # "off" => ph["out"] = "read" /\ Parent[pend] = at["out"]
        /\ fs'[src] = fs[src]
    BY <1>2, <1>7, NowParts, BasicParts DEF Walking, Pop, TopOf, CopyOK, Now, Control
  <2>2. WalkerOK("out")'
    BY <1>4, <1>7, <2>1, NowParts, Waits
  <2>3. CopyOK'
    BY <1>2, <1>3, <1>4, <1>7, <2>1, NowParts, Command DEF CopyOK
  <2>4. Halted' /\ ~many => Cancelled'
    <3>1. ASSUME Halted', ~many, ph'["in"] = "off"
          PROVE  InWay(pend)'
      BY <1>2, <1>4, <1>7, <2>1, <3>1, Kinds, Command DEF InWay
    <3>2. ph["out"] # "off" => Filled("out")'
      BY <1>4, <1>7, <2>1, Kinds, Command, NowParts DEF Filled
    <3>3. Halted' /\ ~many /\ ph'["in"] = "sub" => Filled("in")'
      BY <1>5, <1>7, <2>1
    <3>4. /\ ph'["out"] # "mkdir" /\ ph'["out"] # "enter" /\ ph'["out"] # "opendir"
          /\ ph'["out"] \notin {"off"} => ph["out"] # "off"
          /\ ph'["in"] \in {"off", "sub"}
      BY <1>4, <1>7, <2>1, NowParts
    <3> QED BY <2>1, <3>1, <3>2, <3>3, <3>4, NowParts DEF Cancelled
  <2> QED BY <1>1, <1>7, <2>2, <2>3, <2>4, SteadyNext, Command
<1> QED BY <1>6, <1>7, NowParts

LEMMA EnterFine ==
  ASSUME Now, NEW w \in Walker, Enter(w)
  PROVE  Fine
<1>1. /\ UNCHANGED command /\ tree_op' = tree_op /\ ent' = ent
      /\ Walking(w, "enter") /\ ph[w] = "enter" /\ at[w] \in Node
      /\ pc = IF w = "in" THEN "write" ELSE "walk"
  BY BasicParts DEF Now, Enter, Walking
<1>2. ~(Halted /\ ~many)
  BY <1>1, NowParts DEF Cancelled
<1>3. CASE tree_op \in {"rm", "notempty"}
  <2>1. /\ Goto(w, "opendir") /\ UNCHANGED <<fs, fails, flags, pend, refused>>
        /\ Halted' = Halted
    BY <1>3 DEF Enter, flags, Halted
  <2>2. /\ ph'[w] = "opendir" /\ pc' = pc /\ at' = at /\ subs' = subs /\ todo' = todo
        /\ \A v \in Walker : v # w => ph'[v] = ph[v]
    BY <2>1, BasicParts DEF Now, Goto, WalkOK
  <2>3. WalkerOK("out")' /\ WalkerOK("in")'
    BY <1>1, <2>1, <2>2, NowParts, Command DEF WalkerOK
  <2>4. CopyOK'
    <3>1. CASE w = "out"
      BY <1>1, <2>1, <2>2, <3>1, NowParts, Command DEF CopyOK
    <3>2. CASE w = "in"
      BY <1>1, <2>1, <2>2, <3>2, NowParts, Command DEF CopyOK
    <3> QED BY <3>1, <3>2, NowParts
  <2> QED BY <1>1, <1>2, <2>1, <2>3, <2>4, SteadyNext, Command DEF Fine
<1>4. CASE tree_op \in {"cp", "empty"}
  <2>1. w = "out" /\ creatdir("out", at["out"]) /\ pc = "walk"
    BY <1>1, <1>4, NowParts DEF Enter
  <2> DEFINE n == at["out"]
  <2>2. ASSUME fs'[src] = fs[src], Pop("out") \/ Created("out")
        PROVE  Steady'
    BY <1>1, <1>4, <2>1, <2>2, CopyWalk DEF Created
  <2>3. CASE mkdir("out", n)
    <3>1. fs'[src] = fs[src]
      BY <2>3, BasicParts, TreeType DEF Now, mkdir, Put, Side
    <3> QED BY <1>2, <2>2, <2>3, <3>1 DEF mkdir, Fine
  <2>4. CASE UNCHANGED fs /\ (Pop("out") \/ Created("out"))
    BY <1>2, <2>2, <2>4 DEF Fine
  <2>5. CASE /\ fs[dst][n] \notin {Dir, Absent} /\ UNCHANGED fs
             /\ DelDialog(n, TRUE) /\ pend' = n /\ pc' = "unlink"
             /\ ph' = [ph EXCEPT !["out"] = "mkdir"] /\ UNCHANGED <<at, todo, subs>>
    <3>1. /\ Halted' = Halted /\ ph'["out"] = "mkdir" /\ ph'["in"] = ph["in"]
          /\ ph["in"] = "off"
      BY <2>1, <2>5, YesHalts, NowParts, BasicParts DEF Now, WalkOK
    <3>2. WalkerOK("out")' /\ WalkerOK("in")'
      BY <1>1, <2>1, <2>5, <3>1, NowParts, Command DEF WalkerOK
    <3>3. CopyOK'
      BY <1>1, <1>4, <2>1, <2>5, <3>1, NowParts, Command DEF CopyOK
    <3> QED BY <1>2, <2>5, <3>1, <3>2, <3>3, SteadyNext, Command, <1>1 DEF Fine
  <2> QED BY <2>1, <2>3, <2>4, <2>5 DEF creatdir
<1> QED BY <1>3, <1>4 DEF Enter

\* The types the steps of the walk rely on.
LEMMA WalkTypes ==
  ASSUME Now
  PROVE  /\ ph \in [Walker -> {"off", "enter", "mkdir", "opendir", "read", "sub"}]
         /\ at \in [Walker -> Node \cup {Root}]
         /\ todo \in [Walker -> SUBSET Node] /\ subs \in [Walker -> SUBSET Node]
         /\ src \in Side /\ dst \in Side /\ dst # src /\ 3 - src = dst /\ 3 - dst = src
         /\ fs \in [Side -> [Node -> Obj]]
         /\ pc = "walk" => ph["out"] # "off"
         /\ \A w \in Walker : ph[w] # "off" => at[w] \in Node
         /\ \A w \in Walker : SideOf(w) \in Side
BY BasicParts, TreeType DEF Now, WalkOK, dst, Side, Control

\* Where an active walker is.
LEMMA WalkerAt ==
  ASSUME Now, NEW w \in Walker, NEW where, where # "off", Walking(w, where)
  PROVE  /\ ph[w] = where /\ at[w] \in Node /\ WalkerOK(w)
         /\ fs[SideOf(w)][at[w]] = Dir
         /\ \/ w = "out" /\ pc = "walk" /\ ph["in"] = "off" /\ SideOf(w) = src
            \/ w = "in" /\ pc = "write" /\ tree_op = "rm" /\ SideOf(w) = dst
BY NowParts, WalkTypes DEF Walking, Active, WalkerOK

LEMMA OpendirFine ==
  ASSUME Now, NEW w \in Walker, Opendir(w)
  PROVE  Fine
<1>1. /\ UNCHANGED command /\ tree_op' = tree_op /\ ent' = ent /\ pend' = pend
      /\ fs' = fs /\ Halted' = Halted /\ Walking(w, "opendir")
  BY DEF Opendir, flags, Halted
<1>2. /\ ph[w] = "opendir" /\ at[w] \in Node /\ fs[SideOf(w)][at[w]] = Dir
      /\ w = "in" => pc = "write" /\ tree_op = "rm"
      /\ w = "out" => pc = "walk" /\ ph["in"] = "off"
  BY <1>1, WalkerAt
<1>3. CASE Pop(w)
  BY <1>1, <1>2, <1>3, PopSteady DEF Fine
<1>4. CASE /\ ph' = [ph EXCEPT ![w] = "read"]
           /\ todo' = [todo EXCEPT ![w] = Children(SideOf(w), at[w])]
           /\ UNCHANGED <<at, subs, pc, fails>>
  <2>1. /\ ph'[w] = "read" /\ todo'[w] = Children(SideOf(w), at[w])
        /\ \A v \in Walker : v # w => ph'[v] = ph[v] /\ todo'[v] = todo[v]
    BY <1>4, WalkTypes
  <2>2. WalkerOK(w)'
    BY <1>1, <1>2, <1>4, <2>1, NowParts, Command DEF WalkerOK, Children
  <2>3. \A v \in Walker : v # w => WalkerOK(v)'
    BY <1>1, <1>4, <2>1, NowParts, Waits
  <2>4. CopyOK'
    BY <1>1, <1>2, <1>4, <2>1, NowParts, Command DEF CopyOK, Halted
  <2>5. ~(Halted /\ ~many) \/ w = "out"
    BY <1>2, NowParts DEF Cancelled
  <2>6. Halted' /\ ~many' => Cancelled'
    BY <1>1, <1>2, <1>4, <2>1, <2>5, NowParts, Command DEF Cancelled
  <2> QED BY <1>1, <2>2, <2>3, <2>4, <2>6, NowParts, SteadyNext DEF Fine
<1> QED BY <1>3, <1>4 DEF Opendir

\* The loop over a directory is left.
LEMMA EndReadSteady ==
  ASSUME Now, UNCHANGED command, NEW w \in Walker, Walking(w, "read"), EndRead(w),
         UNCHANGED <<fs, flags, tree_op, ent, pend>>
  PROVE  Steady'
<1>1. /\ ph[w] = "read" /\ at[w] \in Node /\ fs[SideOf(w)][at[w]] = Dir
      /\ w = "in" => pc = "write" /\ tree_op = "rm"
      /\ w = "out" => pc = "walk" /\ ph["in"] = "off"
      /\ Halted' = Halted /\ fs_error' = fs_error
  BY WalkerAt DEF flags, Halted
<1>2. CASE Pop(w)
  BY <1>1, <1>2, PopSteady
<1>3. CASE /\ ph' = [ph EXCEPT ![w] = "sub"] /\ todo' = [todo EXCEPT ![w] = {}]
           /\ UNCHANGED <<at, subs, pc>>
  <2>1. /\ ph'[w] = "sub" /\ todo'[w] = {}
        /\ \A v \in Walker : v # w => ph'[v] = ph[v] /\ todo'[v] = todo[v]
    BY <1>3, WalkTypes
  <2>2. WalkerOK(w)'
    BY <1>1, <1>3, <2>1, NowParts, Command DEF WalkerOK
  <2>3. \A v \in Walker : v # w => WalkerOK(v)'
    BY <1>1, <1>3, <2>1, NowParts, Waits
  <2>4. CopyOK'
    BY <1>1, <1>3, <2>1, NowParts, Command DEF CopyOK, Halted
  <2>5. \A v \in Walker : Filled(v) => Filled(v)'
    BY <1>3, NowParts, Command DEF Filled
  <2>6. Halted' /\ ~many' => Cancelled'
    BY <1>1, <1>3, <2>1, <2>5, NowParts, Command DEF Cancelled
  <2> QED BY <2>2, <2>3, <2>4, <2>6, NowParts, SteadyNext
<1> QED BY <1>2, <1>3 DEF EndRead

\* One entry of a directory.  The command was not cancelled before it.
LEMMA ReadEntrySteady ==
  ASSUME Now, UNCHANGED command, NEW w \in Walker, Walking(w, "read"), ~Halted,
         NEW n \in todo[w], ReadEntry(w, n), tree_op' = tree_op, ent' = ent
  PROVE  Steady'
<1>1. /\ ph[w] = "read" /\ at[w] \in Node /\ fs[SideOf(w)][at[w]] = Dir
      /\ w = "in" => pc = "write" /\ tree_op = "rm"
      /\ w = "out" => pc = "walk" /\ ph["in"] = "off"
      /\ n \in Node /\ fs[SideOf(w)][n] # Absent /\ Parent[n] = at[w]
  BY WalkerAt, WalkTypes DEF WalkerOK
<1>2. /\ ph' = ph /\ at' = at
      /\ todo'[w] = todo[w] \ {n}
      /\ \A v \in Walker : v # w => todo'[v] = todo[v]
  BY WalkTypes DEF ReadEntry
<1>3. CASE /\ fs[SideOf(w)][n] = Dir
           /\ subs' = [subs EXCEPT ![w] = @ \cup {n}]
           /\ UNCHANGED <<fs, flags, fails, pc, pend, refused>>
  <2>1. /\ subs'[w] = subs[w] \cup {n} /\ Halted' = Halted
        /\ \A v \in Walker : v # w => subs'[v] = subs[v]
    BY <1>3, WalkTypes DEF flags, Halted
  <2>2. WalkerOK(w)'
    BY <1>1, <1>2, <1>3, <2>1, NowParts, Command, ParentNotUnder DEF WalkerOK
  <2>3. \A v \in Walker : v # w => WalkerOK(v)'
    BY <1>2, <1>3, <2>1, NowParts, Waits
  <2>4. CopyOK'
    BY <1>1, <1>2, <1>3, <2>1, NowParts, Command DEF CopyOK, InWay, Halted
  <2> QED BY <2>1, <2>2, <2>3, <2>4, NowParts, SteadyNext
<1>4. CASE /\ fs[SideOf(w)][n] # Dir /\ tree_op = "rm"
           /\ rm_file(SideOf(w), n)
           /\ UNCHANGED <<subs, pc, pend>>
  <2> DEFINE s == SideOf(w)
  <2>1. /\ s \in Side /\ n # at[w]
        /\ fs' = fs \/ /\ fs'[3 - s] = fs[3 - s] /\ Halted' = Halted
                       /\ \A m \in Node \ {n} : fs'[s][m] = fs[s][m]
    BY <1>1, <1>4, WalkTypes, Gone
  <2>2. \A m \in Node \ {n} : fs'[s][m] = fs[s][m]
    BY <2>1
  <2>3. WalkerOK(w)'
    <3>1. SideOf(w)' = SideOf(w) /\ todo[w] \subseteq Node /\ subs[w] \subseteq Node
      BY NowParts, Command, WalkTypes
    <3> QED BY <1>1, <1>2, <1>4, <2>1, <2>2, <3>1, NowParts DEF WalkerOK
  <2>4. w = "in" => s = dst /\ fs'[src] = fs[src]
    BY <2>1, NowParts, WalkTypes
  <2>5. \A v \in Walker : v # w => WalkerOK(v)'
    BY <1>1, <1>2, <1>4, <2>4, NowParts, Waits
  <2>6. CopyOK'
    <3>1. CASE w = "out"
      BY <1>1, <1>2, <1>4, <3>1, NowParts, Command DEF CopyOK, Halted
    <3>2. CASE w = "in"
      <4>1. pend \in Node /\ pend # n /\ fs[dst][pend] = Dir
        BY <1>1, <1>4, <2>4, <3>2, NowParts, BasicParts DEF CopyOK, Now, Control
      <4>2. fs'[dst][pend] = Dir
        BY <2>2, <2>4, <3>2, <4>1
      <4> QED BY <1>1, <1>2, <1>4, <2>4, <3>2, <4>2, NowParts, Command
              DEF CopyOK, Halted
    <3> QED BY <3>1, <3>2, NowParts
  <2>7. ASSUME Halted' PROVE fs' = fs
    BY <2>1, <2>7
  <2>8. Halted' => Filled(w)'
    BY <1>1, <1>2, <2>7, NowParts, Command DEF Filled
  <2>9. w = "in" /\ ph["out"] # "off" => ph["out"] = "read" /\ Filled("out")'
    BY <1>1, <1>2, <1>4, <2>4, NowParts, Command, Kinds, BasicParts
       DEF CopyOK, Filled, Now, Control
  <2>10. Halted' /\ ~many' => Cancelled'
    <3>1. CASE w = "out"
      BY <1>1, <1>2, <1>4, <2>8, <3>1, NowParts DEF Cancelled
    <3>2. CASE w = "in"
      BY <1>1, <1>2, <1>4, <2>8, <2>9, <3>2, NowParts DEF Cancelled
    <3> QED BY <3>1, <3>2, NowParts
  <2> QED BY <2>3, <2>5, <2>6, <2>10, NowParts, SteadyNext
<1>5. CASE /\ fs[SideOf(w)][n] # Dir /\ tree_op = "cp"
           /\ pend' = n /\ pc' = "copy"
           /\ UNCHANGED <<fs, flags, fails, subs, refused>>
  <2>1. w = "out" /\ Halted' = Halted /\ fs[src][n] \in Leaf
    BY <1>1, <1>5, NowParts, Kinds, WalkTypes DEF flags, Halted
  <2>2. WalkerOK("out")'
    BY <1>1, <1>2, <1>5, <2>1, NowParts, Command DEF WalkerOK
  <2>3. WalkerOK("in")'
    BY <1>2, <1>5, <2>1, NowParts, Waits
  <2>4. CopyOK'
    BY <1>1, <1>2, <1>5, <2>1, NowParts, Command DEF CopyOK, Halted
  <2> QED BY <2>1, <2>2, <2>3, <2>4, SteadyNext
<1> QED BY <1>3, <1>4, <1>5 DEF ReadEntry

LEMMA ReadFine ==
  ASSUME Now, NEW w \in Walker, Read(w)
  PROVE  Fine
<1>1. UNCHANGED command /\ tree_op' = tree_op /\ ent' = ent /\ Walking(w, "read")
  BY DEF Read
<1>2. CASE EndRead(w) /\ UNCHANGED <<fs, flags, pend>>
  BY <1>1, <1>2, EndReadSteady DEF Fine
<1>3. CASE ~Stop /\ \E n \in todo[w] : ReadEntry(w, n)
  BY <1>1, <1>3, ReadEntrySteady DEF Fine, Stop, Halted
<1> QED BY <1>2, <1>3 DEF Read

LEMMA SubdirsFine ==
  ASSUME Now, NEW w \in Walker, Subdirs(w)
  PROVE  Fine
<1> DEFINE S == {c \in subs[w] : Parent[c] = at[w]}
<1> DEFINE s == SideOf(w)
<1>1. /\ UNCHANGED command /\ tree_op' = tree_op /\ ent' = ent /\ pend' = pend
      /\ Walking(w, "sub")
  BY DEF Subdirs
<1>2. /\ ph[w] = "sub" /\ at[w] \in Node /\ fs[s][at[w]] = Dir /\ s \in Side
      /\ w = "in" => pc = "write" /\ tree_op = "rm"
      /\ w = "out" => pc = "walk" /\ ph["in"] = "off"
  BY <1>1, WalkerAt, WalkTypes
<1>3. ASSUME NEW n \in S, ~Stop, Descend(w, n),
             subs' = [subs EXCEPT ![w] = @ \ {n}],
             UNCHANGED <<fs, flags, todo, pc>>
      PROVE  Fine
  <2>1. /\ ph'[w] = "enter" /\ at'[w] = n /\ subs'[w] = subs[w] \ {n}
        /\ \A v \in Walker : v # w => /\ ph'[v] = ph[v] /\ at'[v] = at[v]
                                      /\ subs'[v] = subs[v]
        /\ Halted' = Halted /\ ~Halted /\ n \in Node
    BY <1>3, WalkTypes DEF Descend, flags, Halted, Stop
  <2>2. WalkerOK(w)'
    <3>1. ASSUME NEW m \in subs[w] \ {n}
          PROVE  n \notin Under[m]
      BY <1>1, <1>2, <1>3, <2>1, WalkerAt, WalkTypes, UnderStep, NodeAssumption
         DEF WalkerOK, Root
    <3> QED BY <1>1, <1>2, <1>3, <2>1, <3>1, WalkerAt, NowParts, Command DEF WalkerOK
  <2>3. \A v \in Walker : v # w => WalkerOK(v)'
    BY <1>1, <1>3, <2>1, NowParts, Waits
  <2>4. CopyOK'
    BY <1>1, <1>2, <1>3, <2>1, NowParts, Command DEF CopyOK, InWay, Halted
  <2> QED BY <1>3, <2>1, <2>2, <2>3, <2>4, NowParts, SteadyNext DEF Fine
<1>4. CASE Pop(w) /\ tree_op # "rm" /\ UNCHANGED <<fs, flags, fails, refused>>
  BY <1>1, <1>2, <1>4, PopSteady DEF Fine
<1>5. CASE Pop(w) /\ tree_op = "rm" /\ rm_dir(s, at[w])
  <2>1. \/ fs' = fs
        \/ /\ fs'[3 - s] = fs[3 - s] /\ Halted' = Halted /\ ~fs_error
           /\ \A m \in Node \ {at[w]} : fs'[s][m] = fs[s][m]
           /\ Children(s, at[w]) = {}
    BY <1>2, <1>5, Gone
  <2>2. ASSUME Halted, ~many, ~fs_error
        PROVE  Children(s, at[w]) # {}
    BY <1>2, <1>5, <2>2, NowParts DEF Cancelled, Filled, Children
  <2>3. ~many /\ (Halted \/ Halted') => fs' = fs
    BY <2>1, <2>2
  <2> QED BY <1>1, <1>2, <1>5, <2>1, <2>3, PopSteady DEF Fine
<1> QED BY <1>3, <1>4, <1>5 DEF Subdirs

LEMMA MkdirFine ==
  ASSUME Now, Mkdir
  PROVE  Fine
<1>1. /\ UNCHANGED command /\ tree_op' = tree_op /\ ent' = ent
      /\ Walking("out", "mkdir") /\ Halted' = Halted
  BY DEF Mkdir, flags, Halted
<1>2. /\ ph["out"] = "mkdir" /\ pc = "walk" /\ tree_op \in {"cp", "empty"}
  BY <1>1, WalkerAt, NowParts DEF CopyOK
<1>3. ASSUME fs'[src] = fs[src], Pop("out") \/ Created("out")
      PROVE  Steady'
  BY <1>1, <1>2, <1>3, CopyWalk DEF Created
<1>4. CASE fs[dst][pend] = Absent /\ mkdir("out", pend)
  <2>1. fs'[src] = fs[src]
    BY <1>4, WalkTypes DEF mkdir, Put
  <2>2. ~(Halted /\ ~many)
    BY <1>2, <1>4, NowParts DEF Cancelled
  <2> QED BY <1>3, <1>4, <2>1, <2>2 DEF mkdir, Fine
<1>5. CASE Created("out") /\ UNCHANGED fs
  BY <1>3, <1>5 DEF Fine
<1> QED BY <1>4, <1>5 DEF Mkdir
-----------------------------------------------------------------------------
(* Copying one file.                                                       *)

\* What is known while a file is copied.
LEMMA FileAt ==
  ASSUME Now, pc \in {"copy", "write"}, ph["in"] = "off"
  PROVE  /\ fs[src][pend] \in Leaf /\ pend \in Node
         /\ ph["out"] \in {"off", "read"}
         /\ ph["out"] = "read" => Parent[pend] = at["out"]
         /\ subs["in"] = {} /\ todo["in"] = {}
         /\ ent \in sel
BY NowParts, BasicParts DEF Now, CopyOK, WalkerOK, Control

\* The walker that found the file stays where it is; the file is still there.
LEMMA FileWalker ==
  ASSUME Now, UNCHANGED command, pc \in {"copy", "write"}, ph["in"] = "off",
         ph'["out"] = ph["out"], at'["out"] = at["out"],
         UNCHANGED <<todo, subs>>, fs'[src] = fs[src]
  PROVE  /\ WalkerOK("out")'
         /\ ph'["out"] = "read" => Filled("out")'
<1>1. WalkerOK("out")'
  BY NowParts, Waits
<1>2. ph'["out"] = "read" => Filled("out")'
  BY FileAt, Kinds, NowParts, Command DEF Filled
<1> QED BY <1>1, <1>2

\* The file is done with.
LEMMA FileEnd ==
  ASSUME Now, UNCHANGED command, pc \in {"copy", "write"}, ph["in"] = "off",
         NEW ok, CopyRet(ok), UNCHANGED walk, ent' = ent, fs'[src] = fs[src]
  PROVE  Steady'
<1>1. /\ pc' \in {"walk", "after", "entry"}
      /\ ph' = ph /\ at' = at /\ todo' = todo /\ subs' = subs
  BY DEF CopyRet, walk
<1>2. WalkerOK("out")' /\ WalkerOK("in")'
  BY <1>1, FileAt, FileWalker, NowParts, Idle
<1>3. CopyOK'
  BY <1>1, FileAt, Command DEF CopyOK
<1>4. Cancelled'
  BY <1>1, FileAt, FileWalker, NowParts DEF Cancelled
<1> QED BY <1>2, <1>3, <1>4, SteadyNext

\* The file is to be written next.  Once the command is cancelled, something is
\* in its way.
LEMMA FileNext ==
  ASSUME Now, UNCHANGED command, pc = "copy", ph["in"] = "off", pc' = "write",
         pend' = pend, UNCHANGED walk, ent' = ent, fs' = fs,
         Halted' => InWay(pend) \/ many
  PROVE  Steady'
<1>1. ph' = ph /\ at' = at /\ todo' = todo /\ subs' = subs
  BY DEF walk
<1>2. WalkerOK("out")' /\ WalkerOK("in")'
  BY <1>1, FileAt, FileWalker, NowParts, Idle
<1>3. CopyOK'
  BY <1>1, FileAt, Command DEF CopyOK
<1>4. Halted' /\ ~many' => Cancelled'
  BY <1>1, FileAt, FileWalker, NowParts, Command DEF Cancelled, InWay
<1> QED BY <1>2, <1>3, <1>4, SteadyNext

\* What is in the way of the file is to be removed.
LEMMA OverwriteSteady ==
  ASSUME Now, UNCHANGED command, pc = "copy", ph["in"] = "off",
         UNCHANGED <<todo, subs>>, ent' = ent, fs' = fs,
         InWay(pend), overwrite_rm(pend)
  PROVE  Steady'
<1>1. fs[src][pend] \in Leaf /\ pend \in Node
  BY FileAt
<1>2. CASE /\ UNCHANGED <<ph, at>>
           /\ CopyRet(FALSE) \/ (pc' = "write" /\ pend' = pend)
  <2>1. CASE UNCHANGED walk /\ pc' = "write" /\ pend' = pend
    BY <2>1, FileNext
  <2>2. CASE UNCHANGED walk /\ CopyRet(FALSE)
    BY <2>2, FileEnd
  <2> QED BY <2>1, <2>2, <1>2 DEF walk
<1>3. CASE DelDialog(pend, TRUE) /\ pc' = "unlink" /\ UNCHANGED <<pend, ph, at>>
  <2>1. Halted' = Halted
    BY <1>3, NowParts, YesHalts
  <2>2. ~(Halted /\ ~many)
    BY NowParts DEF Cancelled
  <2>3. WalkerOK("out")' /\ WalkerOK("in")'
    BY <1>3, FileAt, FileWalker, NowParts, Idle
  <2>4. CopyOK'
    BY <1>3, FileAt, Command DEF CopyOK, InWay
  <2> QED BY <2>1, <2>2, <2>3, <2>4, SteadyNext, Command
<1>4. CASE /\ DelDialog(pend, TRUE) /\ pc' = "write" /\ Descend("in", pend)
           /\ fs[dst][pend] = Dir /\ pend' = pend
  <2>1. Halted' = Halted
    BY <1>4, NowParts, YesHalts
  <2>2. ~(Halted /\ ~many)
    BY NowParts DEF Cancelled
  <2>3. /\ ph'["in"] = "enter" /\ at'["in"] = pend
        /\ ph'["out"] = ph["out"] /\ at'["out"] = at["out"]
    BY <1>4, NowParts, WalkTypes DEF Descend
  <2>4. WalkerOK("in")'
    BY <1>4, <2>3, FileAt, NowParts, Command DEF WalkerOK
  <2>5. WalkerOK("out")'
    BY <1>4, <2>3, FileWalker
  <2>6. CopyOK'
    BY <1>4, <2>3, FileAt, Command DEF CopyOK
  <2> QED BY <2>1, <2>2, <2>4, <2>5, <2>6, SteadyNext, Command
<1> QED BY <1>2, <1>3, <1>4 DEF overwrite_rm

LEMMA CopyFileFine ==
  ASSUME Now, cp_file
  PROVE  Fine
<1>1. /\ UNCHANGED command /\ UNCHANGED <<todo, subs>> /\ ent' = ent /\ fs' = fs
      /\ pc = "copy" /\ ph["in"] = "off"
  BY DEF cp_file, Running
<1>2. /\ fs[src][pend] \in Leaf /\ pend \in Node /\ ~(Halted /\ ~many)
      /\ Absent.k = "none" /\ Dir.k = "dir"
  BY <1>1, FileAt, Kinds, NowParts DEF Cancelled
<1>3. ASSUME NEW ok, CopyRet(ok), UNCHANGED <<ph, at>> PROVE Steady'
  BY <1>1, <1>3, FileEnd DEF walk
<1>4. ASSUME Halted' => InWay(pend) \/ many, pc' = "write",
             UNCHANGED <<pend, ph, at>>
      PROVE  Steady'
  BY <1>1, <1>4, FileNext DEF walk
<1>5. UNCHANGED flags => (Halted' => many)
  BY <1>2 DEF flags, Halted
<1>6. CASE fs[src][pend].k = "reg" /\ cp_reg(pend)
  <2> SUFFICES Steady'
    BY <1>1 DEF Fine
  <2>1. CASE fs[dst][pend] = Absent /\ pc' = "write" /\ UNCHANGED <<flags, pend, ph, at>>
    BY <1>4, <1>5, <2>1
  <2>2. CASE DelDialog(pend, TRUE) /\ pc' = "write" /\ UNCHANGED <<pend, ph, at>>
    <3>1. Halted' => many
      BY <1>2, <2>2, NowParts, YesHalts
    <3> QED BY <1>4, <2>2, <3>1
  <2>3. CASE fs[dst][pend].k \in {"lnk", "dir"} /\ overwrite_rm(pend)
    <3>1. InWay(pend)
      BY <1>6, <2>3 DEF InWay
    <3> QED BY <1>1, <2>3, <3>1, OverwriteSteady
  <2>4. CASE (\E ok \in BOOLEAN : CopyRet(ok)) /\ UNCHANGED <<ph, at>>
    BY <1>3, <2>4
  <2> QED BY <1>1, <1>2, <1>6, <2>1, <2>2, <2>3, <2>4 DEF cp_reg
<1>7. CASE fs[src][pend].k = "lnk" /\ cp_link(pend)
  <2> SUFFICES Steady'
    BY <1>1 DEF Fine
  <2>1. CASE fs[dst][pend] = Absent /\ pc' = "write" /\ UNCHANGED <<flags, pend, ph, at>>
    BY <1>4, <1>5, <2>1
  <2>2. CASE fs[dst][pend] # Absent /\ overwrite_rm(pend)
    <3>1. InWay(pend)
      BY <1>7, <2>2 DEF InWay
    <3> QED BY <1>1, <2>2, <3>1, OverwriteSteady
  <2>3. CASE (\E ok \in BOOLEAN : CopyRet(ok)) /\ UNCHANGED <<ph, at>>
    BY <1>3, <2>3
  <2> QED BY <1>1, <1>2, <1>7, <2>1, <2>2, <2>3 DEF cp_link
<1>8. CASE CopyRet(FALSE) /\ UNCHANGED <<ph, at>>
  BY <1>1, <1>3, <1>8 DEF Fine
<1> QED BY <1>6, <1>7, <1>8 DEF cp_file

\* The removal of what is in the way of a file or of a directory.
LEMMA UnlinkFine ==
  ASSUME Now, UnlinkTarget
  PROVE  Fine
<1>1. /\ UNCHANGED command /\ tree_op' = tree_op /\ ent' = ent /\ pend' = pend
      /\ pc = "unlink" /\ ph["in"] = "off" /\ remove(dst, pend)
      /\ pc' = IF ph["out"] = "mkdir" THEN "walk" ELSE "write"
      /\ ph' = ph /\ at' = at /\ todo' = todo /\ subs' = subs
  BY DEF UnlinkTarget, Running, walk
<1>2. ~(Halted /\ ~many) /\ pend \in Node
  BY <1>1, NowParts, BasicParts DEF Cancelled, Now, Control
<1>3. \/ fs' = fs
      \/ fs'[src] = fs[src] /\ Halted' = Halted
  BY <1>1, <1>2, Gone, WalkTypes DEF remove
<1>4. /\ fs'[src] = fs[src]
      /\ Halted' /\ ~many => fs' = fs
  BY <1>2, <1>3
<1>5. WalkerOK("in")' /\ WalkerOK("out")'
  BY <1>1, <1>4, NowParts, Waits, Idle DEF WalkerOK
<1>6. CASE ph["out"] = "mkdir"
  <2>1. CopyOK'
    BY <1>1, <1>6, NowParts, Command DEF CopyOK
  <2>2. Halted' /\ ~many' => Cancelled'
    BY <1>1, <1>4, <1>6, NowParts, Command DEF CopyOK, Cancelled
  <2> QED BY <1>2, <1>5, <2>1, <2>2, SteadyNext DEF Fine
<1>7. CASE ph["out"] # "mkdir"
  <2>1. /\ fs[src][pend] \in Leaf /\ InWay(pend) /\ ent \in sel
        /\ ph["out"] # "off" => ph["out"] = "read" /\ Parent[pend] = at["out"]
    BY <1>1, <1>7, NowParts DEF CopyOK
  <2>2. CopyOK'
    BY <1>1, <1>4, <1>7, <2>1, Command DEF CopyOK
  <2>3. ph["out"] # "off" => Filled("out")'
    BY <1>1, <1>2, <1>4, <2>1, Kinds, NowParts, Command DEF Filled
  <2>4. Halted' /\ ~many' => InWay(pend)'
    BY <1>1, <1>4, <2>1, Command DEF InWay
  <2>5. Halted' /\ ~many' => Cancelled'
    BY <1>1, <1>7, <2>1, <2>3, <2>4, NowParts DEF Cancelled
  <2> QED BY <1>2, <1>5, <2>2, <2>5, SteadyNext DEF Fine
<1> QED BY <1>6, <1>7

LEMMA WriteFine ==
  ASSUME Now, WriteFile
  PROVE  Fine
<1>1. /\ UNCHANGED command /\ ent' = ent /\ UNCHANGED walk
      /\ pc = "write" /\ ph["in"] = "off"
  BY DEF WriteFile, Running
<1>2. /\ \/ fs[src][pend].k = "reg" /\ write_reg(pend)
         \/ fs[src][pend].k = "lnk" /\ write_lnk(pend)
      /\ \E ok \in BOOLEAN : CopyRet(ok)
  BY DEF WriteFile, write_reg, write_lnk
<1>3. fs'[src] = fs[src]
  BY <1>2, WalkTypes DEF write_reg, write_lnk, Put
<1>4. Steady'
  BY <1>1, <1>2, <1>3, FileEnd
<1>5. ASSUME Halted, ~many
      PROVE  fs' = fs
  <2>1. InWay(pend) /\ Dir.k = "dir" /\ Absent.k = "none"
    BY <1>1, <1>5, NowParts, Kinds DEF Cancelled
  <2>2. CASE fs[src][pend].k = "reg" /\ write_reg(pend)
    BY <2>1, <2>2 DEF InWay, write_reg, Writable
  <2>3. CASE fs[src][pend].k = "lnk" /\ write_lnk(pend)
    BY <2>1, <2>3 DEF InWay, write_lnk
  <2> QED BY <1>2, <2>2, <2>3
<1> QED BY <1>4, <1>5 DEF Fine
-----------------------------------------------------------------------------
(* The loop over the selected entries.                                     *)

\* While an entry is begun or done with, nobody walks.
LEMMA NoWalk ==
  ASSUME Now, pc \in {"idle", "entry", "after", "rmsrc"}
  PROVE  /\ ph["out"] = "off" /\ ph["in"] = "off"
         /\ \A w \in Walker : todo[w] = {} /\ subs[w] = {}
BY NowParts, BasicParts DEF Now, Control, WalkerOK

\* Between two entries there is nothing to be kept.
LEMMA BetweenEntries ==
  ASSUME Now, pc' \in {"idle", "entry"}, UNCHANGED walk,
         pc \in {"idle", "entry", "after", "rmsrc"},
         Halted' /\ pc' # "idle" => ent' \in sel'
  PROVE  Steady'
<1>1. /\ ph'["out"] = "off" /\ ph'["in"] = "off"
      /\ \A w \in Walker : todo'[w] = {} /\ subs'[w] = {}
  BY NoWalk DEF walk
<1>2. WalkerOK("out")' /\ WalkerOK("in")'
  BY <1>1, NowParts, Idle
<1>3. CopyOK'
  BY <1>1 DEF CopyOK
<1>4. Cancelled'
  BY <1>1, NowParts DEF Cancelled
<1> QED BY <1>2, <1>3, <1>4, SteadyNext

\* A directory is walked next, to be copied or removed.
LEMMA WalkBegins ==
  ASSUME Now, UNCHANGED command, pc \in {"entry", "after"}, pc' = "walk",
         ent' \in sel, ent' \in Node, fs[src][ent'] = Dir, fs' = fs,
         Descend("out", ent'), UNCHANGED <<todo, subs>>, ~Halted' \/ many
  PROVE  Steady'
<1>1. /\ ph'["out"] = "enter" /\ at'["out"] = ent' /\ ph'["in"] = "off"
      /\ \A w \in Walker : todo'[w] = {} /\ subs'[w] = {}
  BY NoWalk, NowParts, WalkTypes DEF Descend
<1>2. WalkerOK("out")'
  BY <1>1, NowParts, Command DEF WalkerOK
<1>3. WalkerOK("in")'
  BY <1>1, NowParts, Idle
<1>4. CopyOK'
  BY <1>1, Command DEF CopyOK
<1> QED BY <1>2, <1>3, <1>4, SteadyNext, Command

LEMMA NextEntryFine ==
  ASSUME Now, NEW u \in Remaining,
         NoSource(u) \/ RenameEntry(u) \/ CopyEntry(u) \/ DeleteEntry(u)
  PROVE  Fine
<1>1. /\ UNCHANGED command /\ pc = "entry" /\ ent' = u /\ UNCHANGED <<todo, subs>>
      /\ u \in sel /\ u \in Node /\ u > ent
  BY BasicParts DEF NoSource, RenameEntry, CopyEntry, DeleteEntry, EntryStep,
                    Remaining, Now, TypeOK, CommandOK, Entry
<1>2. ASSUME Halted, ~many
      PROVE  FALSE
  <2>1. ent \in sel
    BY <1>1, <1>2, NowParts DEF CopyOK
  <2>2. ent \in Node
    BY <2>1, BasicParts DEF Now, TypeOK, CommandOK, Entry
  <2>3. ent \in Nat /\ u \in Nat
    BY <1>1, <2>2, NodeAssumption
  <2>4. ent # u
    BY <1>1, <2>3
  <2> QED BY <1>1, <1>2, <2>1, <2>4 DEF many
<1>3. SUFFICES Steady'
  BY <1>2 DEF Fine
<1>4. CASE pc' = "entry" /\ UNCHANGED <<ph, at>>
  BY <1>1, <1>4, BetweenEntries, Command DEF walk
<1>5. UNCHANGED flags => (Halted' => many)
  BY <1>2 DEF flags, Halted
<1>6. CASE CopyEntry(u)
  <2>1. fs' = fs /\ (Halted' => many) /\ fs[src][u] # Absent
    BY <1>5, <1>6 DEF CopyEntry
  <2>2. CASE fs[src][u] = Dir /\ Descend("out", u) /\ pc' = "walk"
    BY <1>1, <2>1, <2>2, WalkBegins
  <2>3. CASE fs[src][u] # Dir /\ pend' = u /\ pc' = "copy" /\ UNCHANGED <<ph, at>>
    <3>1. /\ ph'["out"] = "off" /\ ph'["in"] = "off" /\ fs[src][u] \in Leaf
          /\ \A w \in Walker : todo'[w] = {} /\ subs'[w] = {}
      BY <1>1, <2>1, <2>3, NoWalk, Kinds, WalkTypes
    <3>2. WalkerOK("out")' /\ WalkerOK("in")'
      BY <3>1, NowParts, Idle
    <3>3. CopyOK'
      BY <1>1, <2>1, <2>3, <3>1, Command DEF CopyOK
    <3> QED BY <1>1, <2>1, <3>2, <3>3, SteadyNext, Command
  <2> QED BY <1>6, <2>2, <2>3 DEF CopyEntry
<1>7. CASE DeleteEntry(u)
  <2>1. fs' = fs
    BY <1>7 DEF DeleteEntry
  <2>2. CASE pc' # "entry"
    <3>1. DelDialog(u, TRUE) \/ UNCHANGED flags
      BY <1>1, <1>7, <2>2 DEF DeleteEntry
    <3>2. Halted' => many
      BY <1>1, <1>2, <1>5, <3>1, YesHalts, NowParts
    <3>3. CASE fs[src][u] = Dir /\ Descend("out", u) /\ pc' = "walk"
      BY <1>1, <2>1, <3>2, <3>3, WalkBegins
    <3>4. CASE pc' = "rmsrc" /\ UNCHANGED <<ph, at>>
      <4>1. /\ ph'["out"] = "off" /\ ph'["in"] = "off"
            /\ \A w \in Walker : todo'[w] = {} /\ subs'[w] = {}
        BY <1>1, <3>4, NoWalk
      <4>2. WalkerOK("out")' /\ WalkerOK("in")'
        BY <4>1, NowParts, Idle
      <4>3. CopyOK'
        BY <1>1, <3>4, <4>1, Command DEF CopyOK
      <4> QED BY <1>1, <3>2, <4>2, <4>3, SteadyNext, Command
    <3> QED BY <1>1, <1>7, <2>2, <3>3, <3>4 DEF DeleteEntry
  <2>3. CASE pc' = "entry"
    BY <1>1, <1>4, <1>7, <2>3 DEF DeleteEntry
  <2> QED BY <2>2, <2>3
<1>8. CASE NoSource(u) \/ RenameEntry(u)
  BY <1>1, <1>4, <1>8 DEF NoSource, RenameEntry
<1> QED BY <1>6, <1>7, <1>8

LEMMA AfterCopyFine ==
  ASSUME Now, AfterCopy
  PROVE  Fine
<1>1. /\ UNCHANGED command /\ pc = "after" /\ ent' = ent /\ fs' = fs
      /\ UNCHANGED <<todo, subs>> /\ Halted' = Halted
      /\ ent \in sel /\ ent \in Node
  BY NowParts, BasicParts DEF AfterCopy, flags, Halted, CopyOK, Now, Control
<1>2. CASE pc' = "entry" /\ UNCHANGED <<ph, at>>
  BY <1>1, <1>2, BetweenEntries, Command DEF walk, Fine
<1>3. CASE ~Halted /\ fs[src][ent] = Dir /\ Descend("out", ent) /\ pc' = "walk"
  BY <1>1, <1>3, WalkBegins DEF Fine
<1>4. CASE ~Halted /\ pc' = "rmsrc" /\ UNCHANGED <<ph, at>>
  <2>1. /\ ph'["out"] = "off" /\ ph'["in"] = "off"
        /\ \A w \in Walker : todo'[w] = {} /\ subs'[w] = {}
    BY <1>1, <1>4, NoWalk
  <2>2. WalkerOK("out")' /\ WalkerOK("in")'
    BY <2>1, NowParts, Idle
  <2>3. CopyOK'
    BY <1>1, <1>4, <2>1, Command DEF CopyOK
  <2> QED BY <1>1, <1>4, <2>2, <2>3, SteadyNext DEF Fine
<1> QED BY <1>2, <1>3, <1>4 DEF AfterCopy, Removes, Halted

LEMMA RemoveSourceFine ==
  ASSUME Now, RemoveSource
  PROVE  Fine
<1>1. /\ UNCHANGED command /\ pc = "rmsrc" /\ ent' = ent /\ UNCHANGED walk
      /\ pc' = "entry" /\ ent \in sel /\ ~(Halted /\ ~many)
  BY NowParts DEF RemoveSource, CopyOK, Cancelled
<1> QED BY <1>1, BetweenEntries, Command DEF Fine

LEMMA EndOfCommandFine ==
  ASSUME Now, EndOfCommand
  PROVE  Fine
BY BetweenEntries DEF EndOfCommand, Fine

LEMMA NextKeyFine ==
  ASSUME Now, NEW o, NEW s, NEW S, NEW new, NextKey(o, s, S, new)
  PROVE  Fine
<1>1. pc = "idle" /\ pc' = "entry" /\ ~Halted' /\ UNCHANGED walk /\ fs' = fs
  BY DEF NextKey, Halted
<1> QED BY <1>1, BetweenEntries DEF Fine

LEMMA StutterFine ==
  ASSUME Now, UNCHANGED vars
  PROVE  Fine
BY DEF Now, Fine, Steady, vars, command, flags, walk, WalkerOK, CopyOK, InWay,
       Halted, many, Cancelled, Filled, SideOf, dst

LEMMA InitSteady == Init => Steady
<1> SUFFICES ASSUME Init PROVE Steady
  OBVIOUS
<1>1. \A w \in Walker : WalkerOK(w)
  BY DEF Init, WalkerOK
<1>2. CopyOK /\ ~Halted
  BY DEF Init, CopyOK, Halted, Walker
<1> QED BY <1>1, <1>2 DEF Steady

LEMMA StepFine == Basic /\ Steady /\ [Next]_vars => Fine
<1> SUFFICES ASSUME Basic, Steady, [Next]_vars PROVE Fine
  OBVIOUS
<1>1. Now
  BY StepBasic DEF Now
<1>2. CASE Engine
  <2>1. CASE \E w \in Walker : Walk(w)
    BY <1>1, <2>1, EnterFine, OpendirFine, ReadFine, SubdirsFine DEF Walk
  <2>2. CASE NextEntry
    BY <1>1, <2>2, NextEntryFine DEF NextEntry
  <2> QED BY <1>1, <1>2, <2>1, <2>2, AfterCopyFine, RemoveSourceFine,
             EndOfCommandFine, CopyFileFine, UnlinkFine, MkdirFine, WriteFine
          DEF Engine
<1>3. CASE \E o \in {"copy", "move", "empty", "del"}, s \in Side,
              S \in (SUBSET Entry) \ {{}} :
           \E new \in IF overwrite_if_old THEN SUBSET Node ELSE {{}} :
              NextKey(o, s, S, new)
  BY <1>1, <1>3, NextKeyFine
<1>4. CASE UNCHANGED vars
  BY <1>1, <1>4, StutterFine
<1> QED BY <1>2, <1>3, <1>4 DEF Next
-----------------------------------------------------------------------------
\* Once a command on one entry is cancelled - by ESC in a dialog, in an error
\* dialog or during the walk - neither tree changes any more, wherever the walk
\* is and whatever was being overwritten.
THEOREM CancelledForGood == Spec => CancelIsFinal
<1>1. Basic /\ Steady /\ [Next]_vars => (Basic /\ Steady)'
  BY StepBasic, StepFine DEF Fine
<1>2. Basic /\ Steady /\ [Next]_vars =>
        [(fs_error \/ fs_abort) /\ ~many => fs' = fs]_vars
  BY StepFine DEF Fine, Halted
<1> QED BY <1>1, <1>2, InitBasic, InitSteady, PTL DEF Spec, CancelIsFinal
=============================================================================
