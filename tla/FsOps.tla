------------------------------- MODULE FsOps -------------------------------
(***************************************************************************)
(* The file system operations of fs.c: fs_cp() (copy, move, create empty   *)
(* directory), fs_rm() (delete) and what they call - proc_dir(), cp_file(),*)
(* cp_reg(), cp_link(), creatdir(), rm_file(), rm_dir() - together with the*)
(* dialogs in which the user answers and the error flags that steer them.  *)
(*                                                                         *)
(* proc_dir() is one recursive function that serves deletion and copying;  *)
(* which of the two it does is the static variable tree_op, read anew at   *)
(* every turn of its loops.  Copying calls fs_rm() to get a target out of  *)
(* the way, and fs_rm() assigns tree_op.  The recursion is modelled by two *)
(* walkers: "out" is the proc_dir() of the command itself, "in" the one    *)
(* of an fs_rm() called from within a copy.  A walker needs no stack: its  *)
(* frames are the ancestors of the directory it is at.                     *)
(***************************************************************************)
EXTENDS Naturals

CONSTANTS
  Node,             (* paths below the two directories shown, as numbers:  *)
                    (* the order of the numbers is the order of the names  *)
  Parent,           (* the directory a path is in, Root at top level       *)
  Data,             (* contents of regular files, targets of links         *)
  Cut,              (* the content of a file that was written in part      *)
  NoData,           (* what a directory or an absent path holds            *)
  MaxFail           (* bound on the system calls that fail in one command  *)

Root == 0

\* The command line options, and whether both sides are on one file system.
Option == {"-O", "-U", "-W", "ofs"}

ASSUME NodeAssumption ==
  /\ Node \subseteq Nat \ {Root}
  /\ Parent \in [Node -> Node \cup {Root}]
  /\ \A n \in Node : Parent[n] < n
ASSUME DataAssumption == NoData \notin Data \cup {Cut}
ASSUME BoundAssumption == MaxFail \in Nat

Side   == {1, 2}
Walker == {"out", "in"}
Entry  == {n \in Node : Parent[n] = Root}

\* The paths at and below a path: m is below n if n is in every set that holds
\* m and with each path its parent.
Upward == {S \in SUBSET Node :
             \A m \in S : Parent[m] # Root => Parent[m] \in S}
Under  == [n \in Node |-> {m \in Node : \A S \in Upward : m \in S => n \in S}]

Absent == [k |-> "none", d |-> NoData]
Dir    == [k |-> "dir",  d |-> NoData]
Leaf   == [k : {"reg", "lnk"}, d : Data \cup {Cut}]
Obj    == Leaf \cup {Absent, Dir}

VARIABLES
  options,      \* what the program was started with
  fs,           \* the two file trees
  newer,        \* paths whose target is newer than their source
  tree_op,      \* the operation proc_dir() performs
  fs_error, fs_ign_errs, fs_all, fs_none, fs_abort,
  fails,        \* number of system calls that failed in this command
  op, src,      \* the command, and the side of pth1
  sel, ent,     \* the selected entries, and the one being done
  pc, pend,     \* control location, and the path it is about
  goal,         \* why the walker "out" walks: to copy or to remove
  ph, at,       \* walkers: location in proc_dir(), and its directory
  todo, subs,   \* walkers: names not read yet, and subdirectories found
  thru,         \* links of the target side that were written through
  fs0, refused  \* history: trees when the command began, "no" answers

dont_overwrite   == "-O" \in options
overwrite_if_old == "-U" \in options
force_fs         == "-W" \in options
SameDev          == "ofs" \in options

flags   == <<fs_error, fs_ign_errs, fs_all, fs_none, fs_abort>>
command == <<op, src, sel, fs0, newer, options>>
walk    == <<ph, at, todo, subs>>
vars    == <<fs, tree_op, flags, fails, command, ent, pc, pend, goal,
             walk, thru, refused>>

dst  == 3 - src
many == \E m, n \in sel : m # n
\* (a slip: u is not advanced)
RemainingAgain == {n \in sel : n >= ent}
Remaining == {n \in sel : n > ent}
SideOf(w) == IF w = "in" THEN dst ELSE src
TopOf(w)  == IF w = "in" THEN pend ELSE ent
Active(w) == w = (IF ph["in"] # "off" THEN "in" ELSE "out")
Running   == ph["in"] = "off"     \* no nested fs_rm() is walking

Children(s, n) == {c \in Node : Parent[c] = n /\ fs[s][c] # Absent}
InDir(s, n)    == Parent[n] # Root => fs[s][Parent[n]] = Dir
First(S, n)    == n \in S /\ \A m \in S : n <= m
Put(s, n, o)   == fs' = [fs EXCEPT ![s][n] = o]
-----------------------------------------------------------------------------
(* Dialogs and failing system calls.                                       *)

\* fs_deldialog(): yes is "return 0".
DelDialog(n, yes) ==
  /\ refused' = IF yes THEN refused ELSE refused \cup {n}
  /\ UNCHANGED <<fs_error, fs_ign_errs>>
  /\ \/ /\ fs_none \/ fs_abort
        /\ ~yes
        /\ UNCHANGED <<fs_all, fs_none, fs_abort>>
     \/ /\ ~fs_none /\ ~fs_abort /\ (force_fs \/ fs_all)
        /\ yes
        /\ UNCHANGED <<fs_all, fs_none, fs_abort>>
     \/ /\ ~fs_none /\ ~fs_abort /\ ~force_fs /\ ~fs_all
        /\ \E key \in {"y", "a", "n", "N", "ESC"} :
             /\ yes       = (key \in {"y", "a"})
             /\ fs_all'   = (key = "a")
             /\ fs_none'  = (key = "N")
             /\ fs_abort' = (key = "ESC")

\* fs_fwrap(): the error dialog.
Fwrap ==
  /\ UNCHANGED <<fs_all, fs_none, fs_abort>>
  /\ \/ fs_ign_errs /\ UNCHANGED <<fs_error, fs_ign_errs>>
     \/ ~fs_ign_errs /\ \E key \in {"ENTER", "ESC", "i"} :
          /\ fs_error'    = (fs_error \/ key = "ESC")
          /\ fs_ign_errs' = (key = "i")

\* fs_testBreak(): once a second ESC is looked for.
EscTyped ==
  /\ fs_abort' = TRUE
  /\ UNCHANGED <<fs_error, fs_ign_errs, fs_all, fs_none>>

Fail == fails < MaxFail /\ fails' = fails + 1

\* rm_file(), which looks for ESC first.
rm_file(s, n) ==
  /\ \/ EscTyped /\ UNCHANGED <<fs, fails>>
     \/ fs_error /\ UNCHANGED <<fs, fails, flags>>
     \/ ~fs_error /\ Put(s, n, Absent) /\ UNCHANGED <<fails, flags>>
     \/ ~fs_error /\ Fail /\ Fwrap /\ UNCHANGED fs
  /\ UNCHANGED refused

rm_dir(s, n) ==
  /\ \/ fs_error /\ UNCHANGED <<fs, fails, flags>>
     \/ /\ ~fs_error /\ Children(s, n) = {}
        /\ Put(s, n, Absent) /\ UNCHANGED <<fails, flags>>
     \/ ~fs_error /\ Children(s, n) # {} /\ Fwrap /\ UNCHANGED <<fs, fails>>
     \/ ~fs_error /\ Fail /\ Fwrap /\ UNCHANGED fs
  /\ UNCHANGED refused

remove(s, n) ==
  \/ fs[s][n] = Dir /\ rm_dir(s, n)
  \/ fs[s][n] # Dir /\ rm_file(s, n)

\* The first proc_dir() of fs_rm(): is there anything in the directory?  With
\* an error on record nothing is read.
NotEmpty(s, n, yes) ==
  \/ yes = (~fs_error /\ Children(s, n) # {}) /\ UNCHANGED fails
  \/ yes /\ Fail

\* fs_rm() returns 1 for a "no" alone: with an error on record it returns
\* more than 1, which its callers take for a "yes".
\* (a slip: its callers never look at what it returns)
SuspectAlways == TRUE
Suspect == fs_error \/ fs_ign_errs
-----------------------------------------------------------------------------
(* The recursion of proc_dir().                                            *)

Descend(w, n) ==
  /\ ph' = [ph EXCEPT ![w] = "enter"]
  /\ at' = [at EXCEPT ![w] = n]

\* Return from proc_dir() to the frame above, or out of the recursion.
Pop(w) ==
  /\ todo' = [todo EXCEPT ![w] = {}]
  /\ \/ /\ at[w] # TopOf(w)
        /\ ph' = [ph EXCEPT ![w] = "sub"]
        /\ at' = [at EXCEPT ![w] = Parent[at[w]]]
        /\ subs' = [subs EXCEPT ![w] = {c \in @ : Parent[c] # at[w]}]
        /\ UNCHANGED pc
     \/ /\ at[w] = TopOf(w)
        /\ ph' = [ph EXCEPT ![w] = "off"]
        /\ at' = [at EXCEPT ![w] = Root]
        /\ subs' = [subs EXCEPT ![w] = {}]
        /\ pc' = IF w = "in" THEN "write"
                 ELSE IF goal = "copy" THEN "after" ELSE "entry"

Goto(w, where) ==
  /\ ph' = [ph EXCEPT ![w] = where]
  /\ UNCHANGED <<at, todo, subs, pc>>

\* proc_dir() once creatdir() has returned 0.
Created(w) ==
  \/ tree_op = "empty" /\ Pop(w)
  \/ tree_op # "empty" /\ Goto(w, "opendir")

mkdir(w, n) ==
  \/ InDir(dst, n) /\ Put(dst, n, Dir) /\ Created(w) /\ UNCHANGED fails
  \/ ~InDir(dst, n) /\ Pop(w) /\ UNCHANGED <<fs, fails>>
  \/ Fail /\ Pop(w) /\ UNCHANGED fs

\* creatdir(): the directory exists, is made, or something is in its place.
creatdir(w, n) ==
  \/ /\ fs[dst][n] = Dir
     /\ Created(w)
     /\ UNCHANGED <<fs, fails, flags, refused, pend>>
  \/ /\ fs[dst][n] = Absent
     /\ mkdir(w, n)
     /\ UNCHANGED <<flags, refused, pend>>
  \/ /\ fs[dst][n] \notin {Dir, Absent}
     /\ UNCHANGED <<fs, fails>>
     /\ \/ /\ DelDialog(n, TRUE) /\ pend' = n /\ pc' = "unlink"
           /\ ph' = [ph EXCEPT ![w] = "mkdir"] /\ UNCHANGED <<at, todo, subs>>
        \/ /\ DelDialog(n, FALSE) /\ UNCHANGED pend
           /\ \/ ~Suspect /\ Pop(w)
              \/ Suspect /\ Created(w)           \* mkdir(): EEXIST

Walking(w, where) ==
  /\ Active(w) /\ ph[w] = where
  /\ pc = IF w = "in" THEN "write" ELSE "walk"

Enter(w) ==
  /\ Walking(w, "enter")
  /\ \/ /\ tree_op \in {"cp", "empty"}
        /\ creatdir(w, at[w])
     \/ /\ tree_op \in {"rm", "notempty"}
        /\ Goto(w, "opendir")
        /\ UNCHANGED <<fs, fails, flags, pend, refused>>
  /\ UNCHANGED <<tree_op, command, ent, goal, thru>>

Opendir(w) ==
  /\ Walking(w, "opendir")
  /\ \/ /\ ph' = [ph EXCEPT ![w] = "read"]
        /\ todo' = [todo EXCEPT ![w] = Children(SideOf(w), at[w])]
        /\ UNCHANGED <<at, subs, pc, fails>>
     \/ Fail /\ Pop(w)
  /\ UNCHANGED <<fs, tree_op, flags, command, ent, pend, goal, thru,
                 refused>>

Stop == fs_error \/ fs_abort

\* After the loop over the directory: TREE_NOT_EMPTY needs no subdirectories.
EndRead(w) ==
  \/ tree_op = "notempty" /\ Pop(w)
  \/ /\ tree_op # "notempty"
     /\ ph' = [ph EXCEPT ![w] = "sub"]
     /\ todo' = [todo EXCEPT ![w] = {}]
     /\ UNCHANGED <<at, subs, pc>>

\* One turn of the loop over the directory, with its lstat().
ReadEntry(w, n) ==
  /\ todo' = [todo EXCEPT ![w] = @ \ {n}]
  /\ UNCHANGED <<ph, at>>
  /\ \/ /\ fs[SideOf(w)][n] = Dir
        /\ subs' = [subs EXCEPT ![w] = @ \cup {n}]
        /\ UNCHANGED <<fs, flags, fails, pc, pend, refused>>
     \/ /\ fs[SideOf(w)][n] # Dir /\ tree_op = "rm"
        /\ rm_file(SideOf(w), n)
        /\ UNCHANGED <<subs, pc, pend>>
     \/ /\ fs[SideOf(w)][n] # Dir /\ tree_op = "cp"
        /\ pend' = n /\ pc' = "copy"
        /\ UNCHANGED <<fs, flags, fails, subs, refused>>

Read(w) ==
  /\ Walking(w, "read")
  /\ \/ /\ Stop \/ todo[w] = {} \/ tree_op = "notempty"
        /\ EndRead(w)
        /\ UNCHANGED <<fs, flags, fails, pend, refused>>
     \/ /\ ~Stop /\ todo[w] # {} /\ tree_op # "notempty"
        /\ \/ \E n \in todo[w] : ReadEntry(w, n)
           \/ Fail /\ EndRead(w) /\ UNCHANGED <<fs, flags, pend, refused>>
  /\ UNCHANGED <<tree_op, command, ent, goal, thru>>

\* The loop over the subdirectories, and the removal of the directory.
Subdirs(w) ==
  LET S == {c \in subs[w] : Parent[c] = at[w]} IN
  /\ Walking(w, "sub")
  /\ \/ /\ S # {} /\ ~Stop
        /\ \E n \in S : /\ First(S, n)
                        /\ Descend(w, n)
                        /\ subs' = [subs EXCEPT ![w] = @ \ {n}]
        /\ UNCHANGED <<fs, flags, fails, todo, pc, refused>>
     \/ /\ S = {} \/ Stop
        /\ Pop(w)
        /\ \/ tree_op = "rm" /\ rm_dir(SideOf(w), at[w])
           \/ tree_op # "rm" /\ UNCHANGED <<fs, flags, fails, refused>>
  /\ UNCHANGED <<tree_op, command, ent, pend, goal, thru>>
-----------------------------------------------------------------------------
(* Copying one file: cp_file().                                            *)

\* cp_file() returns to fs_cp() or to proc_dir().
CopyRet(ok) ==
  /\ pend' = Root
  /\ pc' = IF ph["out"] # "off" THEN "walk"
           ELSE IF ok THEN "after" ELSE "entry"

\* fs_rm(0, "overwrite", ...) for a target that is not a directory, or is one.
\* It asks whether a directory is empty by setting tree_op.
overwrite_rm(n) ==
  \/ /\ fs[dst][n] # Dir
     /\ DelDialog(n, TRUE)
     /\ pc' = "unlink"
     /\ UNCHANGED <<tree_op, pend, ph, at, fails>>
  \/ /\ fs[dst][n] = Dir
     /\ DelDialog(n, TRUE)
     /\ \/ /\ NotEmpty(dst, n, FALSE) /\ tree_op' = "notempty"
           /\ pc' = "unlink" /\ UNCHANGED <<ph, at>>
        \/ /\ NotEmpty(dst, n, TRUE) /\ tree_op' = "rm"
           /\ pc' = "write" /\ Descend("in", n)
     /\ UNCHANGED pend
  \/ /\ DelDialog(n, FALSE)
     /\ tree_op' = IF fs[dst][n] = Dir THEN "notempty" ELSE tree_op
     /\ \/ Suspect /\ pc' = "write" /\ UNCHANGED pend
        \/ ~Suspect /\ CopyRet(FALSE)
     /\ UNCHANGED <<ph, at, fails>>

same(n) == fs[dst][n] = fs[src][n]

\* -O and -U.  (a slip: the comparison is the wrong way)
SkipExisting   == dont_overwrite
TargetOlder(n) == overwrite_if_old /\ n \notin newer
TargetNewer(n) == overwrite_if_old /\ n \in newer

\* cp_reg() up to open(): cp_reg_to_existing(), cp_reg_check_overwrite().
cp_reg(n) ==
  \/ /\ fs[dst][n] = Absent
     /\ pc' = "write"
     /\ UNCHANGED <<flags, fails, refused, tree_op, pend, ph, at>>
  \/ /\ fs[dst][n] # Absent /\ SkipExisting
     /\ CopyRet(TRUE) /\ UNCHANGED <<flags, fails, refused, tree_op, ph, at>>
  \/ /\ fs[dst][n].k = "reg" /\ ~SkipExisting
     /\ UNCHANGED <<tree_op, ph, at>>
     /\ \/ /\ same(n) \/ TargetNewer(n)
           /\ CopyRet(TRUE) /\ UNCHANGED <<flags, fails, refused>>
        \/ /\ ~TargetNewer(n)
           /\ \/ ~same(n) /\ UNCHANGED fails
              \/ same(n) /\ Fail                 \* the comparison failed
           /\ \/ DelDialog(n, TRUE)  /\ pc' = "write" /\ UNCHANGED pend
              \/ DelDialog(n, FALSE) /\ CopyRet(FALSE)
  \/ /\ fs[dst][n].k \in {"lnk", "dir"} /\ ~SkipExisting
     /\ overwrite_rm(n)

\* cp_link() up to symlink(); it does not look at dont_overwrite.
cp_link(n) ==
  \/ /\ Fail /\ CopyRet(FALSE)
     /\ UNCHANGED <<flags, refused, tree_op, ph, at>>
  \/ /\ same(n) /\ CopyRet(TRUE)
     /\ UNCHANGED <<flags, fails, refused, tree_op, ph, at>>
  \/ /\ fs[dst][n] = Absent /\ pc' = "write"
     /\ UNCHANGED <<flags, fails, refused, tree_op, pend, ph, at>>
  \/ /\ fs[dst][n] # Absent /\ ~same(n)
     /\ overwrite_rm(n)

cp_file ==
  /\ pc = "copy" /\ Running
  /\ \/ /\ EscTyped /\ CopyRet(FALSE)
        /\ UNCHANGED <<fails, refused, tree_op, ph, at>>
     \/ fs[src][pend].k = "reg" /\ cp_reg(pend)
     \/ fs[src][pend].k = "lnk" /\ cp_link(pend)
  /\ UNCHANGED <<fs, command, ent, goal, todo, subs, thru>>

\* The removal of a target that takes no walk; creatdir() goes on with mkdir().
\* (a slip: fs_rm() works on pth1 instead of pth2)
UnlinkSource ==
  /\ pc = "unlink" /\ Running
  /\ remove(src, pend)
  /\ pc' = IF ph["out"] = "mkdir" THEN "walk" ELSE "write"
  /\ UNCHANGED <<tree_op, command, ent, pend, goal, walk, thru>>

UnlinkTarget ==
  /\ pc = "unlink" /\ Running
  /\ remove(dst, pend)
  /\ pc' = IF ph["out"] = "mkdir" THEN "walk" ELSE "write"
  /\ UNCHANGED <<tree_op, command, ent, pend, goal, walk, thru>>

Mkdir ==
  /\ Walking("out", "mkdir")
  /\ \/ fs[dst][pend] = Absent /\ mkdir("out", pend)
     \/ fs[dst][pend] # Absent /\ Created("out") /\ UNCHANGED <<fs, fails>>
  /\ pend' = Root
  /\ UNCHANGED <<tree_op, command, flags, ent, goal, thru, refused>>

\* What open() can create or truncate.  (a slip: a link is replaced)
WritableOrLink(n) == fs[dst][n] # Dir /\ InDir(dst, n)
Writable(n) == \/ fs[dst][n].k = "reg"
               \/ fs[dst][n] = Absent /\ InDir(dst, n)

\* What a complete copy holds.  (a slip: nothing is written)
NothingCopied(n) == [fs[src][n] EXCEPT !.d = NoData]
Copied(n)        == fs[src][n]

\* open(), read() and write() of cp_reg().  A link still in the way is
\* followed; the result of cp_reg_copy_loop() is dropped.
write_reg(n) ==
  LET cut == [k |-> "reg", d |-> Cut] IN
  \/ /\ Writable(n)
     /\ Put(dst, n, Copied(n)) /\ CopyRet(TRUE)
     /\ UNCHANGED <<flags, fails, thru>>
  \/ /\ fs[dst][n].k = "lnk"
     /\ thru' = thru \cup {n} /\ CopyRet(TRUE)
     /\ UNCHANGED <<fs, flags, fails>>
  \/ /\ ~Writable(n) /\ fs[dst][n].k # "lnk"
     /\ CopyRet(FALSE) /\ UNCHANGED <<fs, flags, fails, thru>>
  \/ /\ Writable(n) /\ Fail /\ UNCHANGED thru
     /\ \/ /\ \/ UNCHANGED fs                   \* open() of the target
              \/ Put(dst, n, Absent)            \* ... after it was unlinked
              \/ Put(dst, n, cut)               \* open() of the source
           /\ CopyRet(FALSE) /\ UNCHANGED flags
        \/ /\ Put(dst, n, cut) /\ CopyRet(TRUE)
           /\ \/ UNCHANGED flags                \* read()
              \/ Fwrap                          \* write()

\* symlink() of cp_link().
write_lnk(n) ==
  /\ UNCHANGED <<flags, thru>>
  /\ \/ /\ fs[dst][n] = Absent /\ InDir(dst, n)
        /\ Put(dst, n, fs[src][n]) /\ CopyRet(TRUE) /\ UNCHANGED fails
     \/ /\ fs[dst][n] = Absent /\ Fail
        /\ CopyRet(FALSE) /\ UNCHANGED fs
     \/ /\ fs[dst][n] # Absent \/ ~InDir(dst, n)
        /\ CopyRet(FALSE) /\ UNCHANGED <<fs, fails>>

WriteFile ==
  /\ pc = "write" /\ Running
  /\ \/ fs[src][pend].k = "reg" /\ write_reg(pend)
     \/ fs[src][pend].k = "lnk" /\ write_lnk(pend)
  /\ UNCHANGED <<tree_op, command, ent, goal, walk, refused>>
-----------------------------------------------------------------------------
(* The loops of fs_cp() and fs_rm() over the selected entries.             *)

\* clr_fs_err() before each key, then the key of a command.
NextKey(o, s, S, new) ==
  /\ pc = "idle"
  /\ op' = o /\ src' = s /\ sel' = S
  /\ newer' = new /\ fs0' = fs
  /\ fs_error' = FALSE /\ fs_ign_errs' = FALSE
  /\ fs_all' = FALSE /\ fs_none' = FALSE /\ fs_abort' = FALSE
  /\ fails' = 0 /\ thru' = {} /\ refused' = {}
  /\ pc' = "entry" /\ ent' = Root
  /\ UNCHANGED <<options, fs, tree_op, pend, goal, walk>>

EntryStep(u) ==
  /\ pc = "entry" /\ First(Remaining, u)
  /\ ent' = u
  /\ UNCHANGED <<command, todo, subs, thru>>

\* An entry that is not there (any more) is passed over.
NoSource(u) ==
  /\ EntryStep(u)
  /\ fs[src][u] = Absent
  /\ UNCHANGED <<fs, tree_op, flags, fails, pc, pend, goal, ph, at, refused>>

\* (a slip: a copy renames as well)
RenamesAny(u) == SameDev /\ fs[dst][u] = Absent
Renames(u)    == op = "move" /\ SameDev /\ fs[dst][u] = Absent

\* The tree t with what another tree has at and below u.
Graft(t, from, u) == [n \in Node |-> IF n \in Under[u] THEN from[n] ELSE t[n]]
Nothing == [n \in Node |-> Absent]

RenameEntry(u) ==
  /\ EntryStep(u)
  /\ fs[src][u] # Absent /\ Renames(u)
  /\ \/ fs_error /\ UNCHANGED <<fs, flags, fails>>
     \/ /\ ~fs_error
        /\ fs' = [fs EXCEPT ![dst] = Graft(@, fs[src], u),
                            ![src] = Graft(@, Nothing, u)]
        /\ UNCHANGED <<flags, fails>>
     \/ ~fs_error /\ Fail /\ Fwrap /\ UNCHANGED fs
  /\ UNCHANGED <<tree_op, pc, pend, goal, ph, at, refused>>

\* (a slip: tree_op is not set for a copy)
EntryTreeOpKept == IF op = "empty" THEN "empty" ELSE tree_op
EntryTreeOp     == IF op = "empty" THEN "empty" ELSE "cp"

CopyEntry(u) ==
  /\ EntryStep(u)
  /\ op \in {"copy", "move", "empty"}
  /\ fs[src][u] # Absent
  /\ ~Renames(u)
  /\ goal' = "copy"
  /\ \/ /\ fs[src][u] = Dir
        /\ tree_op' = EntryTreeOp
        /\ Descend("out", u) /\ pc' = "walk" /\ UNCHANGED pend
     \/ /\ fs[src][u] # Dir
        /\ pend' = u /\ pc' = "copy" /\ UNCHANGED <<tree_op, ph, at>>
  /\ UNCHANGED <<fs, flags, fails, refused>>

\* fs_rm() with one entry asks, with several it has asked before the loop.
DeleteEntry(u) ==
  /\ EntryStep(u)
  /\ op = "del" /\ fs[src][u] # Absent
  /\ \/ /\ ~many /\ DelDialog(u, FALSE)
        /\ tree_op' = IF fs[src][u] = Dir THEN "notempty" ELSE tree_op
        /\ UNCHANGED <<fails, pc, goal, ph, at>>
     \/ /\ \/ ~many /\ DelDialog(u, TRUE)
           \/ many /\ UNCHANGED <<flags, refused>>
        /\ \/ /\ fs[src][u] = Dir
              /\ \/ many /\ UNCHANGED fails
                 \/ ~many /\ NotEmpty(src, u, TRUE)
              /\ tree_op' = "rm" /\ goal' = "remove"
              /\ Descend("out", u) /\ pc' = "walk"
           \/ /\ fs[src][u] = Dir
              /\ ~many /\ NotEmpty(src, u, FALSE)
              /\ tree_op' = "notempty"
              /\ pc' = "rmsrc" /\ UNCHANGED <<goal, ph, at>>
           \/ /\ fs[src][u] # Dir
              /\ pc' = "rmsrc" /\ UNCHANGED <<tree_op, fails, goal, ph, at>>
  /\ UNCHANGED <<fs, pend>>

\* The end of an entry in fs_cp(): fs_rm(-1, ...) of what was moved.
\* (a slip: fs_abort is not looked at)
RemovesIfAborted == op = "move" /\ ~fs_error /\ ~fs_none
Removes == op = "move" /\ ~fs_error /\ ~fs_none /\ ~fs_abort

AfterCopy ==
  /\ pc = "after"
  /\ \/ /\ Removes /\ fs[src][ent] = Dir
        /\ tree_op' = "rm" /\ goal' = "remove"
        /\ Descend("out", ent) /\ pc' = "walk"
     \/ /\ Removes /\ fs[src][ent] \in Leaf
        /\ pc' = "rmsrc" /\ UNCHANGED <<tree_op, goal, ph, at>>
     \/ /\ ~Removes \/ fs[src][ent] = Absent
        /\ pc' = "entry" /\ UNCHANGED <<tree_op, goal, ph, at>>
  /\ UNCHANGED <<fs, flags, fails, command, ent, pend, todo, subs, thru,
                 refused>>

RemoveSource ==
  /\ pc = "rmsrc"
  /\ remove(src, ent)
  /\ pc' = "entry"
  /\ UNCHANGED <<tree_op, command, ent, pend, goal, walk, thru>>

EndOfCommand ==
  /\ pc = "entry" /\ Remaining = {}
  /\ pc' = "idle"
  /\ UNCHANGED <<fs, tree_op, flags, fails, command, ent, pend, goal,
                 walk, thru, refused>>
-----------------------------------------------------------------------------
Tree == {t \in [Node -> Obj] :
           \A n \in Node : t[n] # Absent =>
              Parent[n] = Root \/ t[Parent[n]] = Dir}

Init ==
  /\ options \in SUBSET Option
  /\ fs \in [Side -> Tree] /\ fs0 = fs
  /\ newer = {} /\ tree_op = "rm"
  /\ fs_error = FALSE /\ fs_ign_errs = FALSE
  /\ fs_all = FALSE /\ fs_none = FALSE /\ fs_abort = FALSE
  /\ fails = 0 /\ op = "copy" /\ src = 1
  /\ sel = {} /\ ent = Root /\ pc = "idle" /\ pend = Root /\ goal = "copy"
  /\ ph = [w \in Walker |-> "off"] /\ at = [w \in Walker |-> Root]
  /\ todo = [w \in Walker |-> {}] /\ subs = [w \in Walker |-> {}]
  /\ thru = {} /\ refused = {}

Walk(w) == Enter(w) \/ Opendir(w) \/ Read(w) \/ Subdirs(w)

NextEntry == \E u \in Remaining : \/ NoSource(u) \/ RenameEntry(u)
                                  \/ CopyEntry(u) \/ DeleteEntry(u)

Engine == \/ NextEntry \/ AfterCopy \/ RemoveSource \/ EndOfCommand
          \/ \E w \in Walker : Walk(w)
          \/ cp_file \/ UnlinkTarget \/ Mkdir \/ WriteFile

Next ==
  \/ Engine
  \/ \E o \in {"copy", "move", "empty", "del"}, s \in Side,
        S \in (SUBSET Entry) \ {{}} :
        \E new \in IF overwrite_if_old THEN SUBSET Node ELSE {{}} :
           NextKey(o, s, S, new)

Spec == Init /\ [][Next]_vars /\ WF_vars(Engine)
-----------------------------------------------------------------------------
(* Properties.                                                             *)

\* Every variable has a value of its type.
FlagsOK ==
  /\ fs_error \in BOOLEAN /\ fs_ign_errs \in BOOLEAN /\ fs_all \in BOOLEAN
  /\ fs_none \in BOOLEAN /\ fs_abort \in BOOLEAN
RecordOK ==
  /\ fails \in 0..MaxFail
  /\ refused \subseteq Node /\ thru \subseteq Node
CommandOK ==
  /\ options \subseteq Option
  /\ op \in {"copy", "move", "empty", "del"} /\ src \in Side
  /\ sel \subseteq Entry /\ newer \subseteq Node
  /\ fs0 \in [Side -> [Node -> Obj]]
WalkOK ==
  /\ ph \in [Walker -> {"off", "enter", "mkdir", "opendir", "read", "sub"}]
  /\ at \in [Walker -> Node \cup {Root}]
  /\ todo \in [Walker -> SUBSET Node] /\ subs \in [Walker -> SUBSET Node]
  /\ ent \in Entry \cup {Root} /\ pend \in Node \cup {Root}
  /\ pc \in {"idle", "entry", "walk", "copy", "unlink", "write", "after",
             "rmsrc"}
TypeOK ==
  /\ fs \in [Side -> [Node -> Obj]]
  /\ tree_op \in {"rm", "cp", "empty", "notempty"}
  /\ goal \in {"copy", "remove"}
  /\ FlagsOK /\ RecordOK /\ CommandOK /\ WalkOK

\* What is in the way of a file is a directory.
Clash == \E n \in Node : fs0[src][n] \in Leaf /\ fs0[dst][n] = Dir

\* Nothing failed, nothing was cancelled, every question was answered yes.
Smooth == fails = 0 /\ refused = {} /\ ~fs_error /\ ~fs_abort

\* A target that -O and -U keep in place.
Kept(n) == /\ fs0[src][n].k = "reg"
           /\ \/ dont_overwrite /\ fs0[dst][n] # Absent
              \/ overwrite_if_old /\ n \in newer /\ fs0[dst][n].k = "reg"

\* "Move" loses no file: as long as no call failed and nothing was refused,
\* each file of the source is in the source or in the target tree, at every
\* moment - also while the source is being removed, and after a cancel.
MoveKeepsFiles ==
  op = "move" /\ fails = 0 /\ refused = {} /\ ~Clash =>
    \A n \in Node : fs0[src][n] \in Leaf =>
       fs0[src][n] \in {fs[src][n], fs[dst][n]} \/ Kept(n)

\* Copying takes nothing away from the tree it reads, whatever fails and
\* whatever is answered.
CopyKeepsSource ==
  op \in {"copy", "empty"} /\ ~Clash => fs[src] = fs0[src]

\* A command that runs smoothly to its end has done what its key says: all of
\* the selected subtrees is copied (but for what -O and -U keep), and what was
\* moved or deleted is gone.
CommandComplete ==
  pc = "idle" /\ Smooth /\ ~Clash =>
    \A u \in sel : \A n \in Under[u] :
      /\ op \in {"copy", "move"} /\ fs0[src][n] # Absent =>
           fs[dst][n] = IF Kept(n) THEN fs0[dst][n] ELSE fs0[src][n]
      /\ op \in {"move", "del"} /\ (\A m \in Node : ~Kept(m)) =>
           fs[src][n] = Absent

\* What the user said "no" to is still there.
RefusedIsKept ==
  \A n \in refused :
    LET s == IF op = "del" THEN src ELSE dst IN fs[s][n] = fs0[s][n]

\* A link of the target tree is removed before a file takes its place, and not
\* written through, unless an error or a cancel came in between.
LinksNotFollowed ==
  fails = 0 /\ ~fs_error /\ ~fs_ign_errs /\ ~fs_abort => thru = {}

\* Once the user has typed ESC - in a dialog, in an error dialog, or during the
\* walk - the two trees do not change any more, if one entry is selected.
CancelIsFinal ==
  [][(fs_error \/ fs_abort) /\ ~many => fs' = fs]_vars

\* Each command comes to an end, the user answering its dialogs.
Termination == pc # "idle" ~> pc = "idle"
-----------------------------------------------------------------------------
(* The inductive invariant from which CopyKeepsSource follows.             *)

\* Where the control is determines who walks, and where.
Control ==
  /\ \A w \in Walker : ph[w] # "off" =>
       TopOf(w) \in Node /\ at[w] \in Under[TopOf(w)]
  /\ ph["out"] = "off" => todo["out"] = {} /\ subs["out"] = {}
  /\ ph["in"] # "off" => pc = "write" /\ tree_op = "rm" /\ ph["in"] # "mkdir"
  /\ pc \in {"idle", "entry", "after", "rmsrc"} => ph["out"] = "off"
  /\ pc = "walk" => ph["out"] # "off"
  /\ pc \in {"copy", "unlink", "write"} => pend \in Node
  /\ pc \in {"copy", "unlink", "write", "after", "rmsrc"} => ent \in Node
  /\ ph["out"] = "mkdir" => pend = at["out"] /\ pc \in {"walk", "unlink"}

\* A path is in a directory, in both trees and at any time.
Trees == fs \in [Side -> Tree] /\ fs0 \in [Side -> Tree]

\* While a copy runs without clash, the walk is in a directory of the source,
\* it does copy, and no fs_rm() of a directory is under way.
Copying ==
  /\ fs[src] = fs0[src]
  /\ \A n \in Node : fs[dst][n] = Dir => fs0[dst][n] = Dir \/ fs0[src][n] = Dir
  /\ ph["in"] = "off" /\ pc # "rmsrc"
  /\ ph["out"] # "off" =>
       /\ tree_op \in {"cp", "empty"}
       /\ fs0[src][at["out"]] = Dir
       /\ \A n \in subs["out"] : fs0[src][n] = Dir
       /\ \A n \in todo["out"] : fs0[src][n] # Absent
  /\ pc \in {"copy", "write"} \/ (pc = "unlink" /\ ph["out"] # "mkdir") =>
       fs0[src][pend] \in Leaf

IInv == /\ TypeOK /\ Control /\ Trees
        /\ op \in {"copy", "empty"} /\ ~Clash => Copying
-----------------------------------------------------------------------------
(* What the documentation says and the code does not do.                   *)

\* "Copy to other side": the source stays as it was, also when directories of
\* the target are in the way of files.
CopyKeepsSourceAlways == op = "copy" => fs[src] = fs0[src]
=============================================================================
