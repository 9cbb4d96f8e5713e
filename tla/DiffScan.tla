------------------------------ MODULE DiffScan ------------------------------
(***************************************************************************)
(* The recursive scan of diff.c, which records in scan_db the directories  *)
(* below which there is a difference (diff mode), or a file that matches   *)
(* a pattern (find).  build_diff_db() reads the left directory and then    *)
(* the right one, notes subdirectories in its list dirs, and calls itself  *)
(* for each of them by scan_subdir(); its parameter tree says on which     *)
(* sides the directory is.  add_diff_dir() records the path of a directory *)
(* and goes up to the first one that is already known.                     *)
(*                                                                         *)
(* In diff mode the two trees are compared, and a directory that is on     *)
(* both sides counts as different if either of its paths is recorded.  In  *)
(* fmode the two directories have nothing to do with each other, in bmode  *)
(* there is only the left one; both are scanned for a pattern only.        *)
(***************************************************************************)
EXTENDS Naturals

CONSTANTS
  Node,             (* paths below the two directories, as numbers          *)
  Parent,           (* the directory a path is in, Root at top level        *)
  Data,             (* contents of files, targets of links, device numbers  *)
  Size,             (* and their sizes                                      *)
  NoData            (* what a directory or an absent path holds             *)

Root == 0
Path == Node \cup {Root}
Side == {1, 2}

ASSUME NodeAssumption ==
  /\ Node \subseteq Nat \ {Root}
  /\ Parent \in [Node -> Path]
  /\ \A n \in Node : Parent[n] < n
ASSUME DataAssumption ==
  /\ NoData \notin Data /\ Size \in [Data -> Nat]
  /\ \A d \in Data : \A e \in Data : Size[d] = 0 /\ Size[e] = 0 => d = e

\* A path and all that contain it are in every set that holds the path and with
\* each path its parent.
Upward == {S \in SUBSET Path : \A m \in S : m # Root => Parent[m] \in S}
Up     == [n \in Path |-> {m \in Path : \A S \in Upward : n \in S => m \in S}]

Absent == [k |-> "none", d |-> NoData]
Dir    == [k |-> "dir",  d |-> NoData]
Leaf   == [k : {"reg", "lnk", "dev", "fifo"}, d : Data]
Obj    == Leaf \cup {Absent, Dir}

VARIABLES
  mode,         \* "diff", "fmode" or "bmode"
  find, match,  \* is there a file_pattern, and the names that match it
  real_diff,    \* option -c
  fs,           \* the two file trees
  dontcmp, stopscan,   \* '%' was typed
  scan_db,      \* recorded directories, as a side and a path
  name_db,      \* names seen in the left directory
  at,           \* syspth: the two paths of the scan
  ph,           \* location in build_diff_db()
  todo,         \* names not read yet
  dir_diff,     \* a difference was found
  dirs,         \* subdirectories to be scanned, with the sides they are on
  trust         \* history: what scan_db is worth, see DiffMarks

input == <<mode, find, match, real_diff, fs>>
flags == <<dontcmp, stopscan>>
vars  == <<input, flags, scan_db, name_db, at, ph, todo, dir_diff, dirs, trust>>

\* The parameter of build_diff_db(), and the directory it is called for.
tree == IF mode = "bmode" THEN 1
        ELSE IF at[1] = at[2] THEN 3
        ELSE IF at[2] \in Up[at[1]] THEN 1 ELSE 2
cur  == IF tree = 2 THEN at[2] ELSE at[1]

Names(s) == {n \in Node : Parent[n] = at[s] /\ fs[s][n] # Absent}
Worsen(t) == trust' = IF trust = "none" THEN "none" ELSE t
-----------------------------------------------------------------------------
(* Recording a directory.                                                  *)

\* (a slip: only the directory itself is recorded)
AddedAlone(s, p) == {<<s, p>>}
Added(s, p) ==
  {<<s, m>> : m \in {a \in Up[p] :
                       \A b \in Up[p] : a \in Up[b] => <<s, b>> \notin scan_db}}

add_diff_dir(s) == scan_db' = scan_db \cup Added(s, at[s])

\* In bmode the right path is that of the directory shown, or of none.
add_right == \/ mode # "bmode" /\ add_diff_dir(2)
             \/ mode = "bmode" /\ UNCHANGED scan_db
             \/ mode = "bmode" /\ scan_db' = scan_db \cup Added(1, Root)
-----------------------------------------------------------------------------
(* One entry of the left directory.                                        *)

\* A key is looked for while files are searched; after it was typed each
\* directory is left at its first entry.
Stop == /\ mode # "diff"
        /\ stopscan' = TRUE /\ ph' = "end" /\ todo' = {}
        /\ IF stopscan THEN UNCHANGED trust ELSE Worsen("none")
        /\ UNCHANGED <<dontcmp, dir_diff, dirs>>

Push(n, t) == /\ dirs' = [dirs EXCEPT ![cur] = @ \cup {<<n, t>>}]
              /\ UNCHANGED <<flags, ph, dir_diff, trust>>

Found(yes) == /\ dir_diff' = (dir_diff \/ yes)
              /\ UNCHANGED <<stopscan, ph, dirs>>

\* Two objects differ; with -c only those of the same type do.
Differs(a, b) == \/ a.k = b.k /\ a.k # "fifo" /\ a # b
                 \/ a.k # b.k /\ ~real_diff

\* The contents have to be read.
SameSize(a, b) == /\ a.k = b.k /\ a.k \in {"reg", "lnk"}
                  /\ Size[a.d] = Size[b.d] /\ Size[a.d] > 0

\* cmp_file(), cmp_symlink(), and the comparison of the types.
compare(a, b) ==
  \/ /\ ~SameSize(a, b) \/ ~dontcmp
     /\ Found(Differs(a, b)) /\ UNCHANGED <<dontcmp, trust>>
  \/ /\ SameSize(a, b) /\ dontcmp
     /\ Found(FALSE) /\ UNCHANGED <<dontcmp, trust>>
  \/ /\ SameSize(a, b) /\ ~dontcmp
     /\ a.k = "reg" /\ dontcmp' = TRUE      \* '%' is typed
     /\ Found(FALSE) /\ Worsen("sound")
  \/ /\ SameSize(a, b) /\ ~dontcmp          \* it cannot be read
     /\ Found(FALSE) /\ Worsen("sound") /\ UNCHANGED dontcmp

\* se->tree.  (a slip: the left side is forgotten)
RightSideOf(b) == IF b = Dir THEN 2 ELSE 0
SidesOf(b)     == IF b = Dir THEN 3 ELSE 1

\* A directory of the left tree only, whose name matches: the pattern is applied
\* to it as to a file, contrary to the manual (vddiff.1:264).
Named(a, b, n) == a = Dir /\ b = Absent /\ n \in match

left_dir_scan_mode(n) ==
  LET a == fs[1][n]
      b == IF tree = 3 THEN fs[2][n] ELSE Absent
      descend == a = Dir /\ (b = Dir \/ mode # "diff")
  IN
  /\ ~stopscan
  /\ \/ descend /\ Push(n, SidesOf(b))
     \/ /\ ~descend /\ find
        /\ Found(n \in match) /\ UNCHANGED dontcmp
        /\ IF Named(a, b, n) THEN Worsen("none") ELSE UNCHANGED trust
     \/ ~descend /\ ~find /\ compare(a, b)

\* lstat() fails on one of the sides.
NoStat == Found(FALSE) /\ Worsen("sound") /\ UNCHANGED dontcmp

ReadLeft ==
  /\ ph = "left"
  /\ \E n \in todo :
       /\ name_db' = IF mode = "diff" THEN name_db \cup {n} ELSE name_db
       /\ \/ Stop
          \/ todo' = todo \ {n} /\ (left_dir_scan_mode(n) \/ NoStat)
  /\ UNCHANGED <<input, scan_db, at>>
-----------------------------------------------------------------------------
(* One entry of the right directory.                                       *)

\* Names of the left directory are done.
Seen(n) == mode = "diff" /\ tree = 3 /\ n \in name_db

RightOnly(n) ==
  \/ ~find /\ dir_diff' = TRUE /\ ph' = "end" /\ todo' = {}
     /\ UNCHANGED <<flags, dirs, trust>>
  \/ find /\ Stop
  \/ /\ find /\ ~stopscan /\ todo' = todo \ {n}
     /\ \/ fs[2][n] = Dir /\ Push(n, 2)
        \/ fs[2][n] # Dir /\ Found(n \in match) /\ UNCHANGED <<dontcmp, trust>>
        \/ fs[2][n] = Dir      \* lstat() fails: it is taken for a file
           /\ Found(n \in match) /\ Worsen("none") /\ UNCHANGED dontcmp

ReadRight ==
  /\ ph = "right"
  /\ \E n \in todo :
       \/ Seen(n) /\ todo' = todo \ {n}
          /\ UNCHANGED <<flags, ph, dir_diff, dirs, trust>>
       \/ ~Seen(n) /\ RightOnly(n)
  /\ UNCHANGED <<input, scan_db, name_db, at>>
-----------------------------------------------------------------------------
(* build_diff_db()                                                         *)

\* opendir() may fail: in diff mode the directory is then taken to be empty.
OpenLeft ==
  /\ ph = "left?"
  /\ \/ ph' = "left" /\ todo' = Names(1) /\ UNCHANGED trust
     \/ /\ ph' = (IF mode = "diff" THEN "left" ELSE "end")
        /\ todo' = {} /\ Worsen(IF mode = "diff" THEN "none" ELSE "sound")
  /\ UNCHANGED <<input, flags, scan_db, name_db, at, dir_diff, dirs>>

\* The right directory is not read.
OnlyLeft  == tree = 1 \/ mode = "bmode" \/ real_diff

CloseLeft ==
  /\ ph = "left"
  /\ \/ /\ todo = {} /\ UNCHANGED <<todo, trust>>
        /\ dir_diff' = FALSE
        /\ IF dir_diff THEN add_diff_dir(1) ELSE UNCHANGED scan_db
        /\ ph' = IF OnlyLeft THEN "end" ELSE "right?"
     \/ /\ Worsen(IF mode = "diff" THEN "sound" ELSE "none")
        /\ ph' = "end"                       \* readdir() fails
        /\ todo' = {} /\ UNCHANGED <<scan_db, dir_diff>>
  /\ UNCHANGED <<input, flags, name_db, at, dirs>>

OpenRight ==
  /\ ph = "right?"
  /\ \/ ph' = "right" /\ todo' = Names(2) /\ UNCHANGED trust
     \/ ph' = "end" /\ todo' = {} /\ Worsen("sound")
  /\ UNCHANGED <<input, flags, scan_db, name_db, at, dir_diff, dirs>>

CloseRight ==
  /\ ph = "right"
  /\ \/ todo = {} /\ UNCHANGED <<todo, trust>>
     \/ todo' = {} /\ Worsen("sound")
  /\ ph' = "end"
  /\ UNCHANGED <<input, flags, scan_db, name_db, at, dir_diff, dirs>>

\* dir_scan_end: what is left in dir_diff is recorded for the right tree.
dir_scan_end ==
  /\ ph = "end" /\ ph' = "sub"
  /\ dir_diff' = FALSE /\ name_db' = {}
  /\ IF dir_diff THEN add_right ELSE UNCHANGED scan_db
  /\ UNCHANGED <<input, flags, at, todo, dirs, trust>>

\* dirs = dirs->next.  (a slip: the entry stays)
EntryStays(e) == dirs
Taken(e)      == [dirs EXCEPT ![cur] = @ \ {e}]

scan_subdir ==
  /\ ph = "sub"
  /\ \E e \in dirs[cur] :
       /\ dirs' = Taken(e)
       /\ at' = [s \in Side |-> IF e[2] \in {s, 3} THEN e[1] ELSE at[s]]
       /\ ph' = IF e[2] = 2 THEN "right?" ELSE "left?"
  /\ UNCHANGED <<input, flags, scan_db, name_db, todo, dir_diff, trust>>

\* The paths are cut to what they were, or the scan is over.
Return ==
  /\ ph = "sub" /\ dirs[cur] = {} /\ cur # Root
  /\ at' = [s \in Side |-> IF tree \in {s, 3} THEN Parent[at[s]] ELSE at[s]]
  /\ UNCHANGED <<input, flags, scan_db, name_db, ph, todo, dir_diff, dirs, trust>>

\* (a slip: the next scan finds the flag set)
StaysStopped == stopscan' = stopscan
Unstopped    == stopscan' = FALSE

Finish ==
  /\ ph = "sub" /\ dirs[cur] = {} /\ cur = Root
  /\ ph' = "off" /\ Unstopped
  /\ UNCHANGED <<input, dontcmp, scan_db, name_db, at, todo, dir_diff, dirs, trust>>

\* free_scan_db(TRUE), and the scan that follows; '%' may have been typed.
do_scan ==
  /\ ph = "off" /\ ph' = "left?"
  /\ scan_db' = {} /\ dontcmp' \in BOOLEAN
  /\ trust' = IF dontcmp' THEN "sound" ELSE "full"
  /\ UNCHANGED <<input, stopscan, name_db, at, todo, dir_diff, dirs>>
-----------------------------------------------------------------------------
Trees == {t \in [Node -> Obj] : \A n \in Node :
            t[n] # Absent /\ Parent[n] # Root => t[Parent[n]] = Dir}

Init ==
  /\ mode \in {"diff", "fmode", "bmode"} /\ find \in BOOLEAN
  /\ mode # "diff" => find
  /\ match \subseteq Node /\ (~find => match = {})
  /\ real_diff \in BOOLEAN /\ fs \in [Side -> Trees]
  /\ dontcmp \in BOOLEAN /\ stopscan = FALSE
  /\ scan_db = {} /\ name_db = {} /\ at = [s \in Side |-> Root]
  /\ ph = "left?" /\ todo = {} /\ dir_diff = FALSE
  /\ dirs = [n \in Path |-> {}]
  /\ trust = IF dontcmp THEN "sound" ELSE "full"

Scan == \/ OpenLeft \/ ReadLeft \/ CloseLeft
        \/ OpenRight \/ ReadRight \/ CloseRight
        \/ dir_scan_end \/ scan_subdir \/ Return \/ Finish
Next == Scan \/ do_scan
Spec == Init /\ [][Next]_vars /\ WF_vars(Scan)
-----------------------------------------------------------------------------
(* What is to be marked, and what is.                                      *)

Within(n) == Up[n] \ {Root}

\* Directories of both trees, and those that diff mode looks for files in.
Shared(d)  == \A a \in Within(d) : fs[1][a] = Dir /\ fs[2][a] = Dir
Reached(d) == \A a \in Within(d) : fs[2][a] = Dir /\ fs[1][a] \in {Dir, Absent}

Child(n, d) == n \in Node /\ Parent[n] = d
Exists(n)   == fs[1][n] # Absent \/ fs[2][n] # Absent
File(s, n)  == fs[s][n] \notin {Dir, Absent}

\* The directories with a difference, or a matching file, immediately in them.
HasDiff(d) ==
  Shared(d) /\ \E n \in Node :
    Child(n, d) /\ Exists(n) /\ Differs(fs[1][n], fs[2][n])
Matches(s, d) == \E n \in match : Child(n, d) /\ File(s, n)
HasMatch(d) ==
  \/ /\ Shared(d)
     /\ \E n \in match : /\ Child(n, d) /\ fs[1][n] # Absent
                         /\ File(1, n) \/ File(2, n)
  \/ /\ Reached(d) /\ ~real_diff
     /\ \E n \in match : Child(n, d) /\ File(2, n) /\ fs[1][n] = Absent

\* A directory is named by its side and its path, the side 3 being both.
Above == [i \in {1, 2, 3} \X Path |-> {<<i[1], a>> : a \in Up[i[2]]}]

\* With -c fmode searches the left directory only, as diff mode does.
Searched == IF mode = "fmode" /\ ~real_diff THEN Side ELSE {1}

truth ==
  IF mode # "diff"
  THEN {i \in Searched \X Path : Matches(i[1], i[2])}
  ELSE {3} \X {d \in Path : IF find THEN HasMatch(d) ELSE HasDiff(d)}

\* is_diff_dir(): the left path of a directory is looked for, then the right one.
is_diff_dir(d) == <<1, d>> \in scan_db \/ <<2, d>> \in scan_db
marked == IF mode # "diff" THEN scan_db
          ELSE {3} \X {d \in Path : is_diff_dir(d)}

Marks == INSTANCE DiffMarks WITH scanning <- (ph # "off")
-----------------------------------------------------------------------------
(* Properties.                                                             *)

\* Every variable has a value of its type.
TypeOK ==
  /\ mode \in {"diff", "fmode", "bmode"} /\ find \in BOOLEAN
  /\ match \subseteq Node /\ real_diff \in BOOLEAN /\ fs \in [Side -> Trees]
  /\ dontcmp \in BOOLEAN /\ stopscan \in BOOLEAN
  /\ scan_db \subseteq Side \X Path /\ name_db \subseteq Node
  /\ at \in [Side -> Path] /\ todo \subseteq Node /\ dir_diff \in BOOLEAN
  /\ ph \in {"left?", "left", "right?", "right", "end", "sub", "off"}
  /\ dirs \in [Path -> SUBSET (Node \X {1, 2, 3})]
  /\ trust \in {"full", "sound", "none"}

\* A directory is recorded only together with those that contain it, whatever
\* was recorded before and from whichever side and depth it is added: the way
\* down to each marked directory leads through marked ones.
AncestorsRecorded ==
  \A e \in scan_db : e[2] # Root => <<e[1], Parent[e[2]]>> \in scan_db

\* The scan marks the directories with a difference or a matching file below
\* them, no other ones, and at any moment with each the ones that contain it - as
\* far as it is not disturbed by errors and keys, and in diff mode does not meet
\* a directory of the left tree only whose name matches.
Implements == Marks!Spec

\* Every scan comes to an end, also one that was stopped.
ScanEnds == ph # "off" ~> ph = "off"
=============================================================================
