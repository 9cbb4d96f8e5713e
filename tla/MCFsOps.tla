------------------------------ MODULE MCFsOps ------------------------------
(***************************************************************************)
(* Small trees for TLC.  The specifications differ from Spec in the trees  *)
(* the program is started on; everything else is reached from there.       *)
(***************************************************************************)
EXTENDS FsOps

\* A directory entry 1 with one path in it, and a second entry 3.
MCParent == <<0, 1, 0>>
reg(d) == [k |-> "reg", d |-> d]
lnk(d) == [k |-> "lnk", d |-> d]
Some   == {Absent, Dir, reg("a"), lnk("a")}
Other  == {Absent, Dir, reg("b"), lnk("b")}

MCInit == /\ Init
          /\ \A n \in Node : fs[1][n] \in Some /\ fs[2][n] \in Other
NoOption == options = {}
NoLinks  == \A s \in Side, n \in Node : fs[s][n].k # "lnk"
OneDir   == \A s \in Side : fs[s][3] # Dir /\ fs[s][2] # Dir
One      == \A s \in Side : fs[s][3] = Absent

\* Each way the program can be started, with trees that matter to it: no
\* option, one file system, -O, and -U with -W.
CommandInit == /\ MCInit
               /\ \/ NoOption
                  \/ options = {"ofs"} /\ NoLinks
                  \/ options = {"-O"} /\ OneDir
                  \/ options = {"-U", "-W"} /\ OneDir /\ One

\* One command, given on every tree; then the user leaves the program.  System
\* calls fail where only 1 is a directory, and with the options of the first
\* two lines above.
MayFail == /\ options \in {{}, {"ofs"}}
           /\ \A s \in Side : fs0[s][2] # Dir /\ fs0[s][3] # Dir
Quit    == pc = "idle" /\ ent # Root /\ UNCHANGED vars
OneNext == /\ Engine \/ Quit \/ (ent = Root /\ Next)
           /\ fails' = 0 \/ MayFail
CommandSpec == CommandInit /\ [][OneNext]_vars

\* A directory in a directory, and one entry.
DeepParent == <<0, 1, 2, 2>>
\* The same with a file next to the inner directory.
ClashParent == <<0, 1, 1, 2>>
DeepInit == MCInit /\ NoOption /\ \A s \in Side : fs[s][1] = Dir
DeepSpec == DeepInit /\ [][Next]_vars /\ WF_vars(Engine)
=============================================================================
