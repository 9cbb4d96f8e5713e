----------------------------- MODULE MCDiffScan -----------------------------
(***************************************************************************)
(* Small trees for TLC: a directory 1 with one path 2 in it, and a path 3  *)
(* next to it.  Only the trees and the options the scan starts with are    *)
(* restricted.                                                             *)
(***************************************************************************)
EXTENDS DiffScan

MCParent == <<0, 1, 0>>
MCSize   == [d \in Data |-> IF d = "cc" THEN 2 ELSE 1]

reg(d) == [k |-> "reg", d |-> d]
lnk(d) == [k |-> "lnk", d |-> d]

\* What may be at 2, in the trees that are compared and in those searched.
Compared == {[k |-> k, d |-> d] : k \in {"reg", "lnk", "dev", "fifo"}, d \in {"a", "b"}}
            \cup {Absent, Dir, reg("cc")}
Findable == {Absent, Dir, reg("a")}

Pairs(inner, outer) ==
  [Side -> {t \in Trees : t[1] \in {Absent, Dir, reg("a")}
                          /\ t[2] \in inner /\ t[3] \in outer}]

\* Compared trees differ at one place or two; searched ones are arbitrary.
MCInit ==
  /\ mode \in {"diff", "fmode", "bmode"} /\ find \in BOOLEAN
  /\ dontcmp \in IF find THEN {FALSE} ELSE BOOLEAN
  /\ match \in IF find THEN {{1}, {2, 3}} ELSE {{}}
  /\ fs \in IF find THEN Pairs(Findable, Findable)
            ELSE Pairs(Compared, {Absent, Dir})
  /\ mode = "bmode" => \A n \in Node : fs[2][n] = Absent
  /\ Init

\* The user leaves the program after the second scan.
MCSpec == MCInit /\ [][Next]_vars /\ WF_vars(Scan)
=============================================================================
