---------------------------- MODULE FsKeep_proofs ----------------------------
(***************************************************************************)
(* What a command keeps: what the user said "no" to, links of the target   *)
(* tree, and the files that are moved; and that it does all it should.     *)
(***************************************************************************)
EXTENDS FsOps_proofs

(* Where the command is.                                                   *)
\* The entries it has begun, and the paths that are in none of them.
Seen == sel \ Remaining
Waiting(n) == \A u \in Seen : n \notin Under[u]

\* The paths it has yet to come to in order to copy them: those of the entries
\* that follow, those the walk has listed, the directory it begins with, and the
\* file that is looked at.
Copies == ph["out"] # "off" /\ goal = "copy"
Listed(n) == \E c \in todo["out"] \cup subs["out"] : n \in Under[c]
Later(n) ==
  \/ Waiting(n)
  \/ Copies /\ Listed(n)
  \/ Copies /\ ph["out"] = "enter" /\ n \in Under[at["out"]]
  \/ Copies /\ ph["out"] \in {"mkdir", "opendir"} /\ n \in Under[at["out"]] \ {at["out"]}
Ahead(n) == Later(n) \/ (pc = "copy" /\ n \in Under[pend])

\* What an action is for, and what it is about.
AtFile == pc \in {"copy", "unlink", "write"}
Course ==
  /\ ent \in sel \cup {Root}
  /\ AtFile => goal = "copy" /\ pend \notin todo["out"]
  /\ AtFile /\ ph["out"] = "off" => pend = ent
  /\ AtFile \/ pc = "after" => op # "del"
  /\ ph["out"] # "off" /\ goal = "remove" => tree_op = "rm" /\ pc = "walk"
  /\ ph["out"] # "off" /\ op = "del" => goal = "remove"
  /\ pc = "rmsrc" \/ (ph["out"] # "off" /\ goal = "remove") => op \in {"move", "del"}

(* What was refused, and what was not looked at, is as it was.             *)
Fresh(n) == fs[dst][n] = fs0[dst][n] /\ n \notin refused
Refusals ==
  /\ \A n \in Node : Ahead(n) => Fresh(n)
  /\ \A n \in Node : Waiting(n) => fs[src][n] = fs0[src][n]
  /\ op # "del" => \A n \in refused : fs[dst][n] = fs0[dst][n]
  /\ op = "del" /\ refused # {} =>
       /\ pc \in {"entry", "idle"} /\ refused = {ent} /\ Remaining = {}
       /\ fs[src][ent] = fs0[src][ent]
  /\ pc = "unlink" \/ ph["in"] # "off" \/ ph["out"] = "mkdir" =>
       Under[pend] \cap refused = {}
  /\ pc = "write" /\ ph["in"] = "off" /\ pend \in refused => InWay(pend)
  /\ fs_none => refused # {}

(* A link that is in the way is gone when a file is written.               *)
Trouble == fails # 0 \/ fs_error \/ fs_ign_errs \/ fs_abort
NoLink ==
  Trouble \/ /\ thru = {}
             /\ pc = "write" /\ ph["in"] = "off" /\ fs[src][pend].k = "reg" =>
                  fs[dst][pend].k # "lnk"
-----------------------------------------------------------------------------
(* Paths.                                                                  *)

LEMMA UnderTrans ==
  ASSUME NEW n \in Node, NEW b \in Node, NEW c \in Node,
         n \in Under[b], b \in Under[c]
  PROVE  n \in Under[c]
BY DEF Under

\* Of two paths with something below both one is below the other.
LEMMA UnderChain ==
  ASSUME NEW b \in Node, NEW c \in Node, NEW n \in Under[b], n \in Under[c]
  PROVE  b \in Under[c] \/ c \in Under[b]
<1> DEFINE S == Under[c] \cup {k \in Node : c \in Under[k]}
<1>1. n \in Node /\ Under[c] \subseteq Node
  BY DEF Under
<1>2. ASSUME NEW k \in S, Parent[k] # Root
      PROVE  Parent[k] \in S
  <2>1. k \in Node /\ Parent[k] \in Node
    BY <1>1, <1>2, NodeAssumption
  <2>2. CASE k \in Under[c] /\ k # c
    BY <2>1, <2>2, UnderStep
  <2>3. CASE c \in Under[k]
    <3>1. k \in Under[Parent[k]]
      BY <1>2, <2>1, UnderStep
    <3> QED BY <2>1, <2>3, <3>1, UnderTrans
  <2>4. k = c => c \in Under[k]
    BY Self
  <2> QED BY <2>2, <2>3, <2>4
<1>3. S \in Upward
  BY <1>1, <1>2 DEF Upward
<1>4. b \in S
  BY <1>1, <1>3 DEF Under
<1> QED BY <1>4

\* The entries have nothing in common.
LEMMA EntriesApart ==
  ASSUME NEW u \in Entry, NEW v \in Entry, NEW n \in Under[u], n \in Under[v]
  PROVE  u = v
<1>1. u \in Node /\ v \in Node /\ Parent[u] = Root /\ Parent[v] = Root
  BY DEF Entry
<1>2. u \in Under[v] \/ v \in Under[u]
  BY <1>1, UnderChain
<1> QED BY <1>1, <1>2, UnderStep

\* There is nothing below a path that is no directory.
LEMMA NothingBelow ==
  ASSUME NEW t \in Tree, NEW b \in Node, NEW n \in Under[b], n # b, t[b] # Dir
  PROVE  t[n] = Absent
<1> DEFINE S == {k \in Node : t[k] = Dir} \cup {n}
<1>1. n \in Node /\ b \notin S
  BY DEF Under
<1>2. SUFFICES ASSUME t[n] # Absent PROVE FALSE
  OBVIOUS
<1>3. ASSUME NEW k \in S, Parent[k] # Root
      PROVE  Parent[k] \in S
  <2>1. k \in Node /\ Parent[k] \in Node /\ t[k] # Absent
    BY <1>1, <1>2, <1>3, NodeAssumption, Kinds
  <2> QED BY <1>3, <2>1 DEF Tree
<1>4. S \in Upward
  BY <1>1, <1>3 DEF Upward
<1> QED BY <1>1, <1>4 DEF Under

\* A path is not below what is below it.
LEMMA NotBothWays ==
  ASSUME NEW b \in Node, NEW n \in Under[b], b \in Under[n]
  PROVE  n = b
<1>1. n \in Node
  BY DEF Under
<1>2. b <= n /\ n <= b
  BY <1>1, UnderIsLarger
<1> QED BY <1>1, <1>2, NodeAssumption
-----------------------------------------------------------------------------
(* Where the command is.                                                   *)

\* What has gone wrong, or was answered, in a command is not forgotten.
Onward ==
  /\ UNCHANGED command
  /\ fails' = 0 => fails = 0
  /\ fs_error => fs_error'
  /\ fs_ign_errs => fs_ign_errs'
  /\ fs_abort => fs_abort'
  /\ refused \subseteq refused'
  /\ fs_none' => fs_none \/ refused' # {}

Mild == Course /\ Refusals /\ NoLink
Known == Now /\ Steady' /\ Mild /\ Onward

\* What all steps of a command leave alone.
LEMMA Fixed ==
  ASSUME Onward
  PROVE  /\ op' = op /\ src' = src /\ dst' = dst /\ sel' = sel /\ fs0' = fs0
         /\ newer' = newer /\ options' = options /\ Clash' = Clash
         /\ \A n : Kept(n)' <=> Kept(n)
BY DEF Onward, command, dst, Clash, Kept, dont_overwrite, overwrite_if_old

LEMMA KnownParts ==
  ASSUME Known
  PROVE  /\ Now /\ Basic /\ Course /\ Refusals /\ NoLink /\ Onward
         /\ WalkerOK("out") /\ WalkerOK("in") /\ CopyOK
         /\ fs \in [Side -> Tree] /\ fs0 \in [Side -> Tree]
         /\ fs[src] \in Tree /\ fs[dst] \in Tree
         /\ sel \subseteq Entry /\ Entry \subseteq Node /\ Seen \subseteq sel
         /\ \A u \in Node : Under[u] \subseteq Node /\ u \in Under[u]
         /\ \A n \in Under[ent] : ent \in Node /\ ent \in Seen => ~Waiting(n)
BY NowParts, BasicParts, Self
   DEF Known, Mild, Basic, Trees, TypeOK, CommandOK, Entry, Under, Now, Seen,
       Waiting, Side

\* The entry that is being done has been begun.
LEMMA EntSeen ==
  ASSUME Known, ent \in Node
  PROVE  ent \in Seen /\ ent \in Entry /\ Parent[ent] = Root
         /\ \A n \in Under[ent] : ~Waiting(n)
<1>1. ent \in sel
  BY KnownParts, NodeAssumption DEF Course
<1>2. ent \in Nat
  BY NodeAssumption
<1>3. ent \in Seen
  BY <1>1, <1>2 DEF Seen, Remaining
<1> QED BY <1>1, <1>3, KnownParts DEF Waiting, Entry

\* The directory the walk is in is part of the entry, and it is not listed.
LEMMA AtIsBegun ==
  ASSUME Known, ph["out"] # "off"
  PROVE  /\ at["out"] \in Node /\ ent \in Node /\ at["out"] \in Under[ent]
         /\ ~Waiting(at["out"]) /\ ~Listed(at["out"])
         /\ \A n \in Under[at["out"]] : n \in Under[ent] /\ ~Waiting(n)
         /\ todo["out"] \subseteq Node /\ subs["out"] \subseteq Node
         /\ \A c \in todo["out"] : Parent[c] = at["out"]
         /\ \A c \in subs["out"] : at["out"] \notin Under[c]
<1>1. ent \in Node /\ at["out"] \in Under[ent] /\ at["out"] \in Node
  BY KnownParts, NowParts DEF Basic, Control, TopOf, Under
<1>2. /\ todo["out"] \subseteq Node /\ subs["out"] \subseteq Node
      /\ \A c \in todo["out"] : Parent[c] = at["out"]
      /\ \A c \in subs["out"] : at["out"] \notin Under[c]
  BY KnownParts, NowParts, BasicParts DEF WalkerOK, WalkOK
<1>3. \A c \in todo["out"] : at["out"] \notin Under[c]
  BY <1>1, <1>2, ParentNotUnder
<1>4. ~Listed(at["out"])
  BY <1>2, <1>3 DEF Listed
<1>5. \A n \in Under[at["out"]] : n \in Under[ent]
  BY <1>1, KnownParts, UnderTrans
<1> QED BY <1>1, <1>2, <1>4, <1>5, EntSeen

\* So is the file that is copied, with all that its target may hold.
LEMMA FileIsBegun ==
  ASSUME Known, AtFile, ph["out"] # "mkdir"
  PROVE  /\ pend \in Node /\ ent \in Node /\ pend \in Under[ent]
         /\ fs[src][pend] \in Leaf
         /\ \A n \in Under[pend] : ~Waiting(n) /\ ~Listed(n) /\ ~Later(n)
<1>1. /\ pend \in Node /\ ent \in Node /\ fs[src][pend] \in Leaf
      /\ ph["out"] # "off" => ph["out"] = "read" /\ Parent[pend] = at["out"]
  BY KnownParts DEF AtFile, Basic, Control, CopyOK
<1>2. pend \in Under[ent]
  <2>1. CASE ph["out"] = "off"
    BY <1>1, <2>1, KnownParts DEF Course
  <2>2. CASE ph["out"] # "off"
    BY <1>1, <2>2, AtIsBegun, UnderStep, NodeAssumption
  <2> QED BY <2>1, <2>2
<1>3. ASSUME NEW n \in Under[pend]
      PROVE  ~Waiting(n) /\ ~Listed(n)
  <2>1. n \in Node /\ n \in Under[ent]
    BY <1>1, <1>2, <1>3, KnownParts, UnderTrans
  <2>2. ~Waiting(n)
    BY <1>1, <2>1, EntSeen
  <2>3. ASSUME NEW c \in todo["out"] \cup subs["out"], n \in Under[c]
        PROVE  FALSE
    <3>1. ph["out"] = "read" /\ Parent[pend] = at["out"] /\ c \in Node
      BY <1>1, <2>3, KnownParts, AtIsBegun, BasicParts, NowParts DEF Basic, Control
    <3>2. c \in Under[pend] \/ pend \in Under[c]
      BY <1>1, <1>3, <2>3, <3>1, UnderChain
    <3>3. CASE c \in todo["out"]
      <4>1. Parent[c] = at["out"] /\ c # pend
        BY <3>1, <3>3, AtIsBegun, KnownParts DEF Course
      <4>2. at["out"] \in Under[pend] \/ at["out"] \in Under[c]
        BY <1>1, <3>1, <3>2, <4>1, UnderStep
      <4> QED BY <1>1, <3>1, <4>1, <4>2, ParentNotUnder, AtIsBegun
    <3>4. CASE c \in subs["out"]
      <4>1. fs[src][c] = Dir /\ at["out"] \notin Under[c]
        BY <3>1, <3>4, KnownParts, NowParts DEF WalkerOK
      <4>2. fs[src][pend] # Dir
        BY <1>1, Kinds
      <4>3. c # pend /\ c \notin Under[pend]
        BY <1>1, <4>1, <4>2, KnownParts, NothingBelow, Kinds
      <4> QED BY <1>1, <3>1, <3>2, <4>1, <4>3, UnderStep
    <3> QED BY <2>3, <3>3, <3>4
  <2> QED BY <2>2, <2>3 DEF Listed
<1>4. ASSUME NEW n \in Under[pend] PROVE ~Later(n)
  BY <1>1, <1>3, <1>4 DEF Later
<1> QED BY <1>1, <1>2, <1>3, <1>4

LEMMA FailOnward == ASSUME fails \in 0..MaxFail, Fail \/ UNCHANGED fails
                    PROVE  fails' = 0 => fails = 0
BY BoundAssumption DEF Fail

LEMMA DialogOnward ==
  ASSUME FlagsOK, NEW n, NEW yes, DelDialog(n, yes)
  PROVE  /\ fs_error' = fs_error /\ fs_ign_errs' = fs_ign_errs
         /\ fs_abort => fs_abort'
         /\ refused \subseteq refused' /\ (fs_none' => fs_none \/ refused' # {})
         /\ refused' = IF yes THEN refused ELSE refused \cup {n}
BY DEF FlagsOK, DelDialog

LEMMA FwrapOnward ==
  ASSUME FlagsOK, Fwrap
  PROVE  /\ fs_error => fs_error'
         /\ fs_ign_errs => fs_ign_errs'
         /\ UNCHANGED <<fs_abort, fs_none>>
BY DEF Fwrap, FlagsOK

LEMMA RemovalOnward ==
  ASSUME Basic, NEW s, NEW n, rm_dir(s, n) \/ rm_file(s, n)
  PROVE  /\ fails' = 0 => fails = 0
         /\ fs_error => fs_error'
         /\ fs_ign_errs => fs_ign_errs'
         /\ fs_abort => fs_abort'
         /\ refused' = refused /\ fs_none' = fs_none
BY BasicParts, FailOnward, FwrapOnward DEF rm_dir, rm_file, EscTyped, flags

\* No step of a command looks away from an error or from a "no".
LEMMA EngineOnward ==
  ASSUME Basic, Engine
  PROVE  Onward
<1> DEFINE Plain == UNCHANGED <<flags, refused>> /\ (UNCHANGED fails \/ Fail)
<1>0. fails \in 0..MaxFail /\ FlagsOK
  BY BasicParts
<1>1. ASSUME Plain, UNCHANGED command PROVE Onward
  BY <1>0, <1>1, FailOnward DEF Onward, flags
<1>2. ASSUME NEW n, NEW yes, DelDialog(n, yes), UNCHANGED fails \/ Fail,
             UNCHANGED command
      PROVE  Onward
  BY <1>0, <1>2, FailOnward, DialogOnward DEF Onward
<1>3. ASSUME NEW s, NEW n, rm_dir(s, n) \/ rm_file(s, n), UNCHANGED command
      PROVE  Onward
  BY <1>3, RemovalOnward DEF Onward
<1>4. ASSUME NEW w \in Walker, Walk(w) PROVE Onward
  <2>1. CASE Enter(w)
    <3>1. \/ Plain
          \/ \E n, yes : DelDialog(n, yes) /\ UNCHANGED fails
      BY <2>1 DEF Enter, creatdir, mkdir
    <3> QED BY <1>1, <1>2, <2>1, <3>1 DEF Enter
  <2>2. CASE Opendir(w)
    BY <1>1, <2>2 DEF Opendir
  <2>3. CASE Read(w)
    <3>1. \/ Plain
          \/ \E n : rm_file(SideOf(w), n)
      BY <2>3 DEF Read, ReadEntry
    <3> QED BY <1>1, <1>3, <2>3, <3>1 DEF Read
  <2>4. CASE Subdirs(w)
    BY <1>1, <1>3, <2>4 DEF Subdirs
  <2> QED BY <1>4, <2>1, <2>2, <2>3, <2>4 DEF Walk
<1>5. CASE cp_file
  <2>1. ASSUME EscTyped, UNCHANGED <<fails, refused>> PROVE Onward
    BY <1>5, <2>1 DEF cp_file, EscTyped, Onward
  <2>2. ASSUME NEW n, overwrite_rm(n) PROVE Onward
    <3>1. \E yes \in BOOLEAN : DelDialog(n, yes) /\ (UNCHANGED fails \/ Fail)
      BY <2>2 DEF overwrite_rm, NotEmpty
    <3> QED BY <1>2, <1>5, <3>1 DEF cp_file
  <2>3. ASSUME NEW n, cp_reg(n) PROVE Onward
    <3>1. \/ Plain \/ overwrite_rm(n)
          \/ \E yes \in BOOLEAN : DelDialog(n, yes) /\ (UNCHANGED fails \/ Fail)
      BY <2>3 DEF cp_reg
    <3> QED BY <1>1, <1>2, <1>5, <2>2, <3>1 DEF cp_file
  <2>4. ASSUME NEW n, cp_link(n) PROVE Onward
    <3>1. Plain \/ overwrite_rm(n)
      BY <2>4 DEF cp_link
    <3> QED BY <1>1, <1>5, <2>2, <3>1 DEF cp_file
  <2> QED BY <1>5, <2>1, <2>3, <2>4 DEF cp_file
<1>6. CASE UnlinkTarget
  BY <1>3, <1>6 DEF UnlinkTarget, remove
<1>7. CASE Mkdir
  BY <1>1, <1>7 DEF Mkdir, mkdir
<1>8. CASE WriteFile
  <2>1. UNCHANGED <<command, refused>> /\ (UNCHANGED fails \/ Fail)
    BY <1>8 DEF WriteFile, write_reg, write_lnk
  <2>2. UNCHANGED flags \/ Fwrap
    BY <1>8 DEF WriteFile, write_reg, write_lnk
  <2> QED BY <1>0, <1>1, <2>1, <2>2, FwrapOnward, FailOnward DEF Onward
<1>9. ASSUME NEW u \in Remaining,
             NoSource(u) \/ RenameEntry(u) \/ CopyEntry(u) \/ DeleteEntry(u)
      PROVE  Onward
  <2>1. CASE NoSource(u) \/ CopyEntry(u)
    BY <1>1, <2>1 DEF NoSource, CopyEntry, EntryStep
  <2>2. CASE RenameEntry(u)
    <3>1. /\ UNCHANGED <<command, refused>> /\ (UNCHANGED fails \/ Fail)
          /\ UNCHANGED flags \/ Fwrap
      BY <2>2 DEF RenameEntry, EntryStep
    <3> QED BY <1>0, <1>1, <3>1, FwrapOnward, FailOnward DEF Onward
  <2>3. CASE DeleteEntry(u)
    BY <1>1, <1>2, <2>3 DEF DeleteEntry, EntryStep, NotEmpty
  <2> QED BY <1>9, <2>1, <2>2, <2>3
<1>10. CASE AfterCopy
  BY <1>1, <1>10 DEF AfterCopy
<1>11. CASE RemoveSource
  BY <1>3, <1>11 DEF RemoveSource, remove
<1>12. CASE EndOfCommand
  BY <1>1, <1>12 DEF EndOfCommand
<1> QED BY <1>4, <1>5, <1>6, <1>7, <1>8, <1>9, <1>10, <1>11, <1>12
        DEF Engine, NextEntry
-----------------------------------------------------------------------------
(* What the user said "no" to, and links: each action preserves Mild.      *)

LEMMA NoLinkStays ==
  ASSUME Known, thru' = thru,
         Trouble' \/ pc' # "write" \/ ph'["in"] # "off"
           \/ (fs'[src][pend'].k = "reg" => fs'[dst][pend'].k # "lnk")
  PROVE  NoLink'
<1>1. Trouble => Trouble'
  BY KnownParts DEF Onward, Trouble
<1> QED BY <1>1, KnownParts, Fixed DEF NoLink

LEMMA RefusalsStay ==
  ASSUME Known, ent' = ent,
         \A n \in Node : Ahead(n)' =>
           Ahead(n) /\ fs'[dst][n] = fs[dst][n] /\ (n \in refused' => n \in refused),
         \A n \in Node : Waiting(n) => fs'[src][n] = fs[src][n],
         \A n \in refused : fs'[dst][n] = fs[dst][n],
         \A n \in refused' \ refused : fs'[dst][n] = fs0[dst][n],
         op = "del" => refused' = {},
         pc' = "unlink" \/ ph'["in"] # "off" \/ ph'["out"] = "mkdir" =>
           Under[pend'] \cap refused' = {},
         pc' = "write" /\ ph'["in"] = "off" /\ pend' \in refused' => InWay(pend)'
  PROVE  Refusals'
<1>1. \A n : Waiting(n)' <=> Waiting(n)
  BY Fixed, KnownParts DEF Waiting, Seen, Remaining
<1>2. \A n \in Node : Ahead(n)' => Fresh(n)'
  BY Fixed, KnownParts DEF Refusals, Fresh
<1>3. \A n \in Node : Waiting(n)' => fs'[src][n] = fs0[src][n]
  BY <1>1, Fixed, KnownParts DEF Refusals
<1>4. op # "del" => \A n \in refused' : fs'[dst][n] = fs0[dst][n]
  BY KnownParts DEF Refusals
<1>5. fs_none' => refused' # {}
  BY KnownParts DEF Onward, Refusals
<1>6. src' = src /\ dst' = dst /\ fs0' = fs0 /\ op' = op
  BY Fixed, KnownParts
<1> QED BY <1>2, <1>3, <1>4, <1>5, <1>6 DEF Refusals

\* A delete that goes on has not been refused.
LEMMA DeleteGoesOn ==
  ASSUME Known, op = "del", pc \notin {"entry", "idle"}
  PROVE  refused = {}
BY KnownParts DEF Refusals

\* The removal of a directory of the target, from within a copy.
LEMMA InsideMild ==
  ASSUME Known, ph["in"] # "off", pc' = "write",
         UNCHANGED <<ent, goal, pend, tree_op, thru, refused>>,
         ph'["out"] = ph["out"], at'["out"] = at["out"],
         todo'["out"] = todo["out"], subs'["out"] = subs["out"],
         fs'[src] = fs[src],
         \A n \in Node \ Under[pend] : fs'[dst][n] = fs[dst][n],
         fs'[dst][pend].k # "lnk"
  PROVE  Mild'
<1>1. pc = "write" /\ AtFile /\ ph["out"] # "mkdir"
  BY KnownParts, NowParts DEF AtFile, CopyOK
<1>2. pend \in Node /\ \A n \in Under[pend] : ~Later(n)
  BY <1>1, FileIsBegun
<1>3. \A n \in Node : Ahead(n)' => Ahead(n) /\ n \notin Under[pend]
  BY <1>2, Fixed, KnownParts DEF Ahead, Later, Waiting, Seen, Remaining, Copies, Listed
<1>4. Under[pend] \cap refused = {} /\ pend \in Under[pend]
  BY <1>2, KnownParts DEF Refusals
<1>5. \A n \in refused : n \in Node
  BY KnownParts, BasicParts
<1>6. op # "del"
  BY <1>1, KnownParts DEF Course
<1>7. Refusals'
  BY <1>2, <1>3, <1>4, <1>5, <1>6, RefusalsStay
<1>8. Course'
  BY <1>1, Fixed, KnownParts DEF Course, AtFile
<1>9. NoLink'
  BY NoLinkStays
<1> QED BY <1>7, <1>8, <1>9 DEF Mild

\* A step of the walk that does not get to a file.
LEMMA WalkMild ==
  ASSUME Known, pc = "walk", ph["out"] # "off", ph["in"] = "off",
         pc' \in {"walk", "after", "entry"}, ph'["in"] = "off", ph'["out"] # "mkdir",
         UNCHANGED <<ent, goal, tree_op, thru>>,
         \A n \in Node : Later(n)' =>
           Ahead(n) /\ fs'[dst][n] = fs[dst][n] /\ (n \in refused' => n \in refused),
         \A n \in refused : fs'[dst][n] = fs[dst][n],
         \A n \in refused' \ refused : fs'[dst][n] = fs0[dst][n],
         refused' = refused \/ op # "del",
         \A n \in Node : n \notin Under[at["out"]] => fs'[src][n] = fs[src][n],
         pc' = "after" => goal = "copy"
  PROVE  Mild'
<1>1. \A n \in Node : Waiting(n) => n \notin Under[at["out"]]
  BY AtIsBegun
<1>2. op = "del" => refused' = {}
  BY DeleteGoesOn
<1>3. Refusals'
  BY <1>1, <1>2, RefusalsStay DEF Ahead
<1>4. Course'
  BY Fixed, KnownParts DEF Course, AtFile, Now, Basic, Control
<1>5. NoLink'
  BY NoLinkStays
<1> QED BY <1>3, <1>4, <1>5 DEF Mild

\* Going up shortens what is to come.
LEMMA LaterShrinks ==
  ASSUME Known, ent' = ent, goal' = goal, ph["out"] # "off",
         ph'["out"] \in {"off", "read", "sub"},
         todo'["out"] \cup subs'["out"] \subseteq todo["out"] \cup subs["out"]
  PROVE  \A n \in Node : Later(n)' => Waiting(n) \/ (Copies /\ Listed(n))
<1>1. \A n : Waiting(n)' <=> Waiting(n)
  BY Fixed, KnownParts DEF Waiting, Seen, Remaining
<1>2. \A n : Copies' /\ Listed(n)' => Copies /\ Listed(n)
  BY DEF Copies, Listed
<1> QED BY <1>1, <1>2 DEF Later

LEMMA PopDoes ==
  ASSUME Known, NEW w \in Walker, Pop(w), ph[w] # "off"
  PROVE  /\ \A v \in Walker \ {w} : /\ ph'[v] = ph[v] /\ at'[v] = at[v]
                                    /\ todo'[v] = todo[v] /\ subs'[v] = subs[v]
         /\ ph'[w] \in {"off", "sub"} /\ todo'[w] = {} /\ subs'[w] \subseteq subs[w]
         /\ at[w] # TopOf(w) => /\ ph'[w] = "sub" /\ at'[w] = Parent[at[w]] /\ pc' = pc
                                /\ subs'[w] = {c \in subs[w] : Parent[c] # at[w]}
         /\ at[w] = TopOf(w) => /\ ph'[w] = "off"
                                /\ pc' = IF w = "in" THEN "write"
                                         ELSE IF goal = "copy" THEN "after" ELSE "entry"
BY KnownParts, WalkTypes DEF Pop

\* The walk goes up.  A directory of the tree that is removed may be gone.
LEMMA PopMild ==
  ASSUME Known, pc = "walk", ph["out"] # "off", ph["in"] = "off", Pop("out"),
         UNCHANGED <<ent, goal, tree_op, thru, refused>>,
         fs'[dst] = fs[dst],
         \A n \in Node : n \notin Under[at["out"]] => fs'[src][n] = fs[src][n]
  PROVE  Mild'
<1>1. /\ ph'["out"] \in {"off", "sub"} /\ todo'["out"] = {}
      /\ subs'["out"] \subseteq subs["out"] /\ ph'["in"] = "off"
      /\ pc' \in {"walk", "after", "entry"} /\ (pc' = "after" => goal = "copy")
  BY PopDoes DEF Walker
<1>2. \A n \in Node : Later(n)' => Ahead(n)
  BY <1>1, LaterShrinks DEF Ahead, Later
<1> QED BY <1>1, <1>2, WalkMild

\* What a step of the walk is given.
LEMMA WalkingAt ==
  ASSUME Known, NEW where, where # "off", Walking("out", where)
  PROVE  /\ pc = "walk" /\ ph["out"] = where /\ ph["in"] = "off"
         /\ at["out"] \in Node /\ fs[src][at["out"]] = Dir
BY KnownParts, NowParts, WalkerAt DEF Known

\* A walk that makes directories is part of a copy.
LEMMA WalkCopies ==
  ASSUME Known, ph["out"] # "off", tree_op # "rm"
  PROVE  Copies /\ op # "del" /\ goal = "copy"
BY KnownParts, BasicParts DEF Course, Copies, Basic, TypeOK

\* The walk has its directory, or goes up: one that was refused is as it was.
LEMMA CreatedMild ==
  ASSUME Known, pc = "walk", ph["out"] \in {"enter", "mkdir"}, ph["in"] = "off",
         tree_op # "rm", Pop("out") \/ Goto("out", "opendir"),
         UNCHANGED <<ent, goal, tree_op, thru>>,
         fs'[src] = fs[src],
         \A n \in Node \ {at["out"]} : fs'[dst][n] = fs[dst][n],
         \/ refused' = refused
         \/ /\ refused' = refused \cup {at["out"]} /\ fs' = fs
            /\ fs[dst][at["out"]] = fs0[dst][at["out"]],
         at["out"] \notin refused
  PROVE  Mild'
<1>1. Copies /\ op # "del" /\ goal = "copy"
  BY WalkCopies
<1>2. at["out"] \in Node /\ ~Waiting(at["out"]) /\ ~Listed(at["out"])
  BY AtIsBegun
<1>3. \A n : Waiting(n)' <=> Waiting(n)
  BY Fixed, KnownParts DEF Waiting, Seen, Remaining
<1>4. \A n \in Node : Later(n)' => Later(n) /\ n # at["out"]
  <2>1. CASE Pop("out")
    <3>1. /\ ph'["out"] \in {"off", "sub"} /\ todo'["out"] = {}
          /\ subs'["out"] \subseteq subs["out"]
      BY <2>1, PopDoes DEF Walker
    <3> QED BY <1>1, <1>2, <3>1, LaterShrinks DEF Later
  <2>2. CASE Goto("out", "opendir")
    <3>1. ph'["out"] = "opendir" /\ at' = at /\ todo' = todo /\ subs' = subs
      BY <2>2, KnownParts, WalkTypes DEF Goto, Walker
    <3> QED BY <1>1, <1>2, <1>3, <3>1 DEF Later, Copies, Listed
  <2> QED BY <2>1, <2>2
<1>5. /\ pc' \in {"walk", "after", "entry"} /\ ph'["in"] = "off"
      /\ ph'["out"] # "mkdir"
  BY KnownParts, WalkTypes DEF Pop, Goto, Walker
<1>6. \A n \in refused : n \in Node
  BY KnownParts, BasicParts
<1> QED BY <1>1, <1>4, <1>5, <1>6, WalkMild DEF Ahead

\* The directory the walk begins with was not touched.
LEMMA EnterFresh ==
  ASSUME Known, ph["out"] = "enter", tree_op # "rm"
  PROVE  \A n \in Under[at["out"]] : Later(n) /\ Fresh(n)
<1>1. Copies /\ at["out"] \in Node
  BY WalkCopies, AtIsBegun
<1> QED BY <1>1, KnownParts DEF Later, Ahead, Refusals

LEMMA MkdirDoes ==
  ASSUME Known, NEW n \in Node, mkdir("out", n)
  PROVE  /\ Pop("out") \/ Created("out")
         /\ fs'[src] = fs[src]
         /\ \A m \in Node \ {n} : fs'[dst][m] = fs[dst][m]
BY KnownParts, WalkTypes DEF mkdir, Put

LEMMA EnterMild ==
  ASSUME Known, NEW w \in Walker, Enter(w)
  PROVE  Mild'
<1>1. UNCHANGED <<tree_op, command, ent, goal, thru>> /\ Walking(w, "enter")
  BY DEF Enter
<1>2. CASE w = "in"
  <2>1. /\ ph["in"] # "off" /\ pc = "write" /\ tree_op = "rm"
        /\ fs[dst][pend] = Dir
    BY <1>1, <1>2, KnownParts, NowParts DEF Walking, CopyOK
  <2>2. Goto("in", "opendir") /\ UNCHANGED <<fs, fails, flags, pend, refused>>
    BY <1>2, <2>1 DEF Enter
  <2>3. pc' = "write" /\ ph'["out"] = ph["out"] /\ UNCHANGED <<at, todo, subs>>
    BY <2>1, <2>2, KnownParts, WalkTypes DEF Goto
  <2> QED BY <1>1, <2>1, <2>2, <2>3, InsideMild, Kinds
<1>3. CASE w = "out"
  <2> DEFINE n == at["out"]
  <2>1. /\ pc = "walk" /\ ph["out"] = "enter" /\ ph["in"] = "off" /\ n \in Node
        /\ todo["out"] = {}
    BY <1>1, <1>3, WalkingAt, KnownParts DEF WalkerOK
  <2>2. CASE tree_op \in {"rm", "notempty"}
    <3>1. Goto("out", "opendir") /\ UNCHANGED <<fs, fails, flags, pend, refused>>
      BY <1>3, <2>2 DEF Enter
    <3>2. /\ ph'["out"] = "opendir" /\ ph'["in"] = "off" /\ pc' = "walk"
          /\ at' = at /\ todo' = todo /\ subs' = subs
      BY <2>1, <3>1, KnownParts, WalkTypes DEF Goto, Walker
    <3>3. \A m \in Node : Later(m)' => Later(m)
      BY <1>1, <2>1, <3>2, Fixed, KnownParts
         DEF Later, Waiting, Seen, Remaining, Copies, Listed
    <3> QED BY <1>1, <2>1, <3>1, <3>2, <3>3, WalkMild DEF Ahead
  <2>3. CASE tree_op \in {"cp", "empty"}
    <3>1. creatdir("out", n) /\ tree_op # "rm"
      BY <1>3, <2>3 DEF Enter
    <3>2. /\ \A m \in Under[n] : Later(m) /\ Fresh(m)
          /\ n \in Under[n] /\ n \notin refused /\ fs[dst][n] = fs0[dst][n]
      BY <2>1, <3>1, EnterFresh, KnownParts DEF Fresh
    <3>3. ASSUME refused' = refused, mkdir("out", n)
          PROVE  Mild'
      <4>1. Pop("out") \/ Goto("out", "opendir")
        BY <2>1, <3>3, MkdirDoes DEF Created
      <4> QED BY <1>1, <2>1, <3>1, <3>2, <3>3, <4>1, MkdirDoes, CreatedMild
    <3>4. ASSUME refused' = refused \/ refused' = refused \cup {n}, fs' = fs,
                 Pop("out") \/ Created("out")
          PROVE  Mild'
      <4>1. Pop("out") \/ Goto("out", "opendir")
        BY <3>4 DEF Created
      <4> QED BY <1>1, <2>1, <3>1, <3>2, <3>4, <4>1, CreatedMild
    <3>5. CASE /\ UNCHANGED fs /\ DelDialog(n, TRUE) /\ pend' = n /\ pc' = "unlink"
               /\ ph' = [ph EXCEPT !["out"] = "mkdir"]
               /\ UNCHANGED <<at, todo, subs>>
      <4>1. ph'["out"] = "mkdir" /\ ph'["in"] = "off" /\ refused' = refused
        BY <2>1, <3>5, KnownParts, WalkTypes DEF Walker, DelDialog
      <4>2. \A m \in Node : Ahead(m)' => Ahead(m)
        BY <1>1, <2>1, <3>2, <3>5, <4>1, Fixed, KnownParts
           DEF Later, Ahead, Waiting, Seen, Remaining, Copies, Listed
      <4>3. Under[n] \cap refused = {} /\ op # "del" /\ goal = "copy"
        BY <2>1, <3>1, <3>2, WalkCopies DEF Fresh
      <4>4. Refusals'
        BY <1>1, <3>5, <4>1, <4>2, <4>3, RefusalsStay
      <4>5. Course'
        BY <1>1, <2>1, <3>5, <4>1, <4>3, Fixed, KnownParts DEF Course, AtFile
      <4>6. NoLink'
        BY <1>1, <3>5, NoLinkStays
      <4> QED BY <4>4, <4>5, <4>6 DEF Mild
    <3> QED BY <3>1, <3>3, <3>4, <3>5 DEF creatdir, DelDialog
  <2> QED BY <1>3, <2>2, <2>3 DEF Enter
<1> QED BY <1>2, <1>3 DEF Walker

\* What a step of the walk in the target tree is given.
LEMMA InsideAt ==
  ASSUME Known, NEW where, where # "off", Walking("in", where)
  PROVE  /\ pc = "write" /\ ph["in"] = where /\ tree_op = "rm"
         /\ fs[dst][pend] = Dir /\ pend \in Node /\ pend \in Under[pend]
         /\ at["in"] \in Node /\ at["in"] \in Under[pend]
         /\ \A n \in todo["in"] : n \in Under[pend]
<1>1. /\ pc = "write" /\ ph["in"] = where /\ tree_op = "rm" /\ at["in"] \in Node
      /\ fs[dst][pend] = Dir
  BY KnownParts, NowParts, WalkerAt DEF CopyOK
<1>2. pend \in Node /\ at["in"] \in Under[pend]
  BY <1>1, KnownParts, NowParts DEF Basic, Control, TopOf
<1>3. \A n \in todo["in"] : n \in Node /\ Parent[n] = at["in"]
  BY KnownParts, NowParts, WalkTypes DEF WalkerOK
<1>4. \A n \in todo["in"] : n \in Under[pend]
  BY <1>1, <1>2, <1>3, UnderStep, NodeAssumption
<1> QED BY <1>1, <1>2, <1>4, KnownParts

\* A step of it that takes at most one object away.
LEMMA InsideStep ==
  ASSUME Known, NEW where, where # "off", Walking("in", where),
         UNCHANGED <<ent, goal, pend, tree_op, thru, refused>>, pc' = "write",
         \A v \in Walker \ {"in"} : /\ ph'[v] = ph[v] /\ at'[v] = at[v]
                                    /\ todo'[v] = todo[v] /\ subs'[v] = subs[v],
         NEW n \in Under[pend],
         fs' = fs \/ /\ fs'[src] = fs[src] /\ fs'[dst][n] = Absent
                     /\ \A m \in Node \ {n} : fs'[dst][m] = fs[dst][m]
  PROVE  Mild'
<1>1. /\ ph["in"] # "off" /\ fs[dst][pend] = Dir /\ pend \in Node
      /\ "out" \in Walker \ {"in"}
  BY InsideAt DEF Walker
<1>2. fs'[dst][pend] = Dir \/ fs'[dst][pend] = Absent
  BY <1>1
<1> QED BY <1>1, <1>2, InsideMild, Kinds

LEMMA OpendirMild ==
  ASSUME Known, NEW w \in Walker, Opendir(w)
  PROVE  Mild'
<1>1. /\ UNCHANGED <<fs, tree_op, ent, pend, goal, thru, refused>>
      /\ Walking(w, "opendir")
  BY DEF Opendir
<1>2. CASE w = "in"
  <2>1. pc = "write" /\ pend \in Under[pend] /\ ph["in"] # "off"
    BY <1>1, <1>2, InsideAt
  <2>2. CASE Pop("in")
    BY <1>1, <1>2, <2>1, <2>2, PopDoes, InsideStep
  <2>3. CASE ~Pop("in")
    <3>1. /\ ph' = [ph EXCEPT !["in"] = "read"] /\ UNCHANGED <<at, subs, pc>>
          /\ \A v \in Walker \ {"in"} : todo'[v] = todo[v]
      BY <1>2, <2>3, KnownParts, WalkTypes DEF Opendir
    <3>2. \A v \in Walker \ {"in"} : ph'[v] = ph[v]
      BY <3>1, KnownParts, WalkTypes
    <3> QED BY <1>1, <1>2, <2>1, <3>1, <3>2, InsideStep
  <2> QED BY <2>2, <2>3
<1>3. CASE w = "out"
  <2>1. pc = "walk" /\ ph["out"] = "opendir" /\ ph["in"] = "off" /\ at["out"] \in Node
    BY <1>1, <1>3, WalkingAt
  <2>2. CASE Pop("out")
    BY <1>1, <2>1, <2>2, PopMild
  <2>3. CASE ~Pop("out")
    <3>1. /\ ph'["out"] = "read" /\ ph'["in"] = "off" /\ pc' = pc
          /\ subs' = subs /\ todo'["out"] = Children(src, at["out"])
      BY <1>3, <2>1, <2>3, KnownParts, NowParts, WalkTypes DEF Opendir
    <3>2. ASSUME NEW n \in Node, NEW c \in todo'["out"], n \in Under[c]
          PROVE  n \in Under[at["out"]] \ {at["out"]}
      <4>1. c \in Node /\ Parent[c] = at["out"]
        BY <3>1 DEF Children
      <4>2. c \in Under[at["out"]] /\ at["out"] \notin Under[c]
        BY <2>1, <4>1, UnderStep, KnownParts, ParentNotUnder, NodeAssumption
      <4> QED BY <2>1, <3>2, <4>1, <4>2, UnderTrans
    <3>3. \A n \in Node : Later(n)' => Later(n)
      BY <1>1, <2>1, <3>1, <3>2, Fixed, KnownParts
         DEF Later, Waiting, Seen, Remaining, Copies, Listed
    <3> QED BY <1>1, <2>1, <3>1, <3>3, WalkMild DEF Ahead
  <2> QED BY <2>2, <2>3
<1> QED BY <1>2, <1>3 DEF Walker

LEMMA EndReadMild ==
  ASSUME Known, NEW w \in Walker, Walking(w, "read"), EndRead(w),
         UNCHANGED <<fs, tree_op, ent, pend, goal, thru, refused>>
  PROVE  Mild'
<1>1. CASE w = "in"
  <2>1. pc = "write" /\ pend \in Under[pend] /\ tree_op = "rm"
    BY <1>1, InsideAt
  <2>2. /\ UNCHANGED <<at, subs, pc>>
        /\ \A v \in Walker \ {"in"} : ph'[v] = ph[v] /\ todo'[v] = todo[v]
    BY <1>1, <2>1, KnownParts, WalkTypes DEF EndRead
  <2> QED BY <1>1, <2>1, <2>2, InsideStep
<1>2. CASE w = "out"
  <2>1. pc = "walk" /\ ph["out"] = "read" /\ ph["in"] = "off" /\ at["out"] \in Node
    BY <1>2, WalkingAt
  <2>2. CASE Pop("out")
    BY <2>1, <2>2, PopMild
  <2>3. CASE ~Pop("out")
    <3>1. /\ ph'["out"] = "sub" /\ ph'["in"] = "off" /\ pc' = pc
          /\ subs' = subs /\ todo'["out"] = {}
      BY <1>2, <2>1, <2>3, KnownParts, NowParts, WalkTypes DEF EndRead
    <3>2. \A n \in Node : Later(n)' => Later(n)
      BY <2>1, <3>1, LaterShrinks DEF Later
    <3> QED BY <2>1, <3>1, <3>2, WalkMild DEF Ahead
  <2> QED BY <2>2, <2>3
<1> QED BY <1>1, <1>2 DEF Walker

LEMMA ReadEntryMild ==
  ASSUME Known, NEW w \in Walker, Walking(w, "read"), NEW n \in todo[w],
         ReadEntry(w, n), UNCHANGED <<tree_op, ent, goal, thru>>
  PROVE  Mild'
<1>1. /\ ph' = ph /\ at' = at /\ todo'[w] = todo[w] \ {n} /\ n \in Node
      /\ \A v \in Walker \ {w} : todo'[v] = todo[v]
  BY KnownParts, WalkTypes DEF ReadEntry
<1>2. CASE w = "in"
  <2>1. /\ pc = "write" /\ tree_op = "rm" /\ n \in Under[pend]
        /\ SideOf("in") = dst
    BY <1>2, InsideAt, KnownParts, NowParts
  <2>2. /\ UNCHANGED <<pend, pc, refused>>
        /\ \A v \in Walker \ {"in"} : subs'[v] = subs[v]
    BY <1>2, <2>1, KnownParts, WalkTypes DEF ReadEntry, rm_file
  <2>3. fs' = fs \/ (fs[dst][n] # Dir /\ rm_file(dst, n))
    BY <1>2, <2>1 DEF ReadEntry
  <2>4. fs' = fs \/ /\ fs'[src] = fs[src] /\ fs'[dst][n] = Absent
                    /\ \A m \in Node \ {n} : fs'[dst][m] = fs[dst][m]
    BY <1>1, <2>3, KnownParts, WalkTypes, Gone
  <2> QED BY <1>1, <1>2, <2>1, <2>2, <2>4, InsideStep
<1>3. CASE w = "out"
  <2>1. /\ pc = "walk" /\ ph["out"] = "read" /\ ph["in"] = "off"
        /\ at["out"] \in Node /\ SideOf("out") = src /\ ph'["in"] = "off"
        /\ Parent[n] = at["out"]
    BY <1>1, <1>3, WalkingAt, KnownParts, NowParts, AtIsBegun
  <2>2. CASE /\ fs[src][n] = Dir
             /\ subs' = [subs EXCEPT !["out"] = @ \cup {n}]
             /\ UNCHANGED <<fs, flags, fails, pc, pend, refused>>
    <3>1. subs'["out"] = subs["out"] \cup {n}
      BY <2>2, KnownParts, WalkTypes DEF Walker
    <3>2. \A m \in Node : Later(m)' => Later(m)
      BY <1>1, <1>3, <2>1, <3>1, LaterShrinks DEF Later
    <3> QED BY <1>1, <2>1, <2>2, <3>2, WalkMild DEF Ahead
  <2>3. CASE /\ fs[src][n] # Dir /\ tree_op = "rm" /\ rm_file(src, n)
             /\ UNCHANGED <<subs, pc, pend>>
    <3>1. fs'[dst] = fs[dst] /\ \A m \in Node \ {n} : fs'[src][m] = fs[src][m]
      BY <1>1, <2>3, KnownParts, WalkTypes, Gone
    <3>2. n \in Under[at["out"]]
      BY <1>1, <2>1, UnderStep, KnownParts, NodeAssumption
    <3>3. \A m \in Node : Later(m)' => Later(m)
      BY <1>1, <1>3, <2>1, <2>3, LaterShrinks DEF Later
    <3>4. refused' = refused
      BY <2>3 DEF rm_file
    <3> QED BY <1>1, <2>1, <2>3, <3>1, <3>2, <3>3, <3>4, WalkMild DEF Ahead
  <2>4. CASE /\ fs[src][n] # Dir /\ tree_op = "cp" /\ pend' = n /\ pc' = "copy"
             /\ UNCHANGED <<fs, flags, fails, subs, refused>>
    <3>1. Copies /\ op # "del" /\ goal = "copy"
      BY <2>1, <2>4, WalkCopies
    <3>2. \A m \in Node : Ahead(m)' => Later(m)
      BY <1>1, <1>3, <2>1, <2>4, <3>1, Fixed, KnownParts
         DEF Ahead, Later, Waiting, Seen, Remaining, Copies, Listed
    <3>3. Refusals'
      BY <1>1, <2>1, <2>4, <3>1, <3>2, RefusalsStay, KnownParts DEF Ahead
    <3>4. Course'
      BY <1>1, <1>3, <2>1, <2>4, <3>1, Fixed, KnownParts DEF Course, AtFile
    <3>5. NoLink'
      BY <2>4, NoLinkStays
    <3> QED BY <3>3, <3>4, <3>5 DEF Mild
  <2> QED BY <1>3, <2>1, <2>2, <2>3, <2>4 DEF ReadEntry
<1> QED BY <1>2, <1>3 DEF Walker

LEMMA ReadMild ==
  ASSUME Known, NEW w \in Walker, Read(w)
  PROVE  Mild'
<1>1. UNCHANGED <<tree_op, ent, goal, thru>> /\ Walking(w, "read")
  BY DEF Read
<1>2. CASE EndRead(w) /\ UNCHANGED <<fs, pend, refused>>
  BY <1>1, <1>2, EndReadMild
<1>3. CASE \E n \in todo[w] : ReadEntry(w, n)
  BY <1>1, <1>3, ReadEntryMild
<1> QED BY <1>2, <1>3 DEF Read

LEMMA SubdirsMild ==
  ASSUME Known, NEW w \in Walker, Subdirs(w)
  PROVE  Mild'
<1>1. UNCHANGED <<tree_op, ent, pend, goal, thru>> /\ Walking(w, "sub")
  BY DEF Subdirs
<1>2. ASSUME NEW n \in subs[w], Parent[n] = at[w], Descend(w, n),
             subs' = [subs EXCEPT ![w] = @ \ {n}],
             UNCHANGED <<fs, flags, fails, todo, pc, refused>>
      PROVE  Mild'
  <2>1. /\ ph'[w] = "enter" /\ at'[w] = n /\ subs'[w] = subs[w] \ {n}
        /\ \A v \in Walker \ {w} : /\ ph'[v] = ph[v] /\ at'[v] = at[v]
                                   /\ subs'[v] = subs[v]
    BY <1>2, KnownParts, WalkTypes DEF Descend
  <2>2. CASE w = "in"
    BY <1>1, <1>2, <2>1, <2>2, InsideAt, InsideStep
  <2>3. CASE w = "out"
    <3>1. pc = "walk" /\ ph["out"] = "sub" /\ ph["in"] = "off" /\ ph'["in"] = "off"
      BY <1>1, <2>1, <2>3, WalkingAt DEF Walker
    <3>2. \A m \in Node : Later(m)' => Later(m)
      BY <1>1, <1>2, <2>1, <2>3, <3>1, Fixed, KnownParts
         DEF Later, Waiting, Seen, Remaining, Copies, Listed
    <3> QED BY <1>1, <1>2, <2>1, <2>3, <3>1, <3>2, WalkMild DEF Ahead
  <2> QED BY <2>2, <2>3 DEF Walker
<1>3. ASSUME Pop(w), \/ rm_dir(SideOf(w), at[w])
                     \/ UNCHANGED <<fs, flags, fails, refused>>
      PROVE  Mild'
  <2>1. refused' = refused
    BY <1>3 DEF rm_dir
  <2>2. CASE w = "in"
    <3>1. /\ ph["in"] # "off" /\ pc = "write" /\ at["in"] \in Node
          /\ at["in"] \in Under[pend] /\ SideOf("in") = dst
      BY <1>1, <2>2, InsideAt, KnownParts, NowParts
    <3>2. fs' = fs \/ /\ fs'[src] = fs[src] /\ fs'[dst][at["in"]] = Absent
                      /\ \A m \in Node \ {at["in"]} : fs'[dst][m] = fs[dst][m]
      BY <1>3, <2>2, <3>1, KnownParts, WalkTypes, Gone
    <3> QED BY <1>1, <1>3, <2>1, <2>2, <3>1, <3>2, PopDoes, InsideStep
  <2>3. CASE w = "out"
    <3>1. /\ pc = "walk" /\ ph["out"] = "sub" /\ ph["in"] = "off"
          /\ at["out"] \in Node /\ SideOf("out") = src
          /\ at["out"] \in Under[at["out"]]
      BY <1>1, <2>3, WalkingAt, KnownParts, NowParts
    <3>2. /\ fs'[dst] = fs[dst]
          /\ \A m \in Node \ {at["out"]} : fs'[src][m] = fs[src][m]
      BY <1>3, <2>3, <3>1, KnownParts, WalkTypes, Gone
    <3> QED BY <1>1, <1>3, <2>1, <2>3, <3>1, <3>2, PopMild
  <2> QED BY <2>2, <2>3 DEF Walker
<1> QED BY <1>2, <1>3 DEF Subdirs

LEMMA MkdirMild ==
  ASSUME Known, Mkdir
  PROVE  Mild'
<1>1. /\ UNCHANGED <<tree_op, ent, goal, thru, refused>>
      /\ pc = "walk" /\ ph["out"] = "mkdir" /\ ph["in"] = "off"
      /\ at["out"] \in Node
  BY WalkingAt DEF Mkdir
<1>2. /\ pend = at["out"] /\ tree_op # "rm"
      /\ at["out"] \notin refused
  BY <1>1, KnownParts DEF Basic, Control, CopyOK, Refusals
<1>3. \/ mkdir("out", at["out"])
      \/ Created("out") /\ UNCHANGED fs
  BY <1>2 DEF Mkdir
<1>4. /\ Pop("out") \/ Created("out")
      /\ fs'[src] = fs[src]
      /\ \A m \in Node \ {at["out"]} : fs'[dst][m] = fs[dst][m]
  BY <1>1, <1>3, MkdirDoes
<1>5. Pop("out") \/ Goto("out", "opendir")
  BY <1>4 DEF Created
<1> QED BY <1>1, <1>2, <1>4, <1>5, CreatedMild

-----------------------------------------------------------------------------
(* Files.                                                                  *)

\* cp_file() returns: the file was written, refused, or left as it was.
LEMMA FileEndMild ==
  ASSUME Known, AtFile, ph["in"] = "off", ph["out"] # "mkdir",
         NEW ok \in BOOLEAN, CopyRet(ok), UNCHANGED <<ent, goal, todo, subs>>,
         ph'["out"] = ph["out"], ph'["in"] = "off", at'["out"] = at["out"],
         thru' = thru \/ Trouble,
         fs'[src] = fs[src],
         \A n \in Node \ {pend} : fs'[dst][n] = fs[dst][n],
         pend \in refused => fs'[dst][pend] = fs[dst][pend],
         \/ refused' = refused
         \/ /\ refused' = refused \cup {pend} /\ fs' = fs
            /\ fs[dst][pend] = fs0[dst][pend]
  PROVE  Mild'
<1>1. /\ pend \in Node /\ ~Later(pend) /\ goal = "copy" /\ op # "del"
      /\ pend \in Under[pend]
  BY FileIsBegun, KnownParts DEF Course
<1>2. pc' \in {"walk", "after", "entry"} /\ pend' = Root
  BY DEF CopyRet
<1>3. \A n \in Node : Ahead(n)' => Later(n)
  BY <1>2, Fixed, KnownParts
     DEF Ahead, Later, Waiting, Seen, Remaining, Copies, Listed
<1>4. \A n \in refused : n \in Node
  BY KnownParts, BasicParts
<1>5. Refusals'
  BY <1>1, <1>2, <1>3, <1>4, RefusalsStay DEF Ahead
<1>6. Course'
  BY <1>1, <1>2, Fixed, KnownParts DEF Course, AtFile
<1>7. NoLink'
  <2>1. Trouble => Trouble'
    BY KnownParts DEF Onward, Trouble
  <2>2. CASE thru' = thru
    BY <1>2, <2>2, NoLinkStays
  <2>3. CASE Trouble
    BY <2>1, <2>3 DEF NoLink
  <2> QED BY <2>2, <2>3
<1> QED BY <1>5, <1>6, <1>7 DEF Mild

\* cp_file() goes on with what is in the way, or with writing.
LEMMA FileGoesMild ==
  ASSUME Known, pc = "copy", ph["in"] = "off", pc' \in {"unlink", "write"},
         UNCHANGED <<fs, ent, goal, pend, todo, subs, thru>>,
         ph'["out"] = ph["out"], at'["out"] = at["out"],
         \/ refused' = refused
         \/ /\ refused' = refused \cup {pend} /\ pc' = "write"
            /\ ph'["in"] = "off" /\ InWay(pend),
         pc' = "write" /\ ph'["in"] = "off" =>
           Trouble' \/ fs[src][pend].k # "reg" \/ fs[dst][pend].k # "lnk"
  PROVE  Mild'
<1>1. AtFile /\ ph["out"] # "mkdir"
  BY KnownParts DEF AtFile, Basic, Control
<1>2. /\ pend \in Node /\ ~Later(pend) /\ goal = "copy" /\ op # "del"
      /\ pend \in Under[pend]
  BY <1>1, FileIsBegun, KnownParts DEF Course
<1>3. \A n \in Under[pend] : n \notin refused /\ fs[dst][n] = fs0[dst][n]
  BY <1>2, KnownParts DEF Refusals, Ahead, Fresh
<1>4. \A n \in Node : Ahead(n)' => Later(n)
  BY Fixed, KnownParts DEF Ahead, Later, Waiting, Seen, Remaining, Copies, Listed
<1>5. InWay(pend) => InWay(pend)'
  BY Fixed, KnownParts DEF InWay
<1>6. Refusals'
  BY <1>1, <1>2, <1>3, <1>4, <1>5, RefusalsStay DEF Ahead
<1>7. Course'
  BY <1>1, <1>2, Fixed, KnownParts DEF Course, AtFile
<1>8. NoLink'
  BY Fixed, KnownParts, NoLinkStays
<1> QED BY <1>6, <1>7, <1>8 DEF Mild

LEMMA CopyFileMild ==
  ASSUME Known, cp_file
  PROVE  Mild'
<1>1. /\ pc = "copy" /\ ph["in"] = "off" /\ AtFile /\ ph["out"] # "mkdir"
      /\ UNCHANGED <<fs, ent, goal, todo, subs, thru>>
  BY KnownParts DEF cp_file, Running, AtFile, Basic, Control
<1>2. /\ pend \in Node /\ fs[src][pend] \in Leaf /\ pend \in Under[pend]
  BY <1>1, FileIsBegun, KnownParts
<1>3. \A n \in Under[pend] : n \notin refused /\ fs[dst][n] = fs0[dst][n]
  BY <1>1, <1>2, KnownParts DEF Refusals, Ahead, Fresh
<1>4. ASSUME NEW ok \in BOOLEAN, CopyRet(ok), UNCHANGED <<ph, at>>,
             refused' = refused \/ refused' = refused \cup {pend}
      PROVE  Mild'
  BY <1>1, <1>2, <1>3, <1>4, FileEndMild
<1>5. ASSUME overwrite_rm(pend), InWay(pend)
      PROVE  Mild'
  <2>1. CASE /\ fs[dst][pend] # Dir /\ DelDialog(pend, TRUE) /\ pc' = "unlink"
             /\ UNCHANGED <<tree_op, pend, ph, at, fails>>
    BY <1>1, <2>1, FileGoesMild DEF DelDialog
  <2>2. CASE /\ DelDialog(pend, TRUE) /\ pc' = "unlink"
             /\ UNCHANGED <<pend, ph, at>>
    BY <1>1, <2>2, FileGoesMild DEF DelDialog
  <2>3. CASE /\ DelDialog(pend, TRUE) /\ pc' = "write" /\ Descend("in", pend)
             /\ UNCHANGED pend
    <3>1. /\ ph'["out"] = ph["out"] /\ at'["out"] = at["out"]
          /\ ph'["in"] # "off" /\ refused' = refused
      BY <2>3, KnownParts, WalkTypes DEF Descend, Walker, DelDialog
    <3> QED BY <1>1, <2>3, <3>1, FileGoesMild
  <2>4. CASE /\ DelDialog(pend, FALSE) /\ Suspect /\ pc' = "write"
             /\ UNCHANGED <<pend, ph, at, fails>>
    <3>1. refused' = refused \cup {pend} /\ Trouble'
      BY <2>4 DEF DelDialog, Suspect, Trouble
    <3> QED BY <1>1, <1>5, <2>4, <3>1, FileGoesMild
  <2>5. CASE /\ DelDialog(pend, FALSE) /\ CopyRet(FALSE)
             /\ UNCHANGED <<ph, at, fails>>
    BY <1>4, <2>5 DEF DelDialog
  <2> QED BY <1>5, <2>1, <2>2, <2>3, <2>4, <2>5 DEF overwrite_rm
<1>6. CASE EscTyped /\ CopyRet(FALSE) /\ UNCHANGED <<refused, ph, at>>
  BY <1>4, <1>6
<1>7. ASSUME pc' = "write", UNCHANGED <<pend, ph, at, refused>>,
             fs[dst][pend].k # "lnk"
      PROVE  Mild'
  BY <1>1, <1>7, FileGoesMild
<1>8. CASE fs[src][pend].k = "reg" /\ cp_reg(pend)
  <2>1. CASE fs[dst][pend] = Absent /\ pc' = "write" /\ UNCHANGED <<refused, pend, ph, at>>
    BY <1>7, <2>1, Kinds
  <2>2. CASE CopyRet(TRUE) /\ UNCHANGED <<refused, ph, at>>
    BY <1>4, <2>2
  <2>3. CASE /\ fs[dst][pend].k = "reg" /\ UNCHANGED <<ph, at>>
             /\ DelDialog(pend, TRUE) /\ pc' = "write" /\ UNCHANGED pend
    BY <1>7, <2>3 DEF DelDialog
  <2>4. CASE DelDialog(pend, FALSE) /\ CopyRet(FALSE) /\ UNCHANGED <<ph, at>>
    BY <1>4, <2>4 DEF DelDialog
  <2>5. CASE fs[dst][pend].k \in {"lnk", "dir"} /\ overwrite_rm(pend)
    BY <1>5, <1>8, <2>5 DEF InWay
  <2> QED BY <1>8, <2>1, <2>2, <2>3, <2>4, <2>5 DEF cp_reg
<1>9. CASE fs[src][pend].k = "lnk" /\ cp_link(pend)
  <2>1. CASE CopyRet(FALSE) /\ UNCHANGED <<refused, ph, at>>
    BY <1>4, <2>1
  <2>2. CASE CopyRet(TRUE) /\ UNCHANGED <<refused, ph, at>>
    BY <1>4, <2>2
  <2>3. CASE fs[dst][pend] = Absent /\ pc' = "write" /\ UNCHANGED <<refused, pend, ph, at>>
    BY <1>7, <2>3, Kinds
  <2>4. CASE fs[dst][pend] # Absent /\ overwrite_rm(pend)
    BY <1>5, <1>9, <2>4 DEF InWay
  <2> QED BY <1>9, <2>1, <2>2, <2>3, <2>4 DEF cp_link
<1> QED BY <1>6, <1>8, <1>9 DEF cp_file

LEMMA UnlinkMild ==
  ASSUME Known, UnlinkTarget
  PROVE  Mild'
<1>1. /\ pc = "unlink" /\ ph["in"] = "off" /\ AtFile /\ remove(dst, pend)
      /\ pc' = IF ph["out"] = "mkdir" THEN "walk" ELSE "write"
      /\ UNCHANGED <<tree_op, ent, pend, goal, ph, at, todo, subs, thru>>
  BY DEF UnlinkTarget, Running, AtFile, walk
<1>2. /\ pend \in Node /\ Under[pend] \cap refused = {} /\ pend \in Under[pend]
      /\ goal = "copy" /\ op # "del"
      /\ ph["out"] = "mkdir" => pend = at["out"]
  BY <1>1, KnownParts DEF Basic, Control, Refusals, Course
<1>3. ~Later(pend)
  BY <1>1, <1>2, FileIsBegun, AtIsBegun DEF Later
<1>4. rm_dir(dst, pend) \/ (fs[dst][pend] # Dir /\ rm_file(dst, pend))
  BY <1>1 DEF remove
<1>5. /\ refused' = refused
      /\ \/ fs' = fs
         \/ /\ fs'[src] = fs[src] /\ fs'[dst][pend] = Absent
            /\ \A m \in Node \ {pend} : fs'[dst][m] = fs[dst][m]
  BY <1>2, <1>4, KnownParts, WalkTypes, Gone DEF rm_dir, rm_file
<1>6. \A n \in Node : Ahead(n)' => Later(n)
  BY <1>1, Fixed, KnownParts
     DEF Ahead, Later, Waiting, Seen, Remaining, Copies, Listed
<1>7. Refusals'
  BY <1>1, <1>2, <1>3, <1>5, <1>6, RefusalsStay, KnownParts, BasicParts DEF Ahead
<1>8. Course'
  BY <1>1, <1>2, Fixed, KnownParts DEF Course, AtFile, Basic, Control
<1>9. NoLink'
  <2>1. Trouble' \/ fs'[dst][pend].k # "lnk"
    <3>1. CASE fs' # fs
      BY <1>5, <3>1, Kinds
    <3>2. CASE fs' = fs /\ fs[dst][pend] = Dir
      BY <3>2, Kinds
    <3>3. CASE fs' = fs /\ fs[dst][pend] # Dir
      <4>1. rm_file(dst, pend)
        BY <1>1, <3>3 DEF remove
      <4>2. CASE Put(dst, pend, Absent)
        BY <1>2, <3>3, <4>2, KnownParts, WalkTypes, Kinds DEF Put
      <4>3. CASE ~Put(dst, pend, Absent)
        <5>1. fails \in 0..MaxFail /\ fs_error => Trouble'
          BY <1>1, KnownParts DEF Onward, Trouble
        <5>2. fails \in Nat
          BY KnownParts, BasicParts
        <5> QED BY <4>1, <4>3, <5>1, <5>2, KnownParts, BasicParts
                DEF rm_file, EscTyped, Trouble, Fail, Onward
      <4> QED BY <4>2, <4>3
    <3> QED BY <3>1, <3>2, <3>3
  <2> QED BY <1>1, <2>1, Fixed, KnownParts, NoLinkStays
<1> QED BY <1>7, <1>8, <1>9 DEF Mild

LEMMA WriteMild ==
  ASSUME Known, WriteFile
  PROVE  Mild'
<1>1. /\ pc = "write" /\ ph["in"] = "off" /\ AtFile /\ ph["out"] # "mkdir"
      /\ UNCHANGED <<ent, goal, ph, at, todo, subs, refused>>
  BY KnownParts DEF WriteFile, Running, AtFile, Basic, Control, walk
<1>2. /\ pend \in Node /\ fs[src][pend] \in Leaf
      /\ pend \in refused => InWay(pend)
  BY <1>1, FileIsBegun, KnownParts DEF Refusals
<1>3. fs \in [Side -> [Node -> Obj]] /\ src \in Side /\ dst \in Side /\ src # dst
  BY KnownParts, WalkTypes
<1> DEFINE Writes == /\ fs'[src] = fs[src] /\ ~InWay(pend)
                     /\ \A n \in Node \ {pend} : fs'[dst][n] = fs[dst][n]
<1>4. fs' = fs \/ Writes
  <2>1. CASE fs[src][pend].k = "reg" /\ write_reg(pend)
    <3>1. Writable(pend) => ~InWay(pend)
      BY <2>1, Kinds DEF Writable, InWay
    <3>2. \/ UNCHANGED fs
          \/ /\ Writable(pend) /\ fs'[src] = fs[src]
             /\ \A n \in Node \ {pend} : fs'[dst][n] = fs[dst][n]
      <4>1. ASSUME NEW o, Put(dst, pend, o)
            PROVE  fs'[src] = fs[src] /\ \A n \in Node \ {pend} : fs'[dst][n] = fs[dst][n]
        BY <1>3, <4>1 DEF Put
      <4>2. UNCHANGED fs \/ (Writable(pend) /\ \E o : Put(dst, pend, o))
        BY <2>1 DEF write_reg
      <4> QED BY <4>1, <4>2
    <3> QED BY <3>1, <3>2
  <2>2. CASE fs[src][pend].k = "lnk" /\ write_lnk(pend)
    <3>1. fs[dst][pend] = Absent => ~InWay(pend)
      BY <2>2, Kinds DEF InWay
    <3>2. \/ UNCHANGED fs
          \/ /\ fs[dst][pend] = Absent /\ fs'[src] = fs[src]
             /\ \A n \in Node \ {pend} : fs'[dst][n] = fs[dst][n]
      BY <1>3, <2>2 DEF write_lnk, Put
    <3> QED BY <3>1, <3>2
  <2> QED BY <2>1, <2>2 DEF WriteFile
<1>5. thru' = thru \/ Trouble
  <2>1. CASE fs[src][pend].k = "reg" /\ fs[dst][pend].k = "lnk"
    BY <1>1, <2>1, KnownParts DEF NoLink
  <2>2. CASE fs[src][pend].k # "reg" \/ fs[dst][pend].k # "lnk"
    BY <2>2 DEF WriteFile, write_reg, write_lnk
  <2> QED BY <2>1, <2>2
<1>6. CopyRet(TRUE) \/ CopyRet(FALSE)
  BY DEF WriteFile, write_reg, write_lnk
<1> QED BY <1>1, <1>2, <1>4, <1>5, <1>6, FileEndMild
-----------------------------------------------------------------------------
(* Entries.                                                                *)

\* Between two entries nobody walks.
LEMMA BetweenMild ==
  ASSUME Known, pc \in {"entry", "idle", "after", "rmsrc"}
  PROVE  /\ ph["out"] = "off" /\ ph["in"] = "off" /\ ~Copies
         /\ todo["out"] = {} /\ \A n : Ahead(n) <=> Waiting(n)
BY KnownParts DEF Basic, Control, Copies, Ahead, Later

\* The next entry: what it holds was waiting, the rest goes on to wait.
LEMMA EntryBegins ==
  ASSUME Known, NEW u \in Remaining, EntryStep(u)
  PROVE  /\ u \in sel /\ u \in Entry /\ u \in Node /\ ent' = u
         /\ pc = "entry" /\ refused = refused \cap Node
         /\ Seen' = Seen \cup {u}
         /\ \A n \in Node : Waiting(n)' <=> Waiting(n) /\ n \notin Under[u]
         /\ \A n \in Under[u] : n \in Node /\ Waiting(n) /\ Fresh(n)
         /\ op = "del" => refused = {}
         /\ \A n \in Node : Waiting(n) => Fresh(n) /\ fs[src][n] = fs0[src][n]
<1>1. u \in sel /\ u \in Entry /\ u \in Node /\ ent' = u /\ pc = "entry"
  BY KnownParts DEF Remaining, EntryStep
<1>2. Seen' = Seen \cup {u} /\ u \notin Seen
  <2>1. \A m \in sel : m \in Nat
    BY KnownParts, NodeAssumption
  <2>2. ent \in Nat /\ u \in Nat
    BY <1>1, <2>1, KnownParts DEF Course, Root
  <2>3. \A m \in sel : m > u => m > ent
    BY <2>1, <2>2 DEF Remaining
  <2>4. \A m \in sel : m > ent => m = u \/ m > u
    BY <1>1, <2>1, <2>2 DEF EntryStep, First, Remaining
  <2>5. u > ent /\ ~(u > u)
    BY <2>2 DEF Remaining
  <2>6. Remaining' = Remaining \ {u}
    BY <1>1, <2>3, <2>4, <2>5, Fixed, KnownParts DEF Remaining
  <2> QED BY <1>1, <2>6, Fixed, KnownParts DEF Seen
<1>3. \A n \in Node : Waiting(n)' <=> Waiting(n) /\ n \notin Under[u]
  BY <1>2 DEF Waiting
<1>4. \A n \in Under[u] : n \in Node /\ Waiting(n)
  BY <1>1, <1>2, KnownParts, EntriesApart DEF Waiting
<1>5. \A n \in Node : Waiting(n) => Fresh(n) /\ fs[src][n] = fs0[src][n]
  BY KnownParts DEF Refusals, Ahead, Later
<1>6. op = "del" => refused = {}
  BY KnownParts DEF Refusals
<1> QED BY <1>1, <1>2, <1>3, <1>4, <1>5, <1>6, KnownParts, BasicParts

\* What a step between two entries has to show.
LEMMA EntryMild ==
  ASSUME Known, pc \in {"entry", "idle", "after", "rmsrc"}, Course', thru' = thru,
         pc' \in {"entry", "idle", "walk", "copy", "rmsrc"}, ph'["in"] = "off",
         ph'["out"] # "mkdir",
         \A n \in Node : Ahead(n)' => Waiting(n) /\ fs'[dst][n] = fs[dst][n],
         \A n \in Node : Waiting(n)' =>
           Waiting(n) /\ n \notin refused' /\ fs'[src][n] = fs[src][n],
         \A n \in Node : Waiting(n) => n \notin refused' \/ op = "del",
         \A n \in refused : fs'[dst][n] = fs[dst][n],
         refused' = refused \/ op = "del",
         op = "del" /\ refused' # {} =>
           /\ pc' \in {"entry", "idle"} /\ refused' = {ent'} /\ Remaining' = {}
           /\ fs'[src][ent'] = fs0[src][ent'] /\ ~Copies'
  PROVE  Mild'
<1>1. \A n \in Node : Waiting(n) => Fresh(n) /\ fs[src][n] = fs0[src][n]
  BY KnownParts DEF Refusals, Ahead, Later
<1>2. op = "del" /\ pc' \in {"entry", "idle"} /\ ~Copies' =>
        \A n \in Node : Ahead(n)' => Waiting(n)'
  BY DEF Ahead, Later
<1>3. \A n \in Node : Ahead(n)' => Fresh(n)'
  BY <1>1, <1>2, Fixed, KnownParts DEF Fresh
<1>4. Refusals'
  BY <1>1, <1>3, Fixed, KnownParts DEF Refusals, Onward
<1>5. NoLink'
  BY NoLinkStays
<1> QED BY <1>4, <1>5 DEF Mild

LEMMA NextEntryMild ==
  ASSUME Known, NEW u \in Remaining,
         NoSource(u) \/ RenameEntry(u) \/ CopyEntry(u) \/ DeleteEntry(u)
  PROVE  Mild'
<1>1. EntryStep(u) /\ UNCHANGED <<todo, subs, thru>>
  BY DEF NoSource, RenameEntry, CopyEntry, DeleteEntry, EntryStep
<1>2. /\ u \in sel /\ u \in Entry /\ u \in Node /\ ent' = u /\ pc = "entry"
      /\ \A n \in Node : Waiting(n)' <=> Waiting(n) /\ n \notin Under[u]
      /\ \A n \in Under[u] : n \in Node /\ Waiting(n) /\ Fresh(n)
      /\ op = "del" => refused = {}
      /\ \A n \in Node : Waiting(n) => Fresh(n) /\ fs[src][n] = fs0[src][n]
      /\ u \in Under[u] /\ u \in sel'
  BY <1>1, EntryBegins, KnownParts, Fixed
<1>3. ph["out"] = "off" /\ ph["in"] = "off" /\ ~Copies /\ todo["out"] = {}
  BY <1>2, BetweenMild
<1>4. \A n \in Node : n \in refused => ~Waiting(n) /\ n \notin Under[u]
  BY <1>2 DEF Fresh
<1>5. CASE NoSource(u)
  <2>1. /\ UNCHANGED <<fs, tree_op, pc, pend, goal, ph, at, refused>>
    BY <1>5 DEF NoSource
  <2>2. Course'
    BY <1>2, <1>3, <2>1, Fixed, KnownParts DEF Course, AtFile
  <2>3. \A n \in Node : Ahead(n)' => Waiting(n)
    BY <1>2, <1>3, <2>1 DEF Ahead, Later, Copies
  <2> QED BY <1>1, <1>2, <1>3, <1>4, <2>1, <2>2, <2>3, EntryMild
<1>6. CASE RenameEntry(u)
  <2>1. /\ UNCHANGED <<tree_op, pc, pend, goal, ph, at, refused>> /\ op = "move"
    BY <1>6 DEF RenameEntry, Renames
  <2>2. \A n \in Node : n \notin Under[u] =>
          fs'[src][n] = fs[src][n] /\ fs'[dst][n] = fs[dst][n]
    BY <1>6, KnownParts, WalkTypes DEF RenameEntry, Graft
  <2>3. Course'
    BY <1>2, <1>3, <2>1, Fixed, KnownParts DEF Course, AtFile
  <2>4. \A n \in Node : Ahead(n)' => Waiting(n) /\ n \notin Under[u]
    BY <1>2, <1>3, <2>1 DEF Ahead, Later, Copies
  <2>5. \A n \in refused : n \in Node
    BY KnownParts, BasicParts
  <2> QED BY <1>1, <1>2, <1>3, <1>4, <2>1, <2>2, <2>3, <2>4, <2>5, EntryMild
<1>7. CASE CopyEntry(u)
  <2>1. /\ UNCHANGED <<fs, refused>> /\ goal' = "copy" /\ op # "del"
        /\ \/ /\ ph'["out"] = "enter" /\ at'["out"] = u /\ ph'["in"] = "off"
              /\ pc' = "walk"
           \/ /\ pend' = u /\ pc' = "copy" /\ UNCHANGED <<ph, at>>
    BY <1>3, <1>7, KnownParts, WalkTypes DEF CopyEntry, Descend, Walker
  <2>2. Course'
    BY <1>1, <1>2, <1>3, <2>1, Fixed, KnownParts DEF Course, AtFile
  <2>3. \A n \in Node : Ahead(n)' => Waiting(n)
    BY <1>1, <1>2, <1>3, <2>1, KnownParts, WalkTypes
       DEF Ahead, Later, Copies, Listed, WalkerOK
  <2>4. pc' \in {"walk", "copy"} /\ ph'["in"] = "off" /\ ph'["out"] # "mkdir"
    BY <1>3, <2>1
  <2> QED BY <1>1, <1>2, <1>3, <1>4, <2>1, <2>2, <2>3, <2>4, EntryMild
<1>8. CASE DeleteEntry(u)
  <2>1. UNCHANGED <<fs, pend>> /\ op = "del" /\ refused = {}
    BY <1>2, <1>8 DEF DeleteEntry
  <2>2. CASE /\ ~many /\ DelDialog(u, FALSE)
             /\ UNCHANGED <<fails, pc, goal, ph, at>>
    <3>1. refused' = {u}
      BY <2>1, <2>2 DEF DelDialog
    <3>2. Remaining' = {}
      <4>1. \A m \in sel : m = u /\ ~(m > u)
        BY <1>2, <2>2, NodeAssumption DEF many
      <4> QED BY <1>2, <4>1, Fixed, KnownParts DEF Remaining
    <3>3. Course'
      BY <1>2, <1>3, <2>2, Fixed, KnownParts DEF Course, AtFile
    <3>4. /\ ~Copies' /\ \A n \in Node : Ahead(n)' => Waiting(n)'
      BY <1>2, <1>3, <2>2 DEF Ahead, Later, Copies
    <3> QED BY <1>1, <1>2, <1>3, <2>1, <2>2, <3>1, <3>2, <3>3, <3>4, EntryMild
  <2>3. CASE /\ refused' = refused
             /\ \/ /\ ph'["out"] = "enter" /\ ph'["in"] = "off" /\ goal' = "remove"
                   /\ tree_op' = "rm" /\ pc' = "walk"
                \/ pc' = "rmsrc" /\ UNCHANGED <<goal, ph, at>>
    <3>1. Course'
      BY <1>1, <1>2, <1>3, <2>1, <2>3, Fixed, KnownParts DEF Course, AtFile
    <3>2. \A n \in Node : Ahead(n)' => Waiting(n)
      BY <1>2, <1>3, <2>3 DEF Ahead, Later, Copies
    <3>3. pc' \in {"walk", "rmsrc"} /\ ph'["in"] = "off" /\ ph'["out"] # "mkdir"
      BY <1>3, <2>3
    <3> QED BY <1>1, <1>2, <1>3, <2>1, <2>3, <3>1, <3>2, <3>3, EntryMild
  <2>4. (~many /\ DelDialog(u, TRUE)) \/ (many /\ UNCHANGED <<flags, refused>>) =>
          refused' = refused
    BY DEF DelDialog
  <2>5. Descend("out", u) => ph'["out"] = "enter" /\ ph'["in"] = "off"
    BY <1>3, KnownParts, WalkTypes DEF Descend, Walker
  <2>6. \/ /\ ~many /\ DelDialog(u, FALSE)
           /\ UNCHANGED <<fails, pc, goal, ph, at>>
        \/ /\ refused' = refused
           /\ \/ /\ Descend("out", u) /\ goal' = "remove"
                 /\ tree_op' = "rm" /\ pc' = "walk"
              \/ pc' = "rmsrc" /\ UNCHANGED <<goal, ph, at>>
    BY <1>8, <2>4 DEF DeleteEntry
  <2> QED BY <2>2, <2>3, <2>5, <2>6
<1> QED BY <1>5, <1>6, <1>7, <1>8

LEMMA AfterCopyMild ==
  ASSUME Known, AfterCopy
  PROVE  Mild'
<1>1. /\ pc = "after" /\ UNCHANGED <<fs, ent, pend, todo, subs, thru, refused>>
      /\ op # "del"
  BY KnownParts DEF AfterCopy, Course
<1>2. /\ ph["out"] = "off" /\ ph["in"] = "off" /\ ~Copies /\ todo["out"] = {}
  BY <1>1, BetweenMild
<1>3. \/ /\ ph'["out"] = "enter" /\ ph'["in"] = "off" /\ goal' = "remove"
         /\ tree_op' = "rm" /\ pc' = "walk" /\ op = "move"
      \/ pc' = "rmsrc" /\ op = "move" /\ UNCHANGED <<goal, ph, at>>
      \/ pc' = "entry" /\ UNCHANGED <<goal, ph, at>>
  BY <1>2, KnownParts, WalkTypes DEF AfterCopy, Descend, Removes, Walker
<1>4. Course'
  BY <1>1, <1>2, <1>3, Fixed, KnownParts DEF Course, AtFile
<1>5. \A n : Waiting(n)' <=> Waiting(n)
  BY <1>1, Fixed, KnownParts DEF Waiting, Seen, Remaining
<1>6. \A n \in Node : Ahead(n)' => Waiting(n)
  BY <1>2, <1>3, <1>5 DEF Ahead, Later, Copies
<1>7. \A n \in Node : Waiting(n) => n \notin refused
  BY KnownParts DEF Refusals, Ahead, Later, Fresh
<1>8. /\ pc' \in {"entry", "walk", "rmsrc"} /\ ph'["in"] = "off"
      /\ ph'["out"] # "mkdir"
  BY <1>2, <1>3
<1> QED BY <1>1, <1>2, <1>4, <1>5, <1>6, <1>7, <1>8, EntryMild

LEMMA RemoveSourceMild ==
  ASSUME Known, RemoveSource
  PROVE  Mild'
<1>1. /\ pc = "rmsrc" /\ pc' = "entry" /\ remove(src, ent) /\ ent \in Node
      /\ UNCHANGED <<tree_op, ent, pend, goal, ph, at, todo, subs, thru>>
  BY KnownParts DEF RemoveSource, walk, Basic, Control
<1>2. /\ ph["out"] = "off" /\ ph["in"] = "off" /\ ~Copies /\ todo["out"] = {}
  BY <1>1, BetweenMild
<1>3. rm_dir(src, ent) \/ (fs[src][ent] # Dir /\ rm_file(src, ent))
  BY <1>1 DEF remove
<1>4. refused' = refused /\ fs'[dst] = fs[dst]
      /\ \A m \in Node \ {ent} : fs'[src][m] = fs[src][m]
  BY <1>1, <1>3, KnownParts, WalkTypes, Gone DEF rm_dir, rm_file
<1>5. op = "del" => refused = {}
  BY <1>1, DeleteGoesOn
<1>6. ~Waiting(ent)
  BY <1>1, EntSeen, KnownParts
<1>7. Course'
  BY <1>1, <1>2, Fixed, KnownParts DEF Course, AtFile
<1>8. \A n : Waiting(n)' <=> Waiting(n)
  BY <1>1, Fixed, KnownParts DEF Waiting, Seen, Remaining
<1>9. \A n \in Node : Ahead(n)' => Waiting(n)
  BY <1>1, <1>2, <1>8 DEF Ahead, Later, Copies
<1>10. \A n \in Node : Waiting(n) => n \notin refused
  BY KnownParts DEF Refusals, Ahead, Later, Fresh
<1> QED BY <1>1, <1>2, <1>4, <1>5, <1>6, <1>7, <1>8, <1>9, <1>10, EntryMild

LEMMA EndOfCommandMild ==
  ASSUME Known, EndOfCommand
  PROVE  Mild'
<1>1. /\ pc = "entry" /\ pc' = "idle" /\ Remaining = {}
      /\ UNCHANGED <<fs, tree_op, ent, pend, goal, ph, at, todo, subs, thru, refused>>
  BY DEF EndOfCommand, walk
<1>2. Course'
  BY <1>1, Fixed, KnownParts DEF Course, AtFile
<1>3. /\ Waiting(Root)' \in BOOLEAN
      /\ \A n : Waiting(n)' <=> Waiting(n)
  BY <1>1, Fixed, KnownParts DEF Waiting, Seen, Remaining
<1>4. \A n \in Node : Ahead(n)' => Ahead(n)
  BY <1>1, <1>3 DEF Ahead, Later, Copies, Listed
<1>5. Remaining' = {} /\ fs'[src'] = fs[src]
  BY <1>1, Fixed, KnownParts DEF Remaining
<1>6. Refusals'
  <2>1. /\ src' = src /\ dst' = dst /\ fs0' = fs0 /\ op' = op /\ fs_none' = fs_none
        /\ fs' = fs /\ refused' = refused /\ pend' = pend /\ ent' = ent /\ ph' = ph
    BY <1>1, Fixed, KnownParts DEF EndOfCommand, flags
  <2>2. \A n : Fresh(n)' <=> Fresh(n)
    BY <2>1 DEF Fresh
  <2> QED BY <1>1, <1>3, <1>4, <1>5, <2>1, <2>2, KnownParts DEF Refusals
<1>7. NoLink'
  BY <1>1, NoLinkStays
<1> QED BY <1>2, <1>6, <1>7 DEF Mild

LEMMA NextKeyMild ==
  ASSUME Now, NEW o, NEW s, NEW S \in SUBSET Entry, NEW new, NextKey(o, s, S, new)
  PROVE  Mild'
<1>1. /\ ph["out"] = "off" /\ ph["in"] = "off" /\ todo["out"] = {} /\ pc' = "entry"
      /\ ent' = Root /\ fs' = fs /\ fs0' = fs /\ refused' = {} /\ thru' = {}
      /\ ph' = ph /\ fs_none' = FALSE /\ sel' = S
  BY DEF Now, Basic, Control, NextKey, walk
<1>2. \A n \in Node : Fresh(n)'
  BY <1>1 DEF Fresh
<1> QED BY <1>1, <1>2 DEF Mild, Course, AtFile, Refusals, NoLink

LEMMA StutterMild ==
  ASSUME Mild, UNCHANGED vars
  PROVE  Mild'
BY DEF Mild, Course, AtFile, Refusals, NoLink, Trouble, Ahead, Later, Waiting,
       Seen, Remaining, Copies, Listed, Fresh, InWay, dst, vars, flags, command, walk

LEMMA InitMild == Init => Mild
BY DEF Init, Mild, Course, AtFile, Refusals, NoLink, Fresh, Walker

LEMMA EngineMild ==
  ASSUME Basic, Steady, Mild, Basic', Steady', Engine
  PROVE  Mild'
<1>1. Known
  BY EngineOnward DEF Known, Now
<1>2. \A w \in Walker : Walk(w) => Mild'
  BY <1>1, EnterMild, OpendirMild, ReadMild, SubdirsMild DEF Walk
<1> QED BY <1>1, <1>2, NextEntryMild, AfterCopyMild, RemoveSourceMild,
           EndOfCommandMild, CopyFileMild, UnlinkMild, MkdirMild, WriteMild
        DEF Engine, NextEntry

LEMMA StepMild == Basic /\ Steady /\ Mild /\ [Next]_vars => Mild'
<1> SUFFICES ASSUME Basic, Steady, Mild, [Next]_vars PROVE Mild'
  OBVIOUS
<1>1. Basic' /\ Steady'
  BY StepBasic, StepFine DEF Fine
<1>2. CASE Engine
  BY <1>1, <1>2, EngineMild
<1>3. CASE UNCHANGED vars
  BY <1>3, StutterMild
<1>4. ASSUME NEW o, NEW s, NEW S \in SUBSET Entry, NEW new, NextKey(o, s, S, new)
      PROVE  Mild'
  BY <1>1, <1>4, NextKeyMild DEF Now
<1> QED BY <1>2, <1>3, <1>4 DEF Next

\* What the user said "no" to is still there: whatever else the command does.
THEOREM RefusedStays == Spec => []RefusedIsKept
<1>1. Init => Basic /\ Steady /\ Mild
  BY InitBasic, InitSteady, InitMild
<1>2. Basic /\ Steady /\ Mild /\ [Next]_vars => (Basic /\ Steady /\ Mild)'
  BY StepBasic, StepFine, StepMild DEF Fine
<1>3. Mild => RefusedIsKept
  BY DEF Mild, Refusals, RefusedIsKept
<1> QED BY <1>1, <1>2, <1>3, PTL DEF Spec

\* No link of the target tree is written through, unless a call failed or the
\* user cancelled.
THEOREM LinksStay == Spec => []LinksNotFollowed
<1>1. Init => Basic /\ Steady /\ Mild
  BY InitBasic, InitSteady, InitMild
<1>2. Basic /\ Steady /\ Mild /\ [Next]_vars => (Basic /\ Steady /\ Mild)'
  BY StepBasic, StepFine, StepMild DEF Fine
<1>3. Mild => LinksNotFollowed
  BY DEF Mild, NoLink, Trouble, LinksNotFollowed
<1> QED BY <1>1, <1>2, <1>3, PTL DEF Spec
-----------------------------------------------------------------------------
(* That nothing is lost, and all is done.                                  *)

\* The subdirectories found are in the frames of the walk.
Nested == \A c \in subs["out"] :
            Parent[c] \in Under[ent] /\ at["out"] \in Under[Parent[c]]

\* A command without clash: while an entry is copied its source stays.
CopyPhase == AtFile \/ pc = "after" \/ Copies
RemovePhase == pc = "rmsrc" \/ (ph["out"] # "off" /\ goal = "remove")
Whole ==
  ~Clash /\ op # "del" =>
    /\ \A n \in Node : fs[dst][n] = Dir => fs0[dst][n] = Dir \/ fs0[src][n] = Dir
    /\ CopyPhase => \A n \in Under[ent] : fs[src][n] = fs0[src][n]
    /\ Copies => tree_op = IF op = "empty" THEN "empty" ELSE "cp"
    /\ pc = "unlink" => fs[dst][pend] # Dir
    /\ ph["in"] = "off"

\* What is copied, and what is still to come.
Undisturbed == fails = 0 /\ refused = {} /\ ~Clash
There(n) == fs0[src][n] # Absent =>
              fs[dst][n] = IF Kept(n) THEN fs0[dst][n] ELSE fs0[src][n]
Coming(n) == \/ Ahead(n)
             \/ pc \in {"unlink", "write"} /\ n = pend
             \/ ph["out"] = "mkdir" /\ n = at["out"]
Arrived ==
  Undisturbed /\ op \in {"copy", "move"} =>
    /\ pc = "after" /\ ~Halted => \A n \in Under[ent] : There(n)
    /\ RemovePhase => \A n \in Under[ent] : There(n)
    /\ Copies /\ ~Halted => \A n \in Under[ent] : There(n) \/ Coming(n)
    /\ pc \in {"unlink", "write"} /\ ph["out"] # "mkdir" => ~Kept(pend)
    /\ pc = "write" /\ ~Halted => ~InWay(pend)
    /\ pc = "walk" /\ ph["out"] = "mkdir" /\ ~Halted =>
         fs[dst][at["out"]] = Absent

\* A file that is moved is in one of the two trees.
Safe ==
  Undisturbed /\ op = "move" =>
    \A n \in Node : fs[src][n] = fs0[src][n] \/ There(n)

\* The entries that are done, and what is left of the one that is removed.
Finished(u) ==
  /\ op \in {"copy", "move"} => \A n \in Under[u] : There(n)
  /\ op \in {"move", "del"} => \A n \in Under[u] : fs[src][n] = Absent
Left(n) ==
  \/ at["out"] \in Under[n]
  \/ Listed(n)
  \/ ph["out"] \in {"enter", "opendir"} /\ n \in Under[at["out"]]
Swept ==
  Undisturbed /\ ~Halted =>
    /\ \A u \in Seen : (u = ent => pc \in {"entry", "idle"}) => Finished(u)
    /\ pc = "rmsrc" => \A n \in Under[ent] \ {ent} : fs[src][n] = Absent
    /\ ph["out"] # "off" /\ goal = "remove" =>
         \A n \in Under[ent] : fs[src][n] # Absent => Left(n)

Full  == Nested /\ Whole /\ Arrived /\ Safe /\ Swept
Given == Known /\ Mild' /\ Full

\* Between a directory and a path below it is one of its entries.
LEMMA ChildBetween ==
  ASSUME NEW b \in Node, NEW n \in Under[b], n # b
  PROVE  \E c \in Node : Parent[c] = b /\ n \in Under[c]
<1> SUFFICES ASSUME \A c \in Node : Parent[c] = b => n \notin Under[c]
             PROVE  FALSE
  OBVIOUS
<1> DEFINE S == {k \in Node : n \in Under[k] /\ k \in Under[b] /\ k # b}
<1>1. n \in Node /\ n \in S
  BY Self DEF Under
<1>2. ASSUME NEW k \in S, Parent[k] # Root
      PROVE  Parent[k] \in S
  <2>1. k \in Node /\ Parent[k] \in Node /\ Parent[k] # b
    BY <1>2, NodeAssumption
  <2>2. Parent[k] \in Under[b] /\ k \in Under[Parent[k]]
    BY <1>2, <2>1, UnderStep, Self
  <2> QED BY <1>1, <1>2, <2>1, <2>2, UnderTrans
<1>3. S \in Upward
  BY <1>2 DEF Upward
<1> QED BY <1>1, <1>3 DEF Under

LEMMA GivenParts ==
  ASSUME Given
  PROVE  /\ Known /\ Mild' /\ Nested /\ Whole /\ Arrived /\ Safe /\ Swept
         /\ Course' /\ Refusals' /\ Onward /\ Now
         /\ ~Halted' => ~Halted
         /\ Undisturbed' => Undisturbed
         /\ Undisturbed' => fails' = 0 /\ fails = 0 /\ refused' = {} /\ refused = {}
         /\ Seen' = Seen \/ ent' # ent
<1>1. Known
  BY DEF Given
<1>2. Seen' = Seen \/ ent' # ent
  BY <1>1, Fixed, KnownParts DEF Seen, Remaining
<1> QED BY <1>1, <1>2, Fixed, KnownParts
        DEF Given, Full, Mild, Halted, Undisturbed, Onward

LEMMA ThereStays ==
  ASSUME Given, NEW n, fs'[dst][n] = fs[dst][n]
  PROVE  There(n)' <=> There(n)
BY Fixed, GivenParts, KnownParts DEF There

\* A subtree with nothing at its top, or a file, has nothing else.
LEMMA LeafThere ==
  ASSUME Given, NEW u \in Node, fs0[src][u] # Dir, NEW n \in Under[u], n # u
  PROVE  There(n) /\ fs0[src][n] = Absent
<1>1. fs0[src] \in Tree
  BY GivenParts, KnownParts, WalkTypes
<1> QED BY <1>1, NothingBelow DEF There

\* An entry that is done stays so while another one is worked on.
LEMMA OthersFinished ==
  ASSUME Given, ent' = ent, ent \in Node,
         \A n \in Node \ Under[ent] : /\ fs'[src][n] = fs[src][n]
                                      /\ fs'[dst][n] = fs[dst][n],
         NEW u \in Seen, u # ent, Finished(u)
  PROVE  Finished(u)'
<1>1. u \in Entry /\ u \in Node /\ ent \in Entry /\ Under[u] \subseteq Node
  BY GivenParts, KnownParts, EntSeen
<1>2. \A n \in Under[u] : n \in Node /\ n \notin Under[ent]
  BY <1>1, EntriesApart
<1>3. \A n \in Under[u] : There(n)' <=> There(n)
  BY <1>2, ThereStays
<1> QED BY <1>2, <1>3, Fixed, GivenParts, KnownParts DEF Finished

\* A step of a copy that stays with its entry.
LEMMA CopyFrame ==
  ASSUME Given, ~Clash, op # "del", CopyPhase, ent \in Node,
         ent' = ent, goal' = "copy", fs'[src] = fs[src],
         \A n \in Node \ Under[ent] : fs'[dst][n] = fs[dst][n],
         \A n \in Node : fs'[dst][n] = Dir =>
           fs[dst][n] = Dir \/ (n \in Under[ent] /\ fs[src][n] = Dir),
         ph'["in"] = "off", Copies' => Copies /\ tree_op' = tree_op,
         pc' = "unlink" => fs'[dst][pend'] # Dir,
         pc' \in {"walk", "copy", "unlink", "write", "after", "entry"},
         pc' = "entry" => ~Undisturbed' \/ Halted' \/ op = "empty"
  PROVE  Whole' /\ Safe' /\ Swept'
<1>1. \A n \in Under[ent] : n \in Node /\ fs[src][n] = fs0[src][n]
  BY GivenParts, KnownParts DEF Whole
<1>2. Whole'
  BY <1>1, Fixed, GivenParts, KnownParts DEF Whole
<1>3. Safe'
  <2>1. SUFFICES ASSUME Undisturbed', op = "move", NEW n \in Node
                 PROVE  (fs[src][n] = fs0[src][n] \/ There(n))'
    BY Fixed, GivenParts, KnownParts DEF Safe
  <2>2. CASE n \in Under[ent]
    BY <1>1, <2>2, Fixed, GivenParts, KnownParts
  <2>3. CASE n \notin Under[ent]
    BY <2>1, <2>3, ThereStays, Fixed, GivenParts, KnownParts DEF Safe
  <2> QED BY <2>2, <2>3
<1>4. Swept'
  <2>1. SUFFICES ASSUME Undisturbed', ~Halted', NEW u \in Seen, u # ent
                 PROVE  Finished(u)'
    BY Fixed, GivenParts, KnownParts DEF Swept, Finished
  <2> QED BY <2>1, OthersFinished, GivenParts DEF Swept
<1> QED BY <1>2, <1>3, <1>4

\* A step of the removal of an entry.
LEMMA RemoveFrame ==
  ASSUME Given, ~Clash, RemovePhase, ent \in Node, ent' = ent, fs'[dst] = fs[dst],
         \A n \in Node \ Under[ent] : fs'[src][n] = fs[src][n],
         ph'["in"] = "off", ph'["out"] # "mkdir", ph'["out"] # "off" => goal' = "remove",
         pc' \in {"walk", "entry"},
         Undisturbed' /\ ~Halted' /\ pc' = "entry" =>
           \A n \in Under[ent] : fs'[src][n] = Absent,
         Undisturbed' /\ ~Halted' /\ ph'["out"] # "off" =>
           \A n \in Under[ent] : fs'[src][n] # Absent => Left(n)'
  PROVE  Whole' /\ Arrived' /\ Safe' /\ Swept'
<1>1. Whole'
  BY Fixed, GivenParts, KnownParts DEF Whole, CopyPhase, Copies, AtFile
<1>2. op \in {"move", "del"}
  BY GivenParts, KnownParts DEF Course, RemovePhase
<1>3. \A n : There(n)' <=> There(n)
  BY ThereStays
<1>4. Undisturbed' /\ op = "move" => \A n \in Under[ent] : There(n)'
  BY <1>3, GivenParts DEF Arrived
<1>5. Arrived'
  BY <1>2, <1>4, Fixed, GivenParts, KnownParts DEF Arrived, Copies
<1>6. Safe'
  <2>1. SUFFICES ASSUME Undisturbed', op = "move", NEW n \in Node
                 PROVE  (fs[src][n] = fs0[src][n] \/ There(n))'
    BY Fixed, GivenParts, KnownParts DEF Safe
  <2>2. CASE n \in Under[ent]
    BY <1>4, <2>1, <2>2
  <2>3. CASE n \notin Under[ent]
    BY <1>3, <2>1, <2>3, Fixed, GivenParts, KnownParts DEF Safe
  <2> QED BY <2>2, <2>3
<1>7. Swept'
  <2>1. ASSUME Undisturbed', ~Halted', NEW u \in Seen, u # ent
        PROVE  Finished(u)'
    BY <2>1, OthersFinished, GivenParts DEF Swept
  <2>2. ASSUME Undisturbed', ~Halted', pc' = "entry"
        PROVE  Finished(ent)'
    BY <1>2, <1>4, <2>2, Fixed, GivenParts, KnownParts DEF Finished
  <2> QED BY <2>1, <2>2, Fixed, GivenParts, KnownParts DEF Swept
<1> QED BY <1>1, <1>5, <1>6, <1>7
-----------------------------------------------------------------------------
(* The steps of the walk preserve Full.                                    *)

LEMMA InsideNever ==
  ASSUME Given, ~Clash
  PROVE  ph["in"] = "off"
BY GivenParts, KnownParts, NowParts DEF Whole, Course, AtFile

LEMMA NestedStays ==
  ASSUME Given, ent' = ent, at'["out"] = at["out"],
         \A c \in subs'["out"] : c \in subs["out"] \/ (ent \in Node /\
            at["out"] \in Node /\ at["out"] \in Under[ent] /\ Parent[c] = at["out"])
  PROVE  Nested'
<1>1. at["out"] \in Node => at["out"] \in Under[at["out"]]
  BY GivenParts, KnownParts
<1> QED BY <1>1, GivenParts DEF Nested

LEMMA PopNested ==
  ASSUME Given, ent' = ent, ph["out"] # "off", Pop("out")
  PROVE  Nested'
<1>1. at["out"] \in Node /\ ent \in Node /\ TopOf("out") = ent
      /\ at["out"] \in Under[ent]
  BY GivenParts, AtIsBegun DEF TopOf
<1>2. CASE at["out"] = TopOf("out")
  <2>1. subs'["out"] = {}
    BY <1>2, GivenParts, KnownParts, WalkTypes DEF Pop, Walker
  <2> QED BY <2>1 DEF Nested
<1>3. CASE at["out"] # TopOf("out")
  <2>1. /\ at'["out"] = Parent[at["out"]]
        /\ subs'["out"] = {c \in subs["out"] : Parent[c] # at["out"]}
    BY <1>3, GivenParts, PopDoes DEF Walker
  <2>2. ASSUME NEW c \in subs'["out"]
        PROVE  Parent[c] \in Under[ent] /\ at'["out"] \in Under[Parent[c]]
    <3>1. /\ Parent[c] \in Under[ent] /\ at["out"] \in Under[Parent[c]]
          /\ Parent[c] # at["out"]
      BY <2>1, <2>2, GivenParts DEF Nested
    <3>2. Parent[c] \in Node
      BY <1>1, <3>1, GivenParts, KnownParts
    <3> QED BY <1>1, <2>1, <3>1, <3>2, UnderStep
  <2> QED BY <2>2 DEF Nested
<1> QED BY <1>2, <1>3

\* The walk of a copy is in a directory of the source.
LEMMA CopyWalkParts ==
  ASSUME Given, ~Clash, Copies, pc = "walk"
  PROVE  /\ op # "del" /\ goal = "copy" /\ ent \in Node /\ CopyPhase
         /\ ph["out"] # "off" /\ ph["in"] = "off"
         /\ at["out"] \in Node /\ at["out"] \in Under[ent]
         /\ fs[src][at["out"]] = Dir /\ fs0[src][at["out"]] = Dir
         /\ ~Kept(at["out"]) /\ tree_op \in {"cp", "empty"}
         /\ op \in {"copy", "move"} => tree_op = "cp"
         /\ \A n \in Under[ent] : fs[src][n] = fs0[src][n]
<1>1. /\ op # "del" /\ goal = "copy" /\ ph["out"] # "off" /\ CopyPhase
  BY GivenParts, KnownParts DEF Copies, Course, CopyPhase
<1>2. /\ ent \in Node /\ at["out"] \in Node /\ at["out"] \in Under[ent]
      /\ fs[src][at["out"]] = Dir
  BY <1>1, GivenParts, KnownParts, AtIsBegun, NowParts DEF WalkerOK
<1>3. /\ \A n \in Under[ent] : fs[src][n] = fs0[src][n]
      /\ tree_op = IF op = "empty" THEN "empty" ELSE "cp"
  BY <1>1, GivenParts DEF Whole
<1>4. fs0[src][at["out"]] = Dir
  BY <1>2, <1>3
<1>5. ~Kept(at["out"])
  BY <1>4, Kinds DEF Kept
<1> QED BY <1>1, <1>2, <1>3, <1>4, <1>5, InsideNever

\* What has been copied has a directory to be in.
LEMMA InDirThere ==
  ASSUME Given, Copies, Undisturbed, ~Halted, op \in {"copy", "move"},
         NEW n \in Under[ent], ent \in Node, fs[src][n] # Absent,
         Parent[n] # Root => ~Coming(Parent[n])
  PROVE  InDir(dst, n)
<1> SUFFICES ASSUME Parent[n] # Root PROVE fs[dst][Parent[n]] = Dir
  BY DEF InDir
<1>1. n \in Node /\ n # ent /\ Parent[n] \in Node
  BY GivenParts, KnownParts, EntSeen, NodeAssumption
<1>2. Parent[n] \in Under[ent]
  BY <1>1, UnderStep
<1>3. fs[src][Parent[n]] = Dir
  BY <1>1, GivenParts, KnownParts DEF Tree
<1>4. fs0[src][Parent[n]] = Dir
  BY <1>2, <1>3, GivenParts, KnownParts DEF Whole, CopyPhase, Undisturbed
<1>5. There(Parent[n])
  BY <1>2, GivenParts DEF Arrived
<1> QED BY <1>4, <1>5, Kinds DEF There, Kept

LEMMA AtInDir ==
  ASSUME Given, Copies, Undisturbed, ~Halted, op \in {"copy", "move"},
         pc = "walk", ph["out"] \in {"enter", "mkdir"}
  PROVE  InDir(dst, at["out"])
<1>1. /\ at["out"] \in Node /\ at["out"] \in Under[ent] /\ ent \in Node
      /\ fs[src][at["out"]] = Dir /\ fs[src][at["out"]] # Absent
      /\ todo["out"] = {} /\ subs["out"] \subseteq Node
  BY GivenParts, KnownParts, AtIsBegun, NowParts, Kinds DEF WalkerOK
<1> DEFINE p == Parent[at["out"]]
<1>2. ASSUME p # Root PROVE ~Coming(p)
  <2>1. p \in Node /\ at["out"] \in Under[p] /\ p \notin Under[at["out"]]
    BY <1>1, <1>2, UnderStep, KnownParts, GivenParts, NodeAssumption, ParentNotUnder
  <2>2. at["out"] # ent
    BY <1>1, <1>2, GivenParts, EntSeen
  <2>3. p \in Under[ent]
    BY <1>1, <1>2, <2>2, UnderStep
  <2>4. ~Waiting(p)
    BY <1>1, <2>3, GivenParts, EntSeen
  <2>5. ~Listed(p)
    <3>1. SUFFICES ASSUME NEW c \in subs["out"], p \in Under[c] PROVE FALSE
      BY <1>1 DEF Listed
    <3> QED BY <1>1, <2>1, <3>1, UnderTrans, GivenParts, AtIsBegun
  <2>6. p # at["out"]
    BY <2>1, Self
  <2> QED BY <2>1, <2>4, <2>5, <2>6 DEF Coming, Ahead, Later
<1> QED BY <1>1, <1>2, InDirThere

\* The walk of a copy has its directory, or goes up.
LEMMA CreatedFull ==
  ASSUME Given, ~Clash, Copies, pc = "walk", ph["out"] \in {"enter", "mkdir"},
         Pop("out") \/ Goto("out", "opendir"), UNCHANGED <<ent, goal, tree_op>>,
         fs'[src] = fs[src],
         \A n \in Node \ {at["out"]} : fs'[dst][n] = fs[dst][n],
         Undisturbed' /\ ~Halted' /\ op \in {"copy", "move"} =>
           ~Pop("out") /\ fs'[dst][at["out"]] = Dir
  PROVE  Full'
<1>1. /\ op # "del" /\ goal = "copy" /\ ent \in Node /\ CopyPhase
      /\ at["out"] \in Node /\ at["out"] \in Under[ent] /\ ph["in"] = "off"
      /\ fs[src][at["out"]] = Dir /\ fs0[src][at["out"]] = Dir
      /\ ~Kept(at["out"])
  BY CopyWalkParts
<1>2. /\ pc' \in {"walk", "after"} /\ ph'["in"] = "off"
      /\ ph'["out"] \in {"off", "sub", "opendir"}
  BY <1>1, GivenParts, KnownParts, WalkTypes DEF Pop, Goto, Walker
<1>3. Nested'
  <2>1. CASE Pop("out")
    BY <2>1, CopyWalkParts, PopNested
  <2>2. CASE Goto("out", "opendir")
    BY <2>2, NestedStays DEF Goto
  <2> QED BY <2>1, <2>2
<1>4. Whole' /\ Safe' /\ Swept'
  BY <1>1, <1>2, CopyFrame DEF Copies
<1>5. Arrived'
  <2>1. SUFFICES ASSUME Undisturbed', ~Halted', op \in {"copy", "move"}
                 PROVE  Arrived'
    BY <1>1, <1>2, Fixed, GivenParts, KnownParts DEF Arrived, RemovePhase
  <2>2. /\ Goto("out", "opendir") /\ fs'[dst][at["out"]] = Dir
        /\ Undisturbed /\ ~Halted
    BY <2>1, GivenParts
  <2>3. /\ ph'["out"] = "opendir" /\ pc' = "walk" /\ at' = at /\ todo' = todo
        /\ subs' = subs
    BY <2>2, GivenParts, KnownParts, WalkTypes DEF Goto, Walker
  <2>4. There(at["out"])'
    BY <1>1, <2>2, <2>3, Fixed, GivenParts, KnownParts DEF There
  <2>5. \A n : Waiting(n)' <=> Waiting(n)
    BY Fixed, GivenParts, KnownParts DEF Waiting, Seen, Remaining
  <2>6. ASSUME NEW n \in Under[ent], n # at["out"]
        PROVE  There(n)' \/ Coming(n)'
    <3>1. There(n) \/ Coming(n)
      BY <2>1, <2>2, GivenParts DEF Arrived
    <3>2. There(n) => There(n)'
      BY <1>1, <2>6, ThereStays, GivenParts, KnownParts
    <3>3. Coming(n) => Coming(n)'
      BY <2>3, <2>5, <2>6 DEF Coming, Ahead, Later, Copies, Listed
    <3> QED BY <3>1, <3>2, <3>3
  <2> QED BY <1>1, <2>3, <2>4, <2>6, Fixed, GivenParts, KnownParts
          DEF Arrived, RemovePhase
<1> QED BY <1>3, <1>4, <1>5 DEF Full

\* The walk enters a directory of the source that is copied.
LEMMA EnterFull ==
  ASSUME Given, ~Clash, Enter("out")
  PROVE  Full'
<1>1. UNCHANGED <<tree_op, command, ent, goal, thru>> /\ Walking("out", "enter")
  BY DEF Enter
<1>2. /\ pc = "walk" /\ ph["out"] = "enter" /\ ph["in"] = "off"
      /\ at["out"] \in Node /\ goal \in {"copy", "remove"} /\ ent \in Node
      /\ todo["out"] = {}
  BY <1>1, GivenParts, WalkingAt, KnownParts, BasicParts, AtIsBegun
     DEF Basic, TypeOK, WalkerOK
<1> DEFINE n == at["out"]
<1>3. CASE goal = "copy"
  <2>1. Copies /\ tree_op \in {"cp", "empty"}
    BY <1>2, <1>3, CopyWalkParts DEF Copies
  <2>2. /\ CopyPhase /\ op # "del" /\ fs[src][n] = Dir
        /\ op \in {"copy", "move"} => tree_op = "cp"
        /\ n \in Under[ent]
    BY <1>2, <2>1, CopyWalkParts
  <2>3. creatdir("out", n) /\ tree_op # "rm"
    BY <2>1 DEF Enter
  <2>4. CASE fs[dst][n] = Dir /\ Created("out") /\ UNCHANGED <<fs, fails, flags, refused, pend>>
    <3>1. op \in {"copy", "move"} => Goto("out", "opendir")
      BY <2>2, <2>4 DEF Created
    <3>2. op \in {"copy", "move"} => ~Pop("out")
      BY <1>2, <3>1, GivenParts, KnownParts, WalkTypes DEF Goto, Pop, Walker
    <3>3. Pop("out") \/ Goto("out", "opendir")
      BY <2>4 DEF Created
    <3> QED BY <1>1, <1>2, <2>1, <2>4, <3>2, <3>3, CreatedFull
  <2>5. CASE fs[dst][n] = Absent /\ mkdir("out", n)
    <3>1. /\ Pop("out") \/ Goto("out", "opendir")
          /\ fs'[src] = fs[src]
          /\ \A m \in Node \ {n} : fs'[dst][m] = fs[dst][m]
      BY <1>2, <2>5, GivenParts, MkdirDoes DEF Created
    <3>2. ASSUME Undisturbed', ~Halted', op \in {"copy", "move"}
          PROVE  ~Pop("out") /\ fs'[dst][n] = Dir
      <4>1. Undisturbed /\ ~Halted /\ fails' = 0 /\ fails = 0
        BY <3>2, GivenParts
      <4>2. InDir(dst, n)
        BY <1>2, <2>1, <3>2, <4>1, AtInDir
      <4>3. Put(dst, n, Dir) /\ Goto("out", "opendir")
        BY <2>2, <2>5, <3>2, <4>1, <4>2 DEF mkdir, Fail, Created
      <4> QED BY <1>2, <4>3, GivenParts, KnownParts, WalkTypes DEF Goto, Pop, Walker, Put
    <3> QED BY <1>1, <1>2, <2>1, <3>1, <3>2, CreatedFull
  <2>6. CASE /\ fs[dst][n] \notin {Dir, Absent} /\ UNCHANGED fs
             /\ DelDialog(n, TRUE) /\ pend' = n /\ pc' = "unlink"
             /\ ph' = [ph EXCEPT !["out"] = "mkdir"] /\ UNCHANGED <<at, todo, subs>>
    <3>1. ph'["out"] = "mkdir" /\ ph'["in"] = "off"
      BY <1>2, <2>6, GivenParts, KnownParts, WalkTypes DEF Walker
    <3>2. Nested'
      BY <1>1, <2>6, NestedStays
    <3>3. Whole' /\ Safe' /\ Swept'
      BY <1>1, <1>2, <1>3, <2>1, <2>2, <2>6, <3>1, CopyFrame DEF Copies
    <3>4. ASSUME Undisturbed', ~Halted', op \in {"copy", "move"}, NEW m \in Under[ent]
          PROVE  There(m)' \/ Coming(m)'
      <4>1. There(m) \/ Coming(m)
        BY <2>1, <3>4, GivenParts DEF Arrived
      <4>2. Waiting(m)' <=> Waiting(m)
        BY <1>1, Fixed, GivenParts, KnownParts DEF Waiting, Seen, Remaining
      <4>3. Coming(m) => Coming(m)'
        BY <1>1, <1>2, <2>6, <3>1, <4>2 DEF Coming, Ahead, Later, Copies, Listed
      <4> QED BY <2>6, <4>1, <4>3, ThereStays
    <3>5. Arrived'
      BY <1>1, <1>3, <2>6, <3>1, <3>4, Fixed, GivenParts, KnownParts
         DEF Arrived, RemovePhase
    <3> QED BY <3>2, <3>3, <3>5 DEF Full
  <2>7. CASE /\ UNCHANGED <<fs, fails>> /\ DelDialog(n, FALSE)
             /\ Pop("out") \/ Created("out")
    <3>1. refused' # {}
      BY <2>7 DEF DelDialog
    <3>2. Pop("out") \/ Goto("out", "opendir")
      BY <2>7 DEF Created
    <3> QED BY <1>1, <1>2, <2>1, <2>7, <3>1, <3>2, GivenParts, CreatedFull
  <2> QED BY <2>3, <2>4, <2>5, <2>6, <2>7, Kinds DEF creatdir
<1>4. CASE goal = "remove"
  <2>1. RemovePhase /\ tree_op = "rm"
    BY <1>2, <1>4, GivenParts, KnownParts DEF RemovePhase, Course
  <2>2. Goto("out", "opendir") /\ UNCHANGED <<fs, fails, flags, pend, refused>>
    BY <2>1 DEF Enter
  <2>3. /\ ph'["out"] = "opendir" /\ ph'["in"] = "off" /\ pc' = "walk"
        /\ UNCHANGED <<at, todo, subs>>
    BY <1>2, <2>2, GivenParts, KnownParts, WalkTypes DEF Goto, Walker
  <2>4. \A m : Left(m) => Left(m)'
    BY <2>3 DEF Left, Listed
  <2>5. Undisturbed' /\ ~Halted' =>
          \A m \in Under[ent] : fs'[src][m] # Absent => Left(m)'
    BY <1>2, <1>4, <2>2, <2>4, GivenParts DEF Swept
  <2>6. Nested'
    BY <1>1, <2>3, NestedStays
  <2> QED BY <1>1, <1>2, <1>4, <2>1, <2>2, <2>3, <2>5, <2>6, RemoveFrame DEF Full
<1> QED BY <1>2, <1>3, <1>4

\* What a step of the walk is given.
LEMMA OutParts ==
  ASSUME Given, ~Clash, NEW where, where \notin {"off", "mkdir"},
         Walking("out", where)
  PROVE  /\ pc = "walk" /\ ph["out"] = where /\ ph["in"] = "off"
         /\ at["out"] \in Node /\ ent \in Node /\ at["out"] \in Under[ent]
         /\ ent \in Under[ent] /\ Under[ent] \subseteq Node
         /\ SideOf("out") = src /\ TopOf("out") = ent
         /\ todo["out"] \subseteq Node /\ subs["out"] \subseteq Node
         /\ goal = "copy" => Copies /\ CopyPhase /\ op # "del"
         /\ goal = "remove" => /\ RemovePhase /\ tree_op = "rm" /\ ~Copies
                               /\ op \in {"move", "del"}
         /\ goal = "copy" \/ goal = "remove"
         /\ Undisturbed' /\ ~Halted' /\ goal = "remove" =>
              \A n \in Under[ent] : fs[src][n] # Absent => Left(n)
         /\ Undisturbed' /\ ~Halted' /\ goal = "copy" /\ op \in {"copy", "move"} =>
              \A n \in Under[ent] : There(n) \/ Coming(n)
<1>1. /\ pc = "walk" /\ ph["out"] = where /\ ph["in"] = "off"
      /\ goal \in {"copy", "remove"}
  BY GivenParts, WalkingAt, KnownParts, BasicParts DEF Basic, TypeOK
<1>2. /\ at["out"] \in Node /\ ent \in Node /\ at["out"] \in Under[ent]
      /\ todo["out"] \subseteq Node /\ subs["out"] \subseteq Node
  BY <1>1, GivenParts, AtIsBegun
<1>3. /\ ent \in Under[ent] /\ Under[ent] \subseteq Node
      /\ SideOf("out") = src /\ TopOf("out") = ent
  BY <1>2, GivenParts, KnownParts, NowParts DEF TopOf
<1>4. goal = "copy" => Copies /\ CopyPhase /\ op # "del"
  BY <1>1, CopyWalkParts DEF Copies
<1>5. goal = "remove" => /\ RemovePhase /\ tree_op = "rm" /\ ~Copies
                         /\ op \in {"move", "del"}
  BY <1>1, GivenParts, KnownParts DEF RemovePhase, Course, Copies
<1>6. Undisturbed' /\ ~Halted' /\ goal = "remove" =>
        \A n \in Under[ent] : fs[src][n] # Absent => Left(n)
  BY <1>1, GivenParts DEF Swept
<1>7. Undisturbed' /\ ~Halted' /\ goal = "copy" /\ op \in {"copy", "move"} =>
        \A n \in Under[ent] : There(n) \/ Coming(n)
  BY <1>4, GivenParts DEF Arrived
<1> QED BY <1>1, <1>2, <1>3, <1>4, <1>5, <1>6, <1>7

\* A step of the walk that changes nothing but where it is.
LEMMA QuietFull ==
  ASSUME Given, ~Clash, NEW where, where \notin {"off", "mkdir"},
         Walking("out", where), UNCHANGED <<fs, tree_op, ent, goal>>, Nested',
         ph'["in"] = "off", ph'["out"] \notin {"off", "mkdir"},
         pc' = "walk" \/ (pc' = "copy" /\ goal = "copy"),
         Undisturbed' /\ ~Halted' /\ goal = "remove" => \A n : Left(n) => Left(n)',
         Undisturbed' /\ ~Halted' /\ goal = "copy" /\ op \in {"copy", "move"} =>
           \A n \in Under[ent] : Coming(n) => There(n) \/ Coming(n)'
  PROVE  Full'
<1>1. CASE goal = "copy"
  <2>1. Whole' /\ Safe' /\ Swept'
    BY <1>1, OutParts, CopyFrame DEF Copies
  <2>2. \A n : There(n)' <=> There(n)
    BY ThereStays
  <2>3. Undisturbed' /\ ~Halted' /\ op \in {"copy", "move"} =>
          \A n \in Under[ent] : There(n)' \/ Coming(n)'
    BY <1>1, <2>2, OutParts
  <2>4. Arrived'
    BY <1>1, <2>3, Fixed, GivenParts, KnownParts DEF Arrived, RemovePhase
  <2> QED BY <2>1, <2>4 DEF Full
<1>2. CASE goal = "remove"
  <2>1. pc' = "walk"
    BY <1>2
  <2> QED BY <1>2, <2>1, OutParts, RemoveFrame DEF Full
<1> QED BY <1>1, <1>2, OutParts

\* The walk goes up without having seen all: something failed, or was cancelled.
LEMMA EarlyFull ==
  ASSUME Given, ~Clash, NEW where, where \notin {"off", "mkdir"},
         Walking("out", where), UNCHANGED <<fs, tree_op, ent, goal>>, Pop("out"),
         ~Undisturbed' \/ Halted'
  PROVE  Full'
<1>1. Nested'
  BY OutParts, PopNested, GivenParts
<1>2. /\ ph'["in"] = "off" /\ ph'["out"] # "mkdir"
      /\ pc' = "walk" \/ pc' = IF goal = "copy" THEN "after" ELSE "entry"
  BY OutParts, GivenParts, PopDoes DEF Walker
<1>3. CASE goal = "copy"
  <2>1. Whole' /\ Safe' /\ Swept'
    BY <1>2, <1>3, OutParts, CopyFrame DEF Copies
  <2>2. Arrived'
    BY <1>2, <1>3 DEF Arrived, RemovePhase
  <2> QED BY <1>1, <2>1, <2>2 DEF Full
<1>4. CASE goal = "remove"
  BY <1>1, <1>2, <1>4, OutParts, RemoveFrame DEF Full
<1> QED BY <1>3, <1>4, OutParts

\* Nothing that has failed makes the command an undisturbed one.
LEMMA FailDisturbs ==
  ASSUME Given, Fail
  PROVE  ~Undisturbed'
<1>1. fails \in Nat
  BY GivenParts, KnownParts, BasicParts
<1> QED BY <1>1 DEF Fail, Undisturbed

LEMMA OpendirFull ==
  ASSUME Given, ~Clash, Opendir("out")
  PROVE  Full'
<1>1. /\ UNCHANGED <<fs, tree_op, ent, pend, goal, refused>>
      /\ Walking("out", "opendir")
  BY DEF Opendir
<1>2. /\ pc = "walk" /\ ph["out"] = "opendir" /\ ph["in"] = "off"
      /\ at["out"] \in Node /\ SideOf("out") = src
  BY <1>1, OutParts
<1>3. CASE Fail /\ Pop("out")
  BY <1>1, <1>2, <1>3, FailDisturbs, EarlyFull
<1>4. CASE /\ ph' = [ph EXCEPT !["out"] = "read"]
           /\ todo' = [todo EXCEPT !["out"] = Children(SideOf("out"), at["out"])]
           /\ UNCHANGED <<at, subs, pc, fails>>
  <2>1. /\ ph'["out"] = "read" /\ ph'["in"] = "off" /\ pc' = pc /\ at' = at
        /\ subs' = subs /\ todo'["out"] = Children(src, at["out"])
    BY <1>2, <1>4, GivenParts, KnownParts, WalkTypes DEF Walker
  <2>2. Nested'
    BY <1>1, <2>1, NestedStays
  <2>3. ASSUME NEW n \in Under[at["out"]], n # at["out"], fs[src][n] # Absent
        PROVE  Listed(n)'
    <3>1. PICK c \in Node : Parent[c] = at["out"] /\ n \in Under[c]
      BY <1>2, <2>3, ChildBetween
    <3>2. fs[src][c] # Absent
      <4>1. fs[src][c] = Dir \/ c = n
        BY <2>3, <3>1, GivenParts, KnownParts, NothingBelow
      <4> QED BY <2>3, <4>1, Kinds
    <3> QED BY <2>1, <3>1, <3>2 DEF Listed, Children
  <2>4. todo["out"] = {}
    BY <1>2, GivenParts, KnownParts DEF WalkerOK
  <2>5. \A n : Listed(n) => Listed(n)'
    BY <2>1, <2>4 DEF Listed
  <2>6. ASSUME NEW n \in Under[ent], fs[src][n] # Absent, Left(n)
        PROVE  Left(n)'
    <3>1. CASE n \in Under[at["out"]] /\ n # at["out"]
      BY <2>3, <2>6, <3>1 DEF Left
    <3>2. CASE n = at["out"]
      BY <1>2, <2>1, <3>2, Self DEF Left
    <3> QED BY <2>1, <2>5, <2>6, <3>1, <3>2 DEF Left
  <2>7. CASE goal = "copy"
    <3>1. \A n : Waiting(n)' <=> Waiting(n)
      BY <1>1, Fixed, GivenParts, KnownParts DEF Waiting, Seen, Remaining
    <3>2. Copies /\ Copies'
      BY <1>1, <1>2, <2>1, <2>7 DEF Copies
    <3>3. \A n \in Under[ent] : fs[src][n] = fs0[src][n]
      BY <1>1, <1>2, <3>2, CopyWalkParts
    <3>4. ASSUME NEW n \in Under[ent], Coming(n)
          PROVE  There(n) \/ Coming(n)'
      <4>1. CASE fs[src][n] = Absent
        BY <3>3, <4>1 DEF There
      <4>2. CASE n \in Under[at["out"]] /\ n # at["out"] /\ fs[src][n] # Absent
        BY <2>3, <3>2, <4>2 DEF Coming, Ahead, Later
      <4>3. CASE ~(n \in Under[at["out"]] \ {at["out"]})
        BY <1>2, <2>1, <2>5, <3>1, <3>2, <3>4, <4>3 DEF Coming, Ahead, Later
      <4> QED BY <4>1, <4>2, <4>3
    <3> QED BY <1>1, <1>2, <2>1, <2>2, <2>7, <3>4, QuietFull
  <2>8. CASE goal = "remove"
    <3>1. Undisturbed' /\ ~Halted' =>
            \A n \in Under[ent] : fs'[src][n] # Absent => Left(n)'
      BY <1>1, <2>6, <2>8, OutParts
    <3> QED BY <1>1, <1>2, <2>1, <2>2, <2>8, <3>1, OutParts, RemoveFrame DEF Full
  <2> QED BY <1>1, <2>7, <2>8, OutParts
<1> QED BY <1>3, <1>4 DEF Opendir

\* What is to be removed is gone, unless something failed or was cancelled.
LEMMA FileIsGone ==
  ASSUME Given, NEW n \in Node, fs[src][n] # Dir, rm_file(src, n),
         Undisturbed', ~Halted'
  PROVE  fs'[src][n] = Absent
<1>1. ~Fail /\ ~Halted
  BY FailDisturbs, GivenParts
<1>2. ~EscTyped
  BY DEF EscTyped, Halted
<1>3. Put(src, n, Absent)
  BY <1>1, <1>2 DEF rm_file, Halted
<1> QED BY <1>3, GivenParts, KnownParts, WalkTypes DEF Put

LEMMA DirIsGone ==
  ASSUME Given, NEW n \in Node, rm_dir(src, n), Children(src, n) = {},
         Undisturbed', ~Halted'
  PROVE  fs'[src][n] = Absent
<1>1. ~Fail /\ ~Halted
  BY FailDisturbs, GivenParts
<1>2. Put(src, n, Absent)
  BY <1>1 DEF rm_dir, Halted
<1> QED BY <1>2, GivenParts, KnownParts, WalkTypes DEF Put

LEMMA ReadEntryFull ==
  ASSUME Given, ~Clash, Walking("out", "read"), NEW n \in todo["out"],
         ReadEntry("out", n), UNCHANGED <<tree_op, ent, goal, command>>
  PROVE  Full'
<1>1. /\ pc = "walk" /\ ph["out"] = "read" /\ ph["in"] = "off"
      /\ at["out"] \in Node /\ n \in Node /\ SideOf("out") = src
      /\ at["out"] \in Under[ent] /\ ent \in Node /\ Under[ent] \subseteq Node
      /\ goal = "copy" \/ goal = "remove"
  BY OutParts
<1>2. /\ ph' = ph /\ at' = at /\ todo'["out"] = todo["out"] \ {n}
      /\ Parent[n] = at["out"]
  BY <1>1, GivenParts, KnownParts, WalkTypes, AtIsBegun DEF ReadEntry, Walker
<1>3. n \in Under[ent]
  BY <1>1, <1>2, UnderStep, NodeAssumption
<1>4. \A m : Waiting(m)' <=> Waiting(m)
  BY Fixed, GivenParts, KnownParts DEF Waiting, Seen, Remaining
<1>5. CASE /\ fs[src][n] = Dir
           /\ subs' = [subs EXCEPT !["out"] = @ \cup {n}]
           /\ UNCHANGED <<fs, flags, fails, pc, pend, refused>>
  <2>1. subs'["out"] = subs["out"] \cup {n}
    BY <1>5, GivenParts, KnownParts, WalkTypes DEF Walker
  <2>2. Nested'
    BY <1>1, <1>2, <2>1, NestedStays
  <2>3. \A m : Listed(m)' <=> Listed(m)
    BY <1>2, <2>1 DEF Listed
  <2>4. \A m : Left(m) => Left(m)'
    BY <1>2, <2>3 DEF Left
  <2>5. \A m : Coming(m) => Coming(m)'
    BY <1>2, <1>4, <1>5, <2>3 DEF Coming, Ahead, Later, Copies
  <2> QED BY <1>1, <1>2, <1>5, <2>2, <2>4, <2>5, QuietFull
<1>6. CASE /\ fs[src][n] # Dir /\ tree_op = "rm" /\ rm_file(src, n)
           /\ UNCHANGED <<subs, pc, pend>>
  <2>1. fs'[dst] = fs[dst] /\ \A m \in Node \ {n} : fs'[src][m] = fs[src][m]
    BY <1>1, <1>6, GivenParts, KnownParts, WalkTypes, Gone
  <2>2. goal = "remove"
    BY <1>1, <1>6, OutParts, CopyWalkParts
  <2>3. Nested'
    BY <1>2, <1>6, NestedStays
  <2>4. ASSUME Undisturbed', ~Halted', NEW m \in Under[ent], fs'[src][m] # Absent
        PROVE  Left(m)'
    <3>1. fs'[src][n] = Absent
      BY <1>1, <1>6, <2>4, FileIsGone
    <3>2. m # n /\ m \in Node /\ fs[src][m] # Absent
      BY <1>1, <2>1, <2>4, <3>1
    <3>3. m \notin Under[n]
      BY <1>1, <1>6, <3>2, NothingBelow, GivenParts, KnownParts
    <3>4. Left(m)
      BY <2>2, <2>4, <3>2, OutParts
    <3> QED BY <1>1, <1>2, <1>6, <3>3, <3>4 DEF Left, Listed
  <2> QED BY <1>1, <1>2, <1>3, <1>6, <2>1, <2>2, <2>3, <2>4, OutParts, RemoveFrame
          DEF Full
<1>7. CASE /\ fs[src][n] # Dir /\ tree_op = "cp" /\ pend' = n /\ pc' = "copy"
           /\ UNCHANGED <<fs, flags, fails, subs, refused>>
  <2>1. goal = "copy"
    BY <1>1, <1>7, OutParts
  <2>2. Nested'
    BY <1>2, <1>7, NestedStays
  <2>3. \A m : Coming(m) => Coming(m)'
    BY <1>1, <1>2, <1>4, <1>7, <2>1 DEF Coming, Ahead, Later, Copies, Listed
  <2> QED BY <1>1, <1>2, <1>7, <2>1, <2>2, <2>3, QuietFull
<1> QED BY <1>1, <1>5, <1>6, <1>7 DEF ReadEntry

LEMMA ReadFull ==
  ASSUME Given, ~Clash, Read("out")
  PROVE  Full'
<1>1. UNCHANGED <<tree_op, ent, goal, command>> /\ Walking("out", "read")
  BY DEF Read
<1>2. /\ pc = "walk" /\ ph["out"] = "read" /\ ph["in"] = "off"
      /\ at["out"] \in Node /\ ent \in Node
      /\ goal = "copy" \/ goal = "remove"
  BY <1>1, OutParts
<1>3. tree_op # "notempty"
  BY <1>1, <1>2, OutParts, CopyWalkParts
<1>4. CASE /\ EndRead("out") /\ UNCHANGED fs
           /\ Stop \/ todo["out"] = {} \/ Fail
  <2>1. /\ ph'["out"] = "sub" /\ ph'["in"] = "off" /\ pc' = pc /\ at' = at
        /\ subs' = subs /\ todo'["out"] = {}
    BY <1>2, <1>3, <1>4, GivenParts, KnownParts, WalkTypes DEF EndRead, Walker
  <2>2. Nested'
    BY <1>1, <2>1, NestedStays
  <2>3. Undisturbed' /\ ~Halted' => todo["out"] = {}
    BY <1>4, FailDisturbs, GivenParts DEF Stop, Halted
  <2>4. \A n : Waiting(n)' <=> Waiting(n)
    BY <1>1, Fixed, GivenParts, KnownParts DEF Waiting, Seen, Remaining
  <2>5. ASSUME Undisturbed', ~Halted'
        PROVE  \A n : (Left(n) => Left(n)') /\ (Coming(n) => Coming(n)')
    <3>1. \A n : Listed(n)' <=> Listed(n)
      BY <2>1, <2>3, <2>5 DEF Listed
    <3> QED BY <1>1, <1>2, <2>1, <2>4, <3>1 DEF Left, Coming, Ahead, Later, Copies
  <2> QED BY <1>1, <1>2, <1>4, <2>1, <2>2, <2>5, QuietFull
<1>5. CASE \E n \in todo["out"] : ReadEntry("out", n)
  BY <1>1, <1>5, ReadEntryFull
<1> QED BY <1>3, <1>4, <1>5 DEF Read

LEMMA SubdirsFull ==
  ASSUME Given, ~Clash, Subdirs("out")
  PROVE  Full'
<1> DEFINE S == {c \in subs["out"] : Parent[c] = at["out"]}
<1>1. /\ UNCHANGED <<tree_op, ent, pend, goal, command>>
      /\ Walking("out", "sub")
  BY DEF Subdirs
<1>2. /\ pc = "walk" /\ ph["out"] = "sub" /\ ph["in"] = "off"
      /\ at["out"] \in Node /\ ent \in Node /\ at["out"] \in Under[ent]
      /\ Under[ent] \subseteq Node /\ SideOf("out") = src /\ TopOf("out") = ent
      /\ subs["out"] \subseteq Node
      /\ goal = "copy" \/ goal = "remove"
  BY <1>1, OutParts
<1>3. todo["out"] = {}
  BY <1>2, GivenParts, KnownParts DEF WalkerOK
<1>4. \A m : Waiting(m)' <=> Waiting(m)
  BY <1>1, Fixed, GivenParts, KnownParts DEF Waiting, Seen, Remaining
<1>5. ASSUME NEW n \in S, Descend("out", n), subs' = [subs EXCEPT !["out"] = @ \ {n}],
             UNCHANGED <<fs, flags, fails, todo, pc, refused>>
      PROVE  Full'
  <2>1. /\ ph'["out"] = "enter" /\ ph'["in"] = "off" /\ at'["out"] = n
        /\ subs'["out"] = subs["out"] \ {n} /\ n \in Node /\ Parent[n] = at["out"]
    BY <1>2, <1>5, GivenParts, KnownParts, WalkTypes DEF Descend, Walker
  <2>2. n \in Under[at["out"]]
    BY <1>2, <2>1, UnderStep, Self, NodeAssumption
  <2>3. Nested'
    <3>1. ASSUME NEW c \in subs["out"]
          PROVE  Parent[c] \in Under[ent] /\ n \in Under[Parent[c]]
      <4>1. Parent[c] \in Under[ent] /\ at["out"] \in Under[Parent[c]]
        BY GivenParts DEF Nested
      <4> QED BY <1>2, <2>1, <2>2, <4>1, UnderTrans
    <3> QED BY <1>1, <2>1, <3>1 DEF Nested
  <2>4. \A m \in Node : at["out"] \in Under[m] => n \in Under[m]
    BY <1>2, <2>1, <2>2, UnderTrans
  <2>5. \A m : Listed(m) => Listed(m)' \/ m \in Under[n]
    BY <1>5, <2>1 DEF Listed
  <2>6. ASSUME NEW m \in Node
        PROVE  (Left(m) => Left(m)') /\ (goal = "copy" /\ Coming(m) => Coming(m)')
    BY <1>1, <1>2, <1>4, <1>5, <2>1, <2>4, <2>5
       DEF Left, Coming, Ahead, Later, Copies
  <2>7. CASE goal = "copy"
    BY <1>1, <1>2, <1>5, <2>1, <2>3, <2>6, <2>7, QuietFull
  <2>8. CASE goal = "remove"
    <3>1. Undisturbed' /\ ~Halted' =>
            \A m \in Under[ent] : fs'[src][m] # Absent => Left(m)'
      BY <1>1, <1>2, <1>5, <2>6, <2>8, OutParts
    <3> QED BY <1>1, <1>2, <1>5, <2>1, <2>3, <2>8, <3>1, OutParts, RemoveFrame DEF Full
  <2> QED BY <1>2, <2>7, <2>8
<1>6. ASSUME Pop("out"), S = {} \/ Stop
      PROVE  /\ Nested' /\ ph'["in"] = "off" /\ ph'["out"] # "mkdir"
             /\ ph'["out"] # "off" => /\ pc' = "walk" /\ at'["out"] = Parent[at["out"]]
                                      /\ ph'["out"] = "sub" /\ at["out"] # ent
             /\ ph'["out"] = "off" => pc' = IF goal = "copy" THEN "after" ELSE "entry"
             /\ ph'["out"] = "off" <=> at["out"] = ent
             /\ pc' # "walk" => ph'["out"] = "off"
             /\ ~Halted' => S = {}
             /\ ~Halted' /\ at["out"] # ent => \A m : Listed(m)' <=> Listed(m)
             /\ ~Halted' /\ at["out"] = ent => \A m : ~Listed(m)
  <2>1. Nested'
    BY <1>1, <1>2, <1>6, PopNested
  <2>2. ~Halted' => S = {}
    BY <1>6, GivenParts DEF Stop, Halted
  <2>3. /\ at["out"] # ent => /\ ph'["out"] = "sub" /\ at'["out"] = Parent[at["out"]]
                              /\ pc' = pc /\ subs'["out"] = {c \in subs["out"] : Parent[c] # at["out"]}
        /\ at["out"] = ent => /\ ph'["out"] = "off"
                              /\ pc' = IF goal = "copy" THEN "after" ELSE "entry"
        /\ ph'["in"] = "off" /\ todo'["out"] = {}
    BY <1>2, <1>6, GivenParts, PopDoes DEF Walker
  <2>4. ~Halted' /\ at["out"] # ent => \A m : Listed(m)' <=> Listed(m)
    BY <1>3, <2>2, <2>3 DEF Listed
  <2>5. ASSUME ~Halted', at["out"] = ent
        PROVE  \A m : ~Listed(m)
    <3>1. ASSUME NEW c \in subs["out"] PROVE FALSE
      <4>1. Parent[c] \in Under[ent] /\ ent \in Under[Parent[c]] /\ Parent[c] # ent
        BY <2>2, <2>5, <3>1, GivenParts DEF Nested
      <4> QED BY <1>2, <4>1, NotBothWays
    <3> QED BY <1>3, <3>1 DEF Listed
  <2> QED BY <1>2, <2>1, <2>2, <2>3, <2>4, <2>5
<1>7. CASE Pop("out") /\ (S = {} \/ Stop) /\ UNCHANGED fs /\ tree_op # "rm"
  <2>1. goal = "copy" /\ Copies /\ op # "del" /\ CopyPhase
    BY <1>1, <1>2, <1>7, OutParts
  <2>2. pc' \in {"walk", "after"} /\ (pc' = "walk" => ph'["out"] = "sub")
    BY <1>6, <1>7, <2>1
  <2>3. Whole' /\ Safe' /\ Swept'
    BY <1>1, <1>2, <1>6, <1>7, <2>1, <2>2, CopyFrame DEF Copies
  <2>4. ASSUME Undisturbed', ~Halted', op \in {"copy", "move"}, NEW m \in Under[ent]
        PROVE  There(m)' \/ (ph'["out"] # "off" /\ Coming(m)')
    <3>1. There(m) \/ Coming(m)
      BY <1>1, <2>1, <2>4, OutParts
    <3>2. ~Waiting(m)
      BY <1>2, <2>4, GivenParts, EntSeen
    <3>3. Coming(m) => Listed(m)
      BY <1>2, <3>2 DEF Coming, Ahead, Later
    <3>4. Listed(m) => ph'["out"] # "off" /\ Coming(m)'
      BY <1>1, <1>6, <1>7, <2>1, <2>4 DEF Coming, Ahead, Later, Copies
    <3> QED BY <1>7, <3>1, <3>3, <3>4, ThereStays
  <2>5. Arrived'
    BY <1>1, <1>6, <1>7, <2>1, <2>2, <2>4, Fixed, GivenParts, KnownParts
       DEF Arrived, RemovePhase, Copies
  <2> QED BY <1>6, <1>7, <2>3, <2>5 DEF Full
<1>8. CASE Pop("out") /\ (S = {} \/ Stop) /\ rm_dir(src, at["out"]) /\ tree_op = "rm"
  <2>1. goal = "remove" /\ RemovePhase
    BY <1>1, <1>2, <1>8, OutParts, CopyWalkParts
  <2>2. fs'[dst] = fs[dst] /\ \A m \in Node \ {at["out"]} : fs'[src][m] = fs[src][m]
    BY <1>2, <1>8, GivenParts, KnownParts, WalkTypes, Gone
  <2>3. ASSUME Undisturbed', ~Halted'
        PROVE  fs'[src][at["out"]] = Absent
    <3>1. SUFFICES ASSUME NEW c \in Node, Parent[c] = at["out"], fs[src][c] # Absent
                   PROVE  FALSE
      BY <1>2, <1>8, <2>3, DirIsGone DEF Children
    <3>2. c \in Under[at["out"]] /\ at["out"] \notin Under[c]
      BY <1>2, <3>1, UnderStep, Self, ParentNotUnder, NodeAssumption
    <3>3. c \in Under[ent]
      BY <1>2, <3>1, <3>2, UnderTrans
    <3>4. Listed(c)
      BY <1>1, <1>2, <2>1, <2>3, <3>1, <3>2, <3>3, OutParts DEF Left
    <3>5. PICK d \in subs["out"] : c \in Under[d]
      BY <1>3, <3>4 DEF Listed
    <3>6. d \in Node /\ at["out"] \notin Under[d]
      BY <1>2, <3>5, GivenParts, AtIsBegun
    <3>7. c = d
      BY <3>1, <3>5, <3>6, UnderStep
    <3> QED BY <1>6, <1>8, <2>3, <3>1, <3>5, <3>7
  <2>4. ASSUME Undisturbed', ~Halted', NEW m \in Under[ent], fs'[src][m] # Absent
        PROVE  ph'["out"] # "off" /\ Left(m)'
    <3>1. m # at["out"] /\ m \in Node /\ fs[src][m] # Absent
      BY <1>2, <2>2, <2>3, <2>4
    <3>2. at["out"] \in Under[m] \/ Listed(m)
      BY <1>1, <1>2, <2>1, <2>4, <3>1, OutParts DEF Left
    <3>3. CASE at["out"] \in Under[m]
      <4>1. Parent[at["out"]] \in Under[m]
        BY <1>2, <3>1, <3>3, UnderStep
      <4>2. at["out"] # ent
        BY <1>2, <2>4, <3>1, <3>3, NotBothWays
      <4> QED BY <1>6, <1>8, <4>1, <4>2 DEF Left
    <3>4. CASE Listed(m)
      BY <1>6, <1>8, <2>4, <3>4 DEF Left
    <3> QED BY <3>2, <3>3, <3>4
  <2>5. pc' \in {"walk", "entry"}
    BY <1>6, <1>8, <2>1
  <2> QED BY <1>1, <1>2, <1>6, <1>8, <2>1, <2>2, <2>4, <2>5, RemoveFrame DEF Full
<1> QED BY <1>2, <1>5, <1>7, <1>8 DEF Subdirs

LEMMA MkdirFull ==
  ASSUME Given, ~Clash, Mkdir
  PROVE  Full'
<1>1. /\ UNCHANGED <<tree_op, ent, goal, refused>>
      /\ pc = "walk" /\ ph["out"] = "mkdir" /\ ph["in"] = "off"
      /\ at["out"] \in Node /\ goal \in {"copy", "remove"}
  BY WalkingAt, GivenParts, KnownParts, BasicParts DEF Mkdir, Basic, TypeOK
<1>2. pend = at["out"] /\ tree_op \in {"cp", "empty"}
  BY <1>1, GivenParts, KnownParts DEF Basic, Control, CopyOK
<1>3. Copies
  BY <1>1, <1>2, GivenParts, KnownParts DEF Course, Copies
<1>4. \/ mkdir("out", at["out"])
      \/ Created("out") /\ UNCHANGED fs /\ fs[dst][at["out"]] # Absent
  BY <1>2 DEF Mkdir
<1>5. /\ Pop("out") \/ Created("out")
      /\ fs'[src] = fs[src]
      /\ \A m \in Node \ {at["out"]} : fs'[dst][m] = fs[dst][m]
  BY <1>1, <1>4, GivenParts, MkdirDoes
<1>6. Pop("out") \/ Goto("out", "opendir")
  BY <1>5 DEF Created
<1>7. ASSUME Undisturbed', ~Halted', op \in {"copy", "move"}
      PROVE  ~Pop("out") /\ fs'[dst][at["out"]] = Dir
  <2>1. Undisturbed /\ ~Halted /\ fails' = 0 /\ fails = 0 /\ ~Fail
    BY <1>7, GivenParts, FailDisturbs
  <2>2. fs[dst][at["out"]] = Absent
    BY <1>1, <1>7, <2>1, GivenParts DEF Arrived
  <2>3. InDir(dst, at["out"]) /\ tree_op = "cp"
    BY <1>1, <1>3, <1>7, <2>1, AtInDir, CopyWalkParts
  <2>4. Put(dst, at["out"], Dir) /\ Goto("out", "opendir")
    BY <1>4, <2>1, <2>2, <2>3 DEF mkdir, Created
  <2> QED BY <1>1, <2>4, GivenParts, KnownParts, WalkTypes DEF Goto, Pop, Walker, Put
<1> QED BY <1>1, <1>3, <1>5, <1>6, <1>7, CreatedFull
-----------------------------------------------------------------------------
(* The steps that copy a file preserve Full.                               *)

LEMMA FileParts ==
  ASSUME Given, ~Clash, AtFile, ph["out"] # "mkdir"
  PROVE  /\ op # "del" /\ goal = "copy" /\ CopyPhase /\ ph["in"] = "off"
         /\ ent \in Node /\ pend \in Node /\ pend \in Under[ent]
         /\ Under[ent] \subseteq Node /\ pend \in Under[pend]
         /\ fs[src][pend] \in Leaf /\ fs0[src][pend] = fs[src][pend]
         /\ fs[dst][pend] # Dir
         /\ \A n \in Under[pend] : n # pend => There(n)
         /\ ph["out"] \in {"off", "read"} /\ (ph["out"] = "off" => pend = ent)
         /\ pc = "copy" => fs[dst][pend] = fs0[dst][pend]
         /\ ph["out"] # "off" => Copies
<1>1. /\ op # "del" /\ goal = "copy" /\ CopyPhase /\ ph["in"] = "off"
      /\ ph["out"] = "off" => pend = ent
      /\ ph["out"] # "off" => Copies
  BY GivenParts, KnownParts, InsideNever DEF Course, CopyPhase, Copies
<1>2. /\ ent \in Node /\ pend \in Node /\ pend \in Under[ent]
      /\ Under[ent] \subseteq Node /\ pend \in Under[pend]
      /\ fs[src][pend] \in Leaf
  BY GivenParts, FileIsBegun, KnownParts
<1>3. fs0[src][pend] = fs[src][pend]
  BY <1>1, <1>2, GivenParts DEF Whole
<1>4. fs0[src][pend] # Dir
  BY <1>2, <1>3, Kinds
<1>5. fs[dst][pend] # Dir
  BY <1>1, <1>2, <1>3, <1>4, GivenParts DEF Whole, Clash
<1>6. ph["out"] \in {"off", "read"}
  BY GivenParts, KnownParts DEF CopyOK, AtFile
<1>7. pc = "copy" => fs[dst][pend] = fs0[dst][pend]
  BY <1>2, GivenParts, KnownParts DEF Refusals, Ahead, Fresh
<1>8. \A n \in Under[pend] : n # pend => There(n)
  BY <1>2, <1>4, LeafThere
<1> QED BY <1>1, <1>2, <1>3, <1>5, <1>6, <1>7, <1>8

\* cp_file() returns.
LEMMA FileEndFull ==
  ASSUME Given, ~Clash, AtFile, ph["out"] # "mkdir", NEW ok \in BOOLEAN, CopyRet(ok),
         UNCHANGED <<ent, goal, tree_op, ph, at, todo, subs>>,
         fs'[src] = fs[src], \A n \in Node \ {pend} : fs'[dst][n] = fs[dst][n],
         fs'[dst][pend] # Dir,
         Undisturbed' /\ ~Halted' /\ op \in {"copy", "move"} =>
           ok /\ fs'[dst][pend] = IF Kept(pend) THEN fs0[dst][pend] ELSE fs0[src][pend],
         ok \/ ~Undisturbed' \/ Halted' \/ op = "empty"
  PROVE  Full'
<1>1. /\ op # "del" /\ goal = "copy" /\ CopyPhase /\ ph["in"] = "off"
      /\ ent \in Node /\ pend \in Node /\ pend \in Under[ent]
      /\ Under[ent] \subseteq Node
      /\ \A n \in Under[pend] : n # pend => There(n)
      /\ ph["out"] \in {"off", "read"} /\ (ph["out"] = "off" => pend = ent)
      /\ ph["out"] # "off" => Copies
  BY FileParts
<1>2. /\ pc' = IF ph["out"] # "off" THEN "walk" ELSE IF ok THEN "after" ELSE "entry"
      /\ pend' = Root
  BY DEF CopyRet
<1>3. Nested'
  BY NestedStays
<1>4. Whole' /\ Safe' /\ Swept'
  BY <1>1, <1>2, CopyFrame DEF Copies
<1>5. \A n : Waiting(n)' <=> Waiting(n)
  BY Fixed, GivenParts, KnownParts DEF Waiting, Seen, Remaining
<1>6. ASSUME Undisturbed', ~Halted', op \in {"copy", "move"}
      PROVE  /\ \A n \in Under[pend] : There(n)'
             /\ ph["out"] # "off" => \A n \in Under[ent] : There(n)' \/ Coming(n)'
  <2>1. \A n \in Node : n # pend => (There(n)' <=> There(n))
    BY ThereStays
  <2>2. ASSUME NEW n \in Under[pend] PROVE There(n)'
    <3>1. CASE n = pend
      BY <1>6, <3>1, Fixed, GivenParts, KnownParts DEF There
    <3>2. CASE n # pend
      BY <1>1, <2>1, <2>2, <3>2, GivenParts, KnownParts
    <3> QED BY <3>1, <3>2
  <2>3. ASSUME ph["out"] # "off", NEW n \in Under[ent], n \notin Under[pend]
        PROVE  There(n)' \/ Coming(n)'
    <3>1. n # pend
      BY <1>1, <2>3, Self
    <3>2. There(n) \/ Coming(n)
      BY <1>1, <1>6, <2>3, GivenParts DEF Arrived
    <3>3. Coming(n) => Later(n)
      BY <1>1, <2>3, <3>1 DEF Coming, Ahead
    <3>4. Later(n) => Coming(n)'
      BY <1>5 DEF Later, Coming, Ahead, Copies, Listed
    <3> QED BY <1>1, <2>1, <2>3, <3>1, <3>2, <3>3, <3>4
  <2> QED BY <2>2, <2>3
<1>7. Arrived'
  BY <1>1, <1>2, <1>6, Fixed, GivenParts, KnownParts DEF Arrived, RemovePhase, Copies
<1> QED BY <1>3, <1>4, <1>7 DEF Full

\* cp_file() goes on.
LEMMA FileGoesFull ==
  ASSUME Given, ~Clash, pc = "copy", pc' \in {"unlink", "write"},
         UNCHANGED <<fs, ent, goal, pend, ph, at, todo, subs, tree_op>>,
         Undisturbed' => ~Kept(pend),
         Undisturbed' /\ pc' = "write" => ~InWay(pend)
  PROVE  Full'
<1>0. AtFile /\ ph["out"] # "mkdir"
  BY GivenParts, KnownParts DEF AtFile, Basic, Control
<1>1. /\ op # "del" /\ goal = "copy" /\ CopyPhase /\ ph["in"] = "off"
      /\ ent \in Node /\ pend \in Node /\ fs[dst][pend] # Dir
      /\ \A n \in Under[pend] : n # pend => There(n)
  BY <1>0, FileParts
<1>2. Nested'
  BY NestedStays
<1>3. Whole' /\ Safe' /\ Swept'
  BY <1>1, Fixed, GivenParts, KnownParts, CopyFrame DEF Copies
<1>4. \A n : (Waiting(n)' <=> Waiting(n)) /\ (There(n)' <=> There(n))
  BY ThereStays, Fixed, GivenParts, KnownParts DEF Waiting, Seen, Remaining
<1>5. ASSUME NEW n \in Under[ent], There(n) \/ Coming(n)
      PROVE  There(n)' \/ Coming(n)'
  BY <1>1, <1>4, <1>5 DEF Coming, Ahead, Later, Copies, Listed
<1>6. InWay(pend)' <=> InWay(pend)
  BY Fixed, GivenParts, KnownParts DEF InWay
<1>7. Kept(pend)' <=> Kept(pend)
  BY Fixed, GivenParts, KnownParts DEF Kept
<1>8. Arrived'
  <2>1. SUFFICES ASSUME Undisturbed', op \in {"copy", "move"}
                 PROVE  Arrived'
    BY Fixed, GivenParts, KnownParts DEF Arrived
  <2>2. ~Kept(pend)' /\ (pc' = "write" => ~InWay(pend)')
    BY <1>6, <1>7, <2>1
  <2>3. ASSUME Copies', ~Halted', NEW n \in Under[ent]
        PROVE  There(n)' \/ Coming(n)'
    <3>1. Copies /\ ~Halted /\ Undisturbed
      BY <2>1, <2>3, GivenParts DEF Copies
    <3> QED BY <1>5, <2>1, <2>3, <3>1, GivenParts DEF Arrived
  <2>4. ~RemovePhase' /\ pc' # "after" /\ pc' # "walk"
    BY <1>1 DEF RemovePhase
  <2> QED BY <2>2, <2>3, <2>4 DEF Arrived
<1> QED BY <1>2, <1>3, <1>8 DEF Full

LEMMA OverwriteFull ==
  ASSUME Given, ~Clash, pc = "copy", overwrite_rm(pend),
         UNCHANGED <<fs, ent, goal, todo, subs>>, Undisturbed' => ~Kept(pend)
  PROVE  Full'
<1>0. AtFile /\ ph["out"] # "mkdir"
  BY GivenParts, KnownParts DEF AtFile, Basic, Control
<1>1. fs[dst][pend] # Dir
  BY <1>0, FileParts
<1>2. CASE /\ DelDialog(pend, TRUE) /\ pc' = "unlink"
           /\ UNCHANGED <<tree_op, pend, ph, at>>
  BY <1>2, FileGoesFull
<1>3. CASE /\ DelDialog(pend, FALSE) /\ pc' = "write"
           /\ UNCHANGED <<tree_op, pend, ph, at>>
  <2>1. ~Undisturbed'
    BY <1>3 DEF DelDialog, Undisturbed
  <2> QED BY <1>3, <2>1, FileGoesFull
<1>4. CASE /\ DelDialog(pend, FALSE) /\ CopyRet(FALSE)
           /\ UNCHANGED <<tree_op, ph, at>>
  <2>1. ~Undisturbed'
    BY <1>4 DEF DelDialog, Undisturbed
  <2> QED BY <1>0, <1>1, <1>4, <2>1, FileEndFull
<1> QED BY <1>1, <1>2, <1>3, <1>4 DEF overwrite_rm

LEMMA CopyFileFull ==
  ASSUME Given, ~Clash, cp_file
  PROVE  Full'
<1>1. /\ pc = "copy" /\ AtFile /\ ph["out"] # "mkdir"
      /\ UNCHANGED <<fs, ent, goal, todo, subs>>
  BY GivenParts, KnownParts DEF cp_file, AtFile, Basic, Control
<1>2. /\ pend \in Node /\ fs0[src][pend] = fs[src][pend] /\ fs[src][pend] \in Leaf
      /\ fs[dst][pend] # Dir /\ fs[dst][pend] = fs0[dst][pend]
      /\ fs'[dst][pend] = fs0[dst][pend]
  BY <1>1, FileParts
<1> DEFINE Same == UNCHANGED <<tree_op, ph, at>>
<1>3. ASSUME CopyRet(FALSE), Same, ~Undisturbed' \/ Halted'
      PROVE  Full'
  BY <1>1, <1>2, <1>3, FileEndFull
<1>4. ASSUME CopyRet(TRUE), Same, Kept(pend) \/ same(pend)
      PROVE  Full'
  <2>1. fs'[dst][pend] = IF Kept(pend) THEN fs0[dst][pend] ELSE fs0[src][pend]
    BY <1>2, <1>4 DEF same
  <2> QED BY <1>1, <1>2, <1>4, <2>1, FileEndFull
<1>5. ASSUME DelDialog(pend, FALSE) PROVE ~Undisturbed'
  BY <1>5 DEF DelDialog, Undisturbed
<1>6. CASE EscTyped /\ CopyRet(FALSE) /\ Same
  BY <1>3, <1>6 DEF EscTyped, Halted
<1>7. CASE fs[src][pend].k = "reg" /\ cp_reg(pend)
  <2>1. CASE fs[dst][pend] = Absent /\ pc' = "write" /\ Same /\ UNCHANGED pend
    <3>1. ~Kept(pend) /\ ~InWay(pend)
      BY <1>2, <1>7, <2>1, Kinds DEF Kept, InWay
    <3> QED BY <1>1, <2>1, <3>1, FileGoesFull
  <2>2. CASE fs[dst][pend] # Absent /\ SkipExisting /\ CopyRet(TRUE) /\ Same
    <3>1. Kept(pend)
      BY <1>2, <1>7, <2>2 DEF Kept, SkipExisting
    <3> QED BY <1>4, <2>2, <3>1
  <2>3. CASE /\ fs[dst][pend].k = "reg" /\ Same
             /\ same(pend) \/ TargetNewer(pend)
             /\ CopyRet(TRUE)
    <3>1. TargetNewer(pend) => Kept(pend)
      BY <1>2, <1>7, <2>3 DEF Kept, TargetNewer
    <3> QED BY <1>4, <2>3, <3>1
  <2>4. CASE /\ fs[dst][pend].k = "reg" /\ ~SkipExisting /\ Same
             /\ ~TargetNewer(pend) /\ pc' = "write" /\ UNCHANGED pend
    <3>1. ~Kept(pend) /\ ~InWay(pend)
      BY <1>2, <1>7, <2>4 DEF Kept, InWay, SkipExisting, TargetNewer
    <3> QED BY <1>1, <2>4, <3>1, FileGoesFull
  <2>5. CASE DelDialog(pend, FALSE) /\ CopyRet(FALSE) /\ Same
    BY <1>3, <1>5, <2>5
  <2>6. CASE fs[dst][pend].k \in {"lnk", "dir"} /\ ~SkipExisting /\ overwrite_rm(pend)
    <3>1. ~Kept(pend)
      BY <1>2, <2>6 DEF Kept, SkipExisting
    <3> QED BY <1>1, <2>6, <3>1, OverwriteFull
  <2> QED BY <1>7, <2>1, <2>2, <2>3, <2>4, <2>5, <2>6 DEF cp_reg
<1>8. CASE fs[src][pend].k = "lnk" /\ cp_link(pend)
  <2>1. ~Kept(pend)
    BY <1>2, <1>8 DEF Kept
  <2>2. CASE Fail /\ CopyRet(FALSE) /\ Same
    BY <1>3, <2>2, FailDisturbs
  <2>3. CASE same(pend) /\ CopyRet(TRUE) /\ Same
    BY <1>4, <2>3
  <2>4. CASE fs[dst][pend] = Absent /\ pc' = "write" /\ Same /\ UNCHANGED pend
    <3>1. ~InWay(pend)
      BY <1>8, <2>4, Kinds DEF InWay
    <3> QED BY <1>1, <2>1, <2>4, <3>1, FileGoesFull
  <2>5. CASE overwrite_rm(pend)
    BY <1>1, <2>1, <2>5, OverwriteFull
  <2> QED BY <1>8, <2>2, <2>3, <2>4, <2>5 DEF cp_link
<1> QED BY <1>6, <1>7, <1>8 DEF cp_file

LEMMA TargetIsGone ==
  ASSUME Given, NEW n \in Node, fs[dst][n] # Dir, rm_file(dst, n),
         Undisturbed', ~Halted'
  PROVE  fs'[dst][n] = Absent
<1>1. ~Fail /\ ~Halted
  BY FailDisturbs, GivenParts
<1>2. ~EscTyped
  BY DEF EscTyped, Halted
<1>3. Put(dst, n, Absent)
  BY <1>1, <1>2 DEF rm_file, Halted
<1> QED BY <1>3, GivenParts, KnownParts, WalkTypes DEF Put

LEMMA UnlinkFull ==
  ASSUME Given, ~Clash, UnlinkTarget
  PROVE  Full'
<1>1. /\ pc = "unlink" /\ ph["in"] = "off" /\ AtFile /\ remove(dst, pend)
      /\ pc' = IF ph["out"] = "mkdir" THEN "walk" ELSE "write"
      /\ UNCHANGED <<tree_op, ent, pend, goal, ph, at, todo, subs>>
  BY DEF UnlinkTarget, Running, AtFile, walk
<1>2. /\ op # "del" /\ goal = "copy" /\ CopyPhase /\ fs[dst][pend] # Dir
      /\ pend \in Node /\ ent \in Node /\ Under[ent] \subseteq Node
      /\ ph["out"] = "mkdir" => pend = at["out"] /\ Copies
  BY <1>1, GivenParts, KnownParts
     DEF Course, CopyPhase, Whole, Basic, Control, Copies
<1>3. pend \in Under[ent]
  BY <1>1, <1>2, FileParts, GivenParts, AtIsBegun
<1>4. rm_file(dst, pend)
  BY <1>1, <1>2 DEF remove
<1>5. \/ fs' = fs
      \/ /\ fs'[src] = fs[src] /\ fs'[dst][pend] = Absent
         /\ \A m \in Node \ {pend} : fs'[dst][m] = fs[dst][m]
  BY <1>2, <1>4, GivenParts, KnownParts, WalkTypes, Gone
<1>6. Undisturbed' /\ ~Halted' => fs'[dst][pend] = Absent
  BY <1>2, <1>4, TargetIsGone
<1>7. Nested'
  BY <1>1, NestedStays
<1>8. /\ fs'[src] = fs[src] /\ \A n \in Node \ {pend} : fs'[dst][n] = fs[dst][n]
      /\ \A n \in Node : fs'[dst][n] = Dir => fs[dst][n] = Dir
      /\ pc' \in {"walk", "write"}
  BY <1>1, <1>5, Kinds
<1>9. Whole' /\ Safe' /\ Swept'
  BY <1>1, <1>2, <1>3, <1>8, CopyFrame DEF Copies
<1>10. \A n : Waiting(n)' <=> Waiting(n)
  BY <1>1, Fixed, GivenParts, KnownParts DEF Waiting, Seen, Remaining
<1>11. ASSUME NEW n \in Under[ent], There(n) \/ Coming(n)
       PROVE  There(n)' \/ Coming(n)'
  <2>1. There(n) /\ n # pend => There(n)'
    BY <1>2, <1>8, ThereStays
  <2>2. n = pend => Coming(n)'
    BY <1>1, <1>2 DEF Coming
  <2>3. Coming(n) => Coming(n)'
    BY <1>1, <1>2, <1>10, <2>2 DEF Coming, Ahead, Later, Copies, Listed
  <2> QED BY <1>11, <2>1, <2>2, <2>3
<1>12. Arrived'
  <2>1. SUFFICES ASSUME Undisturbed', op \in {"copy", "move"}
                 PROVE  Arrived'
    BY Fixed, GivenParts, KnownParts DEF Arrived
  <2>2. ASSUME Copies', ~Halted', NEW n \in Under[ent]
        PROVE  There(n)' \/ Coming(n)'
    <3>1. Copies /\ ~Halted /\ Undisturbed
      BY <1>1, <2>1, <2>2, GivenParts DEF Copies
    <3> QED BY <1>11, <2>1, <2>2, <3>1, GivenParts DEF Arrived
  <2>3. ph["out"] # "mkdir" => ~Kept(pend)'
    <3>1. Kept(pend)' <=> Kept(pend)
      BY <1>1, Fixed, GivenParts, KnownParts DEF Kept
    <3> QED BY <1>1, <2>1, <3>1, GivenParts DEF Arrived
  <2>4. ~Halted' => ~InWay(pend)'
    BY <1>1, <1>6, <2>1, Fixed, GivenParts, KnownParts, Kinds DEF InWay
  <2>5. ~RemovePhase' /\ pc' # "after"
    BY <1>1, <1>2 DEF RemovePhase
  <2>6. ph["out"] = "mkdir" /\ ~Halted' => (fs[dst][at["out"]] = Absent)'
    BY <1>1, <1>2, <1>6, <2>1, Fixed, GivenParts, KnownParts
  <2> QED BY <1>1, <2>2, <2>3, <2>4, <2>5, <2>6 DEF Arrived
<1> QED BY <1>7, <1>9, <1>12 DEF Full

LEMMA WriteFull ==
  ASSUME Given, ~Clash, WriteFile
  PROVE  Full'
<1>1. /\ pc = "write" /\ ph["in"] = "off" /\ AtFile /\ ph["out"] # "mkdir"
      /\ UNCHANGED <<tree_op, ent, goal, ph, at, todo, subs, refused>>
  BY GivenParts, KnownParts DEF WriteFile, Running, AtFile, Basic, Control, walk
<1>2. /\ pend \in Node /\ ent \in Node /\ pend \in Under[ent]
      /\ fs[src][pend] \in Leaf /\ fs0[src][pend] = fs[src][pend]
      /\ fs[dst][pend] # Dir
      /\ ph["out"] \in {"off", "read"} /\ (ph["out"] = "off" => pend = ent)
      /\ ph["out"] # "off" => Copies
  BY <1>1, FileParts
<1>3. fs \in [Side -> [Node -> Obj]] /\ src \in Side /\ dst \in Side /\ src # dst
  BY GivenParts, KnownParts, WalkTypes
<1>4. /\ fs'[src] = fs[src] /\ \A n \in Node \ {pend} : fs'[dst][n] = fs[dst][n]
      /\ fs'[dst][pend] # Dir
  <2>1. Copied(pend) # Dir /\ Absent # Dir /\ [k |-> "reg", d |-> Cut] # Dir
    BY <1>2, Kinds DEF Copied, Dir
  <2>4. ASSUME NEW o, o # Dir, Put(dst, pend, o)
        PROVE  /\ fs'[src] = fs[src] /\ \A n \in Node \ {pend} : fs'[dst][n] = fs[dst][n]
               /\ fs'[dst][pend] # Dir
    BY <1>2, <1>3, <2>4 DEF Put
  <2>2. CASE fs[src][pend].k = "reg" /\ write_reg(pend)
    <3>1. \/ fs' = fs \/ Put(dst, pend, Copied(pend)) \/ Put(dst, pend, Absent)
          \/ Put(dst, pend, [k |-> "reg", d |-> Cut])
      BY <2>2 DEF write_reg
    <3> QED BY <1>2, <2>1, <2>4, <3>1
  <2>3. CASE fs[src][pend].k = "lnk" /\ write_lnk(pend)
    <3>1. fs' = fs \/ Put(dst, pend, Copied(pend))
      BY <2>3 DEF write_lnk, Copied
    <3> QED BY <1>2, <2>1, <2>4, <3>1
  <2> QED BY <2>2, <2>3 DEF WriteFile
<1>5. CASE Undisturbed' /\ ~Halted' /\ op \in {"copy", "move"}
  <2>1. Undisturbed /\ ~Halted /\ ~Fail /\ ~InWay(pend) /\ ~Kept(pend)
    BY <1>1, <1>5, GivenParts, FailDisturbs DEF Arrived
  <2>2. InDir(dst, pend)
    <3>1. CASE ph["out"] = "off"
      BY <1>2, <3>1, GivenParts, EntSeen DEF InDir
    <3>2. CASE ph["out"] = "read"
      <4>1. Parent[pend] = at["out"] /\ at["out"] \in Node
        BY <1>1, <3>2, GivenParts, KnownParts, AtIsBegun DEF CopyOK
      <4>2. pend # at["out"]
        BY <1>2, <4>1, NodeAssumption
      <4>3. ~Coming(at["out"])
        BY <1>1, <3>2, <4>2, GivenParts, AtIsBegun DEF Coming, Ahead, Later
      <4>4. fs[src][pend] # Absent
        BY <1>2, Kinds
      <4> QED BY <1>2, <1>5, <2>1, <3>2, <4>1, <4>3, <4>4, InDirThere
    <3> QED BY <1>2, <3>1, <3>2
  <2>3. Put(dst, pend, fs[src][pend]) /\ CopyRet(TRUE)
    <3>1. CASE fs[src][pend].k = "reg" /\ write_reg(pend)
      <4>1. fs[dst][pend].k \notin {"lnk", "dir"}
        BY <2>1, <3>1 DEF InWay
      <4>2. fs[dst][pend].k = "reg" \/ fs[dst][pend] = Absent
        BY <1>2, <1>3, <4>1, Kinds
      <4>3. Writable(pend)
        BY <2>2, <4>2 DEF Writable
      <4> QED BY <2>1, <3>1, <4>1, <4>3 DEF write_reg, Copied
    <3>2. CASE fs[src][pend].k = "lnk" /\ write_lnk(pend)
      BY <2>1, <2>2, <3>2 DEF InWay, write_lnk
    <3> QED BY <3>1, <3>2 DEF WriteFile
  <2>4. fs'[dst][pend] = fs0[src][pend]
    BY <1>2, <1>3, <2>3 DEF Put
  <2> QED BY <1>1, <1>4, <2>1, <2>3, <2>4, FileEndFull
<1>6. CASE ~(Undisturbed' /\ ~Halted' /\ op \in {"copy", "move"})
  <2>1. CopyRet(TRUE) \/ CopyRet(FALSE)
    BY DEF WriteFile, write_reg, write_lnk
  <2>2. op \in {"copy", "move", "empty"}
    BY <1>1, FileParts, GivenParts, KnownParts, BasicParts DEF Basic, TypeOK, CommandOK
  <2> QED BY <1>1, <1>4, <1>6, <2>1, <2>2, FileEndFull
<1> QED BY <1>5, <1>6
-----------------------------------------------------------------------------
(* The entries preserve Full.                                              *)

\* What the next entry finds.
LEMMA EntryParts ==
  ASSUME Given, ~Clash, NEW u \in Remaining, EntryStep(u)
  PROVE  /\ u \in Node /\ u \in Entry /\ u \in Seen' /\ ent' = u /\ pc = "entry"
         /\ u \in Under[u] /\ Under[u] \subseteq Node
         /\ ph["out"] = "off" /\ ph["in"] = "off" /\ ~Copies /\ Nested'
         /\ subs' = subs /\ todo' = todo
         /\ \A n \in Under[u] : /\ fs[src][n] = fs0[src][n]
                                /\ fs[dst][n] = fs0[dst][n]
         /\ Seen' = Seen \cup {u}
         /\ \A v \in Seen : v # u /\ (Undisturbed' /\ ~Halted' => Finished(v))
<1>1. /\ u \in sel /\ u \in Entry /\ u \in Node /\ ent' = u /\ pc = "entry"
      /\ Seen' = Seen \cup {u} /\ u \in Under[u] /\ Under[u] \subseteq Node
      /\ \A n \in Under[u] : n \in Node /\ Waiting(n) /\ Fresh(n)
      /\ \A n \in Node : Waiting(n) => Fresh(n) /\ fs[src][n] = fs0[src][n]
  BY EntryBegins, GivenParts, KnownParts
<1>2. /\ ph["out"] = "off" /\ ph["in"] = "off" /\ ~Copies /\ subs["out"] = {}
      /\ subs' = subs /\ todo' = todo
  BY <1>1, BetweenMild, GivenParts, KnownParts DEF Basic, Control, EntryStep
<1>3. Nested'
  BY <1>2 DEF Nested
<1>4. \A n \in Under[u] : fs[src][n] = fs0[src][n] /\ fs[dst][n] = fs0[dst][n]
  BY <1>1 DEF Fresh
<1>5. \A v \in Seen : v # u
  BY <1>1 DEF Waiting
<1>6. \A v \in Seen : Undisturbed' /\ ~Halted' => Finished(v)
  BY <1>1, GivenParts DEF Swept
<1> QED BY <1>1, <1>2, <1>3, <1>4, <1>5, <1>6

\* What a step to the next entry has to show.
LEMMA EntryFull ==
  ASSUME Given, ~Clash, NEW u \in Remaining, EntryStep(u), Whole', Arrived',
         \A n \in Node \ Under[u] : /\ fs'[src][n] = fs[src][n]
                                    /\ fs'[dst][n] = fs[dst][n],
         \A n \in Under[u] : Undisturbed' /\ op = "move" =>
           fs'[src][n] = fs0[src][n] \/ There(n)',
         Undisturbed' /\ ~Halted' /\ pc' \in {"entry", "idle"} => Finished(u)',
         Undisturbed' /\ ~Halted' /\ pc' = "rmsrc" =>
           \A n \in Under[u] \ {u} : fs'[src][n] = Absent,
         ph'["out"] # "off" => ph'["out"] = "enter" /\ at'["out"] = u
  PROVE  Full'
<1>1. /\ u \in Node /\ u \in Entry /\ ent' = u /\ Nested' /\ Seen' = Seen \cup {u}
      /\ Under[u] \subseteq Node
      /\ \A v \in Seen : v # u /\ (Undisturbed' /\ ~Halted' => Finished(v))
  BY EntryParts
<1>2. Safe'
  <2>1. SUFFICES ASSUME Undisturbed', op = "move", NEW n \in Node
                 PROVE  (fs[src][n] = fs0[src][n] \/ There(n))'
    BY Fixed, GivenParts, KnownParts DEF Safe
  <2>2. CASE n \in Under[u]
    BY <2>1, <2>2, Fixed, GivenParts, KnownParts
  <2>3. CASE n \notin Under[u]
    BY <2>1, <2>3, ThereStays, Fixed, GivenParts, KnownParts DEF Safe
  <2> QED BY <2>2, <2>3
<1>3. ASSUME Undisturbed', ~Halted', NEW v \in Seen
      PROVE  Finished(v)'
  <2>1. v # u /\ Finished(v) /\ v \in Entry /\ v \in Node /\ Under[v] \subseteq Node
    BY <1>1, <1>3, GivenParts, KnownParts
  <2>2. \A n \in Under[v] : n \in Node /\ n \notin Under[u]
    BY <1>1, <2>1, EntriesApart
  <2>3. \A n \in Under[v] : There(n)' <=> There(n)
    BY <2>2, ThereStays
  <2> QED BY <2>1, <2>2, <2>3, Fixed, GivenParts, KnownParts DEF Finished
<1>4. Swept'
  <2>1. ASSUME ph'["out"] # "off", NEW n \in Under[u]
        PROVE  Left(n)'
    BY <1>1, <2>1 DEF Left
  <2> QED BY <1>1, <1>3, <2>1, Fixed, GivenParts, KnownParts DEF Swept
<1> QED BY <1>1, <1>2, <1>4 DEF Full

LEMMA NoSourceFull ==
  ASSUME Given, ~Clash, NEW u \in Remaining, NoSource(u)
  PROVE  Full'
<1>1. /\ UNCHANGED <<fs, tree_op, flags, fails, pc, pend, goal, ph, at, refused>>
      /\ EntryStep(u) /\ fs[src][u] = Absent
  BY DEF NoSource
<1>2. /\ u \in Node /\ pc = "entry" /\ ph["out"] = "off" /\ ph["in"] = "off"
      /\ \A n \in Under[u] : fs[src][n] = fs0[src][n]
  BY <1>1, EntryParts
<1>3. \A n \in Under[u] : fs0[src][n] = Absent /\ fs[src][n] = Absent
  BY <1>1, <1>2, NothingBelow, Kinds, GivenParts, KnownParts
<1>4. Whole' /\ Arrived'
  BY <1>1, <1>2, Fixed, GivenParts, KnownParts
     DEF Whole, Arrived, CopyPhase, RemovePhase, AtFile, Copies
<1>5. Finished(u)'
  BY <1>1, <1>3, Fixed, GivenParts, KnownParts DEF Finished, There
<1> QED BY <1>1, <1>2, <1>3, <1>4, <1>5, EntryFull

LEMMA RenameFull ==
  ASSUME Given, ~Clash, NEW u \in Remaining, RenameEntry(u)
  PROVE  Full'
<1>1. /\ UNCHANGED <<tree_op, pc, pend, goal, ph, at, refused>>
      /\ EntryStep(u) /\ op = "move" /\ fs[dst][u] = Absent
  BY DEF RenameEntry, Renames
<1>2. /\ u \in Node /\ pc = "entry" /\ ph["out"] = "off" /\ ph["in"] = "off"
      /\ Under[u] \subseteq Node
      /\ \A n \in Under[u] : fs[src][n] = fs0[src][n] /\ fs[dst][n] = fs0[dst][n]
  BY <1>1, EntryParts
<1>3. fs \in [Side -> [Node -> Obj]] /\ src \in Side /\ dst \in Side /\ src # dst
  BY GivenParts, KnownParts, WalkTypes
<1>4. CASE fs' = [fs EXCEPT ![dst] = Graft(@, fs[src], u),
                            ![src] = Graft(@, Nothing, u)]
  <2>1. \A n \in Node : /\ fs'[dst][n] = IF n \in Under[u] THEN fs[src][n] ELSE fs[dst][n]
                        /\ fs'[src][n] = IF n \in Under[u] THEN Absent ELSE fs[src][n]
    BY <1>3, <1>4 DEF Graft, Nothing
  <2>2. \A n \in Under[u] : fs0[dst][n] = Absent
    BY <1>1, <1>2, NothingBelow, Kinds, GivenParts, KnownParts
  <2>3. \A n \in Under[u] : ~Kept(n)
    BY <2>2, Kinds DEF Kept
  <2>4. \A n \in Under[u] : There(n)'
    BY <1>2, <2>1, <2>3, Fixed, GivenParts, KnownParts DEF There
  <2>5. Finished(u)'
    BY <1>2, <2>1, <2>4, Fixed, GivenParts, KnownParts DEF Finished
  <2>6. \A n \in Node : fs'[dst][n] = Dir => fs0[dst][n] = Dir \/ fs0[src][n] = Dir
    BY <1>1, <1>2, <2>1, GivenParts DEF Whole
  <2>7. Whole' /\ Arrived'
    BY <1>1, <1>2, <2>6, Fixed, GivenParts, KnownParts
       DEF Whole, Arrived, CopyPhase, RemovePhase, AtFile, Copies
  <2> QED BY <1>1, <1>2, <2>1, <2>4, <2>5, <2>7, EntryFull
<1>5. CASE UNCHANGED fs /\ (Halted' \/ ~Undisturbed')
  <2>1. Whole' /\ Arrived'
    BY <1>1, <1>2, <1>5, Fixed, GivenParts, KnownParts
       DEF Whole, Arrived, CopyPhase, RemovePhase, AtFile, Copies
  <2> QED BY <1>1, <1>2, <1>5, <2>1, EntryFull
<1>6. fs_error /\ UNCHANGED flags => Halted'
  BY DEF Halted, flags
<1> QED BY <1>4, <1>5, <1>6, FailDisturbs DEF RenameEntry

LEMMA CopyEntryFull ==
  ASSUME Given, ~Clash, NEW u \in Remaining, CopyEntry(u)
  PROVE  Full'
<1>1. /\ UNCHANGED fs /\ EntryStep(u) /\ goal' = "copy" /\ op # "del"
      /\ UNCHANGED <<flags, fails, refused>>
  BY DEF CopyEntry
<1>2. /\ u \in Node /\ pc = "entry" /\ ph["out"] = "off" /\ ph["in"] = "off"
      /\ ent' = u /\ Under[u] \subseteq Node
      /\ \A n \in Under[u] : fs[src][n] = fs0[src][n]
  BY <1>1, EntryParts
<1>3. /\ ph'["in"] = "off"
      /\ \/ /\ ph'["out"] = "enter" /\ at'["out"] = u /\ tree_op' = EntryTreeOp
            /\ pc' = "walk"
         \/ ph'["out"] = "off" /\ pc' = "copy" /\ pend' = u
  BY <1>1, <1>2, GivenParts, KnownParts, WalkTypes DEF CopyEntry, Descend, Walker
<1>4. Whole'
  BY <1>1, <1>2, <1>3, Fixed, GivenParts, KnownParts DEF Whole, Copies, EntryTreeOp
<1>5. \A n \in Under[u] : Coming(n)'
  <2>1. CASE pc' = "copy"
    BY <1>2, <1>3, <2>1 DEF Coming, Ahead
  <2>2. CASE ph'["out"] = "enter"
    BY <1>1, <1>2, <1>3, <2>2 DEF Coming, Ahead, Later, Copies
  <2> QED BY <1>3, <2>1, <2>2
<1>6. Arrived'
  BY <1>1, <1>2, <1>3, <1>5, Fixed, GivenParts, KnownParts
     DEF Arrived, RemovePhase
<1> QED BY <1>1, <1>2, <1>3, <1>4, <1>6, EntryFull

LEMMA DeleteEntryFull ==
  ASSUME Given, ~Clash, NEW u \in Remaining, DeleteEntry(u)
  PROVE  Full'
<1>1. UNCHANGED fs /\ EntryStep(u) /\ op = "del"
  BY DEF DeleteEntry
<1>2. /\ u \in Node /\ pc = "entry" /\ ph["out"] = "off" /\ ph["in"] = "off"
      /\ ent' = u /\ Under[u] \subseteq Node
  BY <1>1, EntryParts
<1>3. Whole' /\ Arrived'
  BY <1>1, Fixed, GivenParts, KnownParts DEF Whole, Arrived
<1>4. CASE DelDialog(u, FALSE) /\ UNCHANGED <<pc, ph>>
  <2>1. ~Undisturbed'
    BY <1>4 DEF DelDialog, Undisturbed
  <2> QED BY <1>1, <1>2, <1>3, <1>4, <2>1, EntryFull
<1>5. CASE Descend("out", u) /\ pc' = "walk"
  <2>1. ph'["out"] = "enter" /\ at'["out"] = u
    BY <1>5, GivenParts, KnownParts, WalkTypes DEF Descend, Walker
  <2> QED BY <1>1, <1>3, <1>5, <2>1, EntryFull
<1>6. CASE fs[src][u] # Dir /\ pc' = "rmsrc" /\ UNCHANGED ph
  <2>1. \A n \in Under[u] \ {u} : fs'[src][n] = Absent
    BY <1>1, <1>2, <1>6, NothingBelow, GivenParts, KnownParts
  <2> QED BY <1>1, <1>2, <1>3, <1>6, <2>1, EntryFull
<1>7. CASE NotEmpty(src, u, FALSE) /\ pc' = "rmsrc" /\ UNCHANGED ph
  <2>1. ASSUME Undisturbed', ~Halted', NEW n \in Under[u] \ {u}
        PROVE  fs'[src][n] = Absent
    <3>1. ~fs_error
      BY <2>1, GivenParts DEF Halted
    <3>2. Children(src, u) = {}
      BY <1>7, <3>1 DEF NotEmpty
    <3>3. PICK c \in Node : Parent[c] = u /\ n \in Under[c]
      BY <1>2, <2>1, ChildBetween
    <3>4. fs[src][c] = Absent
      BY <3>2, <3>3 DEF Children
    <3> QED BY <1>1, <3>3, <3>4, NothingBelow, Kinds, GivenParts, KnownParts
  <2> QED BY <1>1, <1>2, <1>3, <1>7, <2>1, EntryFull
<1>8. \/ DelDialog(u, FALSE) /\ UNCHANGED <<pc, ph>>
      \/ Descend("out", u) /\ pc' = "walk"
      \/ fs[src][u] # Dir /\ pc' = "rmsrc" /\ UNCHANGED ph
      \/ NotEmpty(src, u, FALSE) /\ pc' = "rmsrc" /\ UNCHANGED ph
  BY DEF DeleteEntry
<1> QED BY <1>4, <1>5, <1>6, <1>7, <1>8

LEMMA AfterCopyFull ==
  ASSUME Given, ~Clash, AfterCopy
  PROVE  Full'
<1>1. /\ pc = "after" /\ UNCHANGED <<fs, ent, pend, subs, refused>>
      /\ UNCHANGED <<flags, fails>> /\ op # "del" /\ ent \in Node
      /\ ph["out"] = "off" /\ ph["in"] = "off" /\ subs["out"] = {}
  BY GivenParts, KnownParts, BetweenMild DEF AfterCopy, Course, Basic, Control
<1>2. /\ ph'["in"] = "off"
      /\ \/ /\ Removes /\ ph'["out"] = "enter" /\ at'["out"] = ent
            /\ goal' = "remove" /\ pc' = "walk"
         \/ Removes /\ fs[src][ent] \in Leaf /\ pc' = "rmsrc" /\ ph'["out"] = "off"
         \/ /\ ~Removes \/ fs[src][ent] = Absent
            /\ pc' = "entry" /\ ph'["out"] = "off"
  BY <1>1, GivenParts, KnownParts, WalkTypes DEF AfterCopy, Descend, Walker
<1>3. Nested'
  BY <1>1 DEF Nested, AfterCopy
<1>4. Whole'
  BY <1>1, <1>2, Fixed, GivenParts, KnownParts DEF Whole, CopyPhase, AtFile, Copies
<1>5. ASSUME Undisturbed', ~Halted', op \in {"copy", "move"}
      PROVE  \A n \in Under[ent] : There(n)' /\ There(n)
  <2>1. \A n \in Under[ent] : There(n)
    BY <1>1, <1>5, GivenParts DEF Arrived
  <2> QED BY <1>1, <2>1, ThereStays
<1>6. Removes => ~Halted /\ ~Halted' /\ op = "move"
  BY <1>1 DEF Removes, Halted, flags
<1>7. Arrived'
  BY <1>1, <1>2, <1>5, <1>6, Fixed, GivenParts, KnownParts
     DEF Arrived, RemovePhase, Copies
<1>8. Safe'
  BY <1>1, ThereStays, Fixed, GivenParts, KnownParts DEF Safe
<1>9. ASSUME Undisturbed', ~Halted'
      PROVE  Swept'
  <2>1. ASSUME NEW v \in Seen, v # ent PROVE Finished(v)'
    BY <1>1, <1>9, <2>1, OthersFinished, GivenParts DEF Swept
  <2>2. ASSUME pc' = "entry" PROVE Finished(ent)'
    <3>1. ~Halted /\ ~fs_none
      BY <1>1, <1>9, GivenParts, KnownParts DEF Refusals
    <3>2. op = "move" => fs[src][ent] = Absent
      BY <1>2, <2>2, <3>1 DEF Removes, Halted
    <3>3. op = "move" => \A n \in Under[ent] : fs'[src][n] = Absent
      BY <1>1, <3>2, NothingBelow, Kinds, GivenParts, KnownParts
    <3> QED BY <1>1, <1>5, <1>9, <3>3, Fixed, GivenParts, KnownParts DEF Finished
  <2>3. ASSUME pc' = "rmsrc"
        PROVE  \A n \in Under[ent] \ {ent} : fs'[src][n] = Absent
    BY <1>1, <1>2, <2>3, NothingBelow, Kinds, GivenParts, KnownParts
  <2>4. ASSUME ph'["out"] # "off" PROVE \A n \in Under[ent] : Left(n)'
    BY <1>1, <1>2, <2>4 DEF Left
  <2>5. Seen' = Seen /\ pc' # "idle"
    BY <1>1, <1>2, GivenParts
  <2>6. \A v \in Seen' : (v = ent' => pc' \in {"entry", "idle"}) => Finished(v)'
    <3>1. ASSUME NEW v \in Seen, v = ent => pc' \in {"entry", "idle"}
          PROVE  Finished(v)'
      BY <1>1, <2>1, <2>2, <2>5, <3>1
    <3> QED BY <1>1, <2>5, <3>1
  <2>7. src' = src /\ ent' = ent
    BY <1>1, Fixed, GivenParts, KnownParts
  <2>8. /\ pc' = "rmsrc" => \A n \in Under[ent'] \ {ent'} : fs'[src'][n] = Absent
        /\ ph'["out"] # "off" /\ goal' = "remove" =>
             \A n \in Under[ent'] : fs'[src'][n] # Absent => Left(n)'
    BY <2>3, <2>4, <2>7
  <2> QED BY <2>6, <2>8 DEF Swept
<1>10. Swept'
  BY <1>9 DEF Swept
<1> QED BY <1>3, <1>4, <1>7, <1>8, <1>10 DEF Full

LEMMA RemoveSourceFull ==
  ASSUME Given, ~Clash, RemoveSource
  PROVE  Full'
<1>1. /\ pc = "rmsrc" /\ pc' = "entry" /\ remove(src, ent) /\ ent \in Node
      /\ UNCHANGED <<tree_op, ent, pend, goal, ph, at, todo, subs, thru>>
      /\ ph["out"] = "off" /\ ph["in"] = "off" /\ subs["out"] = {}
  BY GivenParts, KnownParts DEF RemoveSource, walk, Basic, Control
<1>2. \/ fs[src][ent] = Dir /\ rm_dir(src, ent)
      \/ fs[src][ent] # Dir /\ rm_file(src, ent)
  BY <1>1 DEF remove
<1>3. fs'[dst] = fs[dst] /\ \A m \in Node \ {ent} : fs'[src][m] = fs[src][m]
  BY <1>1, <1>2, GivenParts, KnownParts, WalkTypes, Gone
<1>4. Nested'
  BY <1>1 DEF Nested
<1>5. ASSUME Undisturbed', ~Halted', NEW n \in Under[ent]
      PROVE  fs'[src][n] = Absent
  <2>1. \A m \in Under[ent] \ {ent} : m \in Node /\ fs[src][m] = Absent
    BY <1>1, <1>5, GivenParts, KnownParts DEF Swept
  <2>2. Children(src, ent) = {}
    BY <1>1, <2>1, UnderStep, Self, NodeAssumption DEF Children
  <2>3. fs'[src][ent] = Absent
    BY <1>1, <1>2, <1>5, <2>2, FileIsGone, DirIsGone
  <2> QED BY <1>3, <1>5, <2>1, <2>3
<1>6. \A m \in Node \ Under[ent] : m # ent
  BY <1>1, Self
<1>7. Whole' /\ Arrived' /\ Safe' /\ Swept'
  BY <1>1, <1>3, <1>5, <1>6, RemoveFrame DEF RemovePhase
<1> QED BY <1>4, <1>7 DEF Full

LEMMA EndOfCommandFull ==
  ASSUME Given, ~Clash, EndOfCommand
  PROVE  Full'
<1>1. /\ pc = "entry" /\ pc' = "idle" /\ ph["out"] = "off" /\ ph["in"] = "off"
      /\ UNCHANGED <<fs, tree_op, flags, fails, ent, pend, goal, ph, at, todo,
                     subs, refused>>
  BY BetweenMild, GivenParts DEF EndOfCommand, walk
<1>2. \A n : There(n)' <=> There(n)
  BY <1>1, ThereStays
<1>3. Seen' = Seen
  BY <1>1, GivenParts
<1>4. Halted' = Halted
  BY <1>1 DEF Halted, flags
<1>5. \A u : Finished(u)' <=> Finished(u)
  BY <1>1, <1>2, Fixed, GivenParts, KnownParts DEF Finished
<1>6. Nested'
  BY <1>1, GivenParts DEF Nested
<1>7. Whole' /\ Arrived' /\ Safe'
  BY <1>1, <1>2, Fixed, GivenParts, KnownParts
     DEF Whole, Arrived, Safe, CopyPhase, RemovePhase, AtFile, Copies
<1>8. Swept'
  BY <1>1, <1>3, <1>4, <1>5, Fixed, GivenParts, KnownParts DEF Swept
<1> QED BY <1>6, <1>7, <1>8 DEF Full
-----------------------------------------------------------------------------
(* The theorems.                                                           *)

\* A command without clash does what it should, and has no entry left when it
\* is at its end.
Complete == ~Clash => Full
AtTheEnd == pc = "idle" => Remaining = {}

LEMMA WalkFull ==
  ASSUME Given, ~Clash, NEW w \in Walker, Walk(w)
  PROVE  Full'
<1>1. w = "out"
  <2>1. SUFFICES ASSUME w = "in" PROVE FALSE
    BY DEF Walker
  <2>2. ph["in"] = "off"
    BY InsideNever
  <2> QED BY <2>1, <2>2 DEF Walk, Enter, Opendir, Read, Subdirs, Walking
<1> QED BY <1>1, EnterFull, OpendirFull, ReadFull, SubdirsFull DEF Walk

LEMMA EngineFull ==
  ASSUME Basic, Steady, Mild, Basic', Steady', Mild', Complete, Engine
  PROVE  Complete'
<1>1. Known
  BY EngineOnward DEF Known, Now
<1>2. SUFFICES ASSUME ~Clash PROVE Full'
  BY <1>1, Fixed, KnownParts DEF Complete
<1>3. Given
  BY <1>1, <1>2 DEF Given, Complete
<1> QED BY <1>2, <1>3, WalkFull, NoSourceFull, RenameFull, CopyEntryFull,
           DeleteEntryFull, AfterCopyFull, RemoveSourceFull, EndOfCommandFull,
           CopyFileFull, UnlinkFull, MkdirFull, WriteFull
        DEF Engine, NextEntry

LEMMA NextKeyFull ==
  ASSUME Now, NEW o, NEW s, NEW S \in SUBSET Entry, NEW new, NextKey(o, s, S, new)
  PROVE  Full'
<1>1. /\ ph["out"] = "off" /\ ph["in"] = "off" /\ subs["out"] = {} /\ pc' = "entry"
      /\ fs' = fs /\ fs0' = fs /\ ph' = ph /\ subs' = subs /\ sel' = S /\ ent' = Root
  BY DEF Now, Basic, Control, NextKey, walk
<1>2. Seen' = {}
  <2>1. \A n \in S : n \in Nat /\ n # 0
    BY NodeAssumption DEF Entry, Root
  <2>2. Remaining' = S
    BY <1>1, <2>1 DEF Remaining, Root
  <2> QED BY <1>1, <2>2 DEF Seen
<1> QED BY <1>1, <1>2 DEF Full, Nested, Whole, CopyPhase, RemovePhase, AtFile,
           Copies, Arrived, Safe, Swept

LEMMA StutterFull ==
  ASSUME Complete, AtTheEnd, UNCHANGED vars
  PROVE  Complete' /\ AtTheEnd'
BY DEF Complete, AtTheEnd, Full, Nested, Whole, CopyPhase, RemovePhase, AtFile, Copies,
       Arrived, Safe, Swept, Undisturbed, There, Coming, Finished, Left, Listed,
       Ahead, Later, Waiting, Seen, Remaining, Halted, InWay, Kept, Clash, dst,
       dont_overwrite, overwrite_if_old, vars, flags, command, walk

LEMMA InitFull == Init => Complete /\ AtTheEnd
BY DEF Init, Complete, AtTheEnd, Full, Nested, Whole, CopyPhase, RemovePhase, AtFile,
       Copies, Arrived, Safe, Swept, Seen, Remaining, Walker

\* Only the end of the command is its end.
LEMMA EngineEnd ==
  ASSUME Basic, Engine
  PROVE  AtTheEnd'
<1>1. \A w : Pop(w) => pc' = pc \/ pc' \in {"write", "after", "entry"}
  BY DEF Pop
<1>2. \A ok : CopyRet(ok) => pc' # "idle"
  BY DEF CopyRet
<1>3. ASSUME NEW w \in Walker, Walk(w) PROVE pc' # "idle"
  <2>1. pc \in {"walk", "write"}
    BY <1>3 DEF Walk, Enter, Opendir, Read, Subdirs, Walking
  <2>2. Created(w) => pc' # "idle"
    BY <1>1, <2>1 DEF Created, Goto
  <2>3. Enter(w) => pc' # "idle"
    BY <1>1, <2>1, <2>2 DEF Enter, creatdir, mkdir, Goto
  <2>4. Opendir(w) => pc' # "idle"
    BY <1>1, <2>1 DEF Opendir
  <2>5. Read(w) => pc' # "idle"
    BY <1>1, <2>1 DEF Read, ReadEntry, EndRead
  <2>6. Subdirs(w) => pc' # "idle"
    BY <1>1, <2>1 DEF Subdirs
  <2> QED BY <1>3, <2>3, <2>4, <2>5, <2>6 DEF Walk
<1>4. cp_file => pc' # "idle"
  <2>1. \A n : overwrite_rm(n) => pc' # "idle"
    BY <1>2 DEF overwrite_rm
  <2>2. \A n : cp_reg(n) => pc' # "idle"
    BY <1>2, <2>1 DEF cp_reg
  <2>3. \A n : cp_link(n) => pc' # "idle"
    BY <1>2, <2>1 DEF cp_link
  <2> QED BY <1>2, <2>2, <2>3 DEF cp_file
<1>5. WriteFile \/ UnlinkTarget => pc' # "idle"
  BY <1>2 DEF WriteFile, write_reg, write_lnk, UnlinkTarget
<1>6. Mkdir => pc' # "idle"
  BY <1>1 DEF Mkdir, mkdir, Created, Goto, Walking
<1>7. NextEntry => pc' # "idle"
  BY DEF NextEntry, NoSource, RenameEntry, CopyEntry, DeleteEntry, EntryStep
<1>8. AfterCopy \/ RemoveSource => pc' # "idle"
  BY DEF AfterCopy, RemoveSource
<1>9. EndOfCommand => AtTheEnd'
  BY DEF EndOfCommand, AtTheEnd, Remaining, command
<1> QED BY <1>3, <1>4, <1>5, <1>6, <1>7, <1>8, <1>9 DEF Engine, AtTheEnd

LEMMA StepFull ==
  Basic /\ Steady /\ Mild /\ Complete /\ AtTheEnd /\ [Next]_vars =>
    Complete' /\ AtTheEnd'
<1> SUFFICES ASSUME Basic, Steady, Mild, Complete, AtTheEnd, [Next]_vars
             PROVE  Complete' /\ AtTheEnd'
  OBVIOUS
<1>1. Basic' /\ Steady' /\ Mild'
  BY StepBasic, StepFine, StepMild DEF Fine
<1>2. CASE Engine
  BY <1>1, <1>2, EngineFull, EngineEnd
<1>3. CASE UNCHANGED vars
  BY <1>3, StutterFull
<1>4. ASSUME NEW o, NEW s, NEW S \in SUBSET Entry, NEW new, NextKey(o, s, S, new)
      PROVE  Complete' /\ AtTheEnd'
  BY <1>1, <1>4, NextKeyFull DEF Now, Complete, AtTheEnd, NextKey
<1> QED BY <1>2, <1>3, <1>4 DEF Next

\* "Move" loses no file: as long as no call failed and nothing was refused, each
\* file of the source is in the source or in the target tree, at every moment,
\* and whatever trees are given.
THEOREM MoveLosesNothing == Spec => []MoveKeepsFiles
<1>1. Init => Basic /\ Steady /\ Mild /\ Complete /\ AtTheEnd
  BY InitBasic, InitSteady, InitMild, InitFull
<1>2. Basic /\ Steady /\ Mild /\ Complete /\ AtTheEnd /\ [Next]_vars =>
        (Basic /\ Steady /\ Mild /\ Complete /\ AtTheEnd)'
  BY StepBasic, StepFine, StepMild, StepFull DEF Fine
<1>3. Complete => MoveKeepsFiles
  BY Kinds DEF Complete, Full, Safe, Undisturbed, There, MoveKeepsFiles
<1> QED BY <1>1, <1>2, <1>3, PTL DEF Spec

\* A command that nothing disturbs has done all that its key says when it is at
\* its end: it left out no path of the entries that were selected.
THEOREM CommandIsComplete == Spec => []CommandComplete
<1>1. Init => Basic /\ Steady /\ Mild /\ Complete /\ AtTheEnd
  BY InitBasic, InitSteady, InitMild, InitFull
<1>2. Basic /\ Steady /\ Mild /\ Complete /\ AtTheEnd /\ [Next]_vars =>
        (Basic /\ Steady /\ Mild /\ Complete /\ AtTheEnd)'
  BY StepBasic, StepFine, StepMild, StepFull DEF Fine
<1>3. ASSUME Complete, AtTheEnd PROVE CommandComplete
  <2>1. SUFFICES ASSUME pc = "idle", Smooth, ~Clash, NEW u \in sel
                 PROVE  Finished(u)
    BY DEF CommandComplete, Finished, There
  <2>2. Undisturbed /\ ~Halted /\ u \in Seen
    BY <1>3, <2>1 DEF Smooth, Undisturbed, Halted, Seen, AtTheEnd
  <2> QED BY <1>3, <2>1, <2>2 DEF Complete, Full, Swept
<1> QED BY <1>1, <1>2, <1>3, PTL DEF Spec
=====
