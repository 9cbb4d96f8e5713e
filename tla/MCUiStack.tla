----------------------------- MODULE MCUiStack -----------------------------
(***************************************************************************)
(* Two directories with a directory and an archive on both sides and a     *)
(* directory on the left side only; two temporary directories, two levels, *)
(* a bounded number of changes of the mode.  The steps are those of        *)
(* Careful, without the ones named here, after which the program has lost  *)
(* something too (see the README); the run of a finding takes one back.    *)
(***************************************************************************)
EXTENDS UiStack
CONSTANTS MaxSwitches, \* bound on the changes of the mode
          Allowed      \* the names of what the user does nevertheless
VARIABLE switches

MCTop == 0 :> "a" @@ 1 :> "b"
MCTempName == <<"t1", "t2">>
MCContent == [a |-> [d |-> "dir", z |-> "zip", e |-> "dir"],
              b |-> [d |-> "dir", z |-> "zip"],
              t |-> [d |-> "dir"]]

OneSided(t) == "none" \in {t[1], t[2]}
InTemp(p)   == Len(p) > 1 /\ p[2] \in Temps

\* An archive that is on one side only is not entered in diff mode: nothing is
\* pushed on the stack of scan databases, but popped from it.
Pushed(n) == s.mode = "d" /\ Archive(Types(s, n)) => ~OneSided(Types(s, n))
\* Two marked directories are not compared in diff mode: a scan database is
\* pushed and not popped.
Popped == s.mode = "d" => s.mark.t[1] = "zip"
\* CTRL-W is not typed inside an archive, nor in diff mode that will go back
\* to file manager mode.
NoDetour ==
  /\ \A i \in 0..1 : ~InTemp(s.syspth[i])
  /\ s.mode = "d" => ~s.from_fmode

\* Bounds: an archive is gone into once the mode has been changed, but nothing
\* in it; and after the last change only the way back is gone.
Bounded == switches = 0 \/ s.made = 0
GoingOn == switches < MaxSwitches

Keys ==
  \/ \E n \in Names :
       \/ GoingOn /\ SetMark(n)
       \/ GoingOn /\ Pushed(n) /\ Bounded /\ KeyRight(n)
       \/ /\ GoingOn /\ Pushed(n) /\ Bounded
          /\ s.mark # NULL => /\ "crossed" \in Allowed \/ Straight(n)
                              /\ Popped /\ Near
                              /\ "detour" \in Allowed \/ ~Detour
          /\ KeyEnter(n)
       \/ \E tree \in 1..2 : GoingOn /\ Plain(n) /\ KeyO(n, tree)
  \/ KeyLeft \/ Tab
  \/ GoingOn /\ (KeyR \/ Equal \/ Jump)
  \/ NoDetour /\ CtrlW
  \/ s.ui_stack = <<>> /\ ("detour" \in Allowed \/ ~Detour) /\ Sharp
  \/ (Local(s) => s.ui_stack # <<>>) /\ dl_act

MCInit == Init /\ switches = 0
MCNext ==
  /\ Keys
  /\ switches' = IF s'.mode = s.mode THEN switches ELSE switches + 1
  /\ switches' <= MaxSwitches
MCSpec == MCInit /\ [][MCNext]_<<s, switches>>
=============================================================================
