----------------------------- MODULE DiffMarks -----------------------------
(***************************************************************************)
(* What a recursive scan promises: it marks each directory that has        *)
(* something below it that the user looks for, a difference or a file that *)
(* matches a pattern, and no other one; at any moment the directories      *)
(* that contain a marked one are marked too.  A scan that met errors, or   *)
(* was told to compare no more, may miss some.                             *)
(***************************************************************************)
CONSTANT Above      (* Above[p]: directory p, and those that contain it     *)

VARIABLES
  truth,     \* the directories that immediately contain what is looked for
  marked,    \* the marked directories
  trust,     \* what the marks are worth: "full": all of them are there;
             \* "sound": some may be missing; "none": some may be wrong
  scanning

vars == <<truth, marked, trust, scanning>>

Init == /\ truth \subseteq DOMAIN Above /\ marked = {}
        /\ trust \in {"full", "sound"} /\ scanning = TRUE

Mark == /\ scanning
        /\ \E p \in IF trust = "none" THEN DOMAIN Above ELSE truth :
              marked' = marked \cup Above[p]
        /\ UNCHANGED <<truth, trust, scanning>>

Doubt == /\ scanning
         /\ trust' \in IF trust = "full" THEN {"sound", "none"} ELSE {"none"}
         /\ UNCHANGED <<truth, marked, scanning>>

Finish == /\ scanning /\ scanning' = FALSE
          /\ trust = "full" => truth \subseteq marked
          /\ UNCHANGED <<truth, marked, trust>>

Restart == /\ ~scanning /\ scanning' = TRUE
           /\ marked' = {} /\ trust' \in {"full", "sound"}
           /\ truth' = truth

Next == Mark \/ Doubt \/ Finish \/ Restart
Spec == Init /\ [][Next]_vars
=============================================================================
