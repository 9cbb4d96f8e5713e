----------------------------- MODULE MCInfoFile -----------------------------
(***************************************************************************)
(* Two instances of the program and two directories.                       *)
(***************************************************************************)
EXTENDS InfoFile

CONSTANTS d1, d2

\* A list with one of the two directories, of an earlier second.  Only while one
\* program runs alone is there a crash, does the time go on, and is the list
\* changed more than once.
ShareInit == Init /\ info = [list |-> {d1}, mtime |-> 1] /\ now = 2
ShareNext == /\ Next
             /\ alone' \/ (UNCHANGED <<crashes, now>> /\ ops' <= 1)
Fairness  == \A p \in Prog : WF_vars(Main(p)) /\ WF_vars(Child(p))
ShareSpec == ShareInit /\ [][ShareNext]_vars /\ Fairness

\* There is no list yet.
FirstInit == Init /\ info = None /\ now = 1
FirstSpec == FirstInit /\ [][Next]_vars /\ Fairness
=============================================================================
