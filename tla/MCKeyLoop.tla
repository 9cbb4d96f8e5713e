----------------------------- MODULE MCKeyLoop -----------------------------
(***************************************************************************)
(* Keys for TLC.  All keys with all beginnings are too many for one state  *)
(* space; a keyboard is a set of keys whose beginnings can meet.           *)
(***************************************************************************)
EXTENDS KeyLoop

CONSTANTS
  Allowed,   \* the exclusions that are not made
  BoardNo    \* the keyboards that are used

VARIABLES board, runs
MCLink     == {<<2, 1>>}
MCNewer    == <<1, 0, 2>>
MCFiltered == {1}

\* A keyboard, the number of keys of one command on it and of commands and
\* other complete sequences, the modes and the directories.  Deleting with
\* numbers, ranges and marks; editing; copying and moving; sorts, columns and
\* programs with the same letters.  The last: marks with numbers.
Board ==
  <<[keys |-> {"d", "2", "'", "m", "j", "E", "."}, typed |-> 2, most |-> 4, modes |-> {"diff", "fmode"}],
    [keys |-> {"V", "G", "d", "e", "p", ".", "k"}, typed |-> 2, most |-> 4, modes |-> {"diff", "fmode"}],
    [keys |-> {"e", "l", "r", "p", "n", "m", "2", "/", "."}, typed |-> 3, most |-> 2,
     modes |-> {"diff", "bmode"}],
    [keys |-> {"<", ">", "T", "@", "l", "r", "C", "X", "U", "P", "."}, typed |-> 2, most |-> 2,
     modes |-> {"diff", "fmode", "bmode"}],
    [keys |-> {"S", "d", "l", "r", "s", "&", "D"}, typed |-> 3, most |-> 2, modes |-> {"diff", "fmode"}],
    [keys |-> {"q", "z", "o", "v", "t", "A", "R", "S", "X", "B", "DC", "F", "F1", "e", "g", "n", "m", "r", "u"},
     typed |-> 2, most |-> 2, modes |-> {"diff", "fmode"}],
    [keys |-> {"V", "G", "d", "2", "j"}, typed |-> 2, most |-> 3, modes |-> {"diff", "fmode"}]>>

\* In diff mode files on both sides and on one, and a single file; else files of one side.
Trees(m) == IF m = "diff" THEN {{<<1, 1>>, <<1, 2>>, <<2, 1>>, <<3, 2>>}, {1, 3} \X {1, 2}, {<<1, 1>>}}
            ELSE {{1, 2} \X {1}, {1, 2} \X {2}}
MCInit ==
  /\ Init /\ runs = 0 /\ board \in {Board[i] : i \in BoardNo}
  /\ l.mode \in board.modes /\ l.disk \in Trees(l.mode) /\ (l.col = 0 \/ "<" \in board.keys)

\* What is left out (see KeyLoop and the README).
Out(what) == what \notin Allowed
Excluded ==
  \/ Out("filtered") /\ MarkFiltered
  \/ Out("multidot") /\ DotAfterMany
  \/ Out("unasked") /\ Unasked
  \/ Out("uneven") /\ SidesDiffer
  \/ Out("resumed") /\ Resumed
  \/ Out("foreign") /\ OtherColumn
MCNext == /\ runs < board.most
          /\ \E k \in board.keys : Press(k)
          /\ Len(typed') <= board.typed + (IF Head(typed') \in DigitKeys \cup {"'"} THEN 1 ELSE 0)
          /\ runs' = runs + (IF key'[1] = Zero THEN 1 ELSE 0)
          /\ ~Excluded /\ UNCHANGED board
MCSpec == MCInit /\ [][MCNext]_<<vars, board, runs>>
=============================================================================
