------------------------------ MODULE TextLine ------------------------------
(***************************************************************************)
(* What a line editor with a history promises: a text with a position in   *)
(* it, the lines that were entered in each dialog, and the way back from   *)
(* them to the line that was being typed.                                  *)
(***************************************************************************)
EXTENDS Integers, Sequences, SequencesExt

CONSTANTS
  Dialog,      (* the dialogs                                              *)
  Remembering, (* those that have a history                                *)
  Remembered   (* the number of lines that are not forgotten               *)

VARIABLES
  open,   \* the dialog, or "none"
  text, pos,
  past,   \* the lines entered in each dialog, the last one first
  back,   \* how many lines the user has gone back
  draft   \* the line that was being typed when the user went back

vars == <<open, text, pos, past, back, draft>>

Init == /\ open = "none" /\ text = <<>> /\ pos = 0
        /\ past = [d \in Dialog |-> <<>>] /\ back = 0 /\ draft = <<>>

Before == SubSeq(text, 1, pos)
Behind == SubSeq(text, pos + 1, Len(text))

\* Something is inserted where the cursor is.
Insert == LET n == Len(text') - Len(text)
          IN  /\ n > 0 /\ pos' = pos + n
              /\ text' = Before \o SubSeq(text', pos + 1, pos + n) \o Behind
              /\ UNCHANGED <<open, past, back, draft>>
Erase  == /\ pos > 0 /\ pos' = pos - 1 /\ text' = Front(Before) \o Behind
          /\ UNCHANGED <<open, past, back, draft>>
Delete == /\ Behind # <<>> /\ text' = Before \o Tail(Behind)
          /\ UNCHANGED <<open, pos, past, back, draft>>
Go     == /\ pos' \in 0..Len(text) /\ UNCHANGED <<open, text, past, back, draft>>

\* Old lines, of which the oldest may be forgotten.
Least(a, b) == IF a < b THEN a ELSE b
Forgets(old, lines) ==
  \E n \in Least(Remembered, Len(lines))..Len(lines) : old = SubSeq(lines, 1, n)

\* A dialog begins with the text there is, or with one of its own.
Open == /\ open = "none" /\ open' \in Dialog
        /\ pos' = Len(text') /\ UNCHANGED <<past, back, draft>>
Show(t) == text' = t /\ pos' = Len(t)
Older == /\ open \in Remembering /\ back < Len(past'[open])
         /\ back' = back + 1 /\ Show(past[open][back + 1])
         /\ draft' = IF back = 0 THEN text ELSE draft
         /\ \E old \in {past'[open]} :
              Forgets(old, past[open]) /\ past' = [past EXCEPT ![open] = old]
         /\ UNCHANGED open
Newer == /\ back > 0 /\ back' = back - 1
         /\ Show(IF back = 1 THEN draft ELSE past[open][back - 1])
         /\ UNCHANGED <<open, past, draft>>

Closed == back' = 0 /\ draft' = <<>> /\ text' = <<>> /\ pos' = 0
Enter == /\ open # "none" /\ open' = "none" /\ Closed
         /\ IF open \in Remembering
            THEN \E old \in {past'[open]} :
                   Forgets(old, <<text>> \o past[open]) /\ past' = [past EXCEPT ![open] = old]
            ELSE UNCHANGED past
\* <ESC>, or another dialog follows at once
Leave == open # "none" /\ open' # open /\ Closed /\ UNCHANGED past
\* A text that was prepared before a dialog is removed.
Clear == open = "none" /\ open' = open /\ Closed /\ UNCHANGED past

Next == Insert \/ Erase \/ Delete \/ Go \/ Open \/ Older \/ Newer \/ Enter \/ Leave \/ Clear
Spec == Init /\ [][Next]_vars
=============================================================================
