----------------------------- MODULE LineEditor -----------------------------
(***************************************************************************)
(* The line editor of the dialogs (ed.c), with its history, the completion *)
(* of commands (cplt.c) and the search for the first letters of a name     *)
(* (ui2.c).  A step is a key.                                              *)
(*                                                                         *)
(* linebuf is an array of LINESIZ characters, of which the first linelen   *)
(* are the line; linepos is the cursor, and leftpos the character at the   *)
(* left border of the window.  The four are the record e.                  *)
(***************************************************************************)
EXTENDS Integers, Sequences, SequencesExt, FiniteSetsExt

CONSTANTS
  LINESIZ, StatW, \* size of the buffer, and width of the window
  HistSize,       \* histsize: lines of a history, including that being typed
  Char,           \* the characters
  Rank,           \* their order, for the search
  Commands,       \* what is completed
  Names,          \* what is searched: the names, sorted
  Given,          \* the name of a file that is renamed
  FkeyText,       \* the text of a function key
  Yanked          \* what y appends

NUL  == "0"
Junk == "?"     \* what is behind the end: never read, and not looked at here
None == "none"
Blank == " "
Slash == "/"
Kept == <<NUL>> \* initial text NULL: the text that was yanked before

\* What ed_dialog() is called with: initial text, callback, and history
Dialog == [
  command |-> [ini |-> <<>>,  callback |-> "complet",   hist |-> TRUE],
  shell   |-> [ini |-> Kept,  callback |-> "none",      hist |-> TRUE],
  rename  |-> [ini |-> Given, callback |-> "none",      hist |-> FALSE],
  search  |-> [ini |-> <<>>,  callback |-> "srch_file", hist |-> FALSE],
  regex   |-> [ini |-> <<>>,  callback |-> "none",      hist |-> TRUE]]

ASSUME LineEditorAssumption ==
  /\ LINESIZ \in Nat \ {0} /\ StatW \in Nat \ {0} /\ HistSize \in Nat
  /\ Blank \in Char /\ Slash \in Char /\ NUL \notin Char /\ Junk \notin Char
  /\ \A t \in {FkeyText, Yanked, Given} : t # <<>> /\ t \in Seq(Char) /\ Len(t) < LINESIZ
  /\ Names \in Seq(Seq(Char)) /\ Commands \in Seq(Seq(Char))
  /\ \A n \in ToSet(Names) : Slash \notin ToSet(n)

VARIABLES
  e,        \* [linebuf, linelen, linepos, leftpos]
  edit,     \* the buffer is in use
  dialog,   \* the dialog that waits for a key
  hist,     \* struct history of each dialog
  srch_idx, \* the name that was found last
  regex_mode,
  lost      \* history: the cursor was moved off the line, see below

vars == <<e, edit, dialog, hist, srch_idx, regex_mode, lost>>

Cells == 0..(LINESIZ - 1)
-----------------------------------------------------------------------------
(* The buffer.  wcstombs() takes the characters before the first NUL.      *)
End(b)   == Min({i \in Cells : b[i] = NUL} \cup {LINESIZ})
rbuf(b)  == [i \in 1..End(b) |-> b[i - 1]]
Text     == rbuf(e.linebuf)
Write(b, at, txt) ==   \* with its NUL
  [i \in Cells |-> IF i < at THEN b[i]
                   ELSE IF i < at + Len(txt) THEN txt[i - at + 1]
                   ELSE IF i = at + Len(txt) THEN NUL ELSE Junk]
Empty == [linebuf |-> Write([i \in Cells |-> Junk], 0, <<>>),
          linelen |-> 0, linepos |-> 0, leftpos |-> 0]
init_edit == IF edit THEN e ELSE Empty

Scrolled(r) == IF r.linelen + 1 > StatW THEN [r EXCEPT !.leftpos = r.linelen + 1 - StatW] ELSE r
ed_append(r, txt) ==
  IF r.linelen + Len(txt) >= LINESIZ THEN r
  ELSE LET n == r.linelen + Len(txt)
       IN  Scrolled([linebuf |-> Write(r.linebuf, r.linelen, txt), linelen |-> n,
                     linepos |-> n, leftpos |-> r.leftpos])
\* What comes before an ed_append() that replaces the text
Emptied(r) == [r EXCEPT !.linelen = 0]

\* The loops that move the rest of the line, and its NUL.
\* (a slip: the NUL stays where it was)
MovesText(r, n) ==
  [r EXCEPT !.linelen = @ + n, !.linebuf =
     [i \in Cells |-> IF i >= r.linepos + n /\ i < r.linelen + n THEN @[i - n] ELSE @[i]]]
linebuf_insch(r, n) ==
  [r EXCEPT !.linelen = @ + n, !.linebuf =
     [i \in Cells |-> IF i >= r.linepos + n /\ i <= r.linelen + n THEN @[i - n] ELSE @[i]]]
linebuf_delch(r) ==
  [r EXCEPT !.linelen = @ - 1, !.linebuf =
     [i \in Cells |-> IF i \in r.linepos..(r.linelen - 1) THEN @[i + 1]
                      ELSE IF i = r.linelen THEN Junk ELSE @[i]]]

\* At the right border the line is shifted before a character is typed.
AtBorder(r) == r.linepos - r.leftpos = StatW - 1
\* (a slip: the line is not shifted)
NeverShifted(r) == r
Shifted(r) == IF AtBorder(r) THEN [r EXCEPT !.leftpos = @ + 1] ELSE r
Room(r) == IF r.linepos = r.linelen
           THEN [r EXCEPT !.linelen = @ + 1, !.linebuf[r.linepos + 1] = NUL]
           ELSE linebuf_insch(r, 1)
Put(r, c) == [r EXCEPT !.linebuf[r.linepos] = c, !.linepos = @ + 1]
type_char(r, c) == Put(Room(Shifted(r)), c)

\* "Shifting left part to the right"
overful_del(r) == IF r.leftpos > 0 THEN [r EXCEPT !.leftpos = @ - 1] ELSE r
del_char(r)  == overful_del(linebuf_delch(r))
backspace(r) == del_char([r EXCEPT !.linepos = @ - 1])
-----------------------------------------------------------------------------
(* Callbacks.                                                              *)
(* srch_file() goes from the name found last to the next one that begins   *)
(* with the pattern, up or down the sorted names.                          *)
strncmp(s, pattern) ==
  LET diff == {i \in 1..Len(pattern) : i > Len(s) \/ s[i] # pattern[i]}
      i == Min(diff)
  IN  IF diff = {} THEN 0
      ELSE IF i > Len(s) \/ Rank[s[i]] < Rank[pattern[i]] THEN -1 ELSE 1
db_num == Len(Names)
\* (a slip: it does not go back)
OnlyDown(idx, pattern) ==
  LET hits == {i \in idx..(db_num - 1) : strncmp(Names[i + 1], pattern) = 0}
  IN  IF hits = {} THEN idx ELSE Min(hits)
\* Names between idx and the match are all on the same side of the pattern;
\* otherwise the loop ends where the side changes, without one.
srch_file(idx, pattern) ==
  LET o(i) == strncmp(Names[i + 1], pattern)
      step == -o(idx)
      hit(i) == /\ o(i) = 0
                /\ \A j \in Min({i, idx})..Max({i, idx}) : j # i => o(j) = o(idx)
      hits == {i \in 0..(db_num - 1) : (i - idx) * step >= 0 /\ hit(i)}
  IN  IF o(idx) = 0 \/ hits = {} THEN idx ELSE CHOOSE i \in hits : TRUE

\* cpltstr(): the matched word mw and its length mwl shrink with each word
\* that begins with the input, until nothing is left that was not typed.
Common(a, b, n) == Len(a) >= n /\ Len(b) >= n /\ SubSeq(a, 1, n) = SubSeq(b, 1, n)
Shrunk(m, cw, iwl) ==
  [m EXCEPT !.co = FALSE,
            !.mwl = Max({iwl} \cup {n \in iwl..@ : n > 0 /\ Common(cw, m.mw, n)})]
cpltstr(iw) ==
  FoldLeft(LAMBDA m, cw : IF ~IsPrefix(iw, cw) THEN m
                          ELSE IF m.mw = None THEN [mw |-> cw, mwl |-> Len(cw), co |-> TRUE]
                          ELSE IF ~m.co /\ m.mwl = Len(iw) THEN m
                          ELSE Shrunk(m, cw, Len(iw)),
           [mw |-> None, mwl |-> 0, co |-> TRUE], Commands)
complet(r) ==
  LET iw == rbuf(r.linebuf)
      m  == cpltstr(iw)
      w  == IF m.mwl > Len(iw) THEN ed_append(r, SubSeq(m.mw, Len(iw) + 1, m.mwl)) ELSE r
  IN  IF iw = <<>> \/ Blank \in ToSet(iw) \/ m.mw = None THEN r
      ELSE IF m.co THEN ed_append(w, <<Blank>>) ELSE w
-----------------------------------------------------------------------------
(* The history of a dialog: its lines, the last one first; while have_ent  *)
(* is set the first one is not a line that was entered, but that which is  *)
(* being typed.  ent is the line that is shown.                            *)
NoHistory == [lines |-> <<>>, have_ent |-> FALSE, ent |-> 1]
hist_add(h, line) ==
  IF HistSize < 2 THEN h
  ELSE [h EXCEPT !.lines = <<line>> \o (IF Len(@) < HistSize THEN @ ELSE Front(@))]
\* (a slip: the line that is being typed is not kept up to date)
DraftOnce(h, line) == IF ~h.have_ent THEN hist_add([h EXCEPT !.have_ent = TRUE, !.ent = 1], line)
                      ELSE h
Drafted(h, line) ==
  IF ~h.have_ent THEN hist_add([h EXCEPT !.have_ent = TRUE, !.ent = 1], line)
  ELSE IF h.ent = 1 THEN [h EXCEPT !.lines[1] = line] ELSE h
Entered(h, line) ==
  IF h.have_ent THEN [h EXCEPT !.have_ent = FALSE, !.lines[1] = line] ELSE hist_add(h, line)
-----------------------------------------------------------------------------
(* Keys.                                                                   *)
(* The model ends where the cursor has left the line, from where on the    *)
(* program reads and writes cells behind the line: after a click right of  *)
(* it, and after a text that is replaced by one that is shorter than the   *)
(* window, since that leaves leftpos as it was (see the README).           *)
Same == UNCHANGED <<edit, dialog, hist>>
Key(r) == dialog # None /\ e' = r /\ UNCHANGED lost /\ Same
callback == Dialog[dialog].callback
NoSearch == UNCHANGED <<srch_idx, regex_mode>>

\* The callback of the search, after each character that is typed or deleted
Regex(r) == dialog = "search" /\ rbuf(r.linebuf) = <<Slash>>
Searched(r) ==
  IF callback # "srch_file" \/ rbuf(r.linebuf) = <<>> THEN NoSearch
  ELSE IF Regex(r) THEN regex_mode' = TRUE /\ UNCHANGED srch_idx
  ELSE srch_idx' = srch_file(srch_idx, rbuf(r.linebuf)) /\ UNCHANGED regex_mode

\* clr_edit() frees the buffer.
clr_edit == edit' = FALSE /\ e' = Empty
\* ui_srch() goes on with a dialog for the regular expression.
ed_regex == dialog' = "regex" /\ edit' = TRUE /\ e' = Empty

\* "/" alone ends the search, but only if it is the key that was typed.
TypeChar(c) ==
  /\ e.linelen + 1 < LINESIZ /\ dialog # None
  /\ ~Regex(type_char(e, c))
  /\ Key(type_char(e, c)) /\ Searched(type_char(e, c))
SearchRegex ==
  /\ e.linelen + 1 < LINESIZ /\ dialog # None /\ Regex(type_char(e, Slash))
  /\ regex_mode' = TRUE /\ ed_regex /\ UNCHANGED <<hist, srch_idx, lost>>
Home  == Key([e EXCEPT !.leftpos = 0, !.linepos = 0]) /\ NoSearch
Left  == /\ e.linepos > e.leftpos \/ e.leftpos > 0
         /\ Key([e EXCEPT !.linepos = @ - 1,
                          !.leftpos = IF e.linepos = e.leftpos THEN @ - 1 ELSE @])
         /\ NoSearch
EndKey == /\ e.linepos # e.linelen
          /\ Key([e EXCEPT !.linepos = e.linelen,
                           !.leftpos = IF e.linelen - @ < StatW - 1 THEN @
                                       ELSE e.linelen - StatW + 1])
          /\ NoSearch
Right == /\ e.linepos # e.linelen
         /\ Key([e EXCEPT !.linepos = @ + 1,
                          !.leftpos = IF e.linepos - @ < StatW - 1 THEN @ ELSE @ + 1])
         /\ NoSearch
Backspace == /\ e.linepos > 0 /\ Key(backspace(e)) /\ Searched(backspace(e))
Delete == /\ e.linepos # e.linelen /\ Key(del_char(e)) /\ Searched(del_char(e))
Fkey == LET l == Len(FkeyText)
        IN  /\ e.linelen + l < LINESIZ
            /\ Key([linebuf_insch(e, l) EXCEPT
                      !.linepos = @ + l,
                      !.linebuf = [i \in Cells |-> IF i \in e.linepos..(e.linepos + l - 1)
                                                   THEN FkeyText[i - e.linepos + 1] ELSE @[i]]])
            /\ NoSearch
Click(x) == /\ dialog # None /\ e' = [e EXCEPT !.linepos = e.leftpos + x]
            /\ lost' = (e.leftpos + x > e.linelen) /\ Same /\ NoSearch
Tab == /\ dialog # None /\ callback = "complet" /\ e.linepos = e.linelen
       /\ Key(complet(e)) /\ NoSearch

\* A line of the history, in place of the text.
Show(line) == /\ e' = ed_append(Emptied(e), line)
              /\ lost' = (e'.leftpos > e'.linepos)
              /\ UNCHANGED <<edit, dialog, srch_idx, regex_mode>>
Remembers == dialog # None /\ Dialog[dialog].hist
hist_up ==
  /\ Remembers /\ hist[dialog].lines # <<>>
  /\ ~(hist[dialog].have_ent /\ hist[dialog].ent = Len(hist[dialog].lines))
  /\ \E h \in {Drafted(hist[dialog], Text)} :
       /\ hist' = [hist EXCEPT ![dialog] = [h EXCEPT !.ent = @ + 1]]
       /\ Show(h.lines[h.ent + 1])
hist_down ==
  /\ Remembers /\ hist[dialog].have_ent /\ hist[dialog].ent > 1
  /\ hist' = [hist EXCEPT ![dialog].ent = @ - 1]
  /\ Show(hist[dialog].lines[hist[dialog].ent - 1])

Leave == IF dialog = "search" /\ regex_mode THEN ed_regex ELSE dialog' = None /\ clr_edit
Esc == /\ dialog # None /\ Leave
       /\ regex_mode' = (regex_mode /\ dialog # "regex")
       /\ UNCHANGED <<hist, srch_idx, lost>>
Enter == /\ dialog # None /\ Leave
         /\ hist' = IF Remembers THEN [hist EXCEPT ![dialog] = Entered(@, Text)] ELSE hist
         /\ regex_mode' = (regex_mode /\ (dialog = "regex" => Text # <<>>))
         /\ UNCHANGED <<srch_idx, lost>>

ed_dialog(d) ==
  /\ dialog = None /\ dialog' = d /\ edit' = TRUE
  /\ d = "search" => db_num > 0
  /\ e' = IF Dialog[d].ini = Kept THEN init_edit
          ELSE ed_append(Emptied(init_edit), Dialog[d].ini)
  /\ lost' = (e'.leftpos > e'.linepos)
  /\ srch_idx' = IF d = "search" THEN 0 ELSE srch_idx
  /\ regex_mode' = (regex_mode /\ d # "search")
  /\ UNCHANGED hist
\* y outside of a dialog, and r
yank_name == /\ dialog = None /\ edit' = TRUE
             /\ e' = ed_append(ed_append(init_edit, <<Blank>>), Yanked)
             /\ UNCHANGED <<dialog, hist, srch_idx, regex_mode, lost>>
KeyR == /\ dialog = None /\ edit /\ clr_edit
        /\ UNCHANGED <<dialog, hist, srch_idx, regex_mode, lost>>

Init == /\ e = Empty /\ edit = FALSE /\ dialog = None
        /\ hist = [d \in DOMAIN Dialog |-> NoHistory]
        /\ srch_idx = 0 /\ regex_mode = FALSE /\ lost = FALSE
Next ==
  /\ ~lost
  /\ \/ \E c \in Char : TypeChar(c)
     \/ \E x \in 0..(StatW - 1) : Click(x)
     \/ \E d \in DOMAIN Dialog \ {"regex"} : ed_dialog(d)
     \/ SearchRegex \/ Home \/ Left \/ EndKey \/ Right \/ Backspace \/ Delete \/ Fkey \/ Tab
     \/ hist_up \/ hist_down \/ Esc \/ Enter \/ yank_name \/ KeyR
Spec == Init /\ [][Next]_vars
-----------------------------------------------------------------------------
Line == [Cells -> Char \cup {NUL, Junk}]
\* The line ends where linelen says, within the buffer, and until the cursor
\* is lost it is in the window's part of it or to the right of that.
TypeOK ==
  /\ e.linebuf \in Line /\ e.linelen \in Cells
  /\ \A i \in 0..(e.linelen - 1) : e.linebuf[i] \in Char
  /\ e.linebuf[e.linelen] = NUL
  /\ ~lost => e.leftpos \in 0..e.linepos /\ e.linepos \in 0..e.linelen
  /\ edit \in BOOLEAN /\ (dialog # None => edit) /\ dialog \in DOMAIN Dialog \cup {None}
  /\ \A d \in DOMAIN Dialog :
       /\ Len(hist[d].lines) <= HistSize
       /\ hist[d].have_ent => hist[d].ent \in 1..Len(hist[d].lines)
  /\ Names # <<>> => srch_idx \in 0..(db_num - 1)

\* Whatever is done to the cells, the pointers and the lists of a history, it
\* is an edit of a text at its cursor: nothing left or right of the cursor
\* changes, each line that was entered comes back with the cursor keys as it
\* was entered, in its own dialog, and at last the line that was being typed.
Past(d) == LET h == hist[d] IN IF h.have_ent THEN Tail(h.lines) ELSE h.lines
Now == IF dialog # None THEN hist[dialog] ELSE NoHistory
T == INSTANCE TextLine WITH
       Dialog <- DOMAIN Dialog, Remembering <- {d \in DOMAIN Dialog : Dialog[d].hist},
       Remembered <- HistSize - 1,
       open <- dialog, text <- Text, pos <- Min({e.linepos, e.linelen}),
       past <- [d \in DOMAIN Dialog |-> Past(d)],
       back <- IF Now.have_ent THEN Now.ent - 1 ELSE 0,
       draft <- IF Now.have_ent THEN Now.lines[1] ELSE <<>>
Implements == T!Spec

\* The keys that move the cursor, type, erase, or show another text leave it
\* in the window, if it was there: however the line was scrolled before.
Shown(r) == r.linepos - r.leftpos \in 0..(StatW - 1)
Moves == \/ Home \/ Left \/ EndKey \/ Right \/ Backspace \/ Tab \/ hist_up \/ hist_down
         \/ \E c \in Char : TypeChar(c)
CursorShown == [][Shown(e) /\ Moves /\ ~lost' => Shown(e')]_vars

\* <TAB> adds what all commands that begin with the line have in common, and
\* a blank if there is one such command only.
Begun(words) == {w \in ToSet(words) : IsPrefix(Text, w)}
CommonPrefix(words) ==
  CHOOSE p \in UNION {{SubSeq(w, 1, n) : n \in 0..Len(w)} : w \in words} :
    /\ \A w \in words : IsPrefix(p, w)
    /\ \E v, w \in words : IF v = w THEN p = w
                           ELSE Len(p) = Min({Len(v), Len(w)}) \/ v[Len(p) + 1] # w[Len(p) + 1]
Completed ==
  IF Text = <<>> \/ Begun(Commands) = {} THEN Text' = Text
  ELSE Text' = CommonPrefix(Begun(Commands))
               \o IF Cardinality(Begun(Commands)) = 1 THEN <<Blank>> ELSE <<>>
\* A name that begins with the pattern is found if there is one, wherever the
\* search stands in the sorted names (complet(), srch_file()).
Found == \A n \in ToSet(Names) : IsPrefix(Text', n) => IsPrefix(Text', Names[srch_idx' + 1])
Typed == Backspace \/ Delete \/ \E c \in Char : TypeChar(c)
CallbacksFind == [][/\ Tab => Completed
                    /\ dialog = "search" /\ Typed => Found]_vars
=============================================================================
