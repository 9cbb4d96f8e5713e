---------------------------- MODULE MCLineEditor ----------------------------
(* A window of three characters, and a buffer of six.  A board is a choice  *)
(* of dialogs and characters.                                              *)
EXTENDS LineEditor

CONSTANT Allowed \* the exclusion that is lifted

VARIABLE board

Letter == {"a", "b"}
MCChar == Letter \cup {Blank, Slash}
MCRank == [c \in MCChar |-> CASE c = Blank -> 0 [] c = Slash -> 1 [] c = "a" -> 2 [] c = "b" -> 3]
MCCommands == << <<"a", "b">>, <<"b">>, <<"b", "a", "a">>, <<"b", "a", "b">> >>
MCNames == << <<"a">>, <<"a", "b">>, <<"a", "b">>, <<"b", "a", "b">>, <<"b", "b">> >>
MCFkeyText == <<"b", "a">>
MCYanked == <<"a", "b">>
MCGiven == <<"a", "b", "a", "b">>

\* len: characters of the text; line: those of a line that is entered, or
\* left for an older one
Board(dialogs, chars, len, line, more) ==
  [dialogs |-> dialogs, chars |-> chars, len |-> len, line |-> line, more |-> more]
Boards == {
  Board({"shell"}, Letter, 5, 0, TRUE),
  Board({"shell"}, {"a"}, 5, 4, FALSE),
  Board({"shell"}, Letter, 2, 2, FALSE),
  Board({"command", "shell"}, {"b"}, 1, 1, FALSE),
  Board({"rename"}, {"a"}, 5, 0, TRUE),
  Board({"command"}, Letter, 5, 0, FALSE),
  Board({"search", "regex"}, Letter \cup {Slash}, 3, 0, FALSE)}

\* A dialog is not left with <ESC> while an older line is shown.
Escaped == Esc /\ Now.have_ent

Short == Len(Text) <= board.line
Keys ==
  \/ \E c \in board.chars : Len(Text) < board.len /\ TypeChar(c)
  \/ \E x \in 0..(StatW - 1) : Click(x)
  \/ \E d \in board.dialogs \ {"regex"} : ed_dialog(d)
  \/ SearchRegex \/ Home \/ Left \/ EndKey \/ Right \/ Backspace \/ Delete \/ Tab
  \/ Short /\ (hist_up \/ Enter)
  \/ hist_down \/ KeyR \/ (board.more /\ (yank_name \/ Fkey))
  \/ Esc /\ ("escaped" \in Allowed \/ ~Escaped)

MCInit == Init /\ board \in Boards
MCNext == ~lost /\ Keys /\ UNCHANGED board
MCSpec == MCInit /\ [][MCNext]_<<vars, board>>
=============================================================================
