----------------------------- MODULE MCListView -----------------------------
(***************************************************************************)
(* One list of up to four entries in a window of up to three lines; or two *)
(* lists in windows of up to two lines, the right one of two entries and   *)
(* the left one of up to two, where the wheel turns over one inactive      *)
(* column only.  Unsigned numbers wrap around early.                       *)
(***************************************************************************)
EXTENDS ListView

Small(on, h, num, w) ==
  on => h <= 2 /\ num[0] <= 2 /\ num[1] = 2 /\ w # Col

MCInit == Init /\ Small(fmode, listh, db_num, wheeled)
MCNext == Next /\ Small(fmode', listh', db_num', wheeled')
MCSpec == MCInit /\ [][MCNext]_vars
=============================================================================
