# A verification project for vddiff

vddiff is a two-pane file manager and directory comparison tool for a text
terminal, written in C. This directory holds TLA+ models of its parts, the TLC
configurations that check them on small instances, and TLAPS proofs for
instances of every size. `PROJECT.json` maps each definition to the lines it
was translated from.

    tlc -workers 2 -config FsOps_command.cfg MCFsOps     # one run
    tlapm FsOps_proofs.tla                               # one set of proofs

## Inventory of the system

The program is one process with one thread: a loop reads a key, carries the
command out, and redraws. It is concurrent only towards the outside: children
that it forks (programs it starts, and the writer of the directory list), other
instances of itself, and the user, who may type ESC while a tree is walked.

| Part | Source | State | Operations | What is hard, and what makes it correct |
|---|---|---|---|---|
| File system operations | `fs.c` | the two trees; `pth1`, `pth2`; the static `tree_op`; the flags `fs_error`, `fs_ign_errs`, `fs_all`, `fs_none`, `fs_abort` | copy, move, exchange, delete, create empty directory, link, rename, chmod, chown | One recursive walker serves deletion and copying, calls itself through `fs_rm()`, and is steered by globals; every system call may fail, every dialog may be refused. No file may be lost; a copy must not touch its source; a refusal and a cancel must hold. |
| Persistent directory list | `info.c`, `dl.c`, `exec.c` | `bdl_db`/`ddl_db` in memory, `info_mtime`, the files `.info`, its temporary file and its lock file | load, store (in a child), add, delete, show | Several programs and their children share a file. It must never be torn or lost, a lock file must not stay behind, nobody may wait forever. |
| File lists and cursors | `ui.c`, `tc.c`, `ui2.c`, `rebuild_db()` | `db_num`, `top_idx`, `curs`, `listh`, `right_col` | some forty keys, mouse, resize, rebuild, sort, change of directory | Unsigned arithmetic at its borders: empty lists, lists shorter than the window, lists that shrink. The selected entry must exist, and be in the window. |
| Directory comparison | `diff.c` | `scan_db`, `diff_db`, `stopscan`, `dontcmp` | `build_diff_db()`, `scan_subdir()`, `is_diff_dir()`, `cmp_file()` | A depth first scan that can be stopped at any file; a directory is marked as different iff there is a difference below it, so every ancestor of a difference has to be recorded. |
| Lists and their order | `db.c` | `diff_db` trees, `db_list`, filters, saved cursors, stack of scan databases | add, sort, store/restore, push/pop | `diff_cmp()` must be a total order; numbers of entries and arrays must agree. |
| Stack of the user interface | `ui.c`, `uzp.c`, `ui2.c` | `ui_stack`, the mark, temporary directories, `uz_path_db` | `action()`, `enter_dir()`, `push_state()`, `pop_state()` | Archives are unpacked into temporary directories that are entered and left in any order; each must be removed once, each scan database pushed must be popped. |
| Modes | `tc.c` | `fmode`, `bmode`, `dmode`, `twocols` | `tgl2c()`, `fmode_dmode()`, `dmode_fmode()` | Conversions between one and two columns keep paths, lists and lengths in step. |
| Keys, ranges and marks | `ui_ctrl()` of `ui.c`, `ui2.c`, `fs.c` | `c`, `key`, `num`, `u` and the command saved for `.`; `mark_idx`, the multiple marks, `prev_mmrk` | one to four keys with a number or a range before them; `ui_cp()`, `ui_mv()`, `ui_dd()`, `get_mmrk()` | Keys that are abandoned halfway must not change the meaning of the next ones; loops over marked entries, whose `tree` and static variables outlive one entry, must do each entry on each side it is due on, and no other. |
| Line editor | `ed.c`, `cplt.c`, `ui2.c` | `linebuf`, `linelen`, `linepos`, `leftpos`, `struct history` | type, delete, move, click, history, completion, search | Four numbers that have to agree after every key, a line longer than the window, and a history in which the line being typed has a place. |
| Running programs | `exec.c` | children, signals | `exec_cmd()`, `exec_sighdl()` | Wait and signal order. |
| Helpers, command line, grammar | `abs2relPath.c`, `unit_prefix.c`, `format_time.c`, `gq.c`, `main.c`, `lex.l`, `pars.y` | none, options | pure functions, parsing | Path arithmetic in `abs2relPath()`. |

How they interact: `action()` and the keys call the file system operations with
a range of `db_list`; these call `rebuild_db()` at their end, which frees the
list, has `diff.c` (or `scan_subdir()`) build it anew and repairs the cursors.
Sharing is by global variables throughout (`syspth`, `pthlen`, `gstat`, `pth1`,
`pth2`, `tree_op`), which is what most hazards in `PROJECT.json` come from.

## What is modelled

### FsOps: file system operations

`FsOps.tla` models `fs_cp()` and `fs_rm()` with everything they call. Its state:

| Model | Code |
|---|---|
| `fs[side][node]` | the two directories shown: absent, directory, regular file or link with its content or target |
| `tree_op`, `fs_error`, `fs_ign_errs`, `fs_all`, `fs_none`, `fs_abort` | the variables of these names |
| `options`, `newer` | `-O`, `-U`, `-W` and `ofs` (both sides on one file system), and what `cp_reg_check_overwrite()` finds in `st_mtim` |
| `sel`, `ent` | the selected range, and the entry the loop is at |
| `ph`, `at`, `todo`, `subs` | the recursion of `proc_dir()`: where it is, its directory, names not yet read, `dirs[]` |
| `pc`, `pend`, `goal` | the function that is active between two steps, and the path it works on |
| `thru`, `fs0`, `refused`, `fails` | history: links written through, the trees at the start, refusals, failures |

Each action is a function or the part of one between two system calls that
matter: `NextKey` (a command, with `clr_fs_err()`), `RenameEntry`, `CopyEntry`,
`DeleteEntry`, `AfterCopy`, `RemoveSource`, `EndOfCommand` (the loops of
`fs_cp()` and `fs_rm()`), `Enter`, `Opendir`, `ReadEntry`, `EndRead`, `Descend`,
`Pop` (`proc_dir()`), `cp_file`, `UnlinkTarget`, `Mkdir`, `WriteFile`. Dialogs
(`DelDialog`), the error dialog (`Fwrap`), a typed ESC (`EscTyped`) and failing
system calls (`Fail`) are nondeterministic choices inside them. `tree_op` is
read where the code reads it, which is what makes the nested `fs_rm()` matter:
there are two walkers, `out` for the command and `in` for an `fs_rm()` called
by a copy; a third cannot arise, as `fs_rm()` never copies.

Abstractions: `exit_on_error` and `followlinks` are off; the confirmation of a
command on several entries is answered yes; links are opaque (they lead out of
both trees, `thru` records a write through one); special files, modes, owners
and times are left out, as are exchange (`md & 32`), symbolic links (`md & 2`),
the sync mode of `-U`, and the loops over marks; both directories shown exist,
so `cp_reg()` never finds its directory missing; nobody else changes the trees.
The dialog of a single delete offers fewer keys than the one modelled.

### InfoFile: the file of the persistent directory list

`InfoFile.tla` models the protocol of `info.c` between programs. An actor is a
program or its child; a step is one system call. `lock` names the maker of the
file `.info.lock` (or `None`), `held` and `reading` the `fcntl()` locks, `peek`
whose lock file somebody has opened; a lock file that was unlinked lives on for
those who have it open, which is why locks are kept by maker and not by name.
`info` and `tmp` are the two files, `handle` is what the child writes to (a
rename does not change what is open). `Open`, `Unlink`, `SetLock` are
`create_flock()`, `Peek`, `ReadLock`, `ReadUnlock` are `wait_flock()`; `LoadStat`,
`LoadRead` are `info_load()`; `info_store`, `info_wait`, `Fork` and `Create`,
`Write`, `Look`, `Remove`, `Rename` are `info_store()` and its child. `Crash`
kills an actor anywhere, `Tick` advances the clock of `st_mtim`.

Abstractions: other system calls do not fail; the two lists (`bdl`, `ddl`) are
one set; comments are left out; reading the file is one step; each program is
started once. Writing over a file that is longer leaves its tail (`Overlaid`).

### ListView: cursors and windows

`ListView.tla` models the assignments to `top_idx` and `curs` of the list windows,
except those that save and restore a level or a column (`push_state()`,
`pop_state()`, `tgl2c()`), the directory list, and `test_fkey()`, which uses them as
loop variables: the cursor keys, paging, scrolling, `H`, `M`, `L`, `z` commands,
`G`, marks, TAB, mouse, `ui_resize()`, `rebuild_db()`, `re_sort_list()` and
`enter_dir()`, with the repairs of `disp_list()`. Unsigned arithmetic wraps at
`Word`. The history `wheeled` holds the columns whose window was moved under
their cursor by the wheel (see *Findings*).

Abstractions: drawing; `scrollen` is TRUE throughout the program, so the branches
for terminals that cannot scroll are unreachable; `fmode` is fixed at the start;
`prev_pos`, marks and searches jump to any number at all (`Jump`).

### DiffScan and DiffMarks: the recursive scan

`DiffMarks.tla` is the abstract specification: a scan marks directories one
after the other, each together with all that contain it (`Mark`), only such
that immediately contain what is looked for (`truth`), and when it finishes
undisturbed it has marked every one. `trust` says what the marks are worth: a
comparison that was switched off or a file that cannot be read makes the set
incomplete ("sound"), an unreadable left directory, or a search that was stopped
by a key, may also put wrong directories into it ("none"). So does a directory of
the left tree only whose name matches: diff mode takes it for a file (`Named`), while
`truth` counts matching files only, as the manual has it (`vddiff.1:264`).

`DiffScan.tla` is `build_diff_db()` during a scan, in the three modes:

| Model | Code |
|---|---|
| `scan_db`, `name_db`, `stopscan`, `dontcmp`, `real_diff` | the variables of these names |
| `find`, `match` | `file_pattern`, and the names the pattern of `-F` matches |
| `at`, `tree`, `dirs`, `dir_diff` | `syspth` with `pthlen`, and the parameter and the local variables of the recursion |
| `ph`, `todo` | where `build_diff_db()` is, and the names `readdir()` has not returned yet |
| `OpenLeft`, `ReadLeft`, `CloseLeft`, `OpenRight`, `ReadRight`, `CloseRight` | `scan_left_dir()`, `scan_right_dir()` and what follows each of them |
| `dir_scan_end`, `scan_subdir`, `Return`, `Finish`, `do_scan` | the label, the loop over `dirs`, the end of a call and of the scan, the next scan |

The stack of the recursion is not a variable: `dirs` is kept per directory, and
`tree` follows from the two paths. `Implements` is the refinement
(`INSTANCE DiffMarks`, with `truth` and `marked` computed from the trees and from
`scan_db` as `is_diff_dir()` reads it).

Abstractions: `-x`, `-G`, `-L`, `-q` and the command line mode are off; the trees
do not change during a scan and do not overlap; `realpath()` succeeds; a path that
`no_file()` takes out of `scan_db` between two scans is not modelled; sockets
are treated as FIFOs, of which nothing is compared but the type. As `real_diff`
keeps fmode from searching the right directory (`diff.c:818`), `truth` leaves
that directory out too.

### UiStack: where the user is, and the way back

`UiStack.tla` models the modes of `tc.c`, `action()`, `enter_dir()`,
`push_state()` and `pop_state()` of `ui.c`, the temporary directories of `uzp.c`
and the stack of scan databases of `db.c`. All of it is global state that is
changed by functions calling each other, so the state is one record `s`, a
function of the program an operator from the record before the call to the one
after it, and a step is a key.

| Model | Code |
|---|---|
| `mode`, `twocols`, `right_col` | `bmode`, `fmode` or neither (diff mode); the variables of these names |
| `from_fmode`, `old_col`, `fpath` | the variables of these names: what a mode remembers of the one before |
| `syspth`, `cwd`, `subtree` | the paths (with `pthlen` as their length), the working directory, `subtree` |
| `ui_stack` | `struct ui_state`: saved lengths, or the saved path if the entry is absolute; `lzip`, `rzip`; the flag that the mode was changed on entering |
| `mark` | `mark`, `gl_mark`, `mark_lnam`, `mark_rnam`, with the list a local mark points into |
| `tmps`, `made`, `uz_path_db` | temporary directories that exist, how many were made, archives entered in browse and file manager mode |
| `scan_db`, `scan_db_list`, `one_scan` | the variables of these names; a database is the set of the pairs of directories it was filled from |
| `slips` | history: a directory removed that is none of ours, or a pointer used that points to nothing |

`SetMark`, `KeyR`, `KeyRight`, `KeyEnter`, `KeyO`, `KeyLeft`, `Tab`, `CtrlW`,
`Sharp`, `Equal`, `Jump` and `dl_act` are the keys; `Quit` is what `main()` does
at the end, used by `AllRemoved` as a function and not as a step. Each level of
the stack also carries what was shown when it was entered (`left`, `two`), for
`LeftReturns` alone.

Abstractions: files that are no archives (viewing and comparing them changes
none of this state); archives that cannot be unpacked; a name resolves as the
directory tree of `Content` says, which does not change; `readonly`, bookmarks
other than one, and the cursor, which is the subject of `ListView`.

What is left out. A number of key sequences make the program lose
something. They are excluded by name, in `Careful` of `UiStack` and, where only the
run needs it (`Pushed`, `Popped`, `NoDetour`), in `MCUiStack`, so that the properties hold for
all that is left. Each is a deviation of the code:

* `Pushed`: in diff mode an archive that is on one side only pushes no scan
  database, but leaving it pops one (`ui.c:2480`, `ui.c:4094`).
* `Popped`: two marked plain directories push a scan database (`ui.c:2408`) that is
  never popped, as only levels with an archive pop one.
* `Straight`: two entries of which the one that is unpacked first ends up on the
  right side: `UiStack_v_remove`.
* `Near`: a global mark that is a left path only, compared with an entry on the
  left, hands `NULL` to `chk_mark()`; in diff mode a path is compared with a
  directory of another level.
* `Plain`: `vl` or `ol` on an archive that is on both sides unpacks both and
  saves only one: the second temporary directory stays behind.
* `NoDetour`, `Detour`: CTRL-W inside an archive keeps its path in `fpath`, after which
  the archive is removed; `from_fmode` is never reset, so that browse mode
  reached by a detour has an absolute `syspth[0]` (contrary to the comment at
  `ui.c:4320`), and the next LEFT "returns" to file manager mode.
* `#` in diff mode with one column and levels on the stack switches the mode and
  keeps the levels; `dl_act` with a local mark and an empty stack frees the
  list the mark is in.

### RangeOps and KeyLoop: commands on ranges and marked entries

`RangeOps.tla` holds what a command does with the list. The list and all that
belongs to it are one record `l`: its lines, the cursor, `mark` and `mark_idx`
(`idx`), the multiple marks, `prev_mmrk` (`prev`), what is on the disk and what
was there when the list was made. `fs_rm`, `fs_cp`, `fs_rename` and `Change`
(chmod, chown, chgrp) are the loops of `fs.c` for one entry, with the local
variables `tree` and `ntr` that live on from one entry to the next (`w`); `ui_op`
and `ui_mv` are `ui_dd()`, `ui_cp()`, `ui_mv()`, `ui_chmod()` and their kin,
over a range (`OnLines`) or over the marked entries (`OnMarked`, with
`get_mmrk()` as `Marked`). What happens to a file itself is the subject of
`FsOps`: here a command yields the set of `<<entry, side, asked>>` it acted on.
What the user answers and which call fails is a record of answers (`Answers`).

`KeyLoop.tla` is the loop of `ui_ctrl()`. A command is one to four keys, and what
is left in `c` by a key becomes `*key` and then `key[1]`; `num`, `ns`, `u`, `us`
are the number and the range, `saved` is `c2`, `key2` and `num2` for `.`. Each
disjunct of `Press` is a group of cases of the switch: numbers, `'`, function
keys (which run, do nothing, or are left with ESC and save nothing then), the commands on files (`Command` decides which, from the keys), keys that
wait for the next one (`Waits`), movements, marks, sorts and filters (after which the cursor is at the same name:
`findlistname()`), keys that read the directory again, search, and all that only clear `c`. `typed`, `did`, `last`
and `span` are history: the keys since `c` was 0, the command of this step, the
last one, and the entries between cursor and mark when `'` was typed.

Against it stands `Manual`, a table of what `vddiff.1` says of each command:
keys, operation, tree, modes. `AsDocumented` compares the two: a sequence of `Manual`
does what it says in the modes of its row (`Here`), and what runs was asked for by
a row of `Here`, or by one of `Elsewhere`. The latter are a deviation: the manual
describes `dl`, `dr`, `elp` and its kin, `<<` and `>>` by "first tree" and "second
tree", which is diff mode, but the code asks for no mode where it deletes or edits, nor, in
file manager mode, where it copies to the other column.

What is left out, since a property does not hold there. Each is an operator of
`KeyLoop` on a step, used by `MCKeyLoop` under the name in quotes; the theorems of
`KeyLoop_proofs` exclude only what they need, and `KeysAreTheManual` none of them:

* `MarkFiltered`, "filtered": a filter that is switched while a line is marked.
  `re_sort_list()` (`ui2.c:1108`) leaves `mark_idx` as it was: `'dd` is then for
  the wrong lines, and `V` may toggle lines past the end of the list.
* `DotAfterMany`, "multidot": `.` after a command on marked entries, which is not saved, repeats
  an older one; `<<`, `>>`, `Pl`, `Pr` and function keys clear `c` before it is
  saved and are not repeated at all, although `vddiff.1:1148` says "Repeat last
  file system or function key command." A renaming of marked entries
  that was declined is saved all the same (`ui.c:729` does not look at what
  `ui_rename()` returns) and is what `.` repeats: `last` includes it.
* `Unasked`, "unasked": see `KeyLoop_v_esc`; also a first marked entry that is skipped (a link,
  or absent on that side), after which the mode or owner of an earlier command
  is used.
* `SidesDiffer`, "uneven": entries that differ in their sides. `fs_rm()` narrows `tree` for an
  entry on one side and keeps it (`fs.c:644`), so that the others lose only that
  side; `fs_chmod()` goes on with the next entry at a symbolic link, without the
  other side of this one (`fs.c:292`).
* `Resumed`, "resumed": marked entries after a command that an error ended in the middle:
  `get_mmrk()` goes on behind that entry, and those before it are left out. No run
  checks such a step; the theorems `NoOtherEntry` and `MarkedFromItsPlace` say what it does.
* `OtherColumn`, "foreign": `dl` and `dr` in file manager mode act on the line of that number in
  the list of the other column.

What is not left out, but said in the properties: `.` that repeats `T` or `@` may wait
for `l` or `r` like these; the number and the first line of a `'` command may be
those of a list that was longer, so `TypeOK` bounds them by the longest one.

Also known and not modelled: `V` on an empty list reads its first entry; the
function key loop goes on past the end of the list (the model stops there);
`get_mmrk()` in loop mode never ends without a mark; hidden marked entries are
counted in the question but not acted on; after ESC or an error `fs_rename()`
and `fs_chmod()` leave without reading the directory again. The model has them
as the code does only where a property would see the difference.

### LineEditor and TextLine: the dialogs

`TextLine.tla` is the abstract specification: a text with a position in it, to
insert, erase and delete at, the lines entered in each dialog (`past`, of which
the oldest may be forgotten), how far back the user has gone in them (`back`), and
the line that was being typed before (`draft`).

`LineEditor.tla` is `ed.c`, with the callbacks of `cplt.c` and `ui2.c`:

| Model | Code |
|---|---|
| `e.linebuf`, `e.linelen`, `e.linepos`, `e.leftpos`, `edit` | the variables of these names; cells behind the NUL that ends the line are `Junk` |
| `dialog` | the call of `ed_dialog()` that waits for a key; `Dialog` has the initial text, callback and history of five of them |
| `hist[d]` | its `struct history`: the list of lines, `have_ent`, and `ent` as a number |
| `srch_idx`, `regex_mode` | the variables of these names |
| `lost` | history: the cursor is off the line, see below |

`TypeChar`, `Home`, `Left`, `EndKey`, `Right`, `Backspace`, `Delete`, `Fkey`, `Click`,
`Tab`, `hist_up`, `hist_down`, `Esc` and `Enter` are the keys of `edit_line()`;
`yank_name` and `KeyR` fill and clear the line outside of a dialog. `cpltstr()` and
`srch_file()` are translated as functions; `CallbacksFind` compares them with what
is wanted: the longest common prefix, and a match. `Implements` is the refinement:
the text is what `wcstombs()` reads from the buffer, and the head of the history
is `draft` while `have_ent` is set, an entered line otherwise.

Abstractions: the screen is `leftpos` and nothing else; a character is one cell of
the buffer and of the window; only the first word of a command is completed; keys
that are no characters (`KEY_RESIZE`, `KEY_PPAGE`, ...) are put into the line by the
`default` case like characters, and are not told apart from them.

What is left out, each a deviation of the code:

* A click right of the text sets `linepos` behind `linelen` (`ed.c:531`): what is typed
  is written behind the NUL, and Backspace in an empty line makes `linelen` wrap.
* A text that is replaced (`ed_append()` after `linelen = 0`: history, initial text)
  leaves `leftpos` where it was, unless the new text is wider than the window
  (`ed.c:85`): the line is then shown from behind its end, and LEFT counts below
  zero. The model stops after either (`lost`).
* "escaped": `ed_dialog()` returns at ESC without clearing `have_ent` (`ed.c:206`),
  so that in the next dialog UP begins in the middle of the history and the line
  typed there is not kept.
* Delete at the right border of a scrolled line moves the line under the cursor, not
  the cursor (`ed.c:406`), and a function key never scrolls (`ed.c:290`): the cursor
  leaves the window. `CursorShown` is not about these two keys.
* "/" alone as a pattern ends the search, but not if it is what a deletion leaves:
  the result of the callback is dropped there (`ed.c:419`), and the regular
  expression is asked for after the dialog; a search is not repeated after a
  function key.
* "Remove existing text" for a function key (`ui2.c:269`) sets `linelen` only: after `y`
  the yanked text is still in the buffer if the key had no command.

## Runs

| Run | Bounds | Shows |
|---|---|---|
| `FsOps_command` | 3 paths, every pair of trees, one command with any answers and up to 2 failing calls; no option, one file system, `-O`, and `-U -W` | `MoveKeepsFiles`, `LinksNotFollowed`, `CopyKeepsSource`, `RefusedIsKept`, `CancelIsFinal`, `TypeOK` |
| `FsOps_deep` | a tree three levels deep, any sequence of commands | `Termination`, and `CommandComplete` with what earlier commands left in `tree_op` and the flags |
| `FsOps_v_clash` | a directory in the way of a file | a copy deletes its source |
| `InfoFile_share` | 2 programs with children, 2 directories, 3 changes, 3 seconds, 1 kill | `NoStaleLock`, `StoredWhenAlone`, `NeverTorn`, `CallsReturn`, `TypeOK` |
| `InfoFile_v_lost` | 2 programs, no list yet | an entry that was stored is lost |
| `ListView_keys` | lists up to 4, windows up to 3 lines, `Word = 12`; two columns with lists up to 2 | `SelectionExists`, `CursorStaysShown`, `StepByOne`, `TypeOK` |
| `DiffScan_scan` | 3 paths, two levels, contents equal, of the same size and of different sizes; two pattern sets; any sequence of scans | `Implements`, `AncestorsRecorded`, `ScanEnds`, `TypeOK` |
| `UiStack_keys` | two directories with a directory and an archive on both sides and one on the left only; 2 archives unpacked, 2 levels, 2 changes of the mode | `TempsOwned`, `AllRemoved`, `ModesHold`, `MarkExists`, `ScanCovers`, `LeftReturns`, `TypeOK` |
| `UiStack_v_remove` | the same, with entries compared in the wrong order | a directory of the user is taken for a temporary one |
| `KeyLoop_keys` | 3 files of which one is a link, on both sides, on one, or one file alone; seven keyboards of 5 to 19 keys, up to 4 commands of up to 3 keys after a number or `'` | `MarkOnItsLine`, `RangeIsBetween`, `AsDocumented`, `DotRepeats`, `MarkedAndNoOther`, `EveryLineDone`, `AskedFirst`, `TypeOK` |
| `KeyLoop_v_esc` | the second keyboard | a file changes its mode after ESC |
| `LineEditor_keys` | a buffer of 6, a window of 3 characters, histories of 3 lines; seven boards of dialogs and characters, lines of up to 5 characters | `Implements`, `CursorShown`, `CallbacksFind`, `TypeOK` |

Why the bounds are enough. A tree with a directory, one path in it and one path
beside it has every case of the walker but the second level of recursion, which
`FsOps_deep` has; two failures reach every pair of error dialogs (one ignored,
one cancelled). Two programs are enough for each hazard of the lock file, which
is one of pairs; three seconds give a file older than, as old as, and newer than
what was saved. `InfoFile_share` lets a crash, the clock and more than one change
happen only while one program runs alone: its properties are conditional on that
or do not depend on it, and the proof of `NoStaleLock` has no such restriction.
A list of four entries is longer than the window of three lines and leaves it
shorter than, equal to and longer than the smaller ones; the proofs
cover every other size.

In `DiffScan_scan` the directory 1 and the path 2 in it may each be a directory,
so the recursion is two calls deep and meets directories of the left side only,
the right side only and both; a third level repeats the second.

In `UiStack_keys` two archives are enough for one inside of another's level, or
one on each side; two levels and two changes of the mode reach each pair of
transitions; what is deeper repeats it. In `KeyLoop_keys` a keyboard is a set of
keys whose beginnings can meet (deleting with numbers, ranges and marks; editing;
copying and moving; sorts, columns and programs with the same letters; marks with numbers): commands
that share no key can influence each other only through `saved` and the list,
and each board has `.` or a key that changes the list.

In `LineEditor_keys` a line of five characters in a window of three can be scrolled
by one and by two, with the cursor at either border, and fills the buffer; three
lines of history are the line being typed, one that is kept and one that is
forgotten. A board has either long lines or several of them (both at once only
with one letter), as no function looks at the text and the histories together.

Deadlock is checked in every run but `KeyLoop_keys` and `UiStack_keys`, where the
bounds on the number of commands or changes of the mode end the run, and
`LineEditor_keys`, which ends where the cursor is lost: where the user may leave the program, or all
programs have been left, the module has an explicit step that changes nothing
(`Quit`, `Over`).

## Fairness

`FsOps`: `WF_vars(Engine)`. The program has one thread that goes on as long as it
can, and the user answers every dialog somehow; nothing makes the user give a
command (`NextKey` is not fair). `InfoFile`: weak fairness of each program and
of each child, which the operating system's scheduler gives; none for the
user's keys, the clock or a crash. `ListView` has no liveness property, as each
key is one step; nor do `UiStack`, `KeyLoop` and `LineEditor`, for the same reason. `DiffScan`: `WF_vars(Scan)`, for the reason given for `FsOps`;
the next scan (`do_scan`) is the user's and not fair.

## Proofs

| Theorem | Module | Says |
|---|---|---|
| `CopySafe` | `FsOps_proofs` | `Spec => []CopyKeepsSource` |
| `CancelledForGood` | `FsOps_proofs` | `Spec => CancelIsFinal`: nothing changes after ESC, for trees of any depth |
| `TypeCorrect` | `FsOps_proofs` | `Spec => []TypeOK` |
| `TreesStayTrees` | `FsOps_proofs` | what is on either side remains a tree, also in the middle of a failing command |
| `MoveLosesNothing` | `FsKeep_proofs` | `Spec => []MoveKeepsFiles`: a file that is moved is on one side or the other, in whole, in the middle of the move and after it |
| `CommandIsComplete` | `FsKeep_proofs` | `Spec => []CommandComplete`: what an undisturbed command was asked for is done, for trees of any depth |
| `RefusedStays` | `FsKeep_proofs` | `Spec => []RefusedIsKept`: what the user said "no" to is as it was |
| `LinksStay` | `FsKeep_proofs` | `Spec => []LinksNotFollowed`: no file is written through a link, unless something failed or was cancelled |
| `LockFileFree` | `InfoFile_proofs` | `Spec => []NoStaleLock`, for any number of programs |
| `FileNeverTorn` | `InfoFile_proofs` | `Spec => []NeverTorn`, for any number of programs and kills, as long as they do not overlap |
| `ListIsStored` | `InfoFile_proofs` | `Spec => []StoredWhenAlone`, for any number of programs, one after the other, that do not load the list while their own child is at work |
| `InfoTypeCorrect` | `InfoFile_proofs` | `Spec => []TypeOK` |
| `SelectionInList` | `ListView_proofs` | `Spec => []SelectionExists` |
| `ListTypeCorrect` | `ListView_proofs` | `Spec => []TypeOK` |
| `CursorInWindow` | `ListView_proofs` | `Spec => CursorStaysShown`: no key moves the cursor out of the window |
| `StepsByOne` | `ListView_proofs` | `Spec => StepByOne`: a cursor key is one entry, a scrolled line keeps the entry |
| `MarksReachUp` | `DiffScan_proofs` | `Spec => []AncestorsRecorded`, for trees of any size and depth |
| `MarksAreTrue` | `DiffScan_proofs` | `Spec => Implements`: the scan marks what `DiffMarks` promises, for trees of any size and depth; it promises nothing once diff mode took a directory for a matching file (`Named`) |
| `ScanTypeCorrect` | `DiffScan_proofs` | `Spec => []TypeOK` |
| `EditsText` | `LineEditor_proofs` | `Init /\ [][Next /\ ~Escaped]_vars => Implements`: what the keys do to the buffer is what `TextLine` does to a text, for buffers, windows and histories of any size |
| `CursorStaysShown` | `LineEditor_proofs` | `Spec => CursorShown` |
| `LineTypeCorrect` | `LineEditor_proofs` | `Spec => []TypeOK` |
| `KeysAreTheManual` | `KeyLoop_proofs` | `Spec => AsDocumented`: what runs is what the manual says of the keys typed, in the modes it says (and in those of `Elsewhere`), for any keyboard, list and history |
| `LoopTypes` | `KeyLoop_proofs` | `Init /\ [][Next /\ ~MarkFiltered]_vars => []TypeOK` |
| `MarkStays` | `KeyLoop_proofs` | the same for `[]MarkOnItsLine`: the mark and its line number agree |
| `RangeIsCursorToMark` | `KeyLoop_proofs` | the same for `RangeIsBetween`: a `'` command is for the entries from cursor to mark |
| `DotIsTheLast` | `KeyLoop_proofs` | `Init /\ [][Next /\ ~DotAfterMany]_vars => DotRepeats` |
| `NothingUnasked` | `KeyLoop_proofs` | `Init /\ [][Next /\ ~MarkFiltered /\ ~Unasked]_vars => AskedFirst` |
| `EveryLineOnItsSides` | `KeyLoop_proofs` | `Init /\ [][Next /\ ~MarkFiltered /\ ~SidesDiffer /\ ~OtherColumn]_vars => EveryLineDone` |
| `TheMarkedAndNoOther` | `KeyLoop_proofs` | `Init /\ [][Next /\ ~MarkFiltered /\ ~SidesDiffer /\ ~Resumed /\ ~OtherColumn]_vars => MarkedAndNoOther`, for lists and marks of any size; with `Resumed` excluded this does not cover a loop that was left early |
| `NoOtherEntry` | `KeyLoop_proofs` | `Init /\ [][Next /\ ~MarkFiltered]_vars =>` no entry of the list is acted on that is not marked, wherever the loop has its place |
| `MarkedFromItsPlace` | `KeyLoop_proofs` | `Init /\ [][Next /\ ~MarkFiltered /\ ~SidesDiffer /\ ~OtherColumn]_vars =>` a command is for the marked entries behind the place of the loop, and for each of these on every side |
| `TypesHold` | `UiStack_proofs` | `Spec => []TypeOK`, for any trees, levels, archives and changes of the mode, and all keys |
| `TempsAreOwned` | `UiStack_proofs` | `CarefulSpec => []TempsOwned`: each temporary directory is known to what will remove it |
| `TempsAllRemoved` | `UiStack_proofs` | `CarefulSpec => []AllRemoved`: none stays behind, wherever the program is left |
| `LevelsOnlyInDiffMode`, `BrowsesHere` | `UiStack_proofs` | `CarefulSpec => []StackD` and `[]BmodeDot`, two parts of `ModesHold` |

`FsOps`. `CopyKeepsSource` is not inductive: it says nothing of where the walk
is, and a walker with `tree_op = "rm"` in the source would destroy it in one
step. The invariant adds `Control` (control location, walkers and paths agree),
`Trees` (a path lies in a directory) and `Copying`: while a copy runs, no nested
`fs_rm()` walks, `tree_op` is not that of a deletion, and the directories the
walk is in are directories of the untouched source. The premise `~Clash` is
needed just where `Copying` would fail: a directory in the way of a file is the
only thing for which a copy starts a nested walk, and `FsOps_v_clash` shows what
then happens. `Basic` is the part of the invariant that holds for all commands
and is proved first. Assumed are `NodeAssumption` (names are numbered, parents
before children), `DataAssumption` and `BoundAssumption`.

`CancelIsFinal` has an invariant of its own, `Steady`. That a flag is set does
not stop `proc_dir()`: it still removes the directories on the way up, and
`cp_reg()` still opens its target. So `Cancelled` says where a command can be
once a flag is set: nowhere from where a file is unlinked or made, and before
`open()` only with something in the way that makes it fail (`InWay`); a
directory left by ESC still has the entry the walk stopped at (`Filled`), or an
error is on record, and `rmdir()` does nothing. `WalkerOK` and `CopyOK` say what the
walkers know of the trees: what was read of a directory is still there, and a
directory found is not above the one it was found in.

`FsKeep_proofs` adds what a command keeps. `Mild` holds for every command, and
`RefusedIsKept` and `LinksNotFollowed` follow from it. Its part `Course` says
what the program is about in each control location: whether it copies or
removes, and that the file in work belongs to the entry in work. `Refusals` says that
what a command has yet to come to (`Ahead`, `Waiting`) is as it was and was not
refused, so that it does not come to a refused path again. `NoLink` says that a
link in the way is gone before the file is opened, unless something failed or
was cancelled.

`MoveKeepsFiles` and `CommandComplete` say nothing of where the walk is. Their
invariant `Full` accounts for each path at each step, as long as no directory is in
the way of a file (`~Clash`):

* `Nested`: the subdirectories found and not yet visited lie in the directories
  the walk is in;
* `Whole`: until an entry is removed its source is as it was, and `tree_op` is
  that of the copy;
* `Arrived`: what there is in the source of an entry in work is in the target or
  still to come: behind a name not yet read, in a directory not yet visited, or
  in work (`There`, `Coming`); when the removal begins all of it is there;
* `Safe`: each path of a move is as it was in the source, or is there in the target;
* `Swept`: entries that are done are finished; what is left of one that is
  being removed is where the walk has yet to go (`Left`).

`Arrived`, `Safe` and `Swept` speak of commands in which no call failed and nothing was
refused (`Undisturbed`), and `Arrived` and `Swept` need in part that nothing was cancelled
either. `MoveKeepsFiles` follows from `Safe`, which is preserved by the removal because of
`Arrived`; `CommandComplete` follows from `Swept`, as no entry is left when the
command ends (`AtTheEnd`).

`InfoFile`. `NoStaleLock` says that whoever is about to unlink the lock file is
its maker; it is inductive together with the types, because `open(O_EXCL)`
succeeds only without a lock file and the step after it unlinks. `HandleOK` (a
child writes to a file that exists) completes the type invariant: without it a
child could write to the content of `None`. `NeverTorn` needs one more part,
`Solo`, about the time while programs do not meet (`alone`): at most one of them
has code to run, its child has a list that is not empty, it writes to a name
that only it has opened, and what it gives the name of the list is a file it
has written to the end. The order of writing, closing and renaming in the child
is what this rests on; a child that outlives its program is part of it.

`StoredWhenAlone` is about moments at which nothing is under way. `Stored` says
what holds on the way there, while programs do not meet and none was killed
(`Quiet`): nobody waits for the lock (`NoWait`); a program loads the list while its
child is idle (`Loads`); what it shows is the list its child will have stored
when it is done, or is stored if the child has nothing to do (`Shows`, `Final`);
and a child writes the list it was given to a file that was empty, and gives it
the name of the old one when that is unlinked (`Puts`). That the file is empty rests on
`Solo`: it is the child's own.

`ListView`. `SelectionExists` is not inductive, as it says nothing of an empty
list, whose `top_idx` or `curs` may be the largest unsigned; when it fills
again, the sum has to be a number `disp_list()` can repair. `IndexOK` adds that
the sum of the two natural numbers has not wrapped around even then. Assumed is
`ListAssumption`: the type is wide enough for the sum of a list and a window.
The two action properties follow from the same invariant, key by key:
`disp_list()` only ever moves the cursor up (`OnlyUp`), so it is enough that
each key hands it a line of the window; `center()` may be given an entry that
is out of the list, and `CenterShown` shows for each of its four cases that the
cursor is in the window all the same.

`DiffScan`. `AncestorsRecorded` is inductive together with the types, but only by a
fact about trees: the directories above a path are in a row (`UpLinear`), so
when `add_diff_dir()` finds a known one, all above it are known and none below
it is skipped (`AddedOK`). `Up` is defined as an intersection of sets, not by
recursion; its lemmas rest on `NodeAssumption` alone.

`MarksAreTrue`, the refinement, needs both directions. Nothing wrong is marked
because of `Where`: `Position` says on which sides the scan is (where the two
paths part, it is below one directory of one side only, in diff mode of the
right one), `DirsOK` the same of each noted subdirectory, `ReadingOK` that a
left name was seen or is yet to be read, so that what the right directory has
besides is alone there, and `VerdictOK` that what `dir_diff` says of the
directory in work is true. Nothing is missed because of `Complete`: for each
directory that is to be marked and is not, a noted subdirectory leads to it,
or an entry not yet read does or decides about it, or it is the directory in
work and `dir_diff` is set. The invariant follows an entry from a name that is
read to one in `dirs` or to the verdict, and from there to `scan_db`;
`FreshNames` begins it again in each directory that `scan_subdir()` comes to. What
failed or was stopped is in `trust`, and the two parts claim no more than
`trust` does.

`LineEditor`. The type invariant says where the line ends, and not what is in the
cells. The invariant of the proofs does: `Buffer` says that the cells hold a text
(`Holds`), its characters and the NUL behind them; `Places` that the cursor is in
the line until it is lost, and at its end outside of a dialog; `Waits` that the
buffer is in use while a dialog is open; `Known` that the lines of a history fit
in the buffer, are no more than `histsize`, and include the one `ent` stands for
(`Kind`); `Finds` that `srch_idx` is an index of the list. Of each function of
`ed.c` it is proved which edit of that text it makes: a character put in or
taken out at the cursor, a text appended, another text, or none. The keys cite these
lemmas.

The loop of `cpltstr()` is a fold over the commands, and the library's induction
theorems are out of reach. What the proof needs is that the loop ends
with no command, or with one at least as long as the line and a number of its
characters (`Matched`). It is shown without them: `LoopRuns` (the fold has the values
of a loop) and `LoopMatches` take the least point at which they would fail
(`LeastExists`, from `WFMin`) and look at the step before it.

The refinement takes the first line of a history for `draft` or for a line of `past`
depending on `have_ent`. `Alone` says that `have_ent` is set in no dialog but the
open one; leaving with ESC breaks it (`ed.c:206`, "escaped" above), which is why
`EditsText` excludes `Escaped`, as the run does. Assumed is `LineEditorAssumption`:
sizes of buffer and window that are not zero, texts given by others that are not empty and
fit in the buffer, and commands and names that are any texts, names without "/".

`KeyLoop`. Three properties are about the keys alone, five about what the commands do
with the list. For the keys the invariant is `HistoryOK`: `KeysOK` says which keys
typed before can have left what is in `key` (the history is behind the loop by what a key did not
clear), `SavedOK` that the keys saved for `.` are those of a command and that `last` is
its result. `AsDocumented` and `DotRepeats` follow from it row by row of `Manual`. It
needs no assumption about the list, and no exclusion but that of the marked entries
`save_st()` does not keep.

For the list `LoopOK` adds `Good` and `NumsOK`. `Good` relates the list to the
disk: the lines are those `diff_db_sort()` makes of what is shown, in order and each
once, the cursor is one of them, `mark_idx` is the line of `mark` or both are
cleared (`Marking`). `NumsOK` bounds number and range by the longest list. For
`RangeIsBetween` there is `QuotedOK` besides: from `'` to the command, `u` and `num`
still stand for the lines of `span`. It rests on no key in between changing
the list without clearing the range.

The commands are loops, written as folds over lines or marked entries. The library's
induction theorems are out of reach here too, so `TurnsExist` gives such a fold the
values of a loop and `AfterAllTurns` carries a property through it: else there is a first
turn at which it fails (`LeastExists`), and that turn preserves it. What is carried through is

* for `AskedFirst`, `Told`: whatever was acted on had been asked for, and after the first
  marked entry so is the rest, unless none of them is on that side;
* for `EveryLineDone`, `Lined`: the sides acted on so far are those the lines so far
  are due on, and `tree` and `ntr` still lead to all sides the command is for (`Place`);
* for `MarkedAndNoOther`, `MarkedDue`: the same for the marked entries so far, each of which
  begins with `tree` anew but with the question settled (`Fresh`).

`WholeFile` is the step of one file, `FileDone` that it does what is due. Both need to
know outside of diff mode that the list shows one directory and shows what is there
(`OnDisk`): else an entry could be absent on the side `tree` names. Where entries
differ in their sides these invariants fail, as `tree` is then narrowed for the rest
of the command (`SidesDiffer`). Assumed are `RangeOpsAssumption` and
`KeyLoopAssumption`: the entries are numbered, and the bounds are numbers.

`UiStack`. `TempsOwned` says nothing of who knows a directory when, so `Owned` says more:
each temporary directory is the key of exactly one archive entered in browse or file
manager mode, or of exactly one level, or among those that were unpacked just now
(`new`), and levels do not share one (`Fit`). `Keeps` is what most functions do with it:
they change nothing of it. `enter_dir()` takes `new` over, and what calls it makes it, so that `Call`
states what the arguments have to be: the flags `lzip` and `rzip` set for just the names that are
in `new`, on the side they are on. Whether they are depends on the mark: `Fits` says that
a local mark is in the list it is shown in, and what it stands for is there. `Levels` and
`Modes` are about the stack and the modes. `PopAll` and `Quit` are folds of the
library; their values are taken step by step (`PopsInTurn`, `RemovalsExist`) by the least number
for which a claim fails. The theorems but for `TypesHold` are about `CarefulSpec`: `Next`
without the keys that lose a directory or a mark (`Straight`, `Near`, `Plain`, `Detour`,
and `#` and the bookmark as listed under `UiStack`). They do not need `Pushed`, `Popped` and the
part of `NoDetour` about CTRL-W inside of archives, nor a bound on the changes of the mode.
Assumed is `UiStackAssumption`: what the trees consist of, and that `mkdtemp()` makes no name twice.

Only model checked:

* `Termination`, `CallsReturn` and `ScanEnds` are liveness properties. The prover has no
  rule for fairness or `ENABLED`.
* `CallbacksFind` says that completion yields the longest common prefix of what
  begins with the line. This compares the fold of `cpltstr()` with a `CHOOSE` over
  all prefixes, and holds only while the result fits the buffer (`MCLineEditor`);
  that a search finds a name rests on the order of the list, which is sorted
  in the run and unknown to the module.
* `PathsExist` (a part of `ModesHold`), `MarkExists`, `ScanCovers` and `LeftReturns` of
  `UiStack`, for the sequences of keys that `MCUiStack` leaves in.

## Findings

Each is the counterexample of a run whose property is what the manual, a comment
or a message of the program says.

* `FsOps_v_clash`: copying a file over a non-empty directory switches `tree_op`, and the
  rest of the source directory is deleted instead of copied.
* `InfoFile_v_lost`: the lock excludes nobody, and a change is not always noticed.
* `UiStack_v_remove`: the name of a directory on the other side is taken for that
  of a temporary directory.
* `KeyLoop_v_esc`: ESC at the question for the first of several marked files is
  not ESC for the others, which get the mode of the first.

Other deviations the models show, which have no run of their own:

* A move deletes its source although a file of it was not copied: what
  `proc_dir()` and `cp_reg()` report does not reach the condition at `fs.c:990`.
  `MoveKeepsFiles` is the property that holds: for a command in which nothing fails.
* ESC ends the walk through a tree, but not the loop over several entries
  (`fs.c:850`, `fs.c:606`); `CancelIsFinal` is therefore about one entry.
* The wheel over the column that is not active scrolls its window without its
  cursor (`ui.c:2863`); TAB then selects an entry beyond the list. Therefore
  `SelectionExists` leaves out the columns in `wheeled`.
* In diff mode a scan for matching files (`-F`) does not go into directories of
  the left tree only, although into those of the right tree only (`diff.c:141`);
  `truth` in `DiffScan` says what is searched.
* In diff mode the pattern of `-F` is applied to the name of a directory of the left
  tree only (`diff.c:140`, `diff.c:180`), and its parent is marked, although `vddiff.1:264`
  says "The pattern match is only applied to non-directories." `Implements` claims
  nothing from there on (`Named`); if it did, TLC would refute it.
* A single program loses its list when it loads it (`Dl`, or a change noticed by
  `info_store()`) while its child has yet to lock it: during the program's `F_RDLCK`
  the child's `F_SETLK` is refused, and the child ends without storing (`info.c:148`); later,
  the program reads a list its child is about to remove. `StoredWhenAlone` excludes
  this (`alone`); `Persistent` is violated by such a program with no other one running.
* What the lists under `UiStack`, `KeyLoop` and `LineEditor` above leave out.

## Not modelled

Drawing, colours, the help and view screens, the configuration grammar, option
parsing, character set handling and regular expressions (display, input and
library calls, with no state that the parts above depend on); file contents
beyond "complete", "in part" and equality; file modes and owners. The components
and the reason for each are in `PROJECT.json`.

## Plan

Order of work, most important behaviour first. Done: 1 to 6, most of 8, and 9.

1. `FsOps` (core), its runs, and the proof that a copy keeps its source.
2. `InfoFile`, its runs, and the proof of the lock file.
3. `ListView`, its run, and the proof that the selected entry exists.
4. `DiffScan`: the scan of two trees, with stops at any file, implements
   `DiffMarks`. Done: the model, its run, and the proofs that
   the recorded directories are closed under going up and that they are the
   right ones.
5. `UiStack`, with the modes of `tc.c`. Done: the model, its runs, and the proofs
   about temporary directories. To come: to be composed with `ListView` for the
   cursor that is saved and restored.
6. `RangeOps` and `KeyLoop`. Done: the models, their runs and the proofs of all properties.
7. `FsExchange`: exchange across devices, and rename.
8. `LineEditor` and `TextLine`: done, but for the completion of options and
   directories. To come: `DirList`, `SortOrder`, `Path`: cursor of the directory list,
   that `diff_cmp()` is a total order, `abs2relPath()` against its definition.
9. Proofs. Done: what a command keeps (`FsKeep_proofs`), the stored list, the
   line editor, the key loop, and the temporary directories of `UiStack`.

The runs of the modules to come share their model module where they can, so that
each run checks several properties; recursion is written with functions, never
with RECURSIVE, so that all of them can be proved about.
