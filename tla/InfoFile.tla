------------------------------ MODULE InfoFile ------------------------------
(***************************************************************************)
(* The persistent directory list (info.c, dl.c, exec.c).  Each running     *)
(* program holds the list in memory.  info_load() merges the file ~/.info  *)
(* into it, info_store() forks a child that writes a new file and renames  *)
(* it.  Programs notice each other by the modification time of the file,   *)
(* which has a resolution of seconds, and are kept apart by a lock file    *)
(* that create_flock() makes, unlinks and then locks with fcntl().         *)
(*                                                                         *)
(* An actor is a program or its child.  A step is a system call, or what a *)
(* program does between two of them.                                       *)
(***************************************************************************)
EXTENDS Naturals, FiniteSets

CONSTANTS
  Prog,       (* the instances of the program; each is started once        *)
  Item,       (* directories that can be on the list                       *)
  None,
  MaxOps,     (* bound on the additions and deletions                      *)
  MaxClock,   (* bound on the clock, in seconds                            *)
  MaxCrash    (* bound on the actors that are killed                       *)

ASSUME InfoAssumption ==
  /\ MaxOps \in Nat /\ MaxCrash \in Nat /\ MaxClock \in Nat \ {0}
  /\ None \notin Prog \X {"main", "child"}
  /\ None \notin [list : SUBSET Item, mtime : 1..MaxClock]

Actor == Prog \X {"main", "child"}
main(p)  == <<p, "main">>
child(p) == <<p, "child">>

VARIABLES
  pc,       \* what each actor does next
  after,    \* where a program goes on after info_load()
  mem,      \* the list in memory: bdl_db and ddl_db
  info_mtime,
  del,      \* programs whose list is shown and had an entry deleted
  snap,     \* the list as it was when the child was forked
  info, tmp,  \* the files info_pth and info_tpth, or None
  handle,   \* which file the child has open for writing
  lock,     \* who made the file info_lpth, or None
  held,     \* who holds a write lock on the lock file it made
  peek,     \* whose lock file wait_flock() has open
  reading,  \* who holds a read lock on it
  now,      \* the time
  ops, crashes,
  alone,    \* history: no two programs were active at one time, and none has
            \* asked for the lock while its own child was at work
  saved, deleted  \* history: what was stored, and what was deleted

locks   == <<lock, held, peek, reading>>
files   == <<info, tmp, handle>>
memory  == <<after, mem, info_mtime, del, snap>>
history == <<ops, crashes, alone, saved, deleted>>
vars    == <<pc, locks, files, memory, now, history>>

Goto(a, where) == pc' = [pc EXCEPT ![a] = where]
Active(p) == \E a \in {main(p), child(p)} : pc[a] \notin {"off", "done"}
-----------------------------------------------------------------------------
(* create_flock(), wait_flock() and remove_flock().                        *)

\* open(O_CREAT | O_EXCL)
Open(a) ==
  /\ pc[a] = "open"
  /\ \/ lock = None /\ lock' = a /\ Goto(a, "unlink")
     \/ lock # None /\ Goto(a, "peek") /\ UNCHANGED lock
  /\ UNCHANGED <<held, peek, reading, files, memory, now, history>>

\* (a slip: the lock file is left in place)
KeepLockFile == lock' = lock
UnlinkLockFile == lock' = None

Unlink(a) ==
  /\ pc[a] = "unlink"
  /\ UnlinkLockFile /\ Goto(a, "setlk")
  /\ UNCHANGED <<held, peek, reading, files, memory, now, history>>

\* The lock file is closed: its locks are gone, and who had opened it finds no
\* lock on it any more.
Forget(a) == peek' = [b \in Actor |-> IF peek[b] = a THEN None ELSE peek[b]]
Blocked(a) == \E b \in reading : peek[b] = a

\* Where an actor goes on when it has the lock, and when it does not get it.
\* (a slip: the child loads the file, as the program does)
LockedAsMain(a) == "stat"
Locked(a)   == IF a[2] = "main" THEN "stat" ELSE "create"
Unlocked(a) == IF a[2] = "main" THEN after[a[1]] ELSE "off"

\* F_SETLK does not wait.
SetLock(a) ==
  /\ pc[a] = "setlk"
  /\ \/ /\ ~Blocked(a)
        /\ held' = held \cup {a} /\ Goto(a, Locked(a)) /\ UNCHANGED peek
     \/ /\ Blocked(a)
        /\ Forget(a) /\ Goto(a, Unlocked(a)) /\ UNCHANGED held
  /\ UNCHANGED <<lock, reading, files, memory, now, history>>

\* wait_flock(): open(O_RDONLY), F_SETLKW, F_UNLCK.
Peek(a) ==
  /\ pc[a] = "peek"
  /\ \/ lock = None /\ Goto(a, "open") /\ UNCHANGED peek
     \/ lock # None /\ peek' = [peek EXCEPT ![a] = lock] /\ Goto(a, "rdlk")
  /\ UNCHANGED <<lock, held, reading, files, memory, now, history>>

\* (a slip: the lock file is taken to be free when somebody holds it)
WaitsInverted(a) == peek[a] \notin held
Waits(a) == peek[a] \in held

ReadLock(a) ==
  /\ pc[a] = "rdlk" /\ ~Waits(a)
  /\ reading' = reading \cup {a} /\ Goto(a, "rdun")
  /\ UNCHANGED <<lock, held, peek, files, memory, now, history>>

ReadUnlock(a) ==
  /\ pc[a] = "rdun"
  /\ reading' = reading \ {a} /\ peek' = [peek EXCEPT ![a] = None]
  /\ Goto(a, "open")
  /\ UNCHANGED <<lock, held, files, memory, now, history>>

remove_flock(a) ==
  /\ pc[a] = "unlock"
  /\ held' = held \ {a} /\ Forget(a)
  /\ Goto(a, Unlocked(a))
  /\ UNCHANGED <<lock, reading, files, memory, now, history>>
-----------------------------------------------------------------------------
(* The program: info_load(), info_store(), dl_add(), dl_list().            *)

\* stat_info_pth(): 1 if the time differs from that of the call before; the
\* time is saved in any case.
Changed(p) == /\ info # None
              /\ info_mtime[p] # 0 /\ info_mtime[p] # info.mtime
SaveTime(p) ==
  info_mtime' = [info_mtime EXCEPT ![p] = IF info = None THEN @ ELSE info.mtime]

Start(p) ==
  /\ pc[main(p)] = "off"
  /\ alone' = (alone /\ \A q \in Prog : ~Active(q))
  /\ Goto(main(p), "open") /\ after' = [after EXCEPT ![p] = "ui"]
  /\ UNCHANGED <<locks, files, mem, info_mtime, del, snap, now, ops, crashes,
                 saved, deleted>>

LoadStat(p) ==
  /\ pc[main(p)] = "stat"
  /\ SaveTime(p)
  /\ Goto(main(p), IF info = None THEN "unlock" ELSE "read")
  /\ UNCHANGED <<locks, files, after, mem, del, snap, now, history>>

\* fopen() and the loop that adds each line to the list in memory.
LoadRead(p) ==
  /\ pc[main(p)] = "read"
  /\ mem' = [mem EXCEPT ![p] = IF info = None THEN @ ELSE @ \cup info.list]
  /\ Goto(main(p), "unlock")
  /\ UNCHANGED <<locks, files, after, info_mtime, del, snap, now, history>>

\* Key "Da".
dl_add(p, e) ==
  /\ pc[main(p)] = "ui" /\ e \notin mem[p] /\ ops < MaxOps
  /\ mem' = [mem EXCEPT ![p] = @ \cup {e}] /\ deleted' = deleted \ {e}
  /\ ops' = ops + 1
  /\ Goto(main(p), "store")
  /\ UNCHANGED <<locks, files, after, info_mtime, del, snap, now, crashes,
                 alone, saved>>

\* info_load(), called again.
Reload(p, where) ==
  /\ Goto(main(p), "open") /\ after' = [after EXCEPT ![p] = where]
  /\ alone' = (alone /\ pc[child(p)] = "off")

\* Key "Dl".
dl_list(p) ==
  /\ pc[main(p)] = "ui"
  /\ SaveTime(p)
  /\ \/ Changed(p) /\ Reload(p, "dl")
     \/ /\ ~Changed(p)
        /\ Goto(main(p), IF mem[p] = {} THEN "ui" ELSE "dl")
        /\ UNCHANGED <<after, alone>>
  /\ UNCHANGED <<locks, files, mem, del, snap, now, ops, crashes, saved, deleted>>

\* Key "dd": with the last entry the list is closed.
dl_del(p, e) ==
  /\ pc[main(p)] = "dl" /\ e \in mem[p] /\ ops < MaxOps
  /\ mem' = [mem EXCEPT ![p] = @ \ {e}] /\ deleted' = deleted \cup {e}
  /\ ops' = ops + 1
  /\ \/ mem[p] # {e} /\ del' = del \cup {p} /\ UNCHANGED pc
     \/ /\ mem[p] = {e}
        /\ del' = del \ {p} /\ Goto(main(p), "store")
  /\ UNCHANGED <<locks, files, after, info_mtime, snap, now, crashes, alone,
                 saved>>

CloseList(p) ==
  /\ pc[main(p)] = "dl"
  /\ Goto(main(p), IF p \in del THEN "store" ELSE "ui")
  /\ del' = del \ {p}
  /\ UNCHANGED <<locks, files, after, mem, info_mtime, snap, now, history>>

\* info_store(): the file is loaded first if another program changed it.
info_store(p) ==
  /\ pc[main(p)] = "store"
  /\ SaveTime(p)
  /\ \/ Changed(p) /\ Reload(p, "store")
     \/ ~Changed(p) /\ Goto(main(p), "wait") /\ UNCHANGED <<after, alone>>
  /\ UNCHANGED <<locks, files, mem, del, snap, now, ops, crashes, saved, deleted>>

\* info_wait(): the child of the call before has ended.
info_wait(p) == pc[child(p)] = "off"

Fork(p) ==
  /\ pc[main(p)] = "wait" /\ info_wait(p)
  /\ snap' = [snap EXCEPT ![p] = mem[p]]
  /\ pc' = [pc EXCEPT ![main(p)]  = "ui",
                      ![child(p)] = IF mem[p] = {} THEN "look" ELSE "open"]
  /\ UNCHANGED <<locks, files, after, mem, info_mtime, del, now, history>>

Quit(p) ==
  /\ pc[main(p)] = "ui" /\ Goto(main(p), "done")
  /\ UNCHANGED <<locks, files, memory, now, history>>
-----------------------------------------------------------------------------
(* The child: info_proc().                                                 *)

\* (a slip: the file is renamed before it is closed)
WithoutClose == "look"
AfterCreate  == "write"

\* fopen("w") of info_tpth, which it truncates if it exists.
Create(p) ==
  /\ pc[child(p)] = "create"
  /\ tmp' = [list |-> {}, mtime |-> now]
  /\ handle' = [handle EXCEPT ![p] = "tmp"]
  /\ Goto(child(p), AfterCreate)
  /\ UNCHANGED <<locks, info, memory, now, history>>

\* What a write at the start of a file leaves of it: all of the new list, and
\* of an old one that was longer entries of its tail.
Overlaid(old, new) ==
  {new \cup S : S \in SUBSET {e \in old : Cardinality(old) > Cardinality(new)}}

\* fprintf() and fclose(), to whatever name the file has got meanwhile.
Write(p) ==
  /\ pc[child(p)] = "write"
  /\ \/ /\ handle[p] = "tmp"
        /\ \E l \in Overlaid(tmp.list, snap[p]) : tmp' = [list |-> l, mtime |-> now]
        /\ UNCHANGED info
     \/ /\ handle[p] = "info"
        /\ \E l \in Overlaid(info.list, snap[p]) : info' = [list |-> l, mtime |-> now]
        /\ UNCHANGED tmp
     \/ handle[p] = "gone" /\ UNCHANGED <<info, tmp>>
  /\ handle' = [handle EXCEPT ![p] = "gone"]
  /\ Goto(child(p), "look")
  /\ UNCHANGED <<locks, memory, now, history>>

\* (a slip: an existing file is left alone)
KeepExisting  == IF info = None THEN "rename" ELSE "unlock"
AfterLook     == IF info = None THEN "rename" ELSE "remove"

\* stat(info_pth)
Look(p) ==
  /\ pc[child(p)] = "look"
  /\ Goto(child(p), AfterLook)
  /\ UNCHANGED <<locks, files, memory, now, history>>

\* unlink(info_pth)
Remove(p) ==
  /\ pc[child(p)] = "remove"
  /\ info' = None
  /\ handle' = [q \in Prog |-> IF handle[q] = "info" THEN "gone" ELSE handle[q]]
  /\ Goto(child(p), "rename")
  /\ UNCHANGED <<locks, tmp, memory, now, history>>

\* rename(info_tpth, info_pth), unless the list is empty.
Rename(p) ==
  /\ pc[child(p)] = "rename"
  /\ \/ /\ snap[p] # {} /\ tmp # None
        /\ info' = tmp /\ tmp' = None /\ saved' = saved \cup snap[p]
        /\ handle' = [q \in Prog |-> CASE handle[q] = "tmp" -> "info"
                                       [] OTHER -> "gone"]
     \/ (snap[p] = {} \/ tmp = None) /\ UNCHANGED <<files, saved>>
  /\ Goto(child(p), "unlock")
  /\ UNCHANGED <<locks, memory, now, ops, crashes, alone, deleted>>
-----------------------------------------------------------------------------
Tick == now < MaxClock /\ now' = now + 1
        /\ UNCHANGED <<pc, locks, files, memory, history>>

\* An actor is killed.  The kernel closes its files; a lock file that has not
\* been unlinked yet stays.
Crash(a) ==
  /\ pc[a] \notin {"off", "done"} /\ crashes < MaxCrash
  /\ crashes' = crashes + 1
  /\ Goto(a, IF a[2] = "main" THEN "done" ELSE "off")
  /\ held' = held \ {a} /\ reading' = reading \ {a}
  /\ peek' = [b \in Actor |-> IF b = a \/ peek[b] = a THEN None ELSE peek[b]]
  /\ handle' = IF a[2] = "main" THEN handle
               ELSE [handle EXCEPT ![a[1]] = "gone"]
  /\ UNCHANGED <<lock, info, tmp, memory, now, ops, alone, saved, deleted>>

Locking(a) == \/ Open(a) \/ Unlink(a) \/ SetLock(a) \/ Peek(a)
              \/ ReadLock(a) \/ ReadUnlock(a) \/ remove_flock(a)

\* What a program, and a child, does without the user.
Main(p)  == \/ Locking(main(p)) \/ LoadStat(p) \/ LoadRead(p)
            \/ info_store(p) \/ Fork(p)
Child(p) == \/ Locking(child(p)) \/ Create(p) \/ Write(p) \/ Look(p)
            \/ Remove(p) \/ Rename(p)

User(p) == \/ Start(p) \/ dl_list(p) \/ CloseList(p) \/ Quit(p)
           \/ \E e \in Item : dl_add(p, e) \/ dl_del(p, e)

\* All programs have been left.
Over == /\ \A p \in Prog : pc[main(p)] = "done" /\ pc[child(p)] = "off"
        /\ UNCHANGED vars

Next == \/ \E p \in Prog : Main(p) \/ Child(p) \/ User(p)
        \/ \E a \in Actor : Crash(a)
        \/ Tick \/ Over

File == [list : SUBSET Item, mtime : 1..MaxClock] \cup {None}

Init ==
  /\ pc = [a \in Actor |-> "off"] /\ after = [p \in Prog |-> "ui"]
  /\ mem = [p \in Prog |-> {}] /\ info_mtime = [p \in Prog |-> 0]
  /\ del = {} /\ snap = [p \in Prog |-> {}]
  /\ now \in 1..MaxClock
  /\ info \in {None} \cup [list : (SUBSET Item) \ {{}}, mtime : 1..now]
  /\ tmp = None /\ handle = [p \in Prog |-> "gone"]
  /\ lock = None /\ held = {} /\ reading = {} /\ peek = [a \in Actor |-> None]
  /\ ops = 0 /\ crashes = 0 /\ alone = TRUE
  /\ saved = (IF info = None THEN {} ELSE info.list) /\ deleted = {}

\* Each actor goes on as long as it can; the user may do anything or nothing.
Spec == /\ Init /\ [][Next]_vars
        /\ \A p \in Prog : WF_vars(Main(p)) /\ WF_vars(Child(p))
-----------------------------------------------------------------------------
(* Properties.                                                             *)

LockStep  == {"open", "unlink", "setlk", "peek", "rdlk", "rdun", "unlock"}
MainStep  == {"off", "stat", "read", "ui", "dl", "store", "wait", "done"}
ChildStep == {"off", "create", "write", "look", "remove", "rename"}

\* Every variable has a value of its type, each actor at a place of its code.
TypeOK ==
  /\ pc \in [Actor -> LockStep \cup MainStep \cup ChildStep]
  /\ \A p \in Prog : /\ pc[main(p)] \in LockStep \cup MainStep
                     /\ pc[child(p)] \in LockStep \cup ChildStep
  /\ after \in [Prog -> {"ui", "dl", "store"}]
  /\ mem \in [Prog -> SUBSET Item] /\ info_mtime \in [Prog -> 0..MaxClock]
  /\ del \subseteq Prog /\ snap \in [Prog -> SUBSET Item]
  /\ info \in File /\ tmp \in File
  /\ handle \in [Prog -> {"tmp", "info", "gone"}]
  /\ lock \in Actor \cup {None} /\ held \subseteq Actor
  /\ reading \subseteq Actor /\ peek \in [Actor -> Actor \cup {None}]
  /\ now \in 1..MaxClock /\ ops \in 0..MaxOps /\ crashes \in 0..MaxCrash
  /\ alone \in BOOLEAN /\ saved \subseteq Item /\ deleted \subseteq Item

Content == IF info = None THEN {} ELSE info.list
AtRest  == \A a \in Actor : pc[a] \in {"off", "done", "ui", "dl"}

\* A lock file is there only until the one who made it has unlinked it: none is
\* left behind, and nobody unlinks the lock file of another one.
NoStaleLock ==
  /\ \A a \in Actor : pc[a] = "unlink" => lock = a
  /\ crashes = 0 => lock = None \/ pc[lock] = "unlink"

\* As long as one program runs at a time, and does not load the list again while
\* its child is at work, the list it shows is the list that is stored as soon
\* as nothing is under way.  (If it does, a list can be lost: while the program
\* has a lock for reading, the child does not get its own, and gives up; and what
\* the program reads may be what the child is about to remove.)
StoredWhenAlone ==
  alone /\ crashes = 0 /\ AtRest =>
    \A p \in Prog : pc[main(p)] = "ui" => Content = mem[p]

\* As long as one program runs at a time, the file is at any moment a list as
\* it was written, never one that is empty or half written, even if the
\* program or its child is killed.
NeverTorn == alone /\ info # None => info.list # {}

\* No call of info_load() or info_store() waits forever, no matter how many
\* programs want the lock, unless one was killed.
CallsReturn ==
  \A p \in Prog :
    pc[main(p)] \notin {"off", "ui", "dl", "done"} ~>
      pc[main(p)] \in {"ui", "dl", "done"} \/ crashes > 0
\* A child writes to a file that has a name, or to one that has none any more.
HandleOK == \A p \in Prog : /\ handle[p] = "tmp"  => tmp # None
                            /\ handle[p] = "info" => info # None

IInv == TypeOK /\ HandleOK /\ NoStaleLock
-----------------------------------------------------------------------------
(* What the documentation says and the code does not do.                   *)

\* "Add current directory to a persistent list": what has been stored, and was
\* deleted by nobody, is still there when nothing is under way.
Persistent == crashes = 0 /\ AtRest => saved \ deleted \subseteq Content
=============================================================================
