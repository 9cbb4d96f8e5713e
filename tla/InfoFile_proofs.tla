-------------------------- MODULE InfoFile_proofs --------------------------
(***************************************************************************)
(* What holds of the list file for any number of programs.                 *)
(***************************************************************************)
EXTENDS InfoFile, TLAPS

\* An actor is a program or its child, and these are different.
LEMMA Actors ==
  /\ \A p \in Prog : main(p) \in Actor /\ child(p) \in Actor
  /\ \A a \in Actor : a[1] \in Prog /\ (a = main(a[1]) \/ a = child(a[1]))
  /\ \A p, q \in Prog : main(p) # child(q)
  /\ \A p, q \in Prog : (main(p) = main(q) \/ child(p) = child(q)) => p = q
BY DEF Actor, main, child

LEMMA NoneIsNoActor == None \notin Actor
BY InfoAssumption DEF Actor

Place == LockStep \cup MainStep \cup ChildStep

\* The part of TypeOK about the places of the actors, and the rest of it.
PlaceOK ==
  /\ pc \in [Actor -> Place]
  /\ \A p \in Prog : /\ pc[main(p)] \in LockStep \cup MainStep
                     /\ pc[child(p)] \in LockStep \cup ChildStep
  /\ after \in [Prog -> {"ui", "dl", "store"}]
MemoryOK ==
  /\ mem \in [Prog -> SUBSET Item] /\ info_mtime \in [Prog -> 0..MaxClock]
  /\ del \subseteq Prog /\ snap \in [Prog -> SUBSET Item]
FileOK ==
  /\ info \in File /\ tmp \in File
  /\ handle \in [Prog -> {"tmp", "info", "gone"}]
LockOK ==
  /\ lock \in Actor \cup {None} /\ held \subseteq Actor
  /\ reading \subseteq Actor /\ peek \in [Actor -> Actor \cup {None}]
CountOK ==
  /\ now \in 1..MaxClock /\ ops \in 0..MaxOps /\ crashes \in 0..MaxCrash
  /\ saved \subseteq Item /\ deleted \subseteq Item

\* An actor that goes to a place of its own code stays within its code.
LEMMA GotoOK ==
  ASSUME PlaceOK, NEW a \in Actor, NEW where, Goto(a, where),
         after' \in [Prog -> {"ui", "dl", "store"}],
         \/ a[2] = "main" /\ where \in LockStep \cup MainStep
         \/ a[2] = "child" /\ where \in LockStep \cup ChildStep
  PROVE  /\ PlaceOK'
         /\ pc'[a] = where /\ \A b \in Actor : b # a => pc'[b] = pc[b]
<1>1. /\ pc' \in [Actor -> Place] /\ pc'[a] = where
      /\ \A b \in Actor : b # a => pc'[b] = pc[b]
  BY DEF PlaceOK, Goto, Place
<1>2. \A p \in Prog : main(p)[2] = "main" /\ child(p)[2] = "child"
  BY DEF main, child
<1>3. ASSUME NEW p \in Prog
      PROVE  /\ pc'[main(p)] \in LockStep \cup MainStep
             /\ pc'[child(p)] \in LockStep \cup ChildStep
  BY <1>1, <1>2, Actors DEF PlaceOK
<1> QED BY <1>1, <1>3 DEF PlaceOK

\* A step of one actor that neither enters nor leaves the place at which it
\* unlinks its lock file keeps NoStaleLock.
LEMMA LockKept ==
  ASSUME PlaceOK, NoStaleLock, NEW a \in Actor, NEW where, Goto(a, where),
         pc[a] # "unlink", where # "unlink", lock' = lock, crashes' = crashes,
         LockOK
  PROVE  NoStaleLock'
<1>1. pc'[a] = where /\ \A b \in Actor : b # a => pc'[b] = pc[b]
  BY DEF PlaceOK, Goto
<1>2. lock = None \/ lock \in Actor
  BY DEF LockOK
<1> QED BY <1>1, <1>2 DEF NoStaleLock

\* A file that is there is not None.
LEMMA RecordIsNotNone ==
  ASSUME NEW l \in SUBSET Item, NEW t \in 1..MaxClock
  PROVE  [list |-> l, mtime |-> t] # None
BY InfoAssumption

\* What is assumed of a state, and has to be shown of the next one.
Parts == /\ PlaceOK /\ MemoryOK /\ FileOK /\ LockOK /\ CountOK
         /\ alone \in BOOLEAN /\ HandleOK /\ NoStaleLock

LEMMA IInvParts == (IInv <=> Parts) /\ (IInv' <=> Parts')
BY DEF IInv, Parts, TypeOK, PlaceOK, MemoryOK, FileOK, LockOK, CountOK, Place

LEMMA FilesKept ==
  ASSUME FileOK, HandleOK, UNCHANGED files
  PROVE  FileOK' /\ HandleOK'
BY DEF FileOK, HandleOK, files

LEMMA OpenStep ==
  ASSUME Parts, NEW a \in Actor, Open(a)
  PROVE  Parts'
<1>1. /\ pc[a] = "open" /\ UNCHANGED <<held, peek, reading, files, memory>>
      /\ UNCHANGED <<now, ops, crashes, alone, saved, deleted>>
  BY DEF Open, history
<1>2. MemoryOK' /\ FileOK' /\ HandleOK' /\ CountOK' /\ alone' \in BOOLEAN
      /\ after' = after
  BY <1>1, FilesKept DEF Parts, MemoryOK, CountOK, memory
<1>3. CASE lock = None /\ lock' = a /\ Goto(a, "unlink")
  <2>1. PlaceOK' /\ pc'[a] = "unlink" /\ \A b \in Actor : b # a => pc'[b] = pc[b]
    BY <1>2, <1>3, GotoOK, Actors DEF Parts, PlaceOK, LockStep, main, child
  <2>2. LockOK'
    BY <1>1, <1>3 DEF Parts, LockOK
  <2>3. NoStaleLock'
    BY <1>3, <2>1, NoneIsNoActor DEF Parts, NoStaleLock
  <2> QED BY <1>2, <2>1, <2>2, <2>3 DEF Parts
<1>4. CASE lock # None /\ Goto(a, "peek") /\ UNCHANGED lock
  <2>1. PlaceOK'
    BY <1>2, <1>4, GotoOK, Actors DEF Parts, PlaceOK, LockStep, main, child
  <2>2. LockOK'
    BY <1>1, <1>4 DEF Parts, LockOK
  <2>3. NoStaleLock'
    BY <1>1, <1>4, LockKept DEF Parts
  <2> QED BY <1>2, <2>1, <2>2, <2>3 DEF Parts
<1> QED BY <1>3, <1>4 DEF Open

LEMMA UnlinkStep ==
  ASSUME Parts, NEW a \in Actor, Unlink(a)
  PROVE  Parts'
<1>1. /\ pc[a] = "unlink" /\ Goto(a, "setlk") /\ lock' = None
      /\ UNCHANGED <<held, peek, reading, files, memory>>
      /\ UNCHANGED <<now, ops, crashes, alone, saved, deleted>>
  BY DEF Unlink, UnlinkLockFile, history
<1>2. MemoryOK' /\ FileOK' /\ HandleOK' /\ CountOK' /\ alone' \in BOOLEAN
      /\ after' = after
  BY <1>1, FilesKept DEF Parts, MemoryOK, CountOK, memory
<1>3. PlaceOK' /\ pc'[a] = "setlk" /\ \A b \in Actor : b # a => pc'[b] = pc[b]
  BY <1>1, <1>2, GotoOK, Actors DEF Parts, PlaceOK, LockStep, main, child
<1>4. LockOK'
  BY <1>1 DEF Parts, LockOK
<1>5. NoStaleLock'
  BY <1>1, <1>3 DEF Parts, NoStaleLock
<1> QED BY <1>2, <1>3, <1>4, <1>5 DEF Parts

\* The places where an actor goes on after a call of create_flock() or
\* remove_flock().
LEMMA After ==
  ASSUME PlaceOK, NEW a \in Actor
  PROVE  /\ \/ a[2] = "main" /\ Unlocked(a) \in MainStep
            \/ a[2] = "child" /\ Unlocked(a) \in ChildStep
         /\ \/ a[2] = "main" /\ Locked(a) \in MainStep
            \/ a[2] = "child" /\ Locked(a) \in ChildStep
         /\ Unlocked(a) # "unlink" /\ Locked(a) # "unlink"
BY Actors DEF PlaceOK, Unlocked, Locked, MainStep, ChildStep, Actor

LEMMA ForgetOK ==
  ASSUME LockOK, NEW a \in Actor, Forget(a)
  PROVE  peek' \in [Actor -> Actor \cup {None}]
BY DEF LockOK, Forget

\* The steps of create_flock() and remove_flock() that leave the name of the
\* lock file alone.
LEMMA LockingStep ==
  ASSUME Parts, NEW a \in Actor,
         SetLock(a) \/ Peek(a) \/ ReadLock(a) \/ ReadUnlock(a) \/ remove_flock(a)
  PROVE  Parts'
<1>1. /\ pc[a] # "unlink" /\ UNCHANGED <<lock, files, memory>>
      /\ UNCHANGED <<now, ops, crashes, alone, saved, deleted>>
  BY DEF SetLock, Peek, ReadLock, ReadUnlock, remove_flock, history
<1>2. MemoryOK' /\ FileOK' /\ HandleOK' /\ CountOK' /\ alone' \in BOOLEAN
      /\ after' = after
  BY <1>1, FilesKept DEF Parts, MemoryOK, CountOK, memory
<1>3. PICK where \in {"open", "rdlk", "rdun", Locked(a), Unlocked(a)} :
         Goto(a, where)
  BY DEF SetLock, Peek, ReadLock, ReadUnlock, remove_flock
<1>4. /\ where # "unlink"
      /\ \/ a[2] = "main" /\ where \in LockStep \cup MainStep
         \/ a[2] = "child" /\ where \in LockStep \cup ChildStep
  BY <1>3, After, Actors DEF Parts, LockStep, main, child
<1>5. PlaceOK'
  BY <1>2, <1>3, <1>4, GotoOK DEF Parts, PlaceOK
<1>6. NoStaleLock'
  BY <1>1, <1>3, <1>4, LockKept DEF Parts
<1>7. LockOK'
  <2>1. peek' \in [Actor -> Actor \cup {None}]
    BY ForgetOK DEF Parts, LockOK, SetLock, Peek, ReadLock, ReadUnlock,
                    remove_flock
  <2>2. held' \subseteq Actor /\ reading' \subseteq Actor
    BY DEF Parts, LockOK, SetLock, Peek, ReadLock, ReadUnlock, remove_flock
  <2> QED BY <1>1, <2>1, <2>2 DEF Parts, LockOK
<1> QED BY <1>2, <1>5, <1>6, <1>7 DEF Parts

LEMMA AllLocking ==
  ASSUME Parts, NEW a \in Actor, Locking(a)
  PROVE  Parts'
BY OpenStep, UnlinkStep, LockingStep DEF Locking

\* What a program does to its own memory touches neither the files nor the lock.
LEMMA ProgramStep ==
  ASSUME Parts, NEW p \in Prog, NEW where \in MainStep \cup {"open", "unlock"},
         Goto(main(p), where), pc[main(p)] # "unlink",
         UNCHANGED <<locks, files, now, crashes>>,
         after' \in [Prog -> {"ui", "dl", "store"}],
         MemoryOK', ops' \in 0..MaxOps, saved' \subseteq Item,
         deleted' \subseteq Item, alone' \in BOOLEAN
  PROVE  Parts'
<1>1. main(p) \in Actor /\ main(p)[2] = "main"
  BY Actors DEF main
<1>2. where # "unlink" /\ where \in LockStep \cup MainStep
  BY DEF MainStep, LockStep
<1>3. PlaceOK'
  BY <1>1, <1>2, GotoOK DEF Parts
<1>4. lock' = lock /\ crashes' = crashes /\ LockOK'
  BY DEF Parts, LockOK, locks
<1>5. NoStaleLock'
  BY <1>1, <1>2, <1>4, LockKept DEF Parts
<1>6. FileOK' /\ HandleOK' /\ CountOK'
  BY FilesKept DEF Parts, CountOK
<1> QED BY <1>3, <1>4, <1>5, <1>6 DEF Parts

\* stat_info_pth() saves the time of the file, which is one that the clock showed.
LEMMA SaveTimeOK ==
  ASSUME Parts, NEW p \in Prog, SaveTime(p)
  PROVE  info_mtime' \in [Prog -> 0..MaxClock]
<1>1. info # None => info.mtime \in 0..MaxClock
  <2>1. ASSUME info \in [list : SUBSET Item, mtime : 1..MaxClock]
        PROVE  info.mtime \in 0..MaxClock
    BY <2>1, InfoAssumption
  <2> QED BY <2>1 DEF Parts, FileOK, File
<1> QED BY <1>1 DEF Parts, MemoryOK, SaveTime

LEMMA StartStep ==
  ASSUME Parts, NEW p \in Prog, Start(p)
  PROVE  Parts'
<1>1. MemoryOK' /\ after' \in [Prog -> {"ui", "dl", "store"}]
  BY DEF Start, Parts, MemoryOK, PlaceOK
<1>2. alone' \in BOOLEAN
  BY DEF Start, Parts
<1> QED BY <1>1, <1>2, ProgramStep DEF Start, Parts, CountOK, locks, files

LEMMA LoadStep ==
  ASSUME Parts, NEW p \in Prog, LoadStat(p) \/ LoadRead(p)
  PROVE  Parts'
<1>1. CASE LoadStat(p)
  <2>1. MemoryOK' /\ after' \in [Prog -> {"ui", "dl", "store"}]
    BY <1>1, SaveTimeOK DEF LoadStat, Parts, MemoryOK, PlaceOK
  <2>2. PICK where \in {"unlock", "read"} : Goto(main(p), where)
    BY <1>1 DEF LoadStat
  <2> QED BY <1>1, <2>1, <2>2, ProgramStep
          DEF LoadStat, Parts, CountOK, history, MainStep
<1>2. CASE LoadRead(p)
  <2>1. info # None => info.list \subseteq Item
    BY DEF Parts, FileOK, File
  <2>2. MemoryOK' /\ after' \in [Prog -> {"ui", "dl", "store"}]
    BY <1>2, <2>1 DEF LoadRead, Parts, MemoryOK, PlaceOK
  <2> QED BY <1>2, <2>2, ProgramStep DEF LoadRead, Parts, CountOK, history
<1> QED BY <1>1, <1>2

LEMMA AddStep ==
  ASSUME Parts, NEW p \in Prog, NEW e \in Item, dl_add(p, e)
  PROVE  Parts'
<1>1. MemoryOK' /\ after' \in [Prog -> {"ui", "dl", "store"}]
  BY DEF dl_add, Parts, MemoryOK, PlaceOK
<1>2. ops' \in 0..MaxOps
  BY InfoAssumption DEF dl_add, Parts, CountOK
<1> QED BY <1>1, <1>2, ProgramStep DEF dl_add, Parts, CountOK, MainStep

LEMMA DeleteStep ==
  ASSUME Parts, NEW p \in Prog, NEW e \in Item, dl_del(p, e)
  PROVE  Parts'
<1>1. MemoryOK' /\ after' \in [Prog -> {"ui", "dl", "store"}]
  BY DEF dl_del, Parts, MemoryOK, PlaceOK
<1>2. ops' \in 0..MaxOps
  BY InfoAssumption DEF dl_del, Parts, CountOK
<1>3. PICK where \in {"dl", "store"} : Goto(main(p), where)
  <2>1. UNCHANGED pc => Goto(main(p), "dl")
    BY Actors DEF dl_del, Goto, Parts, PlaceOK
  <2> QED BY <2>1 DEF dl_del
<1> QED BY <1>1, <1>2, <1>3, ProgramStep DEF dl_del, Parts, CountOK, MainStep

LEMMA ListStep ==
  ASSUME Parts, NEW p \in Prog, dl_list(p) \/ info_store(p)
  PROVE  Parts'
<1>1. MemoryOK'
  BY SaveTimeOK DEF dl_list, info_store, Parts, MemoryOK
<1>2. after' \in [Prog -> {"ui", "dl", "store"}]
  BY DEF dl_list, info_store, Reload, Parts, PlaceOK
<1>3. alone' \in BOOLEAN
  BY Zenon DEF dl_list, info_store, Reload, Parts
<1>4. PICK where \in {"open", "ui", "dl", "wait"} : Goto(main(p), where)
  BY DEF dl_list, info_store, Reload
<1> QED BY <1>1, <1>2, <1>3, <1>4, ProgramStep
        DEF dl_list, info_store, Parts, CountOK, MainStep

LEMMA LeaveStep ==
  ASSUME Parts, NEW p \in Prog, CloseList(p) \/ Quit(p)
  PROVE  Parts'
<1>1. MemoryOK' /\ after' \in [Prog -> {"ui", "dl", "store"}]
  BY DEF CloseList, Quit, Parts, MemoryOK, PlaceOK, memory
<1>2. PICK where \in {"store", "ui", "done"} : Goto(main(p), where)
  BY DEF CloseList, Quit
<1> QED BY <1>1, <1>2, ProgramStep
        DEF CloseList, Quit, Parts, CountOK, MainStep, history

\* fork() moves two actors at a time.
LEMMA ForkStep ==
  ASSUME Parts, NEW p \in Prog, Fork(p)
  PROVE  Parts'
<1>1. /\ pc[main(p)] = "wait" /\ pc[child(p)] = "off"
      /\ UNCHANGED <<locks, files, after, mem, info_mtime, del, now, history>>
  BY DEF Fork, info_wait
<1>2. /\ main(p) \in Actor /\ child(p) \in Actor /\ main(p) # child(p)
      /\ main(p)[2] = "main" /\ child(p)[2] = "child"
  BY Actors DEF main, child
<1>3. PICK where \in {"look", "open"} :
         pc' = [pc EXCEPT ![main(p)] = "ui", ![child(p)] = where]
  BY DEF Fork
<1>4. /\ pc' \in [Actor -> Place] /\ pc'[main(p)] = "ui" /\ pc'[child(p)] = where
      /\ \A b \in Actor : b # main(p) /\ b # child(p) => pc'[b] = pc[b]
  BY <1>2, <1>3 DEF Parts, PlaceOK, Place, LockStep, MainStep, ChildStep
<1>5. ASSUME NEW q \in Prog
      PROVE  /\ pc'[main(q)] \in LockStep \cup MainStep
             /\ pc'[child(q)] \in LockStep \cup ChildStep
  <2>1. CASE q = p
    BY <1>4, <2>1 DEF LockStep, MainStep, ChildStep
  <2>2. CASE q # p
    BY <1>4, <2>2, Actors DEF Parts, PlaceOK
  <2> QED BY <2>1, <2>2
<1>6. PlaceOK'
  BY <1>1, <1>4, <1>5 DEF Parts, PlaceOK
<1>7. MemoryOK'
  BY <1>1 DEF Fork, Parts, MemoryOK
<1>8. FileOK' /\ HandleOK' /\ LockOK' /\ CountOK' /\ alone' \in BOOLEAN
  BY <1>1, FilesKept DEF Parts, LockOK, CountOK, locks, history
<1>9. NoStaleLock'
  <2>1. lock' = lock /\ crashes' = crashes /\ (lock = None \/ lock \in Actor)
    BY <1>1 DEF locks, history, Parts, LockOK
  <2>2. \A b \in Actor : pc'[b] = "unlink" <=> pc[b] = "unlink"
    BY <1>1, <1>4
  <2> QED BY <2>1, <2>2 DEF Parts, NoStaleLock
<1> QED BY <1>6, <1>7, <1>8, <1>9 DEF Parts
-----------------------------------------------------------------------------
\* A step of the child leaves the lock and the memory of the programs alone.
LEMMA ChildLocal ==
  ASSUME Parts, NEW p \in Prog, NEW where \in ChildStep \cup {"unlock"},
         Goto(child(p), where), pc[child(p)] # "unlink",
         UNCHANGED <<locks, memory, now, ops, crashes, alone, deleted>>,
         FileOK', HandleOK', saved' \subseteq Item
  PROVE  Parts'
<1>1. child(p) \in Actor /\ child(p)[2] = "child"
  BY Actors DEF child
<1>2. where # "unlink" /\ where \in LockStep \cup ChildStep
  BY DEF ChildStep, LockStep
<1>3. MemoryOK' /\ after' \in [Prog -> {"ui", "dl", "store"}]
  BY DEF Parts, MemoryOK, PlaceOK, memory
<1>4. PlaceOK'
  BY <1>1, <1>2, <1>3, GotoOK DEF Parts
<1>5. lock' = lock /\ crashes' = crashes /\ LockOK'
  BY DEF Parts, LockOK, locks
<1>6. NoStaleLock'
  BY <1>1, <1>2, <1>5, LockKept DEF Parts
<1>7. CountOK' /\ alone' \in BOOLEAN
  BY DEF Parts, CountOK
<1> QED BY <1>3, <1>4, <1>5, <1>6, <1>7 DEF Parts

LEMMA CreateStep ==
  ASSUME Parts, NEW p \in Prog, Create(p)
  PROVE  Parts'
<1>1. tmp' \in File /\ tmp' # None
  <2>1. tmp' \in [list : SUBSET Item, mtime : 1..MaxClock]
    BY DEF Create, Parts, CountOK
  <2> QED BY <2>1, RecordIsNotNone DEF File
<1>2. FileOK' /\ HandleOK'
  BY <1>1 DEF Create, Parts, FileOK, HandleOK
<1> QED BY <1>2, ChildLocal
        DEF Create, AfterCreate, ChildStep, history, Parts, CountOK

\* What is written over an old list are directories.
LEMMA WriteStep ==
  ASSUME Parts, NEW p \in Prog, Write(p)
  PROVE  Parts'
<1>1. ASSUME NEW f \in File, f # None, NEW l \in Overlaid(f.list, snap[p])
      PROVE  [list |-> l, mtime |-> now] \in File \ {None}
  <2>1. f.list \subseteq Item
    BY <1>1 DEF File
  <2>2. l \subseteq Item
    BY <2>1 DEF Overlaid, Parts, MemoryOK
  <2>3. now \in 1..MaxClock
    BY DEF Parts, CountOK
  <2> QED BY <2>2, <2>3, RecordIsNotNone DEF File
<1>2. /\ info \in File /\ tmp \in File
      /\ handle \in [Prog -> {"tmp", "info", "gone"}]
      /\ handle' = [handle EXCEPT ![p] = "gone"]
  BY DEF Write, Parts, FileOK
<1>3. /\ tmp' \in File /\ (tmp # None => tmp' # None)
      /\ info' \in File /\ (info # None => info' # None)
  <2>1. CASE handle[p] = "tmp"
    <3>1. tmp # None
      BY <2>1, Zenon DEF Parts, HandleOK
    <3>2. info' = info
      BY <2>1 DEF Write
    <3>3. PICK l \in Overlaid(tmp.list, snap[p]) : tmp' = [list |-> l, mtime |-> now]
      BY <2>1 DEF Write
    <3> QED BY <1>1, <1>2, <3>1, <3>2, <3>3
  <2>2. CASE handle[p] = "info"
    <3>1. info # None /\ tmp' = tmp
      BY <2>2 DEF Write, Parts, HandleOK
    <3>2. PICK l \in Overlaid(info.list, snap[p]) : info' = [list |-> l, mtime |-> now]
      BY <2>2 DEF Write
    <3> QED BY <1>1, <1>2, <3>1, <3>2
  <2>3. CASE handle[p] = "gone"
    BY <1>2, <2>3 DEF Write
  <2> QED BY <1>2, <2>1, <2>2, <2>3
<1>4. FileOK'
  BY <1>2, <1>3 DEF FileOK
<1>5. HandleOK'
  BY <1>2, <1>3 DEF Parts, HandleOK
<1> QED BY <1>4, <1>5, ChildLocal DEF Write, ChildStep, history, Parts, CountOK

LEMMA LookStep ==
  ASSUME Parts, NEW p \in Prog, Look(p)
  PROVE  Parts'
<1>1. PICK where \in {"rename", "remove"} : Goto(child(p), where)
  BY DEF Look, AfterLook
<1>2. FileOK' /\ HandleOK'
  BY FilesKept DEF Look, Parts
<1> QED BY <1>1, <1>2, ChildLocal DEF Look, ChildStep, history, Parts, CountOK

LEMMA RemoveStep ==
  ASSUME Parts, NEW p \in Prog, Remove(p)
  PROVE  Parts'
<1>1. FileOK' /\ HandleOK'
  BY DEF Remove, Parts, FileOK, HandleOK, File
<1> QED BY <1>1, ChildLocal DEF Remove, ChildStep, history, Parts, CountOK

LEMMA RenameStep ==
  ASSUME Parts, NEW p \in Prog, Rename(p)
  PROVE  Parts'
<1>1. FileOK' /\ HandleOK'
  BY FilesKept DEF Rename, Parts, FileOK, HandleOK, File
<1>2. saved' \subseteq Item
  BY DEF Rename, Parts, MemoryOK, CountOK
<1> QED BY <1>1, <1>2, ChildLocal DEF Rename
-----------------------------------------------------------------------------
LEMMA TickStep ==
  ASSUME Parts, Tick
  PROVE  Parts'
<1>1. /\ UNCHANGED <<pc, locks, files, memory, history>>
      /\ now' \in 1..MaxClock
  BY InfoAssumption DEF Tick, Parts, CountOK
<1> QED BY <1>1, FilesKept
        DEF Parts, PlaceOK, MemoryOK, LockOK, CountOK, NoStaleLock, locks,
            memory, history

\* A lock file that is left behind belongs to an actor that was killed.
LEMMA CrashStep ==
  ASSUME Parts, NEW a \in Actor, Crash(a)
  PROVE  Parts'
<1>1. /\ UNCHANGED <<lock, info, tmp, memory, now, ops, alone, saved, deleted>>
      /\ crashes' \in 0..MaxCrash /\ crashes' # 0
  BY InfoAssumption DEF Crash, Parts, CountOK
<1>2. PICK where \in {"done", "off"} :
         /\ Goto(a, where)
         /\ \/ a[2] = "main" /\ where \in LockStep \cup MainStep
            \/ a[2] = "child" /\ where \in LockStep \cup ChildStep
  BY Actors DEF Crash, MainStep, ChildStep, main, child
<1>3. after' \in [Prog -> {"ui", "dl", "store"}] /\ MemoryOK'
  BY <1>1 DEF Parts, PlaceOK, MemoryOK, memory
<1>4. /\ PlaceOK'
      /\ pc'[a] = where /\ \A b \in Actor : b # a => pc'[b] = pc[b]
  BY <1>2, <1>3, GotoOK DEF Parts
<1>5. FileOK' /\ HandleOK'
  BY <1>1, Actors DEF Crash, Parts, FileOK, HandleOK
<1>6. LockOK'
  BY <1>1 DEF Crash, Parts, LockOK
<1>7. CountOK' /\ alone' \in BOOLEAN
  BY <1>1 DEF Parts, CountOK
<1>8. NoStaleLock'
  BY <1>1, <1>4 DEF Parts, NoStaleLock
<1> QED BY <1>3, <1>4, <1>5, <1>6, <1>7, <1>8 DEF Parts
-----------------------------------------------------------------------------
LEMMA InitIInv == Init => IInv
<1> SUFFICES ASSUME Init PROVE Parts
  BY IInvParts
<1>1. PlaceOK
  BY Actors DEF Init, PlaceOK, Place, LockStep, MainStep, ChildStep
<1>2. MemoryOK
  BY InfoAssumption DEF Init, MemoryOK
<1>3. FileOK /\ HandleOK
  BY InfoAssumption DEF Init, FileOK, HandleOK, File
<1>4. LockOK
  BY DEF Init, LockOK
<1>5. CountOK
  <2>1. ASSUME info \in [list : (SUBSET Item) \ {{}}, mtime : 1..now]
        PROVE  info.list \subseteq Item
    BY <2>1
  <2>2. info # None => info.list \subseteq Item
    BY <2>1 DEF Init
  <2>3. saved \subseteq Item
    BY <2>2 DEF Init
  <2> QED BY <2>3, InfoAssumption DEF Init, CountOK
<1>6. NoStaleLock /\ alone \in BOOLEAN
  BY DEF Init, NoStaleLock
<1> QED BY <1>1, <1>2, <1>3, <1>4, <1>5, <1>6 DEF Parts

LEMMA StepIInv == IInv /\ [Next]_vars => IInv'
<1> SUFFICES ASSUME Parts, [Next]_vars PROVE Parts'
  BY IInvParts
<1>1. ASSUME NEW p \in Prog, Main(p)
      PROVE  Parts'
  BY <1>1, Actors, AllLocking, LoadStep, ListStep, ForkStep DEF Main
<1>2. ASSUME NEW p \in Prog, Child(p)
      PROVE  Parts'
  BY <1>2, Actors, AllLocking, CreateStep, WriteStep, LookStep, RemoveStep,
     RenameStep DEF Child
<1>3. ASSUME NEW p \in Prog, User(p)
      PROVE  Parts'
  BY <1>3, StartStep, ListStep, LeaveStep, AddStep, DeleteStep DEF User
<1>4. ASSUME UNCHANGED vars
      PROVE  Parts'
  BY <1>4, FilesKept
     DEF Parts, PlaceOK, MemoryOK, LockOK, CountOK, NoStaleLock, vars, locks,
         memory, history
<1> QED BY <1>1, <1>2, <1>3, <1>4, TickStep, CrashStep DEF Next, Over

LEMMA InfoInvariant == Spec => []IInv
BY InitIInv, StepIInv, PTL DEF Spec

\* Every variable keeps its type, for any number of programs and directories:
\* in particular a child never writes through a name that is not there.
THEOREM InfoTypeCorrect == Spec => []TypeOK
<1>1. IInv => TypeOK
  BY DEF IInv
<1> QED BY <1>1, InfoInvariant, PTL

\* create_flock() leaves no lock file behind unless its program is killed, and
\* never unlinks the lock file of another program, whatever the programs and
\* their children do meanwhile.
THEOREM LockFileFree == Spec => []NoStaleLock
<1>1. IInv => NoStaleLock
  BY DEF IInv
<1> QED BY <1>1, InfoInvariant, PTL
-----------------------------------------------------------------------------
(* The file is never torn.                                                 *)

\* A child that has still to write its list, and one that has written it.
ToWrite(p) == pc[child(p)] \in {"open", "unlink", "setlk", "peek", "rdlk", "rdun",
                                "create", "write"}
Written(p) == pc[child(p)] \in {"look", "remove", "rename"}

\* Programs that have never met: one is active, its child has a list to write,
\* writes it to the name it has opened, and renames what it has written.
OneActive   == \A p, q \in Prog : Active(p) /\ Active(q) => p = q
HasList     == \A p \in Prog : ToWrite(p) => snap[p] # {}
WritesTmp   == \A p \in Prog : /\ handle[p] # "info"
                               /\ handle[p] = "tmp" <=> pc[child(p)] = "write"
WrittenFull == \A p \in Prog : Written(p) /\ snap[p] # {} /\ tmp # None =>
                                 tmp.list # {}
FileFull    == info # None => info.list # {}
Solo == alone => OneActive /\ HasList /\ WritesTmp /\ WrittenFull /\ FileFull

\* One actor moves, one of a program that is active.
LEMMA Moves ==
  ASSUME PlaceOK, NEW a \in Actor, NEW where, Goto(a, where),
         pc[a] \notin {"off", "done"}
  PROVE  /\ \A p \in Prog : Active(p)' => Active(p)
         /\ \A p \in Prog : pc'[child(p)] = IF a = child(p) THEN where
                                            ELSE pc[child(p)]
<1>1. pc'[a] = where /\ \A b \in Actor : b # a => pc'[b] = pc[b]
  BY DEF PlaceOK, Goto
<1>2. \A p \in Prog : Active(p)' => Active(p)
  BY <1>1, Actors DEF Active
<1> QED BY <1>1, <1>2, Actors

\* A step that touches no file and no list of a child keeps Solo, if no child
\* gets to a place where it has more to do.
LEMMA SoloKept ==
  ASSUME PlaceOK, Solo, NEW a \in Actor, NEW where, Goto(a, where),
         pc[a] \notin {"off", "done"}, UNCHANGED <<info, tmp, handle, snap>>,
         alone' => alone,
         \A p \in Prog : a = child(p) =>
           /\ ToWrite(p)' => ToWrite(p)
           /\ Written(p)' => Written(p)
           /\ where # "write" /\ pc[a] # "write"
  PROVE  Solo'
<1>1. /\ \A p \in Prog : Active(p)' => Active(p)
      /\ \A p \in Prog : pc'[child(p)] = IF a = child(p) THEN where
                                         ELSE pc[child(p)]
  BY Moves
<1> SUFFICES ASSUME alone'
             PROVE  (OneActive /\ HasList /\ WritesTmp /\ WrittenFull /\ FileFull)'
  BY DEF Solo
<1>2. OneActive /\ HasList /\ WritesTmp /\ WrittenFull /\ FileFull
  BY DEF Solo
<1>3. \A p \in Prog : /\ ToWrite(p)' => ToWrite(p)
                      /\ Written(p)' => Written(p)
  BY <1>1 DEF ToWrite, Written
<1>4. OneActive'
  BY <1>1, <1>2 DEF OneActive
<1>5. HasList'
  BY <1>2, <1>3 DEF HasList
<1>6. WritesTmp'
  BY <1>1, <1>2 DEF WritesTmp
<1>7. WrittenFull' /\ FileFull'
  BY <1>2, <1>3 DEF WrittenFull, FileFull
<1> QED BY <1>4, <1>5, <1>6, <1>7

LEMMA SoloLocking ==
  ASSUME Parts, Solo, NEW a \in Actor, Locking(a)
  PROVE  Solo'
<1> DEFINE from == {"open", "unlink", "setlk", "peek", "rdlk", "rdun"}
<1>1. /\ UNCHANGED <<info, tmp, handle, snap, alone>>
      /\ pc[a] \in from \cup {"unlock"}
  BY DEF Locking, Open, Unlink, SetLock, Peek, ReadLock, ReadUnlock,
         remove_flock, files, memory, history
<1>2. PICK where : /\ Goto(a, where)
                   /\ \/ pc[a] \in from /\ where \in from \cup {Locked(a)}
                      \/ where = Unlocked(a)
  BY DEF Locking, Open, Unlink, SetLock, Peek, ReadLock, ReadUnlock,
         remove_flock
<1>3. ASSUME NEW p \in Prog, a = child(p)
      PROVE  Locked(a) = "create" /\ Unlocked(a) = "off"
  BY <1>3 DEF child, Locked, Unlocked
<1>4. \A p \in Prog : a = child(p) => pc'[a] = where
  BY <1>2 DEF Goto, Parts, PlaceOK
<1>5. ASSUME NEW p \in Prog, a = child(p)
      PROVE  /\ ToWrite(p)' => ToWrite(p)
             /\ Written(p)' => Written(p)
             /\ where # "write" /\ pc[a] # "write"
  BY <1>1, <1>2, <1>3, <1>4, <1>5 DEF ToWrite, Written
<1> QED BY <1>1, <1>2, <1>5, SoloKept DEF Parts

\* What a program does to its own memory; when it starts no other is active.
LEMMA SoloProgram ==
  ASSUME Parts, Solo, NEW p \in Prog,
         \/ LoadStat(p) \/ LoadRead(p) \/ dl_list(p) \/ info_store(p)
         \/ CloseList(p) \/ Quit(p)
         \/ \E e \in Item : dl_add(p, e) \/ dl_del(p, e)
  PROVE  Solo'
<1>1. UNCHANGED <<info, tmp, handle, snap>> /\ pc[main(p)] \notin {"off", "done"}
  BY DEF LoadStat, LoadRead, dl_list, info_store, CloseList, Quit, dl_add,
         dl_del, files, memory
<1>2. alone' => alone
  BY Zenon DEF LoadStat, LoadRead, dl_list, info_store, CloseList, Quit, dl_add,
               dl_del, Reload, history
<1>3. PICK where : Goto(main(p), where)
  <2>1. UNCHANGED pc => Goto(main(p), pc[main(p)])
    BY Actors DEF Goto, Parts, PlaceOK
  <2> QED BY <2>1 DEF LoadStat, LoadRead, dl_list, info_store, CloseList, Quit,
                      dl_add, dl_del, Reload
<1> QED BY <1>1, <1>2, <1>3, Actors, SoloKept DEF Parts

LEMMA SoloStart ==
  ASSUME Parts, Solo, NEW p \in Prog, Start(p)
  PROVE  Solo'
<1>1. /\ UNCHANGED <<info, tmp, handle, snap>>
      /\ alone' = (alone /\ \A q \in Prog : ~Active(q))
      /\ \A b \in Actor : b # main(p) => pc'[b] = pc[b]
  BY Actors DEF Start, files, Goto, Parts, PlaceOK
<1> SUFFICES ASSUME alone'
             PROVE  (OneActive /\ HasList /\ WritesTmp /\ WrittenFull /\ FileFull)'
  BY DEF Solo
<1>2. /\ OneActive /\ HasList /\ WritesTmp /\ WrittenFull /\ FileFull
      /\ \A q \in Prog : ~Active(q)
  BY <1>1 DEF Solo
<1>3. \A q \in Prog : pc'[child(q)] = pc[child(q)]
  BY <1>1, Actors
<1>4. ASSUME NEW q \in Prog, Active(q)'
      PROVE  q = p
  BY <1>1, <1>2, <1>4, Actors DEF Active
<1>5. OneActive'
  BY <1>4 DEF OneActive
<1>6. HasList' /\ WritesTmp'
  BY <1>1, <1>2, <1>3 DEF HasList, WritesTmp, ToWrite
<1>7. WrittenFull' /\ FileFull'
  BY <1>1, <1>2, <1>3 DEF WrittenFull, FileFull, Written
<1> QED BY <1>5, <1>6, <1>7

\* The child that is forked has a list to write, unless that is empty.
LEMMA SoloFork ==
  ASSUME Parts, Solo, NEW p \in Prog, Fork(p)
  PROVE  Solo'
<1>1. /\ UNCHANGED <<info, tmp, handle, alone>>
      /\ pc[main(p)] = "wait" /\ pc[child(p)] = "off"
      /\ snap' = [snap EXCEPT ![p] = mem[p]]
  BY DEF Fork, info_wait, files, history
<1>2. /\ pc'[child(p)] = IF mem[p] = {} THEN "look" ELSE "open"
      /\ \A b \in Actor : b # main(p) /\ b # child(p) => pc'[b] = pc[b]
  BY Actors DEF Fork, Parts, PlaceOK
<1>3. snap'[p] = mem[p] /\ \A q \in Prog : q # p => snap'[q] = snap[q]
  BY <1>1 DEF Parts, MemoryOK
<1>4. \A q \in Prog : q # p => pc'[child(q)] = pc[child(q)]
  BY <1>2, Actors
<1>5. ASSUME NEW q \in Prog, Active(q)'
      PROVE  Active(q)
  <2>1. CASE q = p
    BY <1>1, <2>1 DEF Active
  <2>2. CASE q # p
    <3>1. pc'[main(q)] = pc[main(q)] /\ pc'[child(q)] = pc[child(q)]
      BY <1>2, <2>2, Actors
    <3> QED BY <1>5, <3>1 DEF Active
  <2> QED BY <2>1, <2>2
<1> SUFFICES ASSUME alone'
             PROVE  (OneActive /\ HasList /\ WritesTmp /\ WrittenFull /\ FileFull)'
  BY DEF Solo
<1>6. OneActive /\ HasList /\ WritesTmp /\ WrittenFull /\ FileFull
  BY <1>1 DEF Solo
<1>7. OneActive' /\ FileFull'
  BY <1>1, <1>5, <1>6 DEF OneActive, FileFull
<1>8. HasList' /\ WrittenFull'
  BY <1>1, <1>2, <1>3, <1>4, <1>6
     DEF HasList, WrittenFull, ToWrite, Written
<1>9. WritesTmp'
  BY <1>1, <1>2, <1>4, <1>6 DEF WritesTmp
<1> QED BY <1>7, <1>8, <1>9

\* In a step of the child, no other child has anything under way.
LEMMA SoloChild ==
  ASSUME Parts, Solo, alone, NEW p \in Prog, NEW where, Goto(child(p), where),
         pc[child(p)] \in ChildStep \ {"off"}
  PROVE  /\ OneActive' /\ HasList /\ WritesTmp /\ WrittenFull /\ FileFull
         /\ pc'[child(p)] = where
         /\ \A q \in Prog : q # p => pc[child(q)] = "off" /\ pc'[child(q)] = "off"
<1>1. /\ \A q \in Prog : Active(q)' => Active(q)
      /\ \A q \in Prog : pc'[child(q)] = IF child(p) = child(q) THEN where
                                         ELSE pc[child(q)]
  BY Actors, Moves DEF Parts, ChildStep
<1>2. OneActive /\ HasList /\ WritesTmp /\ WrittenFull /\ FileFull
  BY DEF Solo
<1>3. Active(p)
  BY Actors DEF Active, ChildStep
<1>4. ASSUME NEW q \in Prog, q # p
      PROVE  pc[child(q)] = "off" /\ pc'[child(q)] = "off"
  <2>1. ~Active(q)
    BY <1>2, <1>3, <1>4 DEF OneActive
  <2>2. pc[child(q)] \in {"off", "done"}
    BY <2>1 DEF Active
  <2>3. pc[child(q)] # "done"
    BY DEF Parts, PlaceOK, LockStep, ChildStep
  <2> QED BY <1>1, <1>4, <2>2, <2>3, Actors
<1>5. OneActive'
  BY <1>1, <1>2 DEF OneActive
<1> QED BY <1>1, <1>2, <1>4, <1>5

LEMMA SoloCreate ==
  ASSUME Parts, Solo, NEW p \in Prog, Create(p)
  PROVE  Solo'
<1>1. /\ pc[child(p)] = "create" /\ Goto(child(p), "write")
      /\ handle' = [handle EXCEPT ![p] = "tmp"]
      /\ UNCHANGED <<info, snap, alone>>
  BY DEF Create, AfterCreate, memory, history
<1> SUFFICES ASSUME alone'
             PROVE  (OneActive /\ HasList /\ WritesTmp /\ WrittenFull /\ FileFull)'
  BY DEF Solo
<1>2. /\ OneActive' /\ HasList /\ WritesTmp /\ WrittenFull /\ FileFull
      /\ pc'[child(p)] = "write"
      /\ \A q \in Prog : q # p => pc[child(q)] = "off" /\ pc'[child(q)] = "off"
  BY <1>1, SoloChild DEF ChildStep
<1>3. HasList' /\ WrittenFull' /\ FileFull'
  BY <1>1, <1>2 DEF HasList, WrittenFull, FileFull, ToWrite, Written
<1>4. WritesTmp'
  BY <1>1, <1>2 DEF WritesTmp, Parts, FileOK
<1> QED BY <1>2, <1>3, <1>4

\* What is written is not empty, whatever the file contained.
LEMMA SoloWrite ==
  ASSUME Parts, Solo, NEW p \in Prog, Write(p)
  PROVE  Solo'
<1>1. /\ pc[child(p)] = "write" /\ Goto(child(p), "look")
      /\ handle' = [handle EXCEPT ![p] = "gone"]
      /\ UNCHANGED <<snap, alone>>
  BY DEF Write, memory, history
<1> SUFFICES ASSUME alone'
             PROVE  (OneActive /\ HasList /\ WritesTmp /\ WrittenFull /\ FileFull)'
  BY DEF Solo
<1>2. /\ OneActive' /\ HasList /\ WritesTmp /\ WrittenFull /\ FileFull
      /\ pc'[child(p)] = "look"
      /\ \A q \in Prog : q # p => pc[child(q)] = "off" /\ pc'[child(q)] = "off"
  BY <1>1, SoloChild DEF ChildStep
<1>3. handle[p] = "tmp" /\ snap[p] # {}
  BY <1>1, <1>2 DEF WritesTmp, HasList, ToWrite
<1>4. UNCHANGED info /\ tmp'.list # {}
  <2>1. PICK l \in Overlaid(tmp.list, snap[p]) : tmp' = [list |-> l, mtime |-> now]
    BY <1>3 DEF Write
  <2>2. l # {} /\ tmp'.list = l
    BY <1>3, <2>1 DEF Overlaid
  <2> QED BY <1>3, <2>2 DEF Write
<1>5. HasList' /\ WrittenFull' /\ FileFull'
  BY <1>1, <1>2, <1>4 DEF HasList, WrittenFull, FileFull, ToWrite, Written
<1>6. WritesTmp'
  BY <1>1, <1>2 DEF WritesTmp, Parts, FileOK
<1> QED BY <1>2, <1>5, <1>6

LEMMA SoloLook ==
  ASSUME Parts, Solo, NEW p \in Prog, Look(p)
  PROVE  Solo'
<1>1. /\ pc[child(p)] = "look" /\ UNCHANGED <<info, tmp, handle, snap, alone>>
  BY DEF Look, files, memory, history
<1>2. PICK where \in {"rename", "remove"} : Goto(child(p), where)
  BY DEF Look, AfterLook
<1>3. pc'[child(p)] = where
  BY <1>2, Actors DEF Goto, Parts, PlaceOK
<1>4. ASSUME NEW q \in Prog, child(p) = child(q)
      PROVE  /\ ToWrite(q)' => ToWrite(q)
             /\ Written(q)' => Written(q)
             /\ where # "write" /\ pc[child(p)] # "write"
  BY <1>1, <1>2, <1>3, <1>4 DEF ToWrite, Written
<1> QED BY <1>1, <1>2, <1>4, Actors, SoloKept DEF Parts

LEMMA SoloRemove ==
  ASSUME Parts, Solo, NEW p \in Prog, Remove(p)
  PROVE  Solo'
<1>1. /\ pc[child(p)] = "remove" /\ Goto(child(p), "rename") /\ info' = None
      /\ handle' = [q \in Prog |-> IF handle[q] = "info" THEN "gone" ELSE handle[q]]
      /\ UNCHANGED <<tmp, snap, alone>>
  BY DEF Remove, memory, history
<1> SUFFICES ASSUME alone'
             PROVE  (OneActive /\ HasList /\ WritesTmp /\ WrittenFull /\ FileFull)'
  BY DEF Solo
<1>2. /\ OneActive' /\ HasList /\ WritesTmp /\ WrittenFull /\ FileFull
      /\ pc'[child(p)] = "rename"
      /\ \A q \in Prog : q # p => pc[child(q)] = "off" /\ pc'[child(q)] = "off"
  BY <1>1, SoloChild DEF ChildStep
<1>3. HasList' /\ WrittenFull' /\ FileFull'
  BY <1>1, <1>2 DEF HasList, WrittenFull, FileFull, ToWrite, Written
<1>4. WritesTmp'
  BY <1>1, <1>2 DEF WritesTmp
<1> QED BY <1>2, <1>3, <1>4

\* Only a file that is completely written gets the name of the list.
LEMMA SoloRename ==
  ASSUME Parts, Solo, NEW p \in Prog, Rename(p)
  PROVE  Solo'
<1>1. /\ pc[child(p)] = "rename" /\ Goto(child(p), "unlock")
      /\ UNCHANGED <<snap, alone>>
  BY DEF Rename, memory
<1> SUFFICES ASSUME alone'
             PROVE  (OneActive /\ HasList /\ WritesTmp /\ WrittenFull /\ FileFull)'
  BY DEF Solo
<1>2. /\ OneActive' /\ HasList /\ WritesTmp /\ WrittenFull /\ FileFull
      /\ pc'[child(p)] = "unlock"
      /\ \A q \in Prog : q # p => pc[child(q)] = "off" /\ pc'[child(q)] = "off"
  BY <1>1, SoloChild DEF ChildStep
<1>3. \A q \in Prog : handle[q] = "gone"
  BY <1>1, <1>2 DEF WritesTmp, Parts, FileOK
<1>4. HasList' /\ WrittenFull'
  BY <1>1, <1>2 DEF HasList, WrittenFull, ToWrite, Written
<1>5. FileFull'
  BY <1>1, <1>2 DEF Rename, FileFull, WrittenFull, Written, files
<1>6. WritesTmp'
  <2>1. \A q \in Prog : handle'[q] = "gone"
    BY <1>3 DEF Rename, files
  <2>2. \A q \in Prog : pc'[child(q)] # "write"
    BY <1>2
  <2> QED BY <2>1, <2>2 DEF WritesTmp
<1> QED BY <1>2, <1>4, <1>5, <1>6

\* What a program that is killed leaves behind is no file with half a list.
LEMMA SoloCrash ==
  ASSUME Parts, Solo, NEW a \in Actor, Crash(a)
  PROVE  Solo'
<1> DEFINE where == IF a[2] = "main" THEN "done" ELSE "off"
<1>1. /\ pc[a] \notin {"off", "done"} /\ Goto(a, where)
      /\ handle' = IF a[2] = "main" THEN handle
                   ELSE [handle EXCEPT ![a[1]] = "gone"]
      /\ UNCHANGED <<info, tmp, snap, alone>>
  BY DEF Crash, memory
<1>2. /\ \A p \in Prog : Active(p)' => Active(p)
      /\ \A p \in Prog : pc'[child(p)] = IF a = child(p) THEN where
                                         ELSE pc[child(p)]
  BY <1>1, Moves DEF Parts
<1>3. \A p \in Prog : /\ main(p)[2] = "main"
                      /\ child(p)[2] = "child" /\ child(p)[1] = p
  BY DEF main, child
<1> HIDE DEF where
<1> SUFFICES ASSUME alone'
             PROVE  (OneActive /\ HasList /\ WritesTmp /\ WrittenFull /\ FileFull)'
  BY DEF Solo
<1>4. OneActive /\ HasList /\ WritesTmp /\ WrittenFull /\ FileFull
  BY <1>1 DEF Solo
<1>5. OneActive' /\ FileFull'
  BY <1>1, <1>2, <1>4 DEF OneActive, FileFull
<1>6. CASE a = main(a[1])
  <2>1. handle' = handle /\ \A p \in Prog : pc'[child(p)] = pc[child(p)]
    BY <1>1, <1>2, <1>3, <1>6, Actors
  <2> QED BY <1>1, <1>4, <1>5, <2>1
          DEF HasList, WritesTmp, WrittenFull, ToWrite, Written
<1>7. CASE a = child(a[1])
  <2>1. /\ handle' = [handle EXCEPT ![a[1]] = "gone"]
        /\ pc'[child(a[1])] = "off" /\ a[1] \in Prog
        /\ \A p \in Prog : p # a[1] => pc'[child(p)] = pc[child(p)]
    BY <1>1, <1>2, <1>3, <1>7, Actors DEF where
  <2>2. HasList' /\ WrittenFull'
    BY <1>1, <1>4, <2>1 DEF HasList, WrittenFull, ToWrite, Written
  <2>3. WritesTmp'
    BY <1>4, <2>1 DEF WritesTmp, Parts, FileOK
  <2> QED BY <1>5, <2>2, <2>3
<1> QED BY <1>5, <1>6, <1>7, Actors

LEMMA SoloStays ==
  ASSUME Solo, UNCHANGED <<pc, info, tmp, handle, snap, alone>>
  PROVE  Solo'
<1>1. \A p \in Prog : /\ Active(p)' <=> Active(p)
                      /\ ToWrite(p)' <=> ToWrite(p)
                      /\ Written(p)' <=> Written(p)
  BY DEF Active, ToWrite, Written
<1> QED BY <1>1
        DEF Solo, OneActive, HasList, WritesTmp, WrittenFull, FileFull

LEMMA InitSolo == Init => Solo
<1> SUFFICES ASSUME Init
             PROVE  OneActive /\ HasList /\ WritesTmp /\ WrittenFull /\ FileFull
  BY DEF Solo
<1>1. \A p \in Prog : pc[main(p)] = "off" /\ pc[child(p)] = "off"
  BY Actors DEF Init
<1>2. OneActive /\ HasList /\ WritesTmp /\ WrittenFull
  BY <1>1 DEF Init, OneActive, HasList, WritesTmp, WrittenFull, Active, ToWrite,
              Written
<1>3. FileFull
  <2>1. ASSUME info \in [list : (SUBSET Item) \ {{}}, mtime : 1..now]
        PROVE  info.list # {}
    BY <2>1
  <2> QED BY <2>1 DEF Init, FileFull
<1> QED BY <1>2, <1>3

LEMMA StepSolo == Parts /\ Solo /\ [Next]_vars => Solo'
<1> SUFFICES ASSUME Parts, Solo, [Next]_vars PROVE Solo'
  OBVIOUS
<1>1. ASSUME NEW p \in Prog, Main(p)
      PROVE  Solo'
  BY <1>1, Actors, SoloLocking, SoloProgram, SoloFork DEF Main
<1>2. ASSUME NEW p \in Prog, Child(p)
      PROVE  Solo'
  BY <1>2, Actors, SoloLocking, SoloCreate, SoloWrite, SoloLook, SoloRemove,
     SoloRename DEF Child
<1>3. ASSUME NEW p \in Prog, User(p)
      PROVE  Solo'
  BY <1>3, SoloStart, SoloProgram DEF User
<1>4. CASE Tick \/ UNCHANGED vars
  BY <1>4, SoloStays DEF Tick, vars, files, memory, history
<1> QED BY <1>1, <1>2, <1>3, <1>4, SoloCrash DEF Next, Over

\* As long as the programs do not meet, the file is a list as it was written,
\* never an empty one, even if a program or its child is killed between any two
\* system calls: for any number of programs, one after the other.
THEOREM FileNeverTorn == Spec => []NeverTorn
<1>1. Init => Parts /\ Solo
  BY InitIInv, IInvParts, InitSolo
<1>2. Parts /\ Solo /\ [Next]_vars => (Parts /\ Solo)'
  BY StepIInv, IInvParts, StepSolo
<1>3. Solo => NeverTorn
  BY DEF Solo, NeverTorn, FileFull
<1> QED BY <1>1, <1>2, <1>3, PTL DEF Spec
-----------------------------------------------------------------------------
(* The list that is shown is the list that is stored.                      *)

\* What the file holds when the child of a program is done.
Final(p) == IF ToWrite(p) \/ Written(p) THEN snap[p] ELSE Content

\* Nobody has to wait for the lock.
NoWait == reading = {} /\ \A a \in Actor : pc[a] \notin {"peek", "rdlk", "rdun"}

\* A program that loads the list does so while its child is idle, and has nothing
\* that is not in the file, unless it is about to store.
Loading(p) == pc[main(p)] \in LockStep \cup {"stat", "read"}
Loads(p) ==
  /\ pc[main(p)] = "off" => mem[p] = {}
  /\ Loading(p) => pc[child(p)] = "off"
  /\ Loading(p) /\ after[p] # "store" => mem[p] \subseteq Content
  /\ pc[main(p)] = "unlock" /\ after[p] # "store" => mem[p] = Content

\* What a program shows is stored, or its child will store it.
Shows(p) ==
  /\ p \in del => pc[main(p)] = "dl"
  /\ pc[main(p)] = "ui" \/ (pc[main(p)] = "dl" /\ p \notin del) => mem[p] = Final(p)

\* A child writes the list it was given to a new file, and gives it the name of
\* the old one when that is gone.
Puts(p) ==
  /\ pc[child(p)] = "write" => tmp # None /\ tmp.list = {}
  /\ Written(p) /\ snap[p] # {} => tmp # None /\ tmp.list = snap[p]
  /\ pc[child(p)] = "rename" => info = None

Quiet  == alone /\ crashes = 0
Stored == Quiet => NoWait /\ \A p \in Prog : Loads(p) /\ Shows(p) /\ Puts(p)

\* What is assumed of a state while the programs do not meet.
Calm == Parts /\ Solo /\ Stored /\ Quiet

LEMMA CalmParts ==
  ASSUME Calm
  PROVE  /\ Parts /\ Solo /\ PlaceOK /\ NoWait /\ OneActive /\ HasList /\ WritesTmp
         /\ alone /\ crashes = 0
         /\ \A p \in Prog : Loads(p) /\ Shows(p) /\ Puts(p)
BY DEF Calm, Stored, Quiet, Solo, Parts

LEMMA OthersIdle ==
  ASSUME Calm, NEW p \in Prog, Active(p), NEW q \in Prog, q # p
  PROVE  ~Active(q)
BY CalmParts DEF OneActive

\* A program that is not active, and stays as it is, needs nothing of the file.
LEMMA IdleStays ==
  ASSUME Calm, NEW q \in Prog, ~Active(q),
         pc'[main(q)] = pc[main(q)], pc'[child(q)] = pc[child(q)],
         mem'[q] = mem[q], q \in del' => q \in del
  PROVE  (Loads(q) /\ Shows(q) /\ Puts(q))'
<1>1. pc[main(q)] \in {"off", "done"} /\ pc[child(q)] \in {"off", "done"}
  BY DEF Active
<1>2. pc[child(q)] = "off"
  BY <1>1, CalmParts DEF PlaceOK, LockStep, ChildStep
<1>3. q \notin del /\ (pc[main(q)] = "off" => mem[q] = {})
  BY <1>1, CalmParts DEF Loads, Shows
<1> QED BY <1>1, <1>2, <1>3 DEF Loads, Shows, Puts, Loading, Written, LockStep

\* It is enough to look at the program that does something.
LEMMA StoredByOne ==
  ASSUME Calm, NEW p \in Prog, NoWait', (Loads(p) /\ Shows(p) /\ Puts(p))',
         \A q \in Prog : q # p =>
           /\ ~Active(q) /\ pc'[main(q)] = pc[main(q)]
           /\ pc'[child(q)] = pc[child(q)] /\ mem'[q] = mem[q]
           /\ q \in del' => q \in del
  PROVE  Stored'
<1>1. \A q \in Prog : q # p => (Loads(q) /\ Shows(q) /\ Puts(q))'
  BY IdleStays
<1> QED BY <1>1 DEF Stored

\* One actor moves.
LEMMA OneMoves ==
  ASSUME Calm, NEW p \in Prog, NEW a \in {main(p), child(p)}, NEW where,
         Goto(a, where), pc[a] \notin {"off", "done"},
         where \notin {"peek", "rdlk", "rdun"}, reading' = reading
  PROVE  /\ pc'[a] = where /\ NoWait' /\ Active(p)
         /\ \A b \in Actor : b # a => pc'[b] = pc[b]
         /\ \A q \in Prog : q # p =>
              /\ ~Active(q) /\ pc'[main(q)] = pc[main(q)]
              /\ pc'[child(q)] = pc[child(q)]
<1>1. /\ main(p) \in Actor /\ child(p) \in Actor /\ a \in Actor
      /\ \A q \in Prog : q # p => /\ main(q) # a /\ child(q) # a
                                  /\ main(q) \in Actor /\ child(q) \in Actor
  BY Actors
<1>2. pc'[a] = where /\ \A b \in Actor : b # a => pc'[b] = pc[b]
  BY <1>1, CalmParts DEF Goto, PlaceOK
<1>3. NoWait'
  BY <1>2, CalmParts DEF NoWait
<1>4. Active(p)
  BY DEF Active
<1> QED BY <1>1, <1>2, <1>3, <1>4, OthersIdle

\* Where nobody waits, the lock is got at once.
LEMMA GetsLock ==
  ASSUME Calm, NEW p \in Prog, NEW a \in {main(p), child(p)}, Locking(a)
  PROVE  /\ UNCHANGED <<reading, info, tmp, snap, mem, after, del>>
         /\ \/ pc[a] = "open" /\ Goto(a, "unlink")
            \/ pc[a] = "unlink" /\ Goto(a, "setlk")
            \/ pc[a] = "setlk" /\ Goto(a, Locked(a))
            \/ pc[a] = "unlock" /\ Goto(a, Unlocked(a))
<1>1. a \in Actor /\ main(p) \in Actor /\ child(p) \in Actor
      /\ pc[a] \notin {"peek", "rdlk", "rdun"} /\ reading = {}
  BY Actors, CalmParts DEF NoWait
<1>2. UNCHANGED <<info, tmp, snap, mem, after, del>>
  BY DEF Locking, Open, Unlink, SetLock, Peek, ReadLock, ReadUnlock,
         remove_flock, files, memory
<1>3. reading' = reading
  BY <1>1 DEF Locking, Open, Unlink, SetLock, Peek, ReadLock, ReadUnlock,
              remove_flock
<1>4. ASSUME pc[a] = "open" PROVE lock = None
  <2>1. SUFFICES ASSUME lock # None PROVE FALSE
    OBVIOUS
  <2>2. lock \in Actor /\ pc[lock] = "unlink"
    BY <2>1, CalmParts DEF Parts, LockOK, NoStaleLock
  <2>3. PICK q \in Prog : lock = main(q) \/ lock = child(q)
    BY <2>2, Actors
  <2>4. Active(q) /\ Active(p)
    BY <1>4, <2>2, <2>3 DEF Active
  <2>5. q = p
    BY <2>4, OthersIdle
  <2>6. pc[main(p)] \in {"open", "unlink"} /\ pc[child(p)] \in {"open", "unlink"}
    BY <1>4, <2>2, <2>3, <2>5
  <2> QED BY <2>6, CalmParts DEF Loads, Loading, LockStep
<1>5. ~Blocked(a)
  BY <1>1 DEF Blocked
<1>6. \/ pc[a] = "open" /\ Goto(a, "unlink")
      \/ pc[a] = "unlink" /\ Goto(a, "setlk")
      \/ pc[a] = "setlk" /\ Goto(a, Locked(a))
      \/ pc[a] = "unlock" /\ Goto(a, Unlocked(a))
  BY <1>1, <1>4, <1>5 DEF Locking, Open, Unlink, SetLock, Peek, ReadLock,
                          ReadUnlock, remove_flock
<1> QED BY <1>2, <1>3, <1>6

LEMMA LockingStored ==
  ASSUME Calm, NEW p \in Prog, Locking(main(p)) \/ Locking(child(p))
  PROVE  Stored'
<1>0. /\ main(p) \in Actor /\ child(p) \in Actor /\ main(p) # child(p)
      /\ after[p] \in {"ui", "dl", "store"} /\ Loads(p) /\ Shows(p) /\ Puts(p)
  BY Actors, CalmParts DEF PlaceOK
<1>1. CASE Locking(main(p))
  <2>1. /\ UNCHANGED <<reading, info, tmp, snap, mem, after, del>>
        /\ \/ pc[main(p)] = "open" /\ Goto(main(p), "unlink")
           \/ pc[main(p)] = "unlink" /\ Goto(main(p), "setlk")
           \/ pc[main(p)] = "setlk" /\ Goto(main(p), "stat")
           \/ pc[main(p)] = "unlock" /\ Goto(main(p), after[p])
    BY <1>1, GetsLock DEF Locked, Unlocked, main
  <2>2. PICK where \in {"unlink", "setlk", "stat", after[p]} :
          /\ Goto(main(p), where)
          /\ where = after[p] => pc[main(p)] = "unlock"
    BY <1>0, <2>1
  <2>3. pc[main(p)] \in {"open", "unlink", "setlk", "unlock"}
    BY <2>1
  <2>4. /\ pc'[main(p)] = where /\ NoWait' /\ pc'[child(p)] = pc[child(p)]
        /\ \A q \in Prog : q # p =>
             /\ ~Active(q) /\ pc'[main(q)] = pc[main(q)]
             /\ pc'[child(q)] = pc[child(q)]
    BY <1>0, <2>1, <2>2, <2>3, OneMoves
  <2>5. pc[child(p)] = "off" /\ p \notin del
    BY <1>0, <2>3 DEF Loads, Loading, Shows, LockStep
  <2>6. Loads(p)'
    BY <1>0, <2>1, <2>2, <2>3, <2>4, <2>5 DEF Loads, Loading, LockStep, Content
  <2>7. Shows(p)'
    BY <1>0, <2>1, <2>2, <2>4, <2>5
       DEF Loads, Loading, Shows, Final, ToWrite, Written, LockStep, Content
  <2>8. Puts(p)'
    BY <2>4, <2>5 DEF Puts, Written
  <2> QED BY <2>1, <2>4, <2>6, <2>7, <2>8, StoredByOne
<1>2. CASE Locking(child(p))
  <2>1. /\ UNCHANGED <<reading, info, tmp, snap, mem, after, del>>
        /\ \/ pc[child(p)] = "open" /\ Goto(child(p), "unlink")
           \/ pc[child(p)] = "unlink" /\ Goto(child(p), "setlk")
           \/ pc[child(p)] = "setlk" /\ Goto(child(p), "create")
           \/ pc[child(p)] = "unlock" /\ Goto(child(p), "off")
    BY <1>2, GetsLock DEF Locked, Unlocked, child
  <2>2. PICK where \in {"unlink", "setlk", "create", "off"} :
          /\ Goto(child(p), where)
          /\ where = "off" <=> pc[child(p)] = "unlock"
    BY <2>1
  <2>3. pc[child(p)] \in {"open", "unlink", "setlk", "unlock"}
    BY <2>1
  <2>4. /\ pc'[child(p)] = where /\ NoWait' /\ pc'[main(p)] = pc[main(p)]
        /\ \A q \in Prog : q # p =>
             /\ ~Active(q) /\ pc'[main(q)] = pc[main(q)]
             /\ pc'[child(q)] = pc[child(q)]
    BY <1>0, <2>1, <2>2, <2>3, OneMoves
  <2>5. ~Loading(p) /\ Loads(p)'
    BY <1>0, <2>1, <2>3, <2>4 DEF Loads, Loading, LockStep
  <2>6. Shows(p)'
    BY <1>0, <2>1, <2>2, <2>3, <2>4 DEF Shows, Final, ToWrite, Written, Content
  <2>7. Puts(p)'
    BY <2>2, <2>4 DEF Puts, Written
  <2> QED BY <2>1, <2>4, <2>5, <2>6, <2>7, StoredByOne
<1> QED BY <1>1, <1>2

\* What a program does while its child stays where it is.
LEMMA ProgramStored ==
  ASSUME Calm, NEW p \in Prog, NEW where, Goto(main(p), where),
         pc[main(p)] \notin {"off", "done"}, where \notin {"peek", "rdlk", "rdun"},
         UNCHANGED <<reading, info, tmp, snap>>,
         \A q \in Prog : q # p => mem'[q] = mem[q] /\ (q \in del' => q \in del),
         where # "off",
         where \in LockStep \cup {"stat", "read"} => pc[child(p)] = "off",
         where \in LockStep \cup {"stat", "read"} /\ after'[p] # "store" =>
           mem'[p] \subseteq Content /\ (where = "unlock" => mem'[p] = Content),
         p \in del' => where = "dl",
         where = "ui" \/ (where = "dl" /\ p \notin del') => mem'[p] = Final(p)
  PROVE  Stored'
<1>1. /\ main(p) \in Actor /\ child(p) \in Actor /\ main(p) # child(p)
      /\ Loads(p) /\ Shows(p) /\ Puts(p)
  BY Actors, CalmParts
<1>2. /\ pc'[main(p)] = where /\ NoWait' /\ pc'[child(p)] = pc[child(p)]
      /\ \A q \in Prog : q # p =>
           /\ ~Active(q) /\ pc'[main(q)] = pc[main(q)]
           /\ pc'[child(q)] = pc[child(q)]
  BY <1>1, OneMoves
<1>3. Loads(p)'
  BY <1>2 DEF Loads, Loading, LockStep, Content
<1>4. Shows(p)'
  BY <1>2 DEF Shows, Final, ToWrite, Written, Content
<1>5. Puts(p)'
  BY <1>1, <1>2 DEF Puts, Written
<1> QED BY <1>2, <1>3, <1>4, <1>5, StoredByOne

\* What is shown of a program whose child is idle is the file.
LEMMA ShownParts ==
  ASSUME Calm, NEW p \in Prog
  PROVE  /\ pc[child(p)] = "off" => Final(p) = Content
         /\ pc[main(p)] = "ui" => mem[p] = Final(p) /\ p \notin del
         /\ pc[main(p)] # "dl" => p \notin del
         /\ pc[main(p)] \in {"stat", "read"} =>
              /\ pc[child(p)] = "off"
              /\ after[p] # "store" => mem[p] \subseteq Content
BY CalmParts DEF Final, ToWrite, Written, Loads, Loading, Shows

LEMMA LoadStored ==
  ASSUME Calm, NEW p \in Prog, LoadStat(p) \/ LoadRead(p)
  PROVE  Stored'
<1>1. CASE LoadStat(p)
  <2>1. /\ pc[main(p)] = "stat" /\ UNCHANGED <<reading, info, tmp, snap, mem, after, del>>
        /\ Goto(main(p), IF info = None THEN "unlock" ELSE "read")
    BY <1>1 DEF LoadStat, locks, files
  <2>2. p \notin del /\ pc[child(p)] = "off"
        /\ (after[p] # "store" => mem[p] \subseteq Content)
    BY <2>1, ShownParts
  <2>3. info = None => Content = {}
    BY DEF Content
  <2> QED BY <2>1, <2>2, <2>3, ProgramStored
<1>2. CASE LoadRead(p)
  <2>1. /\ pc[main(p)] = "read" /\ UNCHANGED <<reading, info, tmp, snap, after, del>>
        /\ Goto(main(p), "unlock")
        /\ mem' = [mem EXCEPT ![p] = IF info = None THEN @ ELSE @ \cup info.list]
    BY <1>2 DEF LoadRead, locks, files
  <2>2. p \notin del /\ pc[child(p)] = "off"
        /\ (after[p] # "store" => mem[p] \subseteq Content)
    BY <2>1, ShownParts
  <2>3. mem'[p] = mem[p] \cup Content /\ \A q \in Prog : q # p => mem'[q] = mem[q]
    BY <2>1, CalmParts DEF Content, Parts, MemoryOK
  <2> QED BY <2>1, <2>2, <2>3, ProgramStored
<1> QED BY <1>1, <1>2

LEMMA ListStored ==
  ASSUME Calm, NEW p \in Prog, dl_list(p) \/ info_store(p), alone'
  PROVE  Stored'
<1>1. UNCHANGED <<reading, info, tmp, snap, mem, del>>
      /\ pc[main(p)] \in {"ui", "store"}
  BY DEF dl_list, info_store, locks, files
<1>2. p \notin del
  BY <1>1, ShownParts
<1>3. CASE \E where \in {"dl", "store"} :
             /\ Reload(p, where)
             /\ where = "dl" => pc[main(p)] = "ui"
  <2>1. PICK where \in {"dl", "store"} :
          /\ Reload(p, where)
          /\ where = "dl" => pc[main(p)] = "ui"
    BY <1>3
  <2>2. /\ Goto(main(p), "open") /\ after'[p] = where
        /\ alone' = (alone /\ pc[child(p)] = "off")
    BY <2>1, CalmParts DEF Reload, PlaceOK
  <2>3. pc[child(p)] = "off"
    BY <2>2
  <2>4. after'[p] # "store" => mem[p] = Content
    BY <2>1, <2>2, <2>3, ShownParts
  <2> QED BY <1>1, <1>2, <2>2, <2>3, <2>4, ProgramStored
<1>4. CASE /\ pc[main(p)] = "ui"
           /\ Goto(main(p), IF mem[p] = {} THEN "ui" ELSE "dl")
  BY <1>1, <1>2, <1>4, ShownParts, ProgramStored DEF LockStep
<1>5. CASE Goto(main(p), "wait")
  BY <1>1, <1>2, <1>5, ProgramStored DEF LockStep
<1>6. CASE dl_list(p)
  <2>1. \/ Reload(p, "dl")
        \/ Goto(main(p), IF mem[p] = {} THEN "ui" ELSE "dl")
    BY <1>6 DEF dl_list
  <2>2. pc[main(p)] = "ui"
    BY <1>6 DEF dl_list
  <2> QED BY <1>3, <1>4, <2>1, <2>2
<1>7. CASE info_store(p)
  <2>1. Reload(p, "store") \/ Goto(main(p), "wait")
    BY <1>7 DEF info_store
  <2> QED BY <1>3, <1>5, <2>1
<1> QED BY <1>6, <1>7

LEMMA ChangeStored ==
  ASSUME Calm, NEW p \in Prog,
         \/ CloseList(p) \/ Quit(p)
         \/ \E e \in Item : dl_add(p, e) \/ dl_del(p, e)
  PROVE  Stored'
<1>1. UNCHANGED <<reading, info, tmp, snap>> /\ pc[main(p)] \in {"ui", "dl"}
  BY DEF CloseList, Quit, dl_add, dl_del, locks, files, memory
<1>2. CASE CloseList(p)
  <2>1. /\ Goto(main(p), IF p \in del THEN "store" ELSE "ui")
        /\ del' = del \ {p} /\ mem' = mem /\ pc[main(p)] = "dl"
    BY <1>2 DEF CloseList
  <2>2. p \notin del => mem[p] = Final(p)
    BY <2>1, CalmParts DEF Shows
  <2> QED BY <1>1, <2>1, <2>2, ProgramStored DEF LockStep
<1>3. CASE Quit(p)
  <2>1. /\ Goto(main(p), "done") /\ del' = del /\ mem' = mem /\ pc[main(p)] = "ui"
    BY <1>3 DEF Quit, memory
  <2> QED BY <1>1, <2>1, ShownParts, ProgramStored DEF LockStep
<1>4. ASSUME NEW e \in Item, dl_add(p, e)
      PROVE  Stored'
  <2>1. /\ Goto(main(p), "store") /\ del' = del /\ pc[main(p)] = "ui"
        /\ mem' = [mem EXCEPT ![p] = @ \cup {e}]
    BY <1>4 DEF dl_add
  <2>2. \A q \in Prog : q # p => mem'[q] = mem[q]
    BY <2>1, CalmParts DEF Parts, MemoryOK
  <2> QED BY <1>1, <2>1, <2>2, ShownParts, ProgramStored DEF LockStep
<1>5. ASSUME NEW e \in Item, dl_del(p, e)
      PROVE  Stored'
  <2>1. /\ pc[main(p)] = "dl" /\ mem' = [mem EXCEPT ![p] = @ \ {e}]
        /\ \/ del' = del \cup {p} /\ UNCHANGED pc
           \/ del' = del \ {p} /\ Goto(main(p), "store")
    BY <1>5 DEF dl_del
  <2>2. \A q \in Prog : q # p => mem'[q] = mem[q]
    BY <2>1, CalmParts DEF Parts, MemoryOK
  <2>3. UNCHANGED pc => Goto(main(p), "dl")
    BY <2>1, Actors, CalmParts DEF Goto, PlaceOK
  <2>4. CASE del' = del \cup {p} /\ UNCHANGED pc
    BY <1>1, <2>1, <2>2, <2>3, <2>4, ProgramStored DEF LockStep
  <2>5. CASE del' = del \ {p} /\ Goto(main(p), "store")
    BY <1>1, <2>1, <2>2, <2>5, ProgramStored DEF LockStep
  <2> QED BY <2>1, <2>4, <2>5
<1> QED BY <1>2, <1>3, <1>4, <1>5

LEMMA StartStored ==
  ASSUME Calm, NEW p \in Prog, Start(p), alone'
  PROVE  Stored'
<1>1. /\ main(p) \in Actor /\ child(p) \in Actor /\ main(p) # child(p)
      /\ Loads(p) /\ Shows(p) /\ Puts(p)
  BY Actors, CalmParts
<1>2. /\ pc[main(p)] = "off" /\ UNCHANGED <<reading, info, tmp, snap, mem, del>>
      /\ \A q \in Prog : ~Active(q)
      /\ pc'[main(p)] = "open" /\ \A b \in Actor : b # main(p) => pc'[b] = pc[b]
  BY <1>1, CalmParts DEF Start, locks, files, Goto, PlaceOK
<1>3. \A q \in Prog : /\ pc'[child(q)] = pc[child(q)]
                      /\ q # p => pc'[main(q)] = pc[main(q)]
  BY <1>2, Actors
<1>4. NoWait'
  BY <1>2, CalmParts DEF NoWait
<1>5. pc[child(p)] = "off" /\ mem[p] = {} /\ p \notin del
  BY <1>1, <1>2, CalmParts DEF Active, PlaceOK, LockStep, ChildStep, Loads, Shows
<1>6. (Loads(p) /\ Shows(p) /\ Puts(p))'
  BY <1>2, <1>3, <1>5 DEF Loads, Loading, Shows, Puts, Written
<1> QED BY <1>2, <1>3, <1>4, <1>6, StoredByOne

\* The child is given the list as it is shown.
LEMMA ForkStored ==
  ASSUME Calm, NEW p \in Prog, Fork(p)
  PROVE  Stored'
<1>1. /\ main(p) \in Actor /\ child(p) \in Actor /\ main(p) # child(p)
      /\ Loads(p) /\ Shows(p) /\ Puts(p)
  BY Actors, CalmParts
<1>2. /\ pc[main(p)] = "wait" /\ UNCHANGED <<reading, info, tmp, mem, after, del>>
      /\ snap'[p] = mem[p]
      /\ pc'[main(p)] = "ui"
      /\ pc'[child(p)] = IF mem[p] = {} THEN "look" ELSE "open"
      /\ \A b \in Actor : b # main(p) /\ b # child(p) => pc'[b] = pc[b]
  BY <1>1, CalmParts DEF Fork, locks, files, PlaceOK, Parts, MemoryOK
<1>3. \A q \in Prog : q # p => /\ pc'[main(q)] = pc[main(q)]
                               /\ pc'[child(q)] = pc[child(q)] /\ ~Active(q)
  <2>1. Active(p)
    BY <1>2 DEF Active
  <2> QED BY <1>2, <2>1, Actors, OthersIdle
<1>4. NoWait'
  BY <1>2, CalmParts DEF NoWait
<1>5. (Loads(p) /\ Shows(p) /\ Puts(p))'
  BY <1>1, <1>2 DEF Loads, Loading, LockStep, Shows, Puts, Final, ToWrite, Written
<1> QED BY <1>2, <1>3, <1>4, <1>5, StoredByOne

\* What the child does is of no concern to its program until it is done.
LEMMA ChildStored ==
  ASSUME Calm, NEW p \in Prog, NEW where, Goto(child(p), where),
         pc[child(p)] \in {"create", "write", "look", "remove", "rename"},
         where \notin {"peek", "rdlk", "rdun"},
         UNCHANGED <<reading, snap, mem, after, del>>,
         Puts(p)',
         where # "unlock" => (ToWrite(p) \/ Written(p))',
         where = "unlock" => Content' = snap[p]
  PROVE  Stored'
<1>1. /\ main(p) \in Actor /\ child(p) \in Actor /\ main(p) # child(p)
      /\ Loads(p) /\ Shows(p)
  BY Actors, CalmParts
<1>2. /\ pc'[child(p)] = where /\ NoWait' /\ pc'[main(p)] = pc[main(p)]
      /\ \A q \in Prog : q # p =>
           /\ ~Active(q) /\ pc'[main(q)] = pc[main(q)]
           /\ pc'[child(q)] = pc[child(q)]
  BY <1>1, OneMoves
<1>3. ~Loading(p) /\ Loads(p)'
  BY <1>1, <1>2 DEF Loads, Loading, LockStep
<1>4. Final(p) = snap[p] /\ Final(p)' = snap[p]
  BY <1>2 DEF Final, ToWrite, Written
<1>5. Shows(p)'
  BY <1>1, <1>2, <1>4 DEF Shows
<1> QED BY <1>2, <1>3, <1>5, StoredByOne

LEMMA ChildStepStored ==
  ASSUME Calm, NEW p \in Prog,
         Create(p) \/ Write(p) \/ Look(p) \/ Remove(p) \/ Rename(p)
  PROVE  Stored'
<1>1. /\ UNCHANGED <<reading, snap, mem, after, del>>
      /\ child(p) \in Actor /\ Puts(p)
  BY Actors, CalmParts DEF Create, Write, Look, Remove, Rename, locks, memory
<1>2. \A where : Goto(child(p), where) => pc'[child(p)] = where
  BY <1>1, CalmParts DEF Goto, PlaceOK
<1>3. CASE Create(p)
  <2>1. /\ pc[child(p)] = "create" /\ Goto(child(p), "write")
        /\ tmp' = [list |-> {}, mtime |-> now]
    BY <1>3 DEF Create, AfterCreate
  <2>2. tmp' # None /\ tmp'.list = {}
    BY <2>1, RecordIsNotNone, CalmParts DEF Parts, CountOK
  <2>3. Puts(p)'
    BY <1>2, <2>1, <2>2 DEF Puts, Written
  <2> QED BY <1>1, <1>2, <2>1, <2>3, ChildStored DEF ToWrite
<1>4. CASE Write(p)
  <2>1. pc[child(p)] = "write" /\ Goto(child(p), "look")
    BY <1>4 DEF Write
  <2>2. handle[p] = "tmp" /\ tmp.list = {}
    BY <1>1, <2>1, CalmParts DEF WritesTmp, Puts
  <2>3. PICK l \in Overlaid(tmp.list, snap[p]) : tmp' = [list |-> l, mtime |-> now]
    BY <1>4, <2>2 DEF Write
  <2>4. l = snap[p]
    BY <2>2, <2>3 DEF Overlaid
  <2>5. tmp' # None /\ tmp'.list = snap[p]
    BY <2>3, <2>4, RecordIsNotNone, CalmParts DEF Parts, CountOK, MemoryOK
  <2>6. Puts(p)'
    BY <1>1, <1>2, <2>1, <2>5 DEF Puts
  <2> QED BY <1>1, <1>2, <2>1, <2>6, ChildStored DEF Written
<1>5. CASE Look(p)
  <2>1. /\ pc[child(p)] = "look" /\ UNCHANGED <<info, tmp>>
        /\ Goto(child(p), IF info = None THEN "rename" ELSE "remove")
    BY <1>5 DEF Look, AfterLook, files
  <2>2. Puts(p)'
    BY <1>1, <1>2, <2>1 DEF Puts, Written
  <2> QED BY <1>1, <1>2, <2>1, <2>2, ChildStored DEF Written
<1>6. CASE Remove(p)
  <2>1. /\ pc[child(p)] = "remove" /\ info' = None /\ tmp' = tmp
        /\ Goto(child(p), "rename")
    BY <1>6 DEF Remove
  <2>2. Puts(p)'
    BY <1>1, <1>2, <2>1 DEF Puts, Written
  <2> QED BY <1>1, <1>2, <2>1, <2>2, ChildStored DEF Written
<1>7. CASE Rename(p)
  <2>1. pc[child(p)] = "rename" /\ Goto(child(p), "unlock")
    BY <1>7 DEF Rename
  <2>2. Content' = snap[p]
    <3>1. CASE snap[p] # {}
      <4>1. tmp # None /\ tmp.list = snap[p]
        BY <1>1, <2>1, <3>1 DEF Puts, Written
      <4> QED BY <1>7, <3>1, <4>1 DEF Rename, Content
    <3>2. CASE snap[p] = {}
      BY <1>1, <1>7, <2>1, <3>2 DEF Puts, Rename, Content, files
    <3> QED BY <3>1, <3>2
  <2>3. Puts(p)'
    BY <1>2, <2>1 DEF Puts, Written
  <2> QED BY <1>1, <2>1, <2>2, <2>3, ChildStored
<1> QED BY <1>3, <1>4, <1>5, <1>6, <1>7

LEMMA InitStored == Init => Stored
<1> SUFFICES ASSUME Init PROVE NoWait /\ \A p \in Prog : Loads(p) /\ Shows(p) /\ Puts(p)
  BY DEF Stored
<1>1. \A p \in Prog : pc[main(p)] = "off" /\ pc[child(p)] = "off"
  BY Actors DEF Init
<1> QED BY <1>1 DEF Init, NoWait, Loads, Loading, LockStep, Shows, Puts, Written

LEMMA StepStored == Parts /\ Solo /\ Stored /\ [Next]_vars => Stored'
<1> SUFFICES ASSUME Parts, Solo, Stored, [Next]_vars, alone', crashes' = 0
             PROVE  Stored'
  BY DEF Stored, Quiet
<1>1. CASE UNCHANGED vars
  BY <1>1 DEF Stored, Quiet, NoWait, Loads, Loading, Shows, Puts, Final, Content,
     ToWrite, Written, vars, locks, files, memory, history
<1>2. CASE Tick
  BY <1>2 DEF Tick, Stored, Quiet, NoWait, Loads, Loading, Shows, Puts, Final,
     Content, ToWrite, Written, locks, files, memory, history
<1>3. ASSUME NEW a \in Actor, Crash(a) PROVE FALSE
  BY <1>3 DEF Crash, Parts, CountOK
<1>4. ASSUME NEW p \in Prog, Main(p) \/ Child(p) \/ User(p)
      PROVE  Stored'
  <2>1. alone /\ crashes = 0
    BY <1>4 DEF Main, Child, User, Locking, Open, Unlink, SetLock, Peek, ReadLock,
       ReadUnlock, remove_flock, LoadStat, LoadRead, info_store, Fork, Create, Write,
       Look, Remove, Rename, Start, dl_list, CloseList, Quit, dl_add, dl_del, Reload,
       history
  <2>2. Calm
    BY <2>1 DEF Calm, Quiet
  <2>3. \/ Locking(main(p)) \/ Locking(child(p))
        \/ LoadStat(p) \/ LoadRead(p) \/ dl_list(p) \/ info_store(p)
        \/ CloseList(p) \/ Quit(p)
        \/ \E e \in Item : dl_add(p, e) \/ dl_del(p, e)
        \/ Start(p) \/ Fork(p)
        \/ Create(p) \/ Write(p) \/ Look(p) \/ Remove(p) \/ Rename(p)
    BY <1>4 DEF Main, Child, User
  <2> QED BY <2>2, <2>3, LockingStored, LoadStored, ListStored, ChangeStored,
             StartStored, ForkStored, ChildStepStored
<1> QED BY <1>1, <1>2, <1>3, <1>4 DEF Next, Over

\* As long as the programs do not meet, none loads the list again while its own
\* child is at work, and none is killed, the list that is shown is the one that
\* is stored as soon as nothing is under way: for any number of programs, one
\* after the other, and any number of changes of the list.
THEOREM ListIsStored == Spec => []StoredWhenAlone
<1>1. Init => Parts /\ Solo /\ Stored
  BY InitIInv, IInvParts, InitSolo, InitStored
<1>2. Parts /\ Solo /\ Stored /\ [Next]_vars => (Parts /\ Solo /\ Stored)'
  BY StepIInv, IInvParts, StepSolo, StepStored
<1>3. ASSUME Stored PROVE StoredWhenAlone
  <2>1. SUFFICES ASSUME Quiet, AtRest, NEW p \in Prog, pc[main(p)] = "ui"
                 PROVE  Content = mem[p]
    BY DEF StoredWhenAlone, Quiet
  <2>2. ~ToWrite(p) /\ ~Written(p)
    BY <2>1, Actors DEF AtRest, ToWrite, Written
  <2> QED BY <1>3, <2>1, <2>2 DEF Stored, Shows, Final
<1> QED BY <1>1, <1>2, <1>3, PTL DEF Spec
=============================================================================
