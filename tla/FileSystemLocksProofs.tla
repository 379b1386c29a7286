---------------------- MODULE FileSystemLocksProofs ------------------------
(***************************************************************************)
(* Proofs about module FileSystem, first part: what one step of a thread   *)
(* does to its place and locals (ShapeInv), to the locks and counts of the *)
(* lock manager's entries (LockInv, EntriesCounted), and to the table of   *)
(* open files (TableInv). For each action A of a thread: AEffect says what *)
(* A does to the thread, AShape that ShapeInv is kept, ALocks that the     *)
(* locks and counts are, ATable that the table is.                         *)
(***************************************************************************)
EXTENDS FileSystem, FiniteSetTheorems, WellFoundedInduction, TLAPS

USE SizesAssumption

-----------------------------------------------------------------------------
(* Constants, and the records of a thread. *)

\* The allocator's search finds what it looks for: a set of numbers that is not
\* empty has a least one.
LEMMA MinIn ==
  ASSUME NEW S \in SUBSET Nat, S # {}
  PROVE  Min(S) \in S
<1>1. IsWellFoundedOn(OpToRel(<, Nat), Nat) BY NatLessThanWellFounded
<1>2. PICK x \in S : \A y \in S : ~(<<y, x>> \in OpToRel(<, Nat)) BY <1>1, WFMin
<1>3. \A y \in S : x <= y
  <2> SUFFICES ASSUME NEW y \in S, y < x PROVE FALSE OBVIOUS
  <2>1. <<y, x>> \in OpToRel(<, Nat) BY DEF OpToRel
  <2> QED BY <1>2, <2>1
<1> QED BY <1>3 DEF Min

\* An inode, a block or a slot that is free.
LEMMA FreeIn ==
  /\ \A S \in SUBSET Inodes : S # Inodes => Min(Inodes \ S) \in Inodes \ S
  /\ \A S \in SUBSET Blocks : S # Blocks => Min(Blocks \ S) \in Blocks \ S
  /\ \A S \in SUBSET Fds : S # Fds => Min(Fds \ S) \in Fds \ S
<1> Inodes \subseteq Nat /\ Blocks \subseteq Nat /\ Fds \subseteq Nat BY DEF Inodes, Blocks, Fds
<1> QED BY MinIn

\* The inode of nothing is an inode.
LEMMA NoInodeType == NoInode \in InodeType /\ NoInode.mode = "none" /\ NoInode.ind = 0
  BY DEF NoInode, InodeType, Indexes

\* The entry of nobody is an entry.
LEMMA NoEntryType == /\ NoEntry \in EntryType /\ ~NoEntry.valid /\ NoEntry.x = NoThread
                     /\ NoEntry.s = {} /\ NoEntry.refs = 0 /\ NoEntry.open_count = 0
  BY NoInodeType DEF NoEntry, EntryType

\* The locals of a thread outside every call.
LEMMA IdleType == /\ Idle \in Locals /\ Idle.kind = "stat" /\ Idle.path = <<>> /\ Idle.depth = 0
                  /\ Idle.cur = 0 /\ Idle.kid = 0 /\ ~Idle.held /\ Idle.index = 0
                  /\ Idle.ino = NoInode /\ Idle.got = <<>> /\ Idle.fd = 0
  BY NoInodeType DEF Idle, Locals, ByPath, Changes, Opens

\* A new file and a new directory, field by field.
LEMMA NewFileIs ==
  NewFile = [mode |-> "file", links |-> 1, size |-> 0, ptr |-> NoInode.ptr, ind |-> 0]
<1>1. NewFile = [[NoInode EXCEPT !.mode = "file"] EXCEPT !.links = 1]
  BY DEF NewFile, NoInode
<1> QED BY <1>1 DEF NoInode

\* The fields of a new directory's inode.
LEMMA NewDirIs ==
  ASSUME NEW b \in Blocks
  PROVE  NewDir(b) = [mode |-> "dir", links |-> 2, size |-> 1, ptr |-> [NoInode.ptr EXCEPT ![0] = b],
                      ind |-> 0]
<1>1. NewDir(b) = [[[[NoInode EXCEPT !.mode = "dir"] EXCEPT !.links = 2] EXCEPT !.size = 1]
                     EXCEPT !.ptr = [NoInode.ptr EXCEPT ![0] = b]]
  BY DEF NewDir, NoInode
<1> QED BY <1>1 DEF NoInode

\* What they start with.
LEMMA NewTypes ==
  /\ NewFile \in InodeType /\ NewFile.mode = "file" /\ NewFile.links = 1 /\ NewFile.size = 0
  /\ NewFile.ind = 0 /\ \A k \in Indexes : NewFile.ptr[k] = 0
  /\ \A b \in Blocks : /\ NewDir(b) \in InodeType /\ NewDir(b).mode = "dir" /\ NewDir(b).links = 2
                       /\ NewDir(b).size = 1 /\ NewDir(b).ind = 0 /\ NewDir(b).ptr[0] = b
                       /\ \A k \in Indexes : k # 0 => NewDir(b).ptr[k] = 0
<1> 1 \in 0..MaxLinks /\ 2 \in 0..MaxLinks /\ 0 \in 0..NBlocks /\ 0 \in Indexes BY DEF Indexes
<1>1. /\ NoInode.ptr \in [Indexes -> 0..NBlocks] /\ \A k \in Indexes : NoInode.ptr[k] = 0
  BY DEF NoInode
<1>2. /\ NewFile \in InodeType /\ NewFile.mode = "file" /\ NewFile.links = 1 /\ NewFile.size = 0
      /\ NewFile.ind = 0 /\ \A k \in Indexes : NewFile.ptr[k] = 0
  BY <1>1, NewFileIs DEF InodeType
<1>3. ASSUME NEW b \in Blocks
      PROVE  /\ NewDir(b) \in InodeType /\ NewDir(b).mode = "dir" /\ NewDir(b).links = 2
             /\ NewDir(b).size = 1 /\ NewDir(b).ind = 0 /\ NewDir(b).ptr[0] = b
             /\ \A k \in Indexes : k # 0 => NewDir(b).ptr[k] = 0
  <2> DEFINE p == [NoInode.ptr EXCEPT ![0] = b]
  <2>1. p \in [Indexes -> 0..NBlocks] /\ p[0] = b /\ \A k \in Indexes : k # 0 => p[k] = 0
    BY <1>1 DEF Blocks
  <2>2. NewDir(b) = [mode |-> "dir", links |-> 2, size |-> 1, ptr |-> p, ind |-> 0] BY NewDirIs
  <2> HIDE DEF p
  <2> QED BY <2>1, <2>2 DEF InodeType
<1> QED BY <1>2, <1>3

\* The locals a step leaves a thread with: those of its call are kept.
Becomes(l, m, depth, cur, kid, held, index, ino, got, over) ==
  /\ m \in Locals /\ m.kind = l.kind /\ m.path = l.path /\ m.fd = l.fd
  /\ m.depth = depth /\ m.cur = cur /\ m.kid = kid /\ m.held = held
  /\ m.index = index /\ m.ino = ino /\ m.got = got /\ m.over = over

\* The types of a thread's locals.
LEMMA LocalsFields ==
  ASSUME NEW l \in Locals
  PROVE  /\ l.kind \in ByPath \cup Writes \cup {"read", "close"} /\ l.path \in Seq(Names)
         /\ l.depth \in Nat /\ l.cur \in 0..NInodes /\ l.kid \in 0..NInodes /\ l.held \in BOOLEAN
         /\ l.fd \in 0..NFiles /\ l.index \in Nat /\ l.ino \in InodeType /\ l.got \in Seq(Blocks)
         /\ l.over \in BOOLEAN
  BY DEF Locals

\* One step of thread t.
Steps(t) == /\ pc' \in [Threads -> Labels] /\ th' \in [Threads -> Locals]
            /\ \A u \in Threads : u # t => pc'[u] = pc[u] /\ th'[u] = th[u]

\* A thread goes to a label with locals of its own.
LEMMA Going ==
  ASSUME TypeOK, NEW t \in Threads, NEW label \in Labels, Goto(t, label)
  PROVE  /\ th' = th => Steps(t) /\ pc'[t] = label /\ th'[t] = th[t]
         /\ \A l \in Locals : Set(t, l) => Steps(t) /\ pc'[t] = label /\ th'[t] = l
  BY DEF TypeOK, Goto, Set, Steps

\* Locals with some of them set.
LEMMA SetNone ==
  ASSUME NEW l \in Locals
  PROVE  Becomes(l, l, l.depth, l.cur, l.kid, l.held, l.index, l.ino, l.got, l.over)
  BY DEF Becomes

\* A thread's locals with new kid: the other fields stay.
LEMMA SetKid ==
  ASSUME NEW l \in Locals, NEW kid \in 0..NInodes
  PROVE  Becomes(l, [l EXCEPT !.kid = kid],
                 l.depth, l.cur, kid, l.held, l.index, l.ino, l.got, l.over)
  BY DEF Locals, Becomes

\* A thread's locals with new cur and kid: the other fields stay.
LEMMA SetCurKid ==
  ASSUME NEW l \in Locals, NEW cur \in 0..NInodes, NEW kid \in 0..NInodes
  PROVE  Becomes(l, [l EXCEPT !.cur = cur, !.kid = kid],
                 l.depth, cur, kid, l.held, l.index, l.ino, l.got, l.over)
  BY DEF Locals, Becomes

\* A thread's locals with new kid and depth: the other fields stay.
LEMMA SetKidDepth ==
  ASSUME NEW l \in Locals, NEW kid \in 0..NInodes, NEW depth \in Nat
  PROVE  Becomes(l, [l EXCEPT !.kid = kid, !.depth = depth],
                 depth, l.cur, kid, l.held, l.index, l.ino, l.got, l.over)
  BY DEF Locals, Becomes

\* A thread's locals with new index: the other fields stay.
LEMMA SetIndex ==
  ASSUME NEW l \in Locals, NEW index \in Nat
  PROVE  Becomes(l, [l EXCEPT !.index = index],
                 l.depth, l.cur, l.kid, l.held, index, l.ino, l.got, l.over)
  BY DEF Locals, Becomes

\* A thread's locals with new held: the other fields stay.
LEMMA SetHeld ==
  ASSUME NEW l \in Locals, NEW held \in BOOLEAN
  PROVE  Becomes(l, [l EXCEPT !.held = held],
                 l.depth, l.cur, l.kid, held, l.index, l.ino, l.got, l.over)
  BY DEF Locals, Becomes

\* A thread's locals with new kid and ino: the other fields stay.
LEMMA SetKidIno ==
  ASSUME NEW l \in Locals, NEW kid \in 0..NInodes, NEW ino \in InodeType
  PROVE  Becomes(l, [l EXCEPT !.kid = kid, !.ino = ino],
                 l.depth, l.cur, kid, l.held, l.index, ino, l.got, l.over)
  BY DEF Locals, Becomes

\* A thread's locals with new kid and index: the other fields stay.
LEMMA SetKidIndex ==
  ASSUME NEW l \in Locals, NEW kid \in 0..NInodes, NEW index \in Nat
  PROVE  Becomes(l, [l EXCEPT !.kid = kid, !.index = index],
                 l.depth, l.cur, kid, l.held, index, l.ino, l.got, l.over)
  BY DEF Locals, Becomes

\* A thread's locals with new ino: the other fields stay.
LEMMA SetIno ==
  ASSUME NEW l \in Locals, NEW ino \in InodeType
  PROVE  Becomes(l, [l EXCEPT !.ino = ino],
                 l.depth, l.cur, l.kid, l.held, l.index, ino, l.got, l.over)
  BY DEF Locals, Becomes

\* A thread's locals with new got: the other fields stay.
LEMMA SetGot ==
  ASSUME NEW l \in Locals, NEW got \in Seq(Blocks)
  PROVE  Becomes(l, [l EXCEPT !.got = got],
                 l.depth, l.cur, l.kid, l.held, l.index, l.ino, got, l.over)
  BY DEF Locals, Becomes

\* A thread's locals with new got and ino: the other fields stay.
LEMMA SetGotIno ==
  ASSUME NEW l \in Locals, NEW got \in Seq(Blocks), NEW ino \in InodeType
  PROVE  Becomes(l, [l EXCEPT !.got = got, !.ino = ino],
                 l.depth, l.cur, l.kid, l.held, l.index, ino, got, l.over)
  BY DEF Locals, Becomes

\* A thread's locals with new got, ino and index: the other fields stay.
LEMMA SetGotInoIndex ==
  ASSUME NEW l \in Locals, NEW got \in Seq(Blocks), NEW ino \in InodeType, NEW index \in Nat
  PROVE  Becomes(l, [l EXCEPT !.got = got, !.ino = ino, !.index = index],
                 l.depth, l.cur, l.kid, l.held, index, ino, got, l.over)
  BY DEF Locals, Becomes

\* A thread's locals with new got and over: the other fields stay.
LEMMA SetGotOver ==
  ASSUME NEW l \in Locals, NEW got \in Seq(Blocks), NEW over \in BOOLEAN
  PROVE  Becomes(l, [l EXCEPT !.got = got, !.over = over],
                 l.depth, l.cur, l.kid, l.held, l.index, l.ino, got, over)
  BY DEF Locals, Becomes

\* A thread's locals with new over: the other fields stay.
LEMMA SetOver ==
  ASSUME NEW l \in Locals, NEW over \in BOOLEAN
  PROVE  Becomes(l, [l EXCEPT !.over = over],
                 l.depth, l.cur, l.kid, l.held, l.index, l.ino, l.got, over)
  BY DEF Locals, Becomes

\* A thread's locals with new ino, index and over: the other fields stay.
LEMMA SetInoIndexOver ==
  ASSUME NEW l \in Locals, NEW ino \in InodeType, NEW index \in Nat, NEW over \in BOOLEAN
  PROVE  Becomes(l, [l EXCEPT !.ino = ino, !.index = index, !.over = over],
                 l.depth, l.cur, l.kid, l.held, index, ino, l.got, over)
  BY DEF Locals, Becomes

\* Begin_op lets a call in: what the step does to its thread and to the program
\* counter.
LEMMA BeginEffect ==
  ASSUME TypeOK, NEW t \in Threads, Begin(t)
  PROVE  /\ Steps(t) /\ pc[t] = "begin"
         /\ pc'[t] = (IF th[t].kind \in Writes THEN "lock_file" ELSE "root")
         /\ Becomes(th[t], th'[t], th[t].depth, th[t].cur, th[t].kid, th[t].held, th[t].index,
                    th[t].ino, th[t].got, th[t].over)
<1> pc[t] = "begin" BY DEF Begin
<1> th[t] \in Locals /\ 0 \in 0..NInodes /\ 0 \in Nat /\ TRUE \in BOOLEAN /\ <<>> \in Seq(Blocks)
  BY DEF TypeOK
<1>0. /\ th[t].kid \in 0..NInodes /\ th[t].cur \in 0..NInodes /\ th[t].depth \in Nat
      /\ th[t].kind \in ByPath \cup Writes \cup {"read", "close"}
  BY LocalsFields
<1> DEFINE m1 == th[t]
<1>1. Becomes(th[t], m1, th[t].depth, th[t].cur, th[t].kid, th[t].held, th[t].index, th[t].ino,
              th[t].got, th[t].over)
  BY SetNone
<1>2. Goto(t, IF th[t].kind \in Writes THEN "lock_file" ELSE "root") /\ th' = th
  BY <1>0 DEF Begin
<1> QED BY <1>0, <1>1, <1>2, Going DEF Becomes, Labels

\* A walk starts at the root: what the step does to its thread and to the program
\* counter.
LEMMA WalkRootEffect ==
  ASSUME TypeOK, NEW t \in Threads, WalkRoot(t)
  PROVE  /\ Steps(t) /\ pc[t] = "root"
         /\ pc'[t] = "lock"
         /\ Becomes(th[t], th'[t], th[t].depth, th[t].cur, Root, th[t].held, th[t].index, th[t].ino,
                    th[t].got, th[t].over)
<1> pc[t] = "root" BY DEF WalkRoot
<1> th[t] \in Locals /\ 0 \in 0..NInodes /\ 0 \in Nat /\ TRUE \in BOOLEAN /\ <<>> \in Seq(Blocks)
  BY DEF TypeOK
<1>0. /\ th[t].kid \in 0..NInodes /\ th[t].cur \in 0..NInodes /\ th[t].depth \in Nat
      /\ th[t].kind \in ByPath \cup Writes \cup {"read", "close"}
  BY LocalsFields
<1> DEFINE m1 == [th[t] EXCEPT !.kid = Root]
<1>1. Becomes(th[t], m1, th[t].depth, th[t].cur, Root, th[t].held, th[t].index, th[t].ino, th[t].got,
              th[t].over)
  <2>1. Root \in 0..NInodes BY <1>0 DEF TypeOK, Root
  <2> QED BY <2>1, SetKid
<1>2. Goto(t, "lock") /\ Set(t, m1)
  BY <1>0 DEF WalkRoot
<1> HIDE DEF m1
<1> QED BY <1>0, <1>1, <1>2, Going DEF Becomes, Labels

\* A walk locks what it has found: what the step does to its thread and to the program
\* counter.
LEMMA WalkLockEffect ==
  ASSUME TypeOK, NEW t \in Threads, WalkLock(t)
  PROVE  /\ Steps(t) /\ pc[t] = "lock"
         /\ pc'[t] = (IF th[t].depth = Goal(t) THEN "at" ELSE "walk")
         /\ Becomes(th[t], th'[t], th[t].depth, th[t].kid, 0, th[t].held, th[t].index, th[t].ino,
                    th[t].got, th[t].over)
<1> pc[t] = "lock" BY DEF WalkLock
<1> th[t] \in Locals /\ 0 \in 0..NInodes /\ 0 \in Nat /\ TRUE \in BOOLEAN /\ <<>> \in Seq(Blocks)
  BY DEF TypeOK
<1>0. /\ th[t].kid \in 0..NInodes /\ th[t].cur \in 0..NInodes /\ th[t].depth \in Nat
      /\ th[t].kind \in ByPath \cup Writes \cup {"read", "close"}
  BY LocalsFields
<1> DEFINE m1 == [th[t] EXCEPT !.cur = th[t].kid, !.kid = 0]
<1>1. Becomes(th[t], m1, th[t].depth, th[t].kid, 0, th[t].held, th[t].index, th[t].ino, th[t].got,
              th[t].over)
  <2>1. th[t].kid \in 0..NInodes /\ 0 \in 0..NInodes BY <1>0 DEF TypeOK, Root
  <2> QED BY <2>1, SetCurKid
<1>2. Goto(t, IF th[t].depth = Goal(t) THEN "at" ELSE "walk") /\ Set(t, m1)
  BY <1>0 DEF WalkLock
<1> HIDE DEF m1
<1> QED BY <1>0, <1>1, <1>2, Going DEF Becomes, Labels

\* A walk looks a component up: what the step does to its thread and to the program
\* counter.
LEMMA WalkNextEffect ==
  ASSUME TypeOK, NEW t \in Threads, WalkNext(t), th[t].cur # 0, th[t].path[th[t].depth + 1] \in Names
  PROVE  /\ Steps(t) /\ pc[t] = "walk"
         /\ \/ /\ pc'[t] = "exit"
               /\ Becomes(th[t], th'[t], th[t].depth, th[t].cur, th[t].kid, th[t].held, th[t].index,
                          th[t].ino, th[t].got, th[t].over)
            \/ /\ IsDir(th[t].cur) /\ dirent[th[t].cur][th[t].path[th[t].depth + 1]] # 0
               /\ pc'[t] = "lock"
               /\ Becomes(th[t], th'[t], th[t].depth + 1, th[t].cur,
                          dirent[th[t].cur][th[t].path[th[t].depth + 1]], th[t].held, th[t].index,
                          th[t].ino, th[t].got, th[t].over)
<1> pc[t] = "walk" BY DEF WalkNext
<1> th[t] \in Locals /\ 0 \in 0..NInodes /\ 0 \in Nat /\ TRUE \in BOOLEAN /\ <<>> \in Seq(Blocks)
  BY DEF TypeOK
<1>0. /\ th[t].kid \in 0..NInodes /\ th[t].cur \in 0..NInodes /\ th[t].depth \in Nat
      /\ th[t].kind \in ByPath \cup Writes \cup {"read", "close"}
  BY LocalsFields
<1> DEFINE m1 == th[t]
<1>1. Becomes(th[t], m1, th[t].depth, th[t].cur, th[t].kid, th[t].held, th[t].index, th[t].ino,
              th[t].got, th[t].over)
  BY SetNone
<1> DEFINE m2 == [th[t] EXCEPT !.kid = dirent[th[t].cur][th[t].path[th[t].depth + 1]], !.depth = th[t].depth + 1]
<1>2. ASSUME IsDir(th[t].cur) /\ dirent[th[t].cur][th[t].path[th[t].depth + 1]] # 0
      PROVE Becomes(th[t], m2, th[t].depth + 1, th[t].cur,
                    dirent[th[t].cur][th[t].path[th[t].depth + 1]], th[t].held, th[t].index, th[t].ino,
                    th[t].got, th[t].over)
  <2>0. /\ th[t].cur # 0 => th[t].cur \in Inodes
        /\ ibits # Inodes => Min(Inodes \ ibits) \in Inodes
        /\ bbits # Blocks => Min(Blocks \ bbits) \in Blocks
    <3>1. ibits \in SUBSET Inodes /\ bbits \in SUBSET Blocks BY DEF TypeOK
    <3>2. th[t].cur # 0 => th[t].cur \in Inodes BY <1>0 DEF Inodes
    <3> QED BY <3>1, <3>2, FreeIn
  <2>1. dirent[th[t].cur][th[t].path[th[t].depth + 1]] \in 0..NInodes
    <3> DEFINE n == th[t].path[th[t].depth + 1]
    <3>1. n \in Names OBVIOUS
    <3> HIDE DEF n
    <3>2. dirent[th[t].cur][n] \in 0..NInodes BY <2>0, <3>1 DEF TypeOK
    <3> QED BY <3>2 DEF n
  <2>2. th[t].depth + 1 \in Nat BY <1>0
  <2> QED BY <2>1, <2>2, SetKidDepth
<1>3. \/ Goto(t, "exit") /\ th' = th
      \/ IsDir(th[t].cur) /\ dirent[th[t].cur][th[t].path[th[t].depth + 1]] # 0 /\ Goto(t, "lock") /\ Set(t, m2)
  BY <1>0 DEF WalkNext, IsDir, Descend
<1> HIDE DEF m2
<1> QED BY <1>0, <1>1, <1>2, <1>3, Going DEF Becomes, Labels

\* Open has reached the file's name: what the step does to its thread and to the
\* program counter.
LEMMA AtOpenEffect ==
  ASSUME TypeOK, NEW t \in Threads, AtOpen(t)
  PROVE  /\ Steps(t) /\ pc[t] = "at"
         /\ \/ /\ th[t].kind = "open" /\ ~IsDir(th[t].cur)
               /\ pc'[t] = "exit"
               /\ Becomes(th[t], th'[t], th[t].depth, th[t].cur, th[t].kid, th[t].held, th[t].cur,
                          th[t].ino, th[t].got, th[t].over)
            \/ /\ pc'[t] = "exit"
               /\ Becomes(th[t], th'[t], th[t].depth, th[t].cur, th[t].kid, th[t].held, th[t].index,
                          th[t].ino, th[t].got, th[t].over)
<1> pc[t] = "at" BY DEF AtOpen
<1> th[t] \in Locals /\ 0 \in 0..NInodes /\ 0 \in Nat /\ TRUE \in BOOLEAN /\ <<>> \in Seq(Blocks)
  BY DEF TypeOK
<1>0. /\ th[t].kid \in 0..NInodes /\ th[t].cur \in 0..NInodes /\ th[t].depth \in Nat
      /\ th[t].kind \in ByPath \cup Writes \cup {"read", "close"}
  BY LocalsFields
<1> DEFINE m1 == [th[t] EXCEPT !.index = th[t].cur]
<1>1. ASSUME th[t].kind = "open" /\ ~IsDir(th[t].cur)
      PROVE Becomes(th[t], m1, th[t].depth, th[t].cur, th[t].kid, th[t].held, th[t].cur, th[t].ino,
                    th[t].got, th[t].over)
  <2>0. /\ th[t].cur # 0 => th[t].cur \in Inodes
        /\ ibits # Inodes => Min(Inodes \ ibits) \in Inodes
        /\ bbits # Blocks => Min(Blocks \ bbits) \in Blocks
    <3>1. ibits \in SUBSET Inodes /\ bbits \in SUBSET Blocks BY DEF TypeOK
    <3>2. th[t].cur # 0 => th[t].cur \in Inodes BY <1>0 DEF Inodes
    <3> QED BY <3>1, <3>2, FreeIn
  <2>1. th[t].cur \in Nat BY <1>0, <1>1, <2>0 DEF TypeOK, Child, Inodes, Blocks
  <2> QED BY <2>1, SetIndex
<1> DEFINE m2 == th[t]
<1>2. Becomes(th[t], m2, th[t].depth, th[t].cur, th[t].kid, th[t].held, th[t].index, th[t].ino,
              th[t].got, th[t].over)
  BY SetNone
<1>3. \/ th[t].kind = "open" /\ ~IsDir(th[t].cur) /\ Goto(t, "exit") /\ Set(t, m1)
      \/ Goto(t, "exit") /\ th' = th
  BY <1>0 DEF AtOpen
<1> HIDE DEF m1
<1> QED BY <1>0, <1>1, <1>2, <1>3, Going DEF Becomes, Labels

\* A call has found its last component: what the step does to its thread and to the
\* program counter.
LEMMA AtChildEffect ==
  ASSUME TypeOK, NEW t \in Threads, AtChild(t), th[t].cur # 0, Name(t) \in Names
  PROVE  /\ Steps(t) /\ pc[t] = "at"
         /\ \/ /\ Child(t) # 0 /\ Suits(t)
               /\ pc'[t] = "lock_kid"
               /\ Becomes(th[t], th'[t], th[t].depth, th[t].cur, Child(t), th[t].held, th[t].index,
                          th[t].ino, th[t].got, th[t].over)
            \/ /\ pc'[t] = "exit"
               /\ Becomes(th[t], th'[t], th[t].depth, th[t].cur, th[t].kid, th[t].held, th[t].index,
                          th[t].ino, th[t].got, th[t].over)
<1> pc[t] = "at" BY DEF AtChild
<1> th[t] \in Locals /\ 0 \in 0..NInodes /\ 0 \in Nat /\ TRUE \in BOOLEAN /\ <<>> \in Seq(Blocks)
  BY DEF TypeOK
<1>0. /\ th[t].kid \in 0..NInodes /\ th[t].cur \in 0..NInodes /\ th[t].depth \in Nat
      /\ th[t].kind \in ByPath \cup Writes \cup {"read", "close"}
  BY LocalsFields
<1> DEFINE m1 == [th[t] EXCEPT !.kid = Child(t)]
<1>1. ASSUME Child(t) # 0 /\ Suits(t)
      PROVE Becomes(th[t], m1, th[t].depth, th[t].cur, Child(t), th[t].held, th[t].index, th[t].ino,
                    th[t].got, th[t].over)
  <2>0. /\ th[t].cur # 0 => th[t].cur \in Inodes
        /\ ibits # Inodes => Min(Inodes \ ibits) \in Inodes
        /\ bbits # Blocks => Min(Blocks \ bbits) \in Blocks
    <3>1. ibits \in SUBSET Inodes /\ bbits \in SUBSET Blocks BY DEF TypeOK
    <3>2. th[t].cur # 0 => th[t].cur \in Inodes BY <1>0 DEF Inodes
    <3> QED BY <3>1, <3>2, FreeIn
  <2>1. Child(t) \in 0..NInodes BY <1>0, <1>1, <2>0 DEF TypeOK, Child, Inodes, Blocks
  <2> QED BY <2>1, SetKid
<1> DEFINE m2 == th[t]
<1>2. Becomes(th[t], m2, th[t].depth, th[t].cur, th[t].kid, th[t].held, th[t].index, th[t].ino,
              th[t].got, th[t].over)
  BY SetNone
<1>3. \/ Child(t) # 0 /\ Suits(t) /\ Goto(t, "lock_kid") /\ Set(t, m1)
      \/ Goto(t, "exit") /\ th' = th
  BY <1>0 DEF AtChild
<1> HIDE DEF m1
<1> QED BY <1>0, <1>1, <1>2, <1>3, Going DEF Becomes, Labels

\* A call finds no such name: what the step does to its thread and to the program
\* counter.
LEMMA AtNoneEffect ==
  ASSUME TypeOK, NEW t \in Threads, AtNone(t)
  PROVE  /\ Steps(t) /\ pc[t] = "at"
         /\ pc'[t] = (IF IsDir(th[t].cur) /\ th[t].kind \in Creates \cup {"mkdir"} /\ Countable(t) THEN "alloc_inode" ELSE "exit")
         /\ Becomes(th[t], th'[t], th[t].depth, th[t].cur, th[t].kid, th[t].held, th[t].index,
                    th[t].ino, th[t].got, th[t].over)
<1> pc[t] = "at" BY DEF AtNone
<1> th[t] \in Locals /\ 0 \in 0..NInodes /\ 0 \in Nat /\ TRUE \in BOOLEAN /\ <<>> \in Seq(Blocks)
  BY DEF TypeOK
<1>0. /\ th[t].kid \in 0..NInodes /\ th[t].cur \in 0..NInodes /\ th[t].depth \in Nat
      /\ th[t].kind \in ByPath \cup Writes \cup {"read", "close"}
  BY LocalsFields
<1> DEFINE m1 == th[t]
<1>1. Becomes(th[t], m1, th[t].depth, th[t].cur, th[t].kid, th[t].held, th[t].index, th[t].ino,
              th[t].got, th[t].over)
  BY SetNone
<1>2. Goto(t, IF IsDir(th[t].cur) /\ th[t].kind \in Creates \cup {"mkdir"} /\ Countable(t) THEN "alloc_inode" ELSE "exit") /\ th' = th
  BY <1>0 DEF AtNone
<1> QED BY <1>0, <1>1, <1>2, Going DEF Becomes, Labels

\* The inode below the directory is locked: what the step does to its thread and to
\* the program counter.
LEMMA LockKidEffect ==
  ASSUME TypeOK, NEW t \in Threads, LockKid(t)
  PROVE  /\ Steps(t) /\ pc[t] = "lock_kid"
         /\ pc'[t] = (IF th[t].kind = "create" \/ th[t].ino # NoInode THEN "register" ELSE IF th[t].kind \in Truncates THEN "truncate" ELSE "check")
         /\ Becomes(th[t], th'[t], th[t].depth, th[t].cur, th[t].kid, TRUE, th[t].index, th[t].ino,
                    th[t].got, th[t].over)
<1> pc[t] = "lock_kid" BY DEF LockKid
<1> th[t] \in Locals /\ 0 \in 0..NInodes /\ 0 \in Nat /\ TRUE \in BOOLEAN /\ <<>> \in Seq(Blocks)
  BY DEF TypeOK
<1>0. /\ th[t].kid \in 0..NInodes /\ th[t].cur \in 0..NInodes /\ th[t].depth \in Nat
      /\ th[t].kind \in ByPath \cup Writes \cup {"read", "close"}
  BY LocalsFields
<1> DEFINE m1 == [th[t] EXCEPT !.held = TRUE]
<1>1. Becomes(th[t], m1, th[t].depth, th[t].cur, th[t].kid, TRUE, th[t].index, th[t].ino, th[t].got,
              th[t].over)
  <2>1. TRUE \in BOOLEAN BY <1>0 DEF TypeOK, Root
  <2> QED BY <2>1, SetHeld
<1>2. Goto(t, IF th[t].kind = "create" \/ th[t].ino # NoInode THEN "register" ELSE IF th[t].kind \in Truncates THEN "truncate" ELSE "check") /\ Set(t, m1)
  <2>1. (CASE th[t].kind = "create" \/ th[t].ino # NoInode -> "register"
           [] th[t].kind \in Truncates /\ th[t].ino = NoInode -> "truncate"
           [] OTHER -> "check")
        = (IF th[t].kind = "create" \/ th[t].ino # NoInode THEN "register" ELSE IF th[t].kind \in Truncates THEN "truncate" ELSE "check")
    BY DEF Writes, Truncates
  <2> QED BY <2>1 DEF LockKid
<1> HIDE DEF m1
<1> QED BY <1>0, <1>1, <1>2, Going DEF Becomes, Labels

\* A file is counted open: what the step does to its thread and to the program
\* counter.
LEMMA RegisterEffect ==
  ASSUME TypeOK, NEW t \in Threads, Register(t)
  PROVE  /\ Steps(t) /\ pc[t] = "register"
         /\ pc'[t] = "exit"
         /\ Becomes(th[t], th'[t], th[t].depth, th[t].cur, th[t].kid, th[t].held, th[t].kid, th[t].ino,
                    th[t].got, th[t].over)
<1> pc[t] = "register" BY DEF Register
<1> th[t] \in Locals /\ 0 \in 0..NInodes /\ 0 \in Nat /\ TRUE \in BOOLEAN /\ <<>> \in Seq(Blocks)
  BY DEF TypeOK
<1>0. /\ th[t].kid \in 0..NInodes /\ th[t].cur \in 0..NInodes /\ th[t].depth \in Nat
      /\ th[t].kind \in ByPath \cup Writes \cup {"read", "close"}
  BY LocalsFields
<1> DEFINE m1 == [th[t] EXCEPT !.index = th[t].kid]
<1>1. Becomes(th[t], m1, th[t].depth, th[t].cur, th[t].kid, th[t].held, th[t].kid, th[t].ino,
              th[t].got, th[t].over)
  <2>1. th[t].kid \in Nat BY <1>0 DEF TypeOK, Root
  <2> QED BY <2>1, SetIndex
<1>2. Goto(t, "exit") /\ Set(t, m1)
  BY <1>0 DEF Register
<1> HIDE DEF m1
<1> QED BY <1>0, <1>1, <1>2, Going DEF Becomes, Labels

\* Alloc_inode: what the step does to its thread and to the program counter.
LEMMA AllocInodeEffect ==
  ASSUME TypeOK, NEW t \in Threads, AllocInode(t), th[t].cur # 0
  PROVE  /\ Steps(t) /\ pc[t] = "alloc_inode"
         /\ \/ /\ ibits # Inodes
               /\ pc'[t] = (IF th[t].kind = "mkdir" THEN "alloc_block" ELSE "dir_add")
               /\ Becomes(th[t], th'[t], th[t].depth, th[t].cur, Min(Inodes \ ibits), th[t].held,
                          th[t].index, inode[th[t].cur], th[t].got, th[t].over)
            \/ /\ pc'[t] = "exit"
               /\ Becomes(th[t], th'[t], th[t].depth, th[t].cur, th[t].kid, th[t].held, th[t].index,
                          th[t].ino, th[t].got, th[t].over)
<1> pc[t] = "alloc_inode" BY DEF AllocInode
<1> th[t] \in Locals /\ 0 \in 0..NInodes /\ 0 \in Nat /\ TRUE \in BOOLEAN /\ <<>> \in Seq(Blocks)
  BY DEF TypeOK
<1>0. /\ th[t].kid \in 0..NInodes /\ th[t].cur \in 0..NInodes /\ th[t].depth \in Nat
      /\ th[t].kind \in ByPath \cup Writes \cup {"read", "close"}
  BY LocalsFields
<1> DEFINE m1 == [th[t] EXCEPT !.kid = Min(Inodes \ ibits), !.ino = inode[th[t].cur]]
<1>1. ASSUME ibits # Inodes
      PROVE Becomes(th[t], m1, th[t].depth, th[t].cur, Min(Inodes \ ibits), th[t].held, th[t].index,
                    inode[th[t].cur], th[t].got, th[t].over)
  <2>0. /\ th[t].cur # 0 => th[t].cur \in Inodes
        /\ ibits # Inodes => Min(Inodes \ ibits) \in Inodes
        /\ bbits # Blocks => Min(Blocks \ bbits) \in Blocks
    <3>1. ibits \in SUBSET Inodes /\ bbits \in SUBSET Blocks BY DEF TypeOK
    <3>2. th[t].cur # 0 => th[t].cur \in Inodes BY <1>0 DEF Inodes
    <3> QED BY <3>1, <3>2, FreeIn
  <2>1. Min(Inodes \ ibits) \in 0..NInodes /\ inode[th[t].cur] \in InodeType
    BY <1>0, <1>1, <2>0 DEF TypeOK, Child, Inodes, Blocks
  <2> QED BY <2>1, SetKidIno
<1> DEFINE m2 == th[t]
<1>2. Becomes(th[t], m2, th[t].depth, th[t].cur, th[t].kid, th[t].held, th[t].index, th[t].ino,
              th[t].got, th[t].over)
  BY SetNone
<1>3. \/ ibits # Inodes /\ Goto(t, IF th[t].kind = "mkdir" THEN "alloc_block" ELSE "dir_add") /\ Set(t, m1)
      \/ Goto(t, "exit") /\ th' = th
  BY <1>0 DEF AllocInode
<1> HIDE DEF m1
<1> QED BY <1>0, <1>1, <1>2, <1>3, Going DEF Becomes, Labels

\* Mkdir takes a block for the new directory: what the step does to its thread and to
\* the program counter.
LEMMA AllocBlockEffect ==
  ASSUME TypeOK, NEW t \in Threads, AllocBlock(t)
  PROVE  /\ Steps(t) /\ pc[t] = "alloc_block"
         /\ \/ /\ bbits # Blocks
               /\ pc'[t] = "dir_add"
               /\ Becomes(th[t], th'[t], th[t].depth, th[t].cur, th[t].kid, th[t].held,
                          Min(Blocks \ bbits), th[t].ino, th[t].got, th[t].over)
            \/ /\ pc'[t] = "undo_inode"
               /\ Becomes(th[t], th'[t], th[t].depth, th[t].cur, th[t].kid, th[t].held, th[t].index,
                          th[t].ino, th[t].got, th[t].over)
<1> pc[t] = "alloc_block" BY DEF AllocBlock
<1> th[t] \in Locals /\ 0 \in 0..NInodes /\ 0 \in Nat /\ TRUE \in BOOLEAN /\ <<>> \in Seq(Blocks)
  BY DEF TypeOK
<1>0. /\ th[t].kid \in 0..NInodes /\ th[t].cur \in 0..NInodes /\ th[t].depth \in Nat
      /\ th[t].kind \in ByPath \cup Writes \cup {"read", "close"}
  BY LocalsFields
<1> DEFINE m1 == [th[t] EXCEPT !.index = Min(Blocks \ bbits)]
<1>1. ASSUME bbits # Blocks
      PROVE Becomes(th[t], m1, th[t].depth, th[t].cur, th[t].kid, th[t].held, Min(Blocks \ bbits),
                    th[t].ino, th[t].got, th[t].over)
  <2>0. /\ th[t].cur # 0 => th[t].cur \in Inodes
        /\ ibits # Inodes => Min(Inodes \ ibits) \in Inodes
        /\ bbits # Blocks => Min(Blocks \ bbits) \in Blocks
    <3>1. ibits \in SUBSET Inodes /\ bbits \in SUBSET Blocks BY DEF TypeOK
    <3>2. th[t].cur # 0 => th[t].cur \in Inodes BY <1>0 DEF Inodes
    <3> QED BY <3>1, <3>2, FreeIn
  <2>1. Min(Blocks \ bbits) \in Nat BY <1>0, <1>1, <2>0 DEF TypeOK, Child, Inodes, Blocks
  <2> QED BY <2>1, SetIndex
<1> DEFINE m2 == th[t]
<1>2. Becomes(th[t], m2, th[t].depth, th[t].cur, th[t].kid, th[t].held, th[t].index, th[t].ino,
              th[t].got, th[t].over)
  BY SetNone
<1>3. \/ bbits # Blocks /\ Goto(t, "dir_add") /\ Set(t, m1)
      \/ Goto(t, "undo_inode") /\ th' = th
  BY <1>0 DEF AllocBlock
<1> HIDE DEF m1
<1> QED BY <1>0, <1>1, <1>2, <1>3, Going DEF Becomes, Labels

\* Dir_add: what the step does to its thread and to the program counter.
LEMMA DirAddEffect ==
  ASSUME TypeOK, NEW t \in Threads, DirAdd(t)
  PROVE  /\ Steps(t) /\ pc[t] = "dir_add"
         /\ \/ /\ pc'[t] = "write_new"
               /\ Becomes(th[t], th'[t], th[t].depth, th[t].cur, th[t].kid, th[t].held, th[t].index,
                          th[t].ino, th[t].got, th[t].over)
            \/ /\ pc'[t] = "take"
               /\ Becomes(th[t], th'[t], th[t].depth, th[t].cur, th[t].kid, th[t].held, th[t].index,
                          th[t].ino, th[t].got, th[t].over)
<1> pc[t] = "dir_add" BY DEF DirAdd
<1> th[t] \in Locals /\ 0 \in 0..NInodes /\ 0 \in Nat /\ TRUE \in BOOLEAN /\ <<>> \in Seq(Blocks)
  BY DEF TypeOK
<1>0. /\ th[t].kid \in 0..NInodes /\ th[t].cur \in 0..NInodes /\ th[t].depth \in Nat
      /\ th[t].kind \in ByPath \cup Writes \cup {"read", "close"}
  BY LocalsFields
<1> DEFINE m1 == th[t]
<1>1. Becomes(th[t], m1, th[t].depth, th[t].cur, th[t].kid, th[t].held, th[t].index, th[t].ino,
              th[t].got, th[t].over)
  BY SetNone
<1> DEFINE m2 == th[t]
<1>2. Becomes(th[t], m2, th[t].depth, th[t].cur, th[t].kid, th[t].held, th[t].index, th[t].ino,
              th[t].got, th[t].over)
  BY SetNone
<1>3. \/ Goto(t, "write_new") /\ th' = th
      \/ Goto(t, "take") /\ th' = th
  BY <1>0 DEF DirAdd
<1> QED BY <1>0, <1>1, <1>2, <1>3, Going DEF Becomes, Labels

\* Mkdir hands its block back: what the step does to its thread and to the program
\* counter.
LEMMA UndoBlockEffect ==
  ASSUME TypeOK, NEW t \in Threads, UndoBlock(t)
  PROVE  /\ Steps(t) /\ pc[t] = "undo_block"
         /\ pc'[t] = "undo_inode"
         /\ Becomes(th[t], th'[t], th[t].depth, th[t].cur, th[t].kid, th[t].held, th[t].index,
                    th[t].ino, th[t].got, th[t].over)
<1> pc[t] = "undo_block" BY DEF UndoBlock
<1> th[t] \in Locals /\ 0 \in 0..NInodes /\ 0 \in Nat /\ TRUE \in BOOLEAN /\ <<>> \in Seq(Blocks)
  BY DEF TypeOK
<1>0. /\ th[t].kid \in 0..NInodes /\ th[t].cur \in 0..NInodes /\ th[t].depth \in Nat
      /\ th[t].kind \in ByPath \cup Writes \cup {"read", "close"}
  BY LocalsFields
<1> DEFINE m1 == th[t]
<1>1. Becomes(th[t], m1, th[t].depth, th[t].cur, th[t].kid, th[t].held, th[t].index, th[t].ino,
              th[t].got, th[t].over)
  BY SetNone
<1>2. Goto(t, "undo_inode") /\ th' = th
  BY <1>0 DEF UndoBlock
<1> QED BY <1>0, <1>1, <1>2, Going DEF Becomes, Labels

\* The inode that was taken is handed back: what the step does to its thread and to
\* the program counter.
LEMMA UndoInodeEffect ==
  ASSUME TypeOK, NEW t \in Threads, UndoInode(t)
  PROVE  /\ Steps(t) /\ pc[t] = "undo_inode"
         /\ pc'[t] = "exit"
         /\ Becomes(th[t], th'[t], th[t].depth, th[t].cur, 0, th[t].held, 0, th[t].ino, th[t].got,
                    th[t].over)
<1> pc[t] = "undo_inode" BY DEF UndoInode
<1> th[t] \in Locals /\ 0 \in 0..NInodes /\ 0 \in Nat /\ TRUE \in BOOLEAN /\ <<>> \in Seq(Blocks)
  BY DEF TypeOK
<1>0. /\ th[t].kid \in 0..NInodes /\ th[t].cur \in 0..NInodes /\ th[t].depth \in Nat
      /\ th[t].kind \in ByPath \cup Writes \cup {"read", "close"}
  BY LocalsFields
<1> DEFINE m1 == [th[t] EXCEPT !.kid = 0, !.index = 0]
<1>1. Becomes(th[t], m1, th[t].depth, th[t].cur, 0, th[t].held, 0, th[t].ino, th[t].got, th[t].over)
  <2>1. 0 \in 0..NInodes /\ 0 \in Nat BY <1>0 DEF TypeOK, Root
  <2> QED BY <2>1, SetKidIndex
<1>2. Goto(t, "exit") /\ Set(t, m1)
  BY <1>0 DEF UndoInode
<1> HIDE DEF m1
<1> QED BY <1>0, <1>1, <1>2, Going DEF Becomes, Labels

\* The new inode is written: what the step does to its thread and to the program
\* counter.
LEMMA WriteNewEffect ==
  ASSUME TypeOK, NEW t \in Threads, WriteNew(t)
  PROVE  /\ Steps(t) /\ pc[t] = "write_new"
         /\ pc'[t] = "write_dir"
         /\ Becomes(th[t], th'[t], th[t].depth, th[t].cur, th[t].kid, th[t].held, th[t].index,
                    th[t].ino, th[t].got, th[t].over)
<1> pc[t] = "write_new" BY DEF WriteNew
<1> th[t] \in Locals /\ 0 \in 0..NInodes /\ 0 \in Nat /\ TRUE \in BOOLEAN /\ <<>> \in Seq(Blocks)
  BY DEF TypeOK
<1>0. /\ th[t].kid \in 0..NInodes /\ th[t].cur \in 0..NInodes /\ th[t].depth \in Nat
      /\ th[t].kind \in ByPath \cup Writes \cup {"read", "close"}
  BY LocalsFields
<1> DEFINE m1 == th[t]
<1>1. Becomes(th[t], m1, th[t].depth, th[t].cur, th[t].kid, th[t].held, th[t].index, th[t].ino,
              th[t].got, th[t].over)
  BY SetNone
<1>2. Goto(t, "write_dir") /\ th' = th
  BY <1>0 DEF WriteNew
<1> QED BY <1>0, <1>1, <1>2, Going DEF Becomes, Labels

\* The directory's inode is written: what the step does to its thread and to the
\* program counter.
LEMMA WriteDirEffect ==
  ASSUME TypeOK, NEW t \in Threads, WriteDir(t)
  PROVE  /\ Steps(t) /\ pc[t] = "write_dir"
         /\ \/ /\ th[t].kind \in Creates
               /\ pc'[t] = "lock_kid"
               /\ Becomes(th[t], th'[t], th[t].depth, th[t].cur, th[t].kid, th[t].held, th[t].index,
                          th[t].ino, th[t].got, th[t].over)
            \/ /\ th[t].kind \notin Creates /\ th[t].held
               /\ pc'[t] = "exit"
               /\ Becomes(th[t], th'[t], th[t].depth, th[t].cur, th[t].kid, th[t].held, th[t].index,
                          th[t].ino, th[t].got, th[t].over)
            \/ /\ th[t].kind \notin Creates /\ ~th[t].held
               /\ pc'[t] = "exit"
               /\ Becomes(th[t], th'[t], th[t].depth, th[t].cur, 0, th[t].held, 0, th[t].ino,
                          th[t].got, th[t].over)
<1> pc[t] = "write_dir" BY DEF WriteDir
<1> th[t] \in Locals /\ 0 \in 0..NInodes /\ 0 \in Nat /\ TRUE \in BOOLEAN /\ <<>> \in Seq(Blocks)
  BY DEF TypeOK
<1>0. /\ th[t].kid \in 0..NInodes /\ th[t].cur \in 0..NInodes /\ th[t].depth \in Nat
      /\ th[t].kind \in ByPath \cup Writes \cup {"read", "close"}
  BY LocalsFields
<1> DEFINE m1 == th[t]
<1>1. Becomes(th[t], m1, th[t].depth, th[t].cur, th[t].kid, th[t].held, th[t].index, th[t].ino,
              th[t].got, th[t].over)
  BY SetNone
<1> DEFINE m2 == th[t]
<1>2. Becomes(th[t], m2, th[t].depth, th[t].cur, th[t].kid, th[t].held, th[t].index, th[t].ino,
              th[t].got, th[t].over)
  BY SetNone
<1> DEFINE m3 == [th[t] EXCEPT !.kid = 0, !.index = 0]
<1>3. ASSUME th[t].kind \notin Creates /\ ~th[t].held
      PROVE Becomes(th[t], m3, th[t].depth, th[t].cur, 0, th[t].held, 0, th[t].ino, th[t].got,
                    th[t].over)
  <2>0. /\ th[t].cur # 0 => th[t].cur \in Inodes
        /\ ibits # Inodes => Min(Inodes \ ibits) \in Inodes
        /\ bbits # Blocks => Min(Blocks \ bbits) \in Blocks
    <3>1. ibits \in SUBSET Inodes /\ bbits \in SUBSET Blocks BY DEF TypeOK
    <3>2. th[t].cur # 0 => th[t].cur \in Inodes BY <1>0 DEF Inodes
    <3> QED BY <3>1, <3>2, FreeIn
  <2>1. 0 \in 0..NInodes /\ 0 \in Nat BY <1>0, <1>3, <2>0 DEF TypeOK, Child, Inodes, Blocks
  <2> QED BY <2>1, SetKidIndex
<1>4. \/ th[t].kind \in Creates /\ Goto(t, "lock_kid") /\ th' = th
      \/ th[t].kind \notin Creates /\ th[t].held /\ Goto(t, "exit") /\ Set(t, m2)
      \/ th[t].kind \notin Creates /\ ~th[t].held /\ Goto(t, "exit") /\ Set(t, m3)
  BY <1>0 DEF WriteDir
<1> HIDE DEF m3
<1> QED BY <1>0, <1>1, <1>2, <1>3, <1>4, Going DEF Becomes, Labels

\* Unlink and rmdir check what they would remove: what the step does to its thread and
\* to the program counter.
LEMMA CheckEffect ==
  ASSUME TypeOK, NEW t \in Threads, Check(t), th[t].cur # 0
  PROVE  /\ Steps(t) /\ pc[t] = "check"
         /\ \/ /\ Busy(t)
               /\ pc'[t] = "exit"
               /\ Becomes(th[t], th'[t], th[t].depth, th[t].cur, th[t].kid, th[t].held, th[t].index,
                          th[t].ino, th[t].got, th[t].over)
            \/ /\ ~Busy(t)
               /\ pc'[t] = (IF th[t].kind = "rmdir" /\ Entries(th[t].kid) # 0 THEN "exit" ELSE "dir_remove")
               /\ Becomes(th[t], th'[t], th[t].depth, th[t].cur, th[t].kid, th[t].held, th[t].index,
                          inode[th[t].cur], th[t].got, th[t].over)
<1> pc[t] = "check" BY DEF Check
<1> th[t] \in Locals /\ 0 \in 0..NInodes /\ 0 \in Nat /\ TRUE \in BOOLEAN /\ <<>> \in Seq(Blocks)
  BY DEF TypeOK
<1>0. /\ th[t].kid \in 0..NInodes /\ th[t].cur \in 0..NInodes /\ th[t].depth \in Nat
      /\ th[t].kind \in ByPath \cup Writes \cup {"read", "close"}
  BY LocalsFields
<1> DEFINE m1 == th[t]
<1>1. Becomes(th[t], m1, th[t].depth, th[t].cur, th[t].kid, th[t].held, th[t].index, th[t].ino,
              th[t].got, th[t].over)
  BY SetNone
<1> DEFINE m2 == [th[t] EXCEPT !.ino = inode[th[t].cur]]
<1>2. ASSUME ~Busy(t)
      PROVE Becomes(th[t], m2, th[t].depth, th[t].cur, th[t].kid, th[t].held, th[t].index,
                    inode[th[t].cur], th[t].got, th[t].over)
  <2>0. /\ th[t].cur # 0 => th[t].cur \in Inodes
        /\ ibits # Inodes => Min(Inodes \ ibits) \in Inodes
        /\ bbits # Blocks => Min(Blocks \ bbits) \in Blocks
    <3>1. ibits \in SUBSET Inodes /\ bbits \in SUBSET Blocks BY DEF TypeOK
    <3>2. th[t].cur # 0 => th[t].cur \in Inodes BY <1>0 DEF Inodes
    <3> QED BY <3>1, <3>2, FreeIn
  <2>1. inode[th[t].cur] \in InodeType BY <1>0, <1>2, <2>0 DEF TypeOK, Child, Inodes, Blocks
  <2> QED BY <2>1, SetIno
<1>3. \/ Busy(t) /\ Goto(t, "exit") /\ th' = th
      \/ ~Busy(t) /\ Goto(t, IF th[t].kind = "rmdir" /\ Entries(th[t].kid) # 0 THEN "exit" ELSE "dir_remove") /\ Set(t, m2)
  BY <1>0 DEF Check
<1> HIDE DEF m2
<1> QED BY <1>0, <1>1, <1>2, <1>3, Going DEF Becomes, Labels

\* Dir_remove: what the step does to its thread and to the program counter.
LEMMA DirRemoveEffect ==
  ASSUME TypeOK, NEW t \in Threads, DirRemove(t)
  PROVE  /\ Steps(t) /\ pc[t] = "dir_remove"
         /\ pc'[t] = "free_blocks"
         /\ Becomes(th[t], th'[t], th[t].depth, th[t].cur, th[t].kid, th[t].held, th[t].index,
                    th[t].ino, th[t].got, th[t].over)
<1> pc[t] = "dir_remove" BY DEF DirRemove
<1> th[t] \in Locals /\ 0 \in 0..NInodes /\ 0 \in Nat /\ TRUE \in BOOLEAN /\ <<>> \in Seq(Blocks)
  BY DEF TypeOK
<1>0. /\ th[t].kid \in 0..NInodes /\ th[t].cur \in 0..NInodes /\ th[t].depth \in Nat
      /\ th[t].kind \in ByPath \cup Writes \cup {"read", "close"}
  BY LocalsFields
<1> DEFINE m1 == th[t]
<1>1. Becomes(th[t], m1, th[t].depth, th[t].cur, th[t].kid, th[t].held, th[t].index, th[t].ino,
              th[t].got, th[t].over)
  BY SetNone
<1>2. Goto(t, "free_blocks") /\ th' = th
  BY <1>0 DEF DirRemove
<1> QED BY <1>0, <1>1, <1>2, Going DEF Becomes, Labels

\* O_TRUNC looks at the file: what the step does to its thread and to the program
\* counter.
LEMMA TruncateEffect ==
  ASSUME TypeOK, NEW t \in Threads, Truncate(t)
  PROVE  /\ Steps(t) /\ pc[t] = "truncate"
         /\ pc'[t] = (IF inode[th[t].kid] = NewFile THEN "register" ELSE "free_blocks")
         /\ Becomes(th[t], th'[t], th[t].depth, th[t].cur, th[t].kid, th[t].held, th[t].index,
                    th[t].ino, th[t].got, th[t].over)
<1> pc[t] = "truncate" BY DEF Truncate
<1> th[t] \in Locals /\ 0 \in 0..NInodes /\ 0 \in Nat /\ TRUE \in BOOLEAN /\ <<>> \in Seq(Blocks)
  BY DEF TypeOK
<1>0. /\ th[t].kid \in 0..NInodes /\ th[t].cur \in 0..NInodes /\ th[t].depth \in Nat
      /\ th[t].kind \in ByPath \cup Writes \cup {"read", "close"}
  BY LocalsFields
<1> DEFINE m1 == th[t]
<1>1. Becomes(th[t], m1, th[t].depth, th[t].cur, th[t].kid, th[t].held, th[t].index, th[t].ino,
              th[t].got, th[t].over)
  BY SetNone
<1>2. Goto(t, IF inode[th[t].kid] = NewFile THEN "register" ELSE "free_blocks") /\ th' = th
  BY <1>0 DEF Truncate
<1> QED BY <1>0, <1>1, <1>2, Going DEF Becomes, Labels

\* Free_all_blocks: what the step does to its thread and to the program counter.
LEMMA FreeBlocksEffect ==
  ASSUME TypeOK, NEW t \in Threads, FreeBlocks(t)
  PROVE  /\ Steps(t) /\ pc[t] = "free_blocks"
         /\ \/ /\ Owned(inode[th[t].kid]) \subseteq bbits
               /\ pc'[t] = (IF th[t].kind \in Truncates THEN "write_file" ELSE "clear_inode")
               /\ Becomes(th[t], th'[t], th[t].depth, th[t].cur, th[t].kid, th[t].held, th[t].index,
                          th[t].ino, th[t].got, th[t].over)
            \/ /\ ~(Owned(inode[th[t].kid]) \subseteq bbits)
               /\ pc'[t] = "exit"
               /\ Becomes(th[t], th'[t], th[t].depth, th[t].cur, th[t].kid, th[t].held, th[t].index,
                          th[t].ino, th[t].got, th[t].over)
<1> pc[t] = "free_blocks" BY DEF FreeBlocks
<1> th[t] \in Locals /\ 0 \in 0..NInodes /\ 0 \in Nat /\ TRUE \in BOOLEAN /\ <<>> \in Seq(Blocks)
  BY DEF TypeOK
<1>0. /\ th[t].kid \in 0..NInodes /\ th[t].cur \in 0..NInodes /\ th[t].depth \in Nat
      /\ th[t].kind \in ByPath \cup Writes \cup {"read", "close"}
  BY LocalsFields
<1> DEFINE m1 == th[t]
<1>1. Becomes(th[t], m1, th[t].depth, th[t].cur, th[t].kid, th[t].held, th[t].index, th[t].ino,
              th[t].got, th[t].over)
  BY SetNone
<1> DEFINE m2 == th[t]
<1>2. Becomes(th[t], m2, th[t].depth, th[t].cur, th[t].kid, th[t].held, th[t].index, th[t].ino,
              th[t].got, th[t].over)
  BY SetNone
<1>3. \/ Owned(inode[th[t].kid]) \subseteq bbits /\ Goto(t, IF th[t].kind \in Truncates THEN "write_file" ELSE "clear_inode") /\ th' = th
      \/ ~(Owned(inode[th[t].kid]) \subseteq bbits) /\ Goto(t, "exit") /\ th' = th
  BY <1>0 DEF FreeBlocks
<1> QED BY <1>0, <1>1, <1>2, <1>3, Going DEF Becomes, Labels

\* The emptied inode is written: what the step does to its thread and to the program
\* counter.
LEMMA WriteFileEffect ==
  ASSUME TypeOK, NEW t \in Threads, WriteFile(t)
  PROVE  /\ Steps(t) /\ pc[t] = "write_file"
         /\ pc'[t] = "register"
         /\ Becomes(th[t], th'[t], th[t].depth, th[t].cur, th[t].kid, th[t].held, th[t].index,
                    th[t].ino, th[t].got, th[t].over)
<1> pc[t] = "write_file" BY DEF WriteFile
<1> th[t] \in Locals /\ 0 \in 0..NInodes /\ 0 \in Nat /\ TRUE \in BOOLEAN /\ <<>> \in Seq(Blocks)
  BY DEF TypeOK
<1>0. /\ th[t].kid \in 0..NInodes /\ th[t].cur \in 0..NInodes /\ th[t].depth \in Nat
      /\ th[t].kind \in ByPath \cup Writes \cup {"read", "close"}
  BY LocalsFields
<1> DEFINE m1 == th[t]
<1>1. Becomes(th[t], m1, th[t].depth, th[t].cur, th[t].kid, th[t].held, th[t].index, th[t].ino,
              th[t].got, th[t].over)
  BY SetNone
<1>2. Goto(t, "register") /\ th' = th
  BY <1>0 DEF WriteFile
<1> QED BY <1>0, <1>1, <1>2, Going DEF Becomes, Labels

\* The removed inode is cleared: what the step does to its thread and to the program
\* counter.
LEMMA ClearInodeEffect ==
  ASSUME TypeOK, NEW t \in Threads, ClearInode(t)
  PROVE  /\ Steps(t) /\ pc[t] = "clear_inode"
         /\ pc'[t] = "free_inode"
         /\ Becomes(th[t], th'[t], th[t].depth, th[t].cur, th[t].kid, th[t].held, th[t].index,
                    th[t].ino, th[t].got, th[t].over)
<1> pc[t] = "clear_inode" BY DEF ClearInode
<1> th[t] \in Locals /\ 0 \in 0..NInodes /\ 0 \in Nat /\ TRUE \in BOOLEAN /\ <<>> \in Seq(Blocks)
  BY DEF TypeOK
<1>0. /\ th[t].kid \in 0..NInodes /\ th[t].cur \in 0..NInodes /\ th[t].depth \in Nat
      /\ th[t].kind \in ByPath \cup Writes \cup {"read", "close"}
  BY LocalsFields
<1> DEFINE m1 == th[t]
<1>1. Becomes(th[t], m1, th[t].depth, th[t].cur, th[t].kid, th[t].held, th[t].index, th[t].ino,
              th[t].got, th[t].over)
  BY SetNone
<1>2. Goto(t, "free_inode") /\ th' = th
  BY <1>0 DEF ClearInode
<1> QED BY <1>0, <1>1, <1>2, Going DEF Becomes, Labels

\* Free_inode: what the step does to its thread and to the program counter.
LEMMA FreeInodeEffect ==
  ASSUME TypeOK, NEW t \in Threads, FreeInode(t)
  PROVE  /\ Steps(t) /\ pc[t] = "free_inode"
         /\ pc'[t] = "write_dir"
         /\ Becomes(th[t], th'[t], th[t].depth, th[t].cur, th[t].kid, th[t].held, th[t].index,
                    th[t].ino, th[t].got, th[t].over)
<1> pc[t] = "free_inode" BY DEF FreeInode
<1> th[t] \in Locals /\ 0 \in 0..NInodes /\ 0 \in Nat /\ TRUE \in BOOLEAN /\ <<>> \in Seq(Blocks)
  BY DEF TypeOK
<1>0. /\ th[t].kid \in 0..NInodes /\ th[t].cur \in 0..NInodes /\ th[t].depth \in Nat
      /\ th[t].kind \in ByPath \cup Writes \cup {"read", "close"}
  BY LocalsFields
<1> DEFINE m1 == th[t]
<1>1. Becomes(th[t], m1, th[t].depth, th[t].cur, th[t].kid, th[t].held, th[t].index, th[t].ino,
              th[t].got, th[t].over)
  BY SetNone
<1>2. Goto(t, "write_dir") /\ th' = th
  BY <1>0 DEF FreeInode
<1> QED BY <1>0, <1>1, <1>2, Going DEF Becomes, Labels

\* Alloc_all gives back what it had taken: what the step does to its thread and to the
\* program counter.
LEMMA GiveBackEffect ==
  ASSUME TypeOK, NEW t \in Threads, GiveBack(t)
  PROVE  /\ Steps(t) /\ pc[t] = "give_back"
         /\ pc'[t] = (IF th[t].kind \in Writes THEN "store" ELSE IF th[t].kind = "mkdir" THEN "undo_block" ELSE "undo_inode")
         /\ Becomes(th[t], th'[t], th[t].depth, th[t].cur, th[t].kid, th[t].held, th[t].index,
                    th[t].ino, <<>>, TRUE)
<1> pc[t] = "give_back" BY DEF GiveBack
<1> th[t] \in Locals /\ 0 \in 0..NInodes /\ 0 \in Nat /\ TRUE \in BOOLEAN /\ <<>> \in Seq(Blocks)
  BY DEF TypeOK
<1>0. /\ th[t].kid \in 0..NInodes /\ th[t].cur \in 0..NInodes /\ th[t].depth \in Nat
      /\ th[t].kind \in ByPath \cup Writes \cup {"read", "close"}
  BY LocalsFields
<1> DEFINE m1 == [th[t] EXCEPT !.got = <<>>, !.over = TRUE]
<1>1. Becomes(th[t], m1, th[t].depth, th[t].cur, th[t].kid, th[t].held, th[t].index, th[t].ino, <<>>,
              TRUE)
  <2>1. <<>> \in Seq(Blocks) /\ TRUE \in BOOLEAN BY <1>0 DEF TypeOK, Root
  <2> QED BY <2>1, SetGotOver
<1>2. Goto(t, IF th[t].kind \in Writes THEN "store" ELSE IF th[t].kind = "mkdir" THEN "undo_block" ELSE "undo_inode") /\ Set(t, m1)
  <2>1. (CASE th[t].kind \in Writes -> "store" [] th[t].kind = "mkdir" -> "undo_block"
           [] OTHER -> "undo_inode")
        = (IF th[t].kind \in Writes THEN "store" ELSE IF th[t].kind = "mkdir" THEN "undo_block" ELSE "undo_inode")
    BY DEF Writes, Truncates
  <2> QED BY <2>1 DEF GiveBack
<1> HIDE DEF m1
<1> QED BY <1>0, <1>1, <1>2, Going DEF Becomes, Labels

\* Write_inode after a chunk: what the step does to its thread and to the program
\* counter.
LEMMA StoreEffect ==
  ASSUME TypeOK, NEW t \in Threads, Store(t)
  PROVE  /\ Steps(t) /\ pc[t] = "store"
         /\ pc'[t] = "unlock_file"
         /\ Becomes(th[t], th'[t], th[t].depth, th[t].cur, th[t].kid, th[t].held, th[t].index,
                    th[t].ino, th[t].got, th[t].over)
<1> pc[t] = "store" BY DEF Store
<1> th[t] \in Locals /\ 0 \in 0..NInodes /\ 0 \in Nat /\ TRUE \in BOOLEAN /\ <<>> \in Seq(Blocks)
  BY DEF TypeOK
<1>0. /\ th[t].kid \in 0..NInodes /\ th[t].cur \in 0..NInodes /\ th[t].depth \in Nat
      /\ th[t].kind \in ByPath \cup Writes \cup {"read", "close"}
  BY LocalsFields
<1> DEFINE m1 == th[t]
<1>1. Becomes(th[t], m1, th[t].depth, th[t].cur, th[t].kid, th[t].held, th[t].index, th[t].ino,
              th[t].got, th[t].over)
  BY SetNone
<1>2. Goto(t, "unlock_file") /\ th' = th
  BY <1>0 DEF Store
<1> QED BY <1>0, <1>1, <1>2, Going DEF Becomes, Labels

\* A call begins with fresh locals.
LEMMA CallPathEffect ==
  ASSUME TypeOK, NEW t \in Threads, CallPath(t)
  PROVE  /\ Steps(t) /\ pc[t] = "idle" /\ pc'[t] = (IF th'[t].kind \in InOperation THEN "begin" ELSE "root")
         /\ th'[t].kind \in ByPath /\ th'[t].path \in Paths
         /\ th'[t].depth = 0 /\ th'[t].cur = 0 /\ th'[t].kid = 0 /\ ~th'[t].held /\ th'[t].index = 0
         /\ th'[t].ino = NoInode /\ th'[t].got = <<>>
         /\ \/ th'[t].kind \notin Opens /\ in_use' = in_use
            \/ /\ th'[t].kind \in Opens /\ th'[t].fd \in Fds \ in_use
               /\ in_use' = in_use \cup {th'[t].fd}
<1> pc[t] = "idle" BY DEF CallPath
<1>1. PICK kind \in Kinds \cap ByPath, path \in Paths :
        \/ /\ kind \notin Opens
           /\ Set(t, [Idle EXCEPT !.kind = kind, !.path = path])
           /\ Goto(t, IF kind \in InOperation THEN "begin" ELSE "root")
           /\ UNCHANGED in_use
        \/ /\ kind \in Opens /\ in_use # Fds
           /\ Set(t, [Idle EXCEPT !.kind = kind, !.path = path, !.fd = Min(Fds \ in_use)])
           /\ Goto(t, IF kind \in InOperation THEN "begin" ELSE "root")
           /\ in_use' = in_use \cup {Min(Fds \ in_use)}
  BY DEF CallPath
<1> path \in Seq(Names) BY PathsAssumption
<1>2. CASE kind \notin Opens
  <2> DEFINE m == [Idle EXCEPT !.kind = kind, !.path = path]
  <2>1. /\ m \in Locals /\ m.kind = kind /\ m.path = path /\ m.depth = 0 /\ m.cur = 0 /\ m.kid = 0
        /\ ~m.held /\ m.index = 0 /\ m.ino = NoInode /\ m.got = <<>>
    BY IdleType, NoInodeType DEF Locals
  <2>2. Set(t, m) /\ Goto(t, IF kind \in InOperation THEN "begin" ELSE "root") /\ in_use' = in_use
    BY <1>1, <1>2
  <2> HIDE DEF m
  <2> QED BY <2>1, <2>2, <1>2, Going DEF Labels
<1>3. CASE kind \in Opens
  <2> DEFINE f == Min(Fds \ in_use)
             m == [Idle EXCEPT !.kind = kind, !.path = path, !.fd = f]
  <2>0. in_use # Fds /\ in_use \in SUBSET Fds BY <1>1, <1>3 DEF TypeOK
  <2>1. f \in Fds \ in_use BY <2>0, FreeIn
  <2>2. Set(t, m) /\ Goto(t, IF kind \in InOperation THEN "begin" ELSE "root") /\ in_use' = in_use \cup {f}
    BY <1>1, <1>3
  <2> HIDE DEF f
  <2>3. f \in 0..NFiles BY <2>1 DEF Fds
  <2>4. /\ m \in Locals /\ m.kind = kind /\ m.path = path /\ m.depth = 0 /\ m.cur = 0 /\ m.kid = 0
        /\ ~m.held /\ m.index = 0 /\ m.ino = NoInode /\ m.got = <<>> /\ m.fd = f
    BY <2>3, IdleType, NoInodeType DEF Locals
  <2> HIDE DEF m
  <2> QED BY <2>1, <2>2, <2>4, <1>3, Going DEF Labels
<1> QED BY <1>2, <1>3

\* A call on a descriptor begins: what the step does to its thread and to the program
\* counter.
LEMMA CallFdEffect ==
  ASSUME TypeOK, NEW t \in Threads, CallFd(t)
  PROVE  /\ Steps(t) /\ pc[t] = "idle" /\ th'[t].fd \in Fds /\ th'[t].depth = 0 /\ th'[t].cur = 0 /\ th'[t].kid = 0 /\ ~th'[t].held
         /\ th'[t].ino = NoInode /\ th'[t].got = <<>>
         /\ op[th'[t].fd] = NoThread /\ files[th'[t].fd] # 0 /\ op' = [op EXCEPT ![th'[t].fd] = t]
         /\ \/ th'[t].kind \in Writes /\ pc'[t] = "begin" /\ entry' = entry
            \/ th'[t].kind = "read" /\ pc'[t] = "lock_file" /\ entry' = entry
            \/ /\ th'[t].kind = "close" /\ pc'[t] = "close"
               /\ entry' = [entry EXCEPT ![files[th'[t].fd]].open_count = @ - 1]
<1> pc[t] = "idle" BY DEF CallFd
<1>1. PICK fd \in Fds :
          /\ op[fd] = NoThread /\ files[fd] # 0
          /\ op' = [op EXCEPT ![fd] = t]
          /\ \/ \E kind \in Kinds \cap Writes, i \in 0..(MaxIndex + 1) :
                   /\ kind = "append" => i = 0
                   /\ Set(t, [Idle EXCEPT !.kind = kind, !.fd = fd, !.index = i])
                   /\ Goto(t, "begin")
                   /\ UNCHANGED entry
             \/ /\ "read" \in Kinds
                /\ Set(t, [Idle EXCEPT !.kind = "read", !.fd = fd])
                /\ Goto(t, "lock_file")
                /\ UNCHANGED entry
             \/ /\ "close" \in Kinds
                /\ Set(t, [Idle EXCEPT !.kind = "close", !.fd = fd])
                /\ entry' = [entry EXCEPT ![files[fd]].open_count = @ - 1]
                /\ Goto(t, "close")
  BY DEF CallFd
<1>0. fd \in 0..NFiles BY DEF Fds
<1>2. ASSUME NEW kind \in Writes \cup {"read", "close"}, NEW i \in Nat
      PROVE  LET m == [Idle EXCEPT !.kind = kind, !.fd = fd, !.index = i] IN
             /\ m \in Locals /\ m.kind = kind /\ m.fd = fd /\ m.depth = 0 /\ m.cur = 0 /\ m.kid = 0
             /\ ~m.held /\ m.ino = NoInode /\ m.got = <<>>
  BY <1>0, IdleType, NoInodeType DEF Locals
<1>3. ASSUME NEW kind \in {"read", "close"}
      PROVE  LET m == [Idle EXCEPT !.kind = kind, !.fd = fd] IN
             /\ m \in Locals /\ m.kind = kind /\ m.fd = fd /\ m.depth = 0 /\ m.cur = 0 /\ m.kid = 0
             /\ ~m.held /\ m.ino = NoInode /\ m.got = <<>>
  BY <1>0, IdleType, NoInodeType DEF Locals
<1>4. CASE \E kind \in Kinds \cap Writes, i \in 0..(MaxIndex + 1) :
                   /\ Set(t, [Idle EXCEPT !.kind = kind, !.fd = fd, !.index = i])
                   /\ Goto(t, "begin")
                   /\ UNCHANGED entry
  <2>1. PICK kind \in Writes, i \in Nat : /\ Set(t, [Idle EXCEPT !.kind = kind, !.fd = fd, !.index = i])
                                          /\ Goto(t, "begin") /\ UNCHANGED entry
    <3>1. 0..(MaxIndex + 1) \subseteq Nat BY MaxIndex \in Nat
    <3> QED BY <1>4, <3>1
  <2> DEFINE m == [Idle EXCEPT !.kind = kind, !.fd = fd, !.index = i]
  <2>2. /\ m \in Locals /\ m.kind = kind /\ m.fd = fd /\ m.depth = 0 /\ m.cur = 0 /\ m.kid = 0
        /\ ~m.held /\ m.ino = NoInode /\ m.got = <<>> BY <1>2
  <2>3. Set(t, m) BY <2>1
  <2> HIDE DEF m
  <2> QED BY <1>1, <2>1, <2>2, <2>3, Going DEF Labels
<1>5. ASSUME NEW kind \in {"read", "close"}, NEW label \in Labels, Set(t, [Idle EXCEPT !.kind = kind, !.fd = fd]), Goto(t, label)
      PROVE  /\ Steps(t) /\ th'[t].fd = fd /\ th'[t].depth = 0 /\ th'[t].cur = 0 /\ th'[t].kid = 0 /\ ~th'[t].held
             /\ th'[t].ino = NoInode /\ th'[t].got = <<>> /\ th'[t].kind = kind /\ pc'[t] = label
  <2> DEFINE m == [Idle EXCEPT !.kind = kind, !.fd = fd]
  <2>2. /\ m \in Locals /\ m.kind = kind /\ m.fd = fd /\ m.depth = 0 /\ m.cur = 0 /\ m.kid = 0
        /\ ~m.held /\ m.ino = NoInode /\ m.got = <<>> BY <1>3
  <2>3. Set(t, m) BY <1>5
  <2> HIDE DEF m
  <2> QED BY <1>5, <2>2, <2>3, Going
<1> QED BY <1>1, <1>4, <1>5 DEF Labels

\* Vfs_fsync waits for a commit: what the step does to its thread and to the program
\* counter.
LEMMA FsyncEffect ==
  ASSUME TypeOK, NEW t \in Threads, Fsync(t)
  PROVE  /\ Steps(t) /\ pc[t] = "idle" /\ pc'[t] = "sync" /\ th' = th
  BY Going DEF Fsync, Labels

\* The next block of a file, of one of the two sorts of calls that need one.
LEMMA WithType ==
  ASSUME NEW ino \in InodeType, NEW i \in Indexes, NEW got \in Seq(Blocks), got # <<>>
  PROVE  /\ With(ino, i, got) \in InodeType
         /\ With(ino, i, got).mode = ino.mode /\ With(ino, i, got).links = ino.links
         /\ With(ino, i, got).ptr = [ino.ptr EXCEPT ![i] = got[Len(got)]]
         /\ With(ino, i, got).ind = (IF Len(got) = 2 THEN got[1] ELSE ino.ind)
         /\ With(ino, i, got).size = (IF i + 1 > ino.size THEN i + 1 ELSE ino.size)
<1>1. Len(got) \in Nat /\ Len(got) > 0 /\ got[1] \in Blocks /\ got[Len(got)] \in Blocks OBVIOUS
<1>2. Len(got) \in 1..Len(got) BY <1>1
<1> DEFINE b == got[Len(got)]
           d == IF Len(got) = 2 THEN got[1] ELSE ino.ind
           z == IF i + 1 > ino.size THEN i + 1 ELSE ino.size
           p == [ino.ptr EXCEPT ![i] = b]
<1>3. ino.ptr \in [Indexes -> 0..NBlocks] /\ ino.ind \in 0..NBlocks /\ ino.size \in Nat /\ i \in Nat
  BY DEF InodeType, Indexes
<1>4. p \in [Indexes -> 0..NBlocks] /\ d \in 0..NBlocks /\ z \in Nat
  <2>0. Blocks \subseteq 0..NBlocks BY DEF Blocks
  <2>1. b \in 0..NBlocks /\ d \in 0..NBlocks BY <1>1, <1>3, <2>0
  <2>2. z \in Nat BY <1>3
  <2> HIDE DEF b, d, z
  <2> QED BY <1>3, <2>1, <2>2
<1>5. With(ino, i, got) = [[[ino EXCEPT !.ptr = p] EXCEPT !.ind = d] EXCEPT !.size = z]
  BY DEF With, InodeType
<1> HIDE DEF p, d, z
<1>6. /\ With(ino, i, got) \in InodeType
      /\ With(ino, i, got).mode = ino.mode /\ With(ino, i, got).links = ino.links
      /\ With(ino, i, got).ptr = p /\ With(ino, i, got).ind = d /\ With(ino, i, got).size = z
  BY <1>4, <1>5 DEF InodeType
<1> QED BY <1>6 DEF p, d, z

\* The file block a call is after is one the map has, when it is not too large.
LEMMA IndexType ==
  ASSUME TypeOK, NEW t \in Threads
  PROVE  Index(t) \in Nat /\ (Index(t) <= MaxIndex => Index(t) \in Indexes)
<1>1. th[t].index \in Nat /\ th[t].ino.size \in Nat BY LocalsFields DEF TypeOK, InodeType
<1> QED BY <1>1, MaxIndex \in Nat DEF Index, Indexes

\* The locals of a call that goes to its next block.
Bumped(t, got, ino) ==
  Becomes(th[t], th'[t], th[t].depth, th[t].cur, th[t].kid, th[t].held,
          IF th[t].kind \in Writes THEN th[t].index + 1 ELSE th[t].index, ino, got, th[t].over)

\* One more block.
LEMMA AppendIn ==
  ASSUME NEW S, NEW s \in Seq(S), NEW e \in S
  PROVE  Append(s, e) \in Seq(S) /\ Append(s, e) # <<>> /\ Len(Append(s, e)) = Len(s) + 1
<1>1. Append(s, e) \in Seq(S) /\ Len(Append(s, e)) = Len(s) + 1 /\ Len(s) \in Nat OBVIOUS
<1> QED BY <1>1, Len(<<>>) = 0

\* Where a call goes once the blocks it needed are in place.
LEMMA OnwardLabels ==
  ASSUME NEW t \in Threads, NEW label \in Onward(t)
  PROVE  /\ label \in Labels
         /\ th[t].kind \in Writes => label \in {"take", "store"}
         /\ th[t].kind \notin Writes => label = "write_new"
         /\ th[t].kind \in Writes /\ label = "take" => th[t].index < MaxIndex
  BY DEF Onward, Labels

\* Alloc_all takes one more block: what the step does to its thread and to the program
\* counter.
LEMMA TakeEffect ==
  ASSUME TypeOK, NEW t \in Threads, Take(t)
  PROVE  /\ Steps(t) /\ pc[t] = "take"
         /\ \/ /\ NoBlock(t) /\ pc'[t] = "give_back" /\ th' = th /\ bbits' = bbits /\ dirent' = dirent
            \/ /\ ~NoBlock(t) /\ Min(Blocks \ bbits) \in Blocks \ bbits
               /\ bbits' = bbits \cup {Min(Blocks \ bbits)}
               /\ Len(Append(th[t].got, Min(Blocks \ bbits))) < Needed(th[t].ino, Index(t))
               /\ pc' = pc /\ dirent' = dirent
               /\ Becomes(th[t], th'[t], th[t].depth, th[t].cur, th[t].kid, th[t].held, th[t].index,
                          th[t].ino,
                          Append(th[t].got, Min(Blocks \ bbits)), th[t].over)
            \/ /\ ~NoBlock(t) /\ Min(Blocks \ bbits) \in Blocks \ bbits
               /\ bbits' = bbits \cup {Min(Blocks \ bbits)}
               /\ Len(Append(th[t].got, Min(Blocks \ bbits))) = Needed(th[t].ino, Index(t))
               /\ dirent' = Added(t)
               /\ pc'[t] \in Onward(t)
               /\ Bumped(t, <<>>, With(th[t].ino, Index(t), Append(th[t].got, Min(Blocks \ bbits))))
<1> pc[t] = "take" BY DEF Take
<1>0. th[t] \in Locals /\ th[t].got \in Seq(Blocks) /\ th[t].index \in Nat /\ th[t].ino \in InodeType /\ bbits \in SUBSET Blocks
  BY LocalsFields DEF TypeOK
<1>1. CASE NoBlock(t) /\ Goto(t, "give_back") /\ UNCHANGED <<bbits, th, dirent>>
  BY <1>1, Going DEF Labels
<1> DEFINE b == Min(Blocks \ bbits)  got == Append(th[t].got, b)
<1>2. CASE ~NoBlock(t)
  <2>1. bbits # Blocks /\ Index(t) \in Indexes BY <1>2, IndexType DEF NoBlock
  <2>2. b \in Blocks \ bbits BY <1>0, <2>1, FreeIn
  <2>3. bbits' = bbits \cup {b} /\
        \/ /\ Len(got) < Needed(th[t].ino, Index(t))
           /\ Set(t, [th[t] EXCEPT !.got = got])
           /\ UNCHANGED <<pc, dirent>>
        \/ /\ Len(got) = Needed(th[t].ino, Index(t))
           /\ Set(t, Bump(t, [th[t] EXCEPT !.got = <<>>, !.ino = With(@, Index(t), got)]))
           /\ dirent' = Added(t)
           /\ \E label \in Onward(t) : Goto(t, label)
    BY <1>2 DEF Take
  <2> HIDE DEF b
  <2>4. got \in Seq(Blocks) /\ got # <<>>
    <3>1. b \in Blocks BY <2>2
    <3> QED BY <1>0, <3>1, AppendIn
  <2> HIDE DEF got
  <2>5. CASE /\ Len(got) < Needed(th[t].ino, Index(t))
             /\ Set(t, [th[t] EXCEPT !.got = got])
             /\ UNCHANGED <<pc, dirent>>
    <3> DEFINE m == [th[t] EXCEPT !.got = got]
    <3>1. Becomes(th[t], m, th[t].depth, th[t].cur, th[t].kid, th[t].held, th[t].index, th[t].ino, got,
                  th[t].over)
      BY <1>0, <2>4, SetGot
    <3>2. Set(t, m) BY <2>5
    <3> HIDE DEF m
    <3>3. Steps(t) /\ th'[t] = m BY <3>1, <3>2, <2>5 DEF Becomes, Set, Steps, TypeOK
    <3> QED BY <1>2, <2>2, <2>3, <2>5, <3>1, <3>3 DEF got, b
  <2>6. CASE /\ Len(got) = Needed(th[t].ino, Index(t))
             /\ Set(t, Bump(t, [th[t] EXCEPT !.got = <<>>, !.ino = With(@, Index(t), got)]))
             /\ dirent' = Added(t)
             /\ \E label \in Onward(t) : Goto(t, label)
    <3>1. PICK label \in Onward(t) : Goto(t, label) BY <2>6
    <3>2. label \in Labels BY OnwardLabels
    <3> DEFINE w == With(th[t].ino, Index(t), got)
               m == [th[t] EXCEPT !.got = <<>>, !.ino = w]
               n == [m EXCEPT !.index = @ + 1]
    <3>3. w \in InodeType BY <1>0, <2>1, <2>4, WithType
    <3>4. Set(t, Bump(t, m)) BY <2>6
    <3> HIDE DEF w
    <3>5. Becomes(th[t], m, th[t].depth, th[t].cur, th[t].kid, th[t].held, th[t].index, w, <<>>,
                  th[t].over)
      <4> DEFINE z == <<>>
      <4>1. z \in Seq(Blocks) OBVIOUS
      <4> HIDE DEF z
      <4>2. Becomes(th[t], [th[t] EXCEPT !.got = z, !.ino = w], th[t].depth, th[t].cur, th[t].kid,
                    th[t].held,
                    th[t].index, w, z, th[t].over)
        BY <1>0, <3>3, <4>1, SetGotIno, Zenon
      <4> QED BY <4>2 DEF z
    <3> HIDE DEF m
    <3>6. Becomes(m, n, m.depth, m.cur, m.kid, m.held, m.index + 1, m.ino, m.got, m.over)
      <4>1. m \in Locals /\ m.index \in Nat BY <1>0, <3>5 DEF Becomes
      <4>2. n = [m EXCEPT !.index = m.index + 1] /\ m.index + 1 \in Nat BY <4>1
      <4> HIDE DEF n
      <4> QED BY <4>1, <4>2, SetIndex
    <3> HIDE DEF n
    <3>7. Bump(t, m) = IF th[t].kind \in Writes THEN n ELSE m BY DEF Bump, n
    <3>8. CASE th[t].kind \in Writes
      <4>1. n \in Locals /\ Set(t, n) BY <3>4, <3>6, <3>7, <3>8 DEF Becomes
      <4>2. Steps(t) /\ pc'[t] = label /\ th'[t] = n BY <4>1, <3>1, <3>2, Going
      <4>3. Bumped(t, <<>>, w) BY <4>2, <3>5, <3>6, <3>8 DEF Becomes, Bumped
      <4> QED BY <4>2, <4>3, <1>2, <2>2, <2>3, <2>6 DEF got, b, w
    <3>9. CASE th[t].kind \notin Writes
      <4>1. m \in Locals /\ Set(t, m) BY <3>4, <3>5, <3>7, <3>9 DEF Becomes
      <4>2. Steps(t) /\ pc'[t] = label /\ th'[t] = m BY <4>1, <3>1, <3>2, Going
      <4>3. Bumped(t, <<>>, w) BY <4>2, <3>5, <3>9 DEF Becomes, Bumped
      <4> QED BY <4>2, <4>3, <1>2, <2>2, <2>3, <2>6 DEF got, b, w
    <3> QED BY <3>8, <3>9
  <2> QED BY <2>3, <2>5, <2>6 DEF got
<1> QED BY <1>1, <1>2 DEF Take

\* A file that grows without a new block is still an inode.
LEMMA SizingType ==
  ASSUME NEW ino \in InodeType, NEW i \in Nat
  PROVE  /\ Sizing(ino, i) \in InodeType /\ Sizing(ino, i).mode = ino.mode
         /\ Sizing(ino, i).links = ino.links /\ Sizing(ino, i).ptr = ino.ptr /\ Sizing(ino, i).ind = ino.ind
         /\ Sizing(ino, i).size = (IF i + 1 > ino.size THEN i + 1 ELSE ino.size)
  BY DEF Sizing, InodeType

\* The block is there already: what the step does to its thread and to the program
\* counter.
LEMMA OverwriteEffect ==
  ASSUME TypeOK, NEW t \in Threads, Overwrite(t)
  PROVE  /\ Steps(t) /\ pc[t] = "take" /\ pc'[t] \in Onward(t)
         /\ Bumped(t, th[t].got, Sizing(th[t].ino, Index(t))) /\ dirent' = Added(t)
<1> pc[t] = "take" BY DEF Overwrite
<1>0. th[t] \in Locals /\ th[t].ino \in InodeType BY LocalsFields DEF TypeOK
<1>1. PICK label \in Onward(t) : Goto(t, label) BY DEF Overwrite
<1>2. label \in Labels BY OnwardLabels
<1> DEFINE w == Sizing(th[t].ino, Index(t))
           m == [th[t] EXCEPT !.ino = w]
           n == [m EXCEPT !.index = @ + 1]
<1>3. w \in InodeType BY <1>0, IndexType, SizingType
<1>4. Set(t, IF th[t].kind \in Writes THEN n ELSE m) BY DEF Overwrite, Bump
<1> HIDE DEF w
<1>5. Becomes(th[t], m, th[t].depth, th[t].cur, th[t].kid, th[t].held, th[t].index, w, th[t].got,
              th[t].over)
  BY <1>0, <1>3, SetIno
<1> HIDE DEF m
<1>6. Becomes(m, n, m.depth, m.cur, m.kid, m.held, m.index + 1, m.ino, m.got, m.over)
  <2>1. m \in Locals /\ m.index \in Nat BY <1>5, LocalsFields DEF Becomes
  <2>2. n = [m EXCEPT !.index = m.index + 1] /\ m.index + 1 \in Nat BY <2>1
  <2> HIDE DEF n
  <2> QED BY <2>1, <2>2, SetIndex
<1> HIDE DEF n
<1>7. m \in Locals /\ n \in Locals BY <1>5, <1>6 DEF Becomes
<1>8. Steps(t) /\ pc'[t] = label /\ th'[t] = IF th[t].kind \in Writes THEN n ELSE m
  BY <1>1, <1>2, <1>4, <1>7, Going
<1>9. Bumped(t, th[t].got, w) BY <1>5, <1>6, <1>8 DEF Becomes, Bumped
<1> QED BY <1>1, <1>8, <1>9 DEF w, Overwrite

\* A call on a descriptor locks its file: what the step does to its thread and to the
\* program counter.
LEMMA LockFileEffect ==
  ASSUME TypeOK, NEW t \in Threads, LockFile(t), files[th[t].fd] \in Inodes
  PROVE  /\ Steps(t) /\ pc[t] = "lock_file"
         /\ LET i == files[th[t].fd]
                ino == IF entry[i].valid THEN entry[i].inode ELSE inode[i]
                index == IF th[t].kind = "append" THEN ino.size ELSE th[t].index IN
            \/ /\ th[t].kind = "read" /\ pc'[t] = "unlock_file" /\ entry' = Locked(entry, t, i)
               /\ Becomes(th[t], th'[t], th[t].depth, th[t].cur, th[t].kid, th[t].held, th[t].index,
                          th[t].ino,
                          th[t].got, TRUE)
            \/ /\ th[t].kind \in Writes /\ index \in Nat /\ ino \in InodeType
               /\ entry' = Forget(Locked(entry, t, i), i)
               /\ pc'[t] = (IF index > MaxIndex THEN "unlock_file" ELSE "take")
               /\ Becomes(th[t], th'[t], th[t].depth, th[t].cur, th[t].kid, th[t].held, index, ino,
                          th[t].got, index > MaxIndex)
<1> pc[t] = "lock_file" BY DEF LockFile
<1> DEFINE i == files[th[t].fd]
           ino == IF entry[i].valid THEN entry[i].inode ELSE inode[i]
           index == IF th[t].kind = "append" THEN ino.size ELSE th[t].index
<1>0. th[t] \in Locals /\ TRUE \in BOOLEAN BY DEF TypeOK
<1>1. ino \in InodeType BY DEF TypeOK, EntryType
<1>2. ino.size \in Nat BY <1>1 DEF InodeType
<1>3. index \in Nat /\ (index > MaxIndex) \in BOOLEAN BY <1>0, <1>2, LocalsFields
<1>4. \/ /\ th[t].kind = "read"
         /\ entry' = Locked(entry, t, i)
         /\ Set(t, [th[t] EXCEPT !.over = TRUE])
         /\ Goto(t, "unlock_file")
      \/ /\ th[t].kind \in Writes
         /\ entry' = Forget(Locked(entry, t, i), i)
         /\ Set(t, [th[t] EXCEPT !.ino = ino, !.index = index, !.over = index > MaxIndex])
         /\ Goto(t, IF index > MaxIndex THEN "unlock_file" ELSE "take")
  BY DEF LockFile
<1> HIDE DEF ino, index
<1> DEFINE m == [th[t] EXCEPT !.over = TRUE]
           n == [th[t] EXCEPT !.ino = ino, !.index = index, !.over = index > MaxIndex]
<1>5. Becomes(th[t], m, th[t].depth, th[t].cur, th[t].kid, th[t].held, th[t].index, th[t].ino,
              th[t].got, TRUE)
  BY <1>0, SetOver
<1>6. Becomes(th[t], n, th[t].depth, th[t].cur, th[t].kid, th[t].held, index, ino, th[t].got,
              index > MaxIndex)
  BY <1>0, <1>1, <1>3, SetInoIndexOver
<1>7. \/ /\ th[t].kind = "read" /\ entry' = Locked(entry, t, i)
         /\ Set(t, m) /\ Goto(t, "unlock_file")
      \/ /\ th[t].kind \in Writes /\ entry' = Forget(Locked(entry, t, i), i)
         /\ Set(t, n) /\ Goto(t, IF index > MaxIndex THEN "unlock_file" ELSE "take")
  BY <1>4
<1> HIDE DEF m, n
<1>8. m \in Locals /\ n \in Locals BY <1>5, <1>6 DEF Becomes
<1>9. CASE th[t].kind = "read" /\ entry' = Locked(entry, t, i) /\ Set(t, m) /\ Goto(t, "unlock_file")
  <2>1. Steps(t) /\ pc'[t] = "unlock_file" /\ th'[t] = m BY <1>8, <1>9, Going DEF Labels
  <2> QED BY <1>5, <1>9, <2>1
<1>10. CASE /\ th[t].kind \in Writes /\ entry' = Forget(Locked(entry, t, i), i)
            /\ Set(t, n) /\ Goto(t, IF index > MaxIndex THEN "unlock_file" ELSE "take")
  <2> DEFINE label == IF index > MaxIndex THEN "unlock_file" ELSE "take"
  <2>0. label \in Labels BY DEF Labels
  <2>1. Steps(t) /\ pc'[t] = label /\ th'[t] = n BY <1>8, <1>10, <2>0, Going
  <2> QED BY <1>1, <1>3, <1>6, <1>10, <2>1 DEF ino, index
<1> QED BY <1>7, <1>9, <1>10

\* The file is unlocked: what the step does to its thread and to the program counter.
LEMMA UnlockFileEffect ==
  ASSUME TypeOK, NEW t \in Threads, UnlockFile(t)
  PROVE  /\ Steps(t) /\ pc[t] = "unlock_file"
         /\ \/ /\ pc'[t] = "begin" /\ op' = op /\ ~th[t].over
               /\ Becomes(th[t], th'[t], th[t].depth, th[t].cur, th[t].kid, th[t].held, th[t].index,
                          NoInode,
                          th[t].got, th[t].over)
            \/ pc'[t] = "idle" /\ th'[t] = Idle /\ op' = [op EXCEPT ![th[t].fd] = NoThread]
<1> pc[t] = "unlock_file" BY DEF UnlockFile
<1>0. th[t] \in Locals BY DEF TypeOK
<1> DEFINE m == [th[t] EXCEPT !.ino = NoInode]
<1>1. Becomes(th[t], m, th[t].depth, th[t].cur, th[t].kid, th[t].held, th[t].index, NoInode, th[t].got,
              th[t].over)
  BY <1>0, NoInodeType, SetIno
<1>2. \/ Set(t, m) /\ Goto(t, "begin") /\ op' = op /\ ~th[t].over
      \/ Set(t, Idle) /\ Goto(t, "idle") /\ op' = [op EXCEPT ![th[t].fd] = NoThread]
  BY DEF UnlockFile
<1> HIDE DEF m
<1>3. m \in Locals BY <1>1 DEF Becomes
<1> QED BY <1>1, <1>2, <1>3, IdleType, Going DEF Labels

\* Vfs_close drops the file: what the step does to its thread and to the program
\* counter.
LEMMA CloseEffect ==
  ASSUME TypeOK, NEW t \in Threads, Close(t)
  PROVE  Steps(t) /\ pc[t] = "close" /\ pc'[t] = "idle" /\ th'[t] = Idle
  BY IdleType, Going DEF Close, Labels

\* The open file enters the table: what the step does to its thread and to the program
\* counter.
LEMMA InstallEffect ==
  ASSUME TypeOK, NEW t \in Threads, Install(t)
  PROVE  Steps(t) /\ pc[t] = "install" /\ pc'[t] = "idle" /\ th'[t] = Idle
  BY IdleType, Going DEF Install, Labels

\* A call leaves its locks: what the step does to its thread and to the program
\* counter.
LEMMA ExitEffect ==
  ASSUME TypeOK, NEW t \in Threads, Exit(t)
  PROVE  /\ Steps(t) /\ pc[t] = "exit"
         /\ \/ /\ th[t].kind \in Opens /\ th[t].index # 0 /\ pc'[t] = "install" /\ in_use' = in_use
               /\ th'[t].kind = "stat" /\ th'[t].fd = th[t].fd /\ th'[t].index = th[t].index
               /\ th'[t].cur = 0 /\ th'[t].kid = 0 /\ ~th'[t].held /\ th'[t].depth = 0
               /\ th'[t].ino = NoInode /\ th'[t].got = <<>>
            \/ /\ ~(th[t].kind \in Opens /\ th[t].index # 0) /\ pc'[t] = "idle" /\ th'[t] = Idle
               /\ in_use' = IF th[t].kind \in Opens THEN in_use \ {th[t].fd} ELSE in_use
<1> pc[t] = "exit" BY DEF Exit
<1>0. th[t] \in Locals /\ th[t].fd \in 0..NFiles /\ th[t].index \in Nat BY LocalsFields DEF TypeOK
<1> DEFINE m == [Idle EXCEPT !.fd = th[t].fd, !.index = th[t].index]
<1>1. /\ m \in Locals /\ m.kind = "stat" /\ m.fd = th[t].fd /\ m.index = th[t].index
      /\ m.cur = 0 /\ m.kid = 0 /\ ~m.held /\ m.depth = 0 /\ m.ino = NoInode /\ m.got = <<>>
  BY <1>0, IdleType DEF Locals
<1>2. \/ /\ th[t].kind \in Opens /\ th[t].index # 0 /\ Set(t, m) /\ Goto(t, "install") /\ in_use' = in_use
      \/ /\ ~(th[t].kind \in Opens /\ th[t].index # 0) /\ Set(t, Idle) /\ Goto(t, "idle")
         /\ in_use' = IF th[t].kind \in Opens THEN in_use \ {th[t].fd} ELSE in_use
  BY DEF Exit
<1> HIDE DEF m
<1> QED BY <1>1, <1>2, IdleType, Going DEF Labels

\* A block cannot be read and the step throws: what the step does to its thread and to
\* the program counter.
LEMMA IoErrorEffect ==
  ASSUME TypeOK, NEW t \in Threads, IoError(t)
  PROVE  /\ Steps(t)
         /\ pc'[t] = (IF th[t].kind \in Writes THEN "unlock_file"
                      ELSE IF pc[t] \in {"dir_add", "take"} /\ th[t].kind = "mkdir" THEN "undo_block"
                      ELSE IF pc[t] \in {"dir_add", "take"} /\ th[t].kind \in Creates THEN "undo_inode"
                      ELSE "exit")
         /\ IF pc[t] = "write_new" \/ (pc[t] = "write_dir" /\ ~th[t].held)
            THEN Becomes(th[t], th'[t], th[t].depth, th[t].cur, 0, th[t].held, 0, th[t].ino, th[t].got,
                         th[t].over)
            ELSE Becomes(th[t], th'[t], th[t].depth, th[t].cur, th[t].kid, th[t].held, th[t].index,
                         th[t].ino,
                         th[t].got, TRUE)
<1>0. th[t] \in Locals /\ TRUE \in BOOLEAN /\ 0 \in Nat /\ 0 \in 0..NInodes BY DEF TypeOK
<1> DEFINE m == [th[t] EXCEPT !.kid = 0, !.index = 0]
           n == [th[t] EXCEPT !.over = TRUE]
           label == IF th[t].kind \in Writes THEN "unlock_file"
                      ELSE IF pc[t] \in {"dir_add", "take"} /\ th[t].kind = "mkdir" THEN "undo_block"
                      ELSE IF pc[t] \in {"dir_add", "take"} /\ th[t].kind \in Creates THEN "undo_inode"
                      ELSE "exit"
<1>1. Becomes(th[t], m, th[t].depth, th[t].cur, 0, th[t].held, 0, th[t].ino, th[t].got, th[t].over)
  BY <1>0, SetKidIndex
<1>2. Becomes(th[t], n, th[t].depth, th[t].cur, th[t].kid, th[t].held, th[t].index, th[t].ino,
              th[t].got, TRUE)
  BY <1>0, SetOver
<1>3. (CASE th[t].kind \in Writes -> "unlock_file"
         [] pc[t] \in {"dir_add", "take"} /\ th[t].kind = "mkdir" -> "undo_block"
         [] pc[t] \in {"dir_add", "take"} /\ th[t].kind \in Creates -> "undo_inode"
         [] OTHER -> "exit") = label
  BY DEF Writes, Creates
<1>4. Goto(t, label) BY <1>3 DEF IoError
<1>5. Set(t, IF pc[t] = "write_new" \/ (pc[t] = "write_dir" /\ ~th[t].held) THEN m ELSE n)
  BY DEF IoError
<1>6. label \in Labels BY DEF Labels
<1> HIDE DEF m, n, label
<1>7. m \in Locals /\ n \in Locals BY <1>1, <1>2 DEF Becomes
<1>8. /\ Steps(t) /\ pc'[t] = label
      /\ th'[t] = (IF pc[t] = "write_new" \/ (pc[t] = "write_dir" /\ ~th[t].held) THEN m ELSE n)
  BY <1>4, <1>5, <1>6, <1>7, Going
<1> QED BY <1>1, <1>2, <1>8 DEF label

-----------------------------------------------------------------------------
(* Where a thread is, and what it keeps: ShapeInv. *)

USE DEF Creates, Truncates, Opens, Changes, Writes, InOperation, ByPath

\* An inode that is given a block stays what it is.
LEMMA ModeKept ==
  \A ino \in InodeType :
     /\ \A i \in Nat : Sizing(ino, i).mode = ino.mode
     /\ \A i \in Indexes, g \in Seq(Blocks) : g # <<>> => With(ino, i, g).mode = ino.mode
  BY SizingType, WithType

\* A path is not empty, and a walk goes no further than it.
LEMMA NameIn ==
  ASSUME TypeOK, NEW t \in Threads, WalkOK(t), th[t].kind \in ByPath, pc[t] \notin {"idle", "sync", "install"}
  PROVE  /\ Name(t) \in Names /\ Goal(t) \in Nat /\ th[t].depth \in Nat /\ th[t].depth <= Goal(t)
         /\ th[t].depth < Goal(t) => th[t].path[th[t].depth + 1] \in Names
         /\ th[t].depth # 0 => th[t].path[th[t].depth] \in Names
<1> DEFINE p == th[t].path
<1>0. th[t].depth \in Nat BY LocalsFields DEF TypeOK
<1>1. p \in Seq(Names) /\ p # <<>> /\ th[t].depth <= Goal(t) BY PathsAssumption DEF WalkOK
<1> HIDE DEF p
<1>2. Len(p) \in Nat /\ Len(p) # 0 /\ \A k \in 1..Len(p) : p[k] \in Names BY <1>1
<1>3. Goal(t) = Len(p) \/ Goal(t) = Len(p) - 1
  <2>1. Goal(t) = IF th[t].kind \in {"open", "stat"} THEN Len(p) - 0 ELSE Len(p) - 1 BY DEF Goal, p
  <2> QED BY <1>2, <2>1
<1>4. Name(t) = p[Len(p)] BY DEF Name, p
<1>5. th[t].depth < Goal(t) => p[th[t].depth + 1] \in Names BY <1>0, <1>2, <1>3
<1>6. th[t].depth # 0 => p[th[t].depth] \in Names BY <1>0, <1>1, <1>2, <1>3
<1> QED BY <1>0, <1>1, <1>2, <1>3, <1>4, <1>5, <1>6 DEF p

\* What the invariant says of one thread's own place and locals.
LEMMA Own ==
  ASSUME SafeInv, NEW t \in Threads
  PROVE  /\ TypeOK /\ th[t] \in Locals /\ pc[t] \in Labels /\ KindOK(t) /\ WalkOK(t) /\ KidOK(t) /\ IndexOK(t) /\ InoOK(t)
         /\ th[t].kind \in ByPath \cup Writes \cup {"read", "close"}
         /\ th[t].cur # 0 => th[t].cur \in Inodes
         /\ th[t].kid # 0 => th[t].kid \in Inodes
         /\ th[t].depth \in Nat /\ th[t].index \in Nat /\ th[t].fd \in 0..NFiles
         /\ th[t].ino \in InodeType /\ th[t].got \in Seq(Blocks)
<1>1. TypeOK /\ th[t] \in Locals /\ pc[t] \in Labels /\ KindOK(t) /\ WalkOK(t) /\ KidOK(t) /\ IndexOK(t) /\ InoOK(t)
  BY DEF SafeInv, TypeOK, ShapeInv
<1>2. \A i \in 0..NInodes : i # 0 => i \in Inodes BY DEF Inodes
<1> QED BY <1>1, <1>2, LocalsFields

\* The root is not where the walk begins before its lock is taken.
LEMMA Named1 ==
  ASSUME SafeInv, NEW d \in Inodes, NEW n \in Names, dirent[d][n] # 0
  PROVE  dirent[d][n] \in ibits \ {Root, d} /\ dirent[d][n] \in Inodes /\ IsDir(d)
  BY DEF SafeInv, NameInv, TypeOK, IsDir

\* Begin_op lets a call in: the step keeps the thread's locals what its place asks
\* for.
LEMMA BeginShape ==
  ASSUME SafeInv, NEW t \in Threads, Begin(t)
  PROVE  Steps(t) /\ KindOK(t)' /\ WalkOK(t)' /\ KidOK(t)' /\ IndexOK(t)' /\ InoOK(t)'
<1>0. /\ TypeOK /\ th[t] \in Locals /\ pc[t] \in Labels /\ KindOK(t) /\ WalkOK(t) /\ KidOK(t) /\ IndexOK(t) /\ InoOK(t)
      /\ (th[t].cur # 0 => th[t].cur \in Inodes) /\ (th[t].kid # 0 => th[t].kid \in Inodes)
      /\ th[t].index \in Nat
  BY Own
<1>1. Goal(t)' = Goal(t) BY <1>0, BeginEffect DEF Goal, Becomes
<1>2. KindOK(t)' BY <1>0, BeginEffect DEF KindOK, Becomes
<1>3. WalkOK(t)' BY <1>0, BeginEffect, <1>1, NameIn DEF KindOK, WalkOK, Becomes, OnFd, Outside
<1>4. KidOK(t)'
  BY <1>0, BeginEffect DEF KindOK, KidOK, Becomes, OnFd, Outside, Removed, Emptying, Named, Root
<1>5. IndexOK(t)'
  BY <1>0, BeginEffect DEF KindOK, WalkOK, KidOK, IndexOK, Becomes, OnFd, Outside, Making, Opening
<1>6. InoOK(t)'
  BY <1>0, BeginEffect, NoInodeType DEF KindOK, InoOK, Becomes, Making, Removed, Removing, Emptying
<1> QED BY <1>0, BeginEffect, <1>2, <1>3, <1>4, <1>5, <1>6

\* A walk starts at the root: the step keeps the thread's locals what its place asks
\* for.
LEMMA WalkRootShape ==
  ASSUME SafeInv, NEW t \in Threads, WalkRoot(t)
  PROVE  Steps(t) /\ KindOK(t)' /\ WalkOK(t)' /\ KidOK(t)' /\ IndexOK(t)' /\ InoOK(t)'
<1>0. /\ TypeOK /\ th[t] \in Locals /\ pc[t] \in Labels /\ KindOK(t) /\ WalkOK(t) /\ KidOK(t) /\ IndexOK(t) /\ InoOK(t)
      /\ (th[t].cur # 0 => th[t].cur \in Inodes) /\ (th[t].kid # 0 => th[t].kid \in Inodes)
      /\ th[t].index \in Nat
  BY Own
<1>1. Goal(t)' = Goal(t) BY <1>0, WalkRootEffect DEF Goal, Becomes
<1>2. KindOK(t)' BY <1>0, WalkRootEffect DEF KindOK, Becomes
<1>3. WalkOK(t)' BY <1>0, WalkRootEffect, <1>1, NameIn DEF KindOK, WalkOK, Becomes, OnFd, Outside
<1>4. KidOK(t)'
  BY <1>0, WalkRootEffect DEF KindOK, KidOK, WalkOK, Becomes, OnFd, Outside, Removed, Emptying, Named,
     Root
<1>5. IndexOK(t)'
  BY <1>0, WalkRootEffect DEF KindOK, WalkOK, KidOK, IndexOK, Becomes, OnFd, Outside, Making, Opening
<1>6. InoOK(t)'
  BY <1>0, WalkRootEffect, NoInodeType DEF KindOK, InoOK, Becomes, Making, Removed, Removing, Emptying
<1> QED BY <1>0, WalkRootEffect, <1>2, <1>3, <1>4, <1>5, <1>6

\* A walk locks what it has found: the step keeps the thread's locals what its place
\* asks for.
LEMMA WalkLockShape ==
  ASSUME SafeInv, NEW t \in Threads, WalkLock(t)
  PROVE  Steps(t) /\ KindOK(t)' /\ WalkOK(t)' /\ KidOK(t)' /\ IndexOK(t)' /\ InoOK(t)'
<1>0. /\ TypeOK /\ th[t] \in Locals /\ pc[t] \in Labels /\ KindOK(t) /\ WalkOK(t) /\ KidOK(t) /\ IndexOK(t) /\ InoOK(t)
      /\ (th[t].cur # 0 => th[t].cur \in Inodes) /\ (th[t].kid # 0 => th[t].kid \in Inodes)
      /\ th[t].index \in Nat
  BY Own
<1>1. Goal(t)' = Goal(t) BY <1>0, WalkLockEffect DEF Goal, Becomes
<1>2. KindOK(t)' BY <1>0, WalkLockEffect DEF KindOK, Becomes
<1>3. WalkOK(t)'
  BY <1>0, WalkLockEffect, <1>1, NameIn DEF KindOK, WalkOK, Becomes, OnFd, Outside, KidOK
<1>4. KidOK(t)'
  BY <1>0, WalkLockEffect DEF KindOK, KidOK, WalkOK, Becomes, OnFd, Outside, Removed, Emptying, Named,
     Root
<1>5. IndexOK(t)'
  BY <1>0, WalkLockEffect DEF KindOK, WalkOK, KidOK, IndexOK, Becomes, OnFd, Outside, Making, Opening
<1>6. InoOK(t)'
  BY <1>0, WalkLockEffect, NoInodeType DEF KindOK, InoOK, Becomes, Making, Removed, Removing, Emptying
<1> QED BY <1>0, WalkLockEffect, <1>2, <1>3, <1>4, <1>5, <1>6

\* A walk looks a component up: the step keeps the thread's locals what its place asks
\* for.
LEMMA WalkNextShape ==
  ASSUME SafeInv, NEW t \in Threads, WalkNext(t)
  PROVE  Steps(t) /\ KindOK(t)' /\ WalkOK(t)' /\ KidOK(t)' /\ IndexOK(t)' /\ InoOK(t)'
<1>0. /\ TypeOK /\ th[t] \in Locals /\ pc[t] \in Labels /\ KindOK(t) /\ WalkOK(t) /\ KidOK(t) /\ IndexOK(t) /\ InoOK(t)
      /\ (th[t].cur # 0 => th[t].cur \in Inodes) /\ (th[t].kid # 0 => th[t].kid \in Inodes)
      /\ th[t].index \in Nat
  BY Own
<1>e. /\ th[t].cur # 0 /\ th[t].path[th[t].depth + 1] \in Names
      /\ dirent[th[t].cur][th[t].path[th[t].depth + 1]] # 0 => dirent[th[t].cur][th[t].path[th[t].depth + 1]] # th[t].cur
  <2> pc[t] = "walk" BY DEF WalkNext
  <2>1. th[t].kind \in ByPath BY <1>0 DEF KindOK
  <2>2. th[t].cur # 0 /\ th[t].depth < Goal(t) BY <1>0, <2>1 DEF WalkOK, OnFd, Outside
  <2> QED BY <1>0, <2>1, <2>2, NameIn, Named1
<1>1. Goal(t)' = Goal(t) BY <1>0, <1>e, WalkNextEffect DEF Goal, Becomes
<1>2. KindOK(t)' BY <1>0, <1>e, WalkNextEffect DEF KindOK, Becomes
<1>3. WalkOK(t)'
  BY <1>0, <1>e, WalkNextEffect, <1>1, NameIn DEF KindOK, WalkOK, Becomes, OnFd, Outside
<1>4. KidOK(t)'
  BY <1>0, <1>e, WalkNextEffect DEF KindOK, KidOK, Becomes, OnFd, Outside, Removed, Emptying, Named,
     Root
<1>5. IndexOK(t)'
  BY <1>0, <1>e, WalkNextEffect DEF KindOK, WalkOK, KidOK, IndexOK, Becomes, OnFd, Outside, Making,
     Opening
<1>6. InoOK(t)'
  BY <1>0, <1>e, WalkNextEffect, NoInodeType DEF KindOK, InoOK, Becomes, Making, Removed, Removing,
     Emptying
<1> QED BY <1>0, <1>e, WalkNextEffect, <1>2, <1>3, <1>4, <1>5, <1>6

\* Open has reached the file's name: the step keeps the thread's locals what its place
\* asks for.
LEMMA AtOpenShape ==
  ASSUME SafeInv, NEW t \in Threads, AtOpen(t)
  PROVE  Steps(t) /\ KindOK(t)' /\ WalkOK(t)' /\ KidOK(t)' /\ IndexOK(t)' /\ InoOK(t)'
<1>0. /\ TypeOK /\ th[t] \in Locals /\ pc[t] \in Labels /\ KindOK(t) /\ WalkOK(t) /\ KidOK(t) /\ IndexOK(t) /\ InoOK(t)
      /\ (th[t].cur # 0 => th[t].cur \in Inodes) /\ (th[t].kid # 0 => th[t].kid \in Inodes)
      /\ th[t].index \in Nat
  BY Own
<1>e. th[t].cur # 0
  <2> pc[t] = "at" BY DEF AtOpen
  <2> QED BY <1>0 DEF WalkOK, KindOK, OnFd, Outside
<1>1. Goal(t)' = Goal(t) BY <1>0, <1>e, AtOpenEffect DEF Goal, Becomes
<1>2. KindOK(t)' BY <1>0, <1>e, AtOpenEffect DEF KindOK, Becomes
<1>3. WalkOK(t)' BY <1>0, <1>e, AtOpenEffect, <1>1, NameIn DEF KindOK, WalkOK, Becomes, OnFd, Outside
<1>4. KidOK(t)'
  BY <1>0, <1>e, AtOpenEffect DEF KindOK, KidOK, Becomes, OnFd, Outside, Removed, Emptying, Named,
     Root
<1>5. IndexOK(t)'
  BY <1>0, <1>e, AtOpenEffect DEF KindOK, WalkOK, KidOK, IndexOK, Becomes, OnFd, Outside, Making,
     Opening
<1>6. InoOK(t)'
  BY <1>0, <1>e, AtOpenEffect, NoInodeType DEF KindOK, InoOK, Becomes, Making, Removed, Removing,
     Emptying
<1> QED BY <1>0, <1>e, AtOpenEffect, <1>2, <1>3, <1>4, <1>5, <1>6

\* A call has found its last component: the step keeps the thread's locals what its
\* place asks for.
LEMMA AtChildShape ==
  ASSUME SafeInv, NEW t \in Threads, AtChild(t)
  PROVE  Steps(t) /\ KindOK(t)' /\ WalkOK(t)' /\ KidOK(t)' /\ IndexOK(t)' /\ InoOK(t)'
<1>0. /\ TypeOK /\ th[t] \in Locals /\ pc[t] \in Labels /\ KindOK(t) /\ WalkOK(t) /\ KidOK(t) /\ IndexOK(t) /\ InoOK(t)
      /\ (th[t].cur # 0 => th[t].cur \in Inodes) /\ (th[t].kid # 0 => th[t].kid \in Inodes)
      /\ th[t].index \in Nat
  BY Own
<1>e. /\ th[t].cur # 0 /\ Name(t) \in Names /\ (Child(t) # 0 => Child(t) # th[t].cur)
      /\ th[t].kind \notin {"open", "stat"}
      /\ Suits(t) => th[t].kind \notin {"mkdir", "create_new"}
  <2> pc[t] = "at" /\ th[t].kind \notin {"open", "stat"} BY DEF AtChild
  <2>1. th[t].kind \in ByPath BY <1>0 DEF KindOK
  <2>2. th[t].cur # 0 BY <1>0, <2>1 DEF WalkOK, OnFd, Outside
  <2>3. CASE th[t].kind \in {"mkdir", "create_new"}
    <3>1. ~Suits(t) BY <2>3 DEF Suits
    <3> QED BY <1>0, <2>1, <2>2, <3>1, NameIn, Named1 DEF Child
  <2> QED BY <1>0, <2>1, <2>2, <2>3, NameIn, Named1 DEF Child
<1>1. Goal(t)' = Goal(t) BY <1>0, <1>e, AtChildEffect DEF Goal, Becomes
<1>2. KindOK(t)' BY <1>0, <1>e, AtChildEffect DEF KindOK, Becomes
<1>3. WalkOK(t)' BY <1>0, <1>e, AtChildEffect, <1>1, NameIn DEF KindOK, WalkOK, Becomes, OnFd, Outside
<1>4. KidOK(t)'
  BY <1>0, <1>e, AtChildEffect DEF KindOK, KidOK, Becomes, OnFd, Outside, Removed, Emptying, Named,
     Root
<1>5. IndexOK(t)'
  BY <1>0, <1>e, AtChildEffect DEF KindOK, WalkOK, KidOK, IndexOK, Becomes, OnFd, Outside, Making,
     Opening
<1>6. InoOK(t)'
  BY <1>0, <1>e, AtChildEffect, NoInodeType DEF KindOK, InoOK, Becomes, Making, Removed, Removing,
     Emptying
<1> QED BY <1>0, <1>e, AtChildEffect, <1>2, <1>3, <1>4, <1>5, <1>6

\* A call finds no such name: the step keeps the thread's locals what its place asks
\* for.
LEMMA AtNoneShape ==
  ASSUME SafeInv, NEW t \in Threads, AtNone(t)
  PROVE  Steps(t) /\ KindOK(t)' /\ WalkOK(t)' /\ KidOK(t)' /\ IndexOK(t)' /\ InoOK(t)'
<1>0. /\ TypeOK /\ th[t] \in Locals /\ pc[t] \in Labels /\ KindOK(t) /\ WalkOK(t) /\ KidOK(t) /\ IndexOK(t) /\ InoOK(t)
      /\ (th[t].cur # 0 => th[t].cur \in Inodes) /\ (th[t].kid # 0 => th[t].kid \in Inodes)
      /\ th[t].index \in Nat
  BY Own
<1>1. Goal(t)' = Goal(t) BY <1>0, AtNoneEffect DEF Goal, Becomes
<1>2. KindOK(t)' BY <1>0, AtNoneEffect DEF KindOK, Becomes
<1>3. WalkOK(t)' BY <1>0, AtNoneEffect, <1>1, NameIn DEF KindOK, WalkOK, Becomes, OnFd, Outside
<1>4. KidOK(t)'
  BY <1>0, AtNoneEffect DEF KindOK, KidOK, Becomes, OnFd, Outside, Removed, Emptying, Named, Root
<1>5. IndexOK(t)'
  BY <1>0, AtNoneEffect DEF KindOK, WalkOK, KidOK, IndexOK, Becomes, OnFd, Outside, Making, Opening
<1>6. InoOK(t)'
  BY <1>0, AtNoneEffect, NoInodeType DEF KindOK, InoOK, Becomes, Making, Removed, Removing, Emptying
<1> QED BY <1>0, AtNoneEffect, <1>2, <1>3, <1>4, <1>5, <1>6

\* The inode below the directory is locked: the step keeps the thread's locals what
\* its place asks for.
LEMMA LockKidShape ==
  ASSUME SafeInv, NEW t \in Threads, LockKid(t)
  PROVE  Steps(t) /\ KindOK(t)' /\ WalkOK(t)' /\ KidOK(t)' /\ IndexOK(t)' /\ InoOK(t)'
<1>0. /\ TypeOK /\ th[t] \in Locals /\ pc[t] \in Labels /\ KindOK(t) /\ WalkOK(t) /\ KidOK(t) /\ IndexOK(t) /\ InoOK(t)
      /\ (th[t].cur # 0 => th[t].cur \in Inodes) /\ (th[t].kid # 0 => th[t].kid \in Inodes)
      /\ th[t].index \in Nat
  BY Own
<1>1. Goal(t)' = Goal(t) BY <1>0, LockKidEffect DEF Goal, Becomes
<1>2. KindOK(t)' BY <1>0, LockKidEffect DEF KindOK, Becomes, InoOK
<1>3. WalkOK(t)' BY <1>0, LockKidEffect, <1>1, NameIn DEF KindOK, WalkOK, Becomes, OnFd, Outside
<1>4. KidOK(t)'
  BY <1>0, LockKidEffect DEF KindOK, KidOK, Becomes, OnFd, Outside, Removed, Emptying, Named, Root
<1>5. IndexOK(t)'
  BY <1>0, LockKidEffect DEF KindOK, WalkOK, KidOK, IndexOK, Becomes, OnFd, Outside, Making, Opening
<1>6. InoOK(t)'
  BY <1>0, LockKidEffect, NoInodeType DEF KindOK, InoOK, InoOK, Becomes, Making, Removed, Removing,
     Emptying
<1> QED BY <1>0, LockKidEffect, <1>2, <1>3, <1>4, <1>5, <1>6

\* A file is counted open: the step keeps the thread's locals what its place asks for.
LEMMA RegisterShape ==
  ASSUME SafeInv, NEW t \in Threads, Register(t)
  PROVE  Steps(t) /\ KindOK(t)' /\ WalkOK(t)' /\ KidOK(t)' /\ IndexOK(t)' /\ InoOK(t)'
<1>0. /\ TypeOK /\ th[t] \in Locals /\ pc[t] \in Labels /\ KindOK(t) /\ WalkOK(t) /\ KidOK(t) /\ IndexOK(t) /\ InoOK(t)
      /\ (th[t].cur # 0 => th[t].cur \in Inodes) /\ (th[t].kid # 0 => th[t].kid \in Inodes)
      /\ th[t].index \in Nat
  BY Own
<1>1. Goal(t)' = Goal(t) BY <1>0, RegisterEffect DEF Goal, Becomes
<1>2. KindOK(t)' BY <1>0, RegisterEffect DEF KindOK, Becomes
<1>3. WalkOK(t)' BY <1>0, RegisterEffect, <1>1, NameIn DEF KindOK, WalkOK, Becomes, OnFd, Outside
<1>4. KidOK(t)'
  BY <1>0, RegisterEffect DEF KindOK, KidOK, Becomes, OnFd, Outside, Removed, Emptying, Named, Root
<1>5. IndexOK(t)'
  BY <1>0, RegisterEffect DEF KindOK, WalkOK, KidOK, IndexOK, Becomes, OnFd, Outside, Making, Opening
<1>6. InoOK(t)'
  BY <1>0, RegisterEffect, NoInodeType DEF KindOK, InoOK, Becomes, Making, Removed, Removing, Emptying
<1> QED BY <1>0, RegisterEffect, <1>2, <1>3, <1>4, <1>5, <1>6

\* Alloc_inode: the step keeps the thread's locals what its place asks for.
LEMMA AllocInodeShape ==
  ASSUME SafeInv, NEW t \in Threads, AllocInode(t)
  PROVE  Steps(t) /\ KindOK(t)' /\ WalkOK(t)' /\ KidOK(t)' /\ IndexOK(t)' /\ InoOK(t)'
<1>0. /\ TypeOK /\ th[t] \in Locals /\ pc[t] \in Labels /\ KindOK(t) /\ WalkOK(t) /\ KidOK(t) /\ IndexOK(t) /\ InoOK(t)
      /\ (th[t].cur # 0 => th[t].cur \in Inodes) /\ (th[t].kid # 0 => th[t].kid \in Inodes)
      /\ th[t].index \in Nat
  BY Own
<1>e. /\ th[t].cur # 0 /\ inode[th[t].cur].mode = "dir"
      /\ ibits # Inodes => Min(Inodes \ ibits) \in Inodes /\ Min(Inodes \ ibits) # th[t].cur /\ Min(Inodes \ ibits) # 0
  <2> pc[t] = "alloc_inode" BY DEF AllocInode
  <2>1. th[t].cur # 0 BY <1>0 DEF WalkOK, KindOK, OnFd, Outside
  <2>2. HeldOK(t) /\ ibits \in SUBSET Inodes BY <1>0 DEF SafeInv, ThereInv, TypeOK
  <2>3. th[t].cur \in ibits /\ inode[th[t].cur].mode = "dir" BY <2>1, <2>2 DEF HeldOK, IsDir
  <2>4. 0 \notin Inodes BY DEF Inodes
  <2> QED BY <2>1, <2>2, <2>3, <2>4, FreeIn
<1>1. Goal(t)' = Goal(t) BY <1>0, <1>e, AllocInodeEffect DEF Goal, Becomes
<1>2. KindOK(t)' BY <1>0, <1>e, AllocInodeEffect DEF KindOK, Becomes
<1>3. WalkOK(t)'
  BY <1>0, <1>e, AllocInodeEffect, <1>1, NameIn DEF KindOK, WalkOK, Becomes, OnFd, Outside
<1>4. KidOK(t)'
  <2>1. CASE ibits # Inodes
    <3>1. /\ ~Removed(t)' /\ ~Named(t)' /\ th[t].kind \in Creates \cup {"mkdir"} /\ ~OnFd(t)' /\ ~OnFd(t)
          /\ pc'[t] \in {"alloc_block", "dir_add", "exit"} /\ pc[t] = "alloc_inode"
      BY <1>0, <1>e, AllocInodeEffect DEF KindOK, Becomes, OnFd, Removed, Emptying, Named
    <3>2. /\ th'[t].held = th[t].held /\ th'[t].cur = th[t].cur
          /\ \/ th'[t].kid = th[t].kid /\ pc'[t] = "exit"
             \/ pc'[t] # "exit" /\ th'[t].kid # 0 /\ th'[t].kid # th[t].cur
      BY <1>0, <1>e, <2>1, AllocInodeEffect DEF Becomes
    <3>3. th[t].kid = 0 /\ ~th[t].held BY <1>0, <3>1 DEF KidOK, Outside, Removed, Named, Emptying
    <3>4. th'[t].kind = th[t].kind /\ th'[t].held \in BOOLEAN
      BY <1>0, <1>e, AllocInodeEffect DEF Becomes, Locals
    <3> QED BY <3>1, <3>2, <3>3, <3>4 DEF KidOK, Outside
  <2>2. CASE ibits = Inodes
    BY <1>0, <1>e, <2>2, AllocInodeEffect DEF KindOK, KidOK, Becomes, OnFd, Outside, Removed,
       Emptying, Named
  <2> QED BY <2>1, <2>2
<1>5. IndexOK(t)'
  BY <1>0, <1>e, AllocInodeEffect DEF KindOK, WalkOK, KidOK, IndexOK, Becomes, OnFd, Outside, Making,
     Opening
<1>6. InoOK(t)'
  BY <1>0, <1>e, AllocInodeEffect, NoInodeType DEF KindOK, InoOK, Becomes, Making, Removed, Removing,
     Emptying
<1> QED BY <1>0, <1>e, AllocInodeEffect, <1>2, <1>3, <1>4, <1>5, <1>6

\* Mkdir takes a block for the new directory: the step keeps the thread's locals what
\* its place asks for.
LEMMA AllocBlockShape ==
  ASSUME SafeInv, NEW t \in Threads, AllocBlock(t)
  PROVE  Steps(t) /\ KindOK(t)' /\ WalkOK(t)' /\ KidOK(t)' /\ IndexOK(t)' /\ InoOK(t)'
<1>0. /\ TypeOK /\ th[t] \in Locals /\ pc[t] \in Labels /\ KindOK(t) /\ WalkOK(t) /\ KidOK(t) /\ IndexOK(t) /\ InoOK(t)
      /\ (th[t].cur # 0 => th[t].cur \in Inodes) /\ (th[t].kid # 0 => th[t].kid \in Inodes)
      /\ th[t].index \in Nat
  BY Own
<1>e. bbits # Blocks => Min(Blocks \ bbits) \in Blocks
  BY <1>0, FreeIn DEF TypeOK
<1>1. Goal(t)' = Goal(t) BY <1>0, <1>e, AllocBlockEffect DEF Goal, Becomes
<1>2. KindOK(t)' BY <1>0, <1>e, AllocBlockEffect DEF KindOK, Becomes
<1>3. WalkOK(t)'
  BY <1>0, <1>e, AllocBlockEffect, <1>1, NameIn DEF KindOK, WalkOK, Becomes, OnFd, Outside
<1>4. KidOK(t)'
  BY <1>0, <1>e, AllocBlockEffect DEF KindOK, KidOK, Becomes, OnFd, Outside, Removed, Emptying, Named,
     Root
<1>5. IndexOK(t)'
  BY <1>0, <1>e, AllocBlockEffect DEF KindOK, WalkOK, KidOK, IndexOK, Becomes, OnFd, Outside, Making,
     Opening
<1>6. InoOK(t)'
  BY <1>0, <1>e, AllocBlockEffect, NoInodeType DEF KindOK, InoOK, Becomes, Making, Removed, Removing,
     Emptying
<1> QED BY <1>0, <1>e, AllocBlockEffect, <1>2, <1>3, <1>4, <1>5, <1>6

\* Dir_add: the step keeps the thread's locals what its place asks for.
LEMMA DirAddShape ==
  ASSUME SafeInv, NEW t \in Threads, DirAdd(t)
  PROVE  Steps(t) /\ KindOK(t)' /\ WalkOK(t)' /\ KidOK(t)' /\ IndexOK(t)' /\ InoOK(t)'
<1>0. /\ TypeOK /\ th[t] \in Locals /\ pc[t] \in Labels /\ KindOK(t) /\ WalkOK(t) /\ KidOK(t) /\ IndexOK(t) /\ InoOK(t)
      /\ (th[t].cur # 0 => th[t].cur \in Inodes) /\ (th[t].kid # 0 => th[t].kid \in Inodes)
      /\ th[t].index \in Nat
  BY Own
<1>1. Goal(t)' = Goal(t) BY <1>0, DirAddEffect DEF Goal, Becomes
<1>2. KindOK(t)' BY <1>0, DirAddEffect DEF KindOK, Becomes
<1>3. WalkOK(t)' BY <1>0, DirAddEffect, <1>1, NameIn DEF KindOK, WalkOK, Becomes, OnFd, Outside
<1>4. KidOK(t)'
  BY <1>0, DirAddEffect DEF KindOK, KidOK, Becomes, OnFd, Outside, Removed, Emptying, Named, Root
<1>5. IndexOK(t)'
  BY <1>0, DirAddEffect DEF KindOK, WalkOK, KidOK, IndexOK, Becomes, OnFd, Outside, Making, Opening
<1>6. InoOK(t)'
  BY <1>0, DirAddEffect, NoInodeType DEF KindOK, InoOK, Becomes, Making, Removed, Removing, Emptying
<1> QED BY <1>0, DirAddEffect, <1>2, <1>3, <1>4, <1>5, <1>6

\* Mkdir hands its block back: the step keeps the thread's locals what its place asks
\* for.
LEMMA UndoBlockShape ==
  ASSUME SafeInv, NEW t \in Threads, UndoBlock(t)
  PROVE  Steps(t) /\ KindOK(t)' /\ WalkOK(t)' /\ KidOK(t)' /\ IndexOK(t)' /\ InoOK(t)'
<1>0. /\ TypeOK /\ th[t] \in Locals /\ pc[t] \in Labels /\ KindOK(t) /\ WalkOK(t) /\ KidOK(t) /\ IndexOK(t) /\ InoOK(t)
      /\ (th[t].cur # 0 => th[t].cur \in Inodes) /\ (th[t].kid # 0 => th[t].kid \in Inodes)
      /\ th[t].index \in Nat
  BY Own
<1>1. Goal(t)' = Goal(t) BY <1>0, UndoBlockEffect DEF Goal, Becomes
<1>2. KindOK(t)' BY <1>0, UndoBlockEffect DEF KindOK, Becomes
<1>3. WalkOK(t)' BY <1>0, UndoBlockEffect, <1>1, NameIn DEF KindOK, WalkOK, Becomes, OnFd, Outside
<1>4. KidOK(t)'
  BY <1>0, UndoBlockEffect DEF KindOK, KidOK, Becomes, OnFd, Outside, Removed, Emptying, Named, Root
<1>5. IndexOK(t)'
  BY <1>0, UndoBlockEffect DEF KindOK, WalkOK, KidOK, IndexOK, Becomes, OnFd, Outside, Making, Opening
<1>6. InoOK(t)'
  BY <1>0, UndoBlockEffect, NoInodeType DEF KindOK, InoOK, Becomes, Making, Removed, Removing,
     Emptying
<1> QED BY <1>0, UndoBlockEffect, <1>2, <1>3, <1>4, <1>5, <1>6

\* The inode that was taken is handed back: the step keeps the thread's locals what
\* its place asks for.
LEMMA UndoInodeShape ==
  ASSUME SafeInv, NEW t \in Threads, UndoInode(t)
  PROVE  Steps(t) /\ KindOK(t)' /\ WalkOK(t)' /\ KidOK(t)' /\ IndexOK(t)' /\ InoOK(t)'
<1>0. /\ TypeOK /\ th[t] \in Locals /\ pc[t] \in Labels /\ KindOK(t) /\ WalkOK(t) /\ KidOK(t) /\ IndexOK(t) /\ InoOK(t)
      /\ (th[t].cur # 0 => th[t].cur \in Inodes) /\ (th[t].kid # 0 => th[t].kid \in Inodes)
      /\ th[t].index \in Nat
  BY Own
<1>1. Goal(t)' = Goal(t) BY <1>0, UndoInodeEffect DEF Goal, Becomes
<1>2. KindOK(t)' BY <1>0, UndoInodeEffect DEF KindOK, Becomes
<1>3. WalkOK(t)' BY <1>0, UndoInodeEffect, <1>1, NameIn DEF KindOK, WalkOK, Becomes, OnFd, Outside
<1>4. KidOK(t)'
  BY <1>0, UndoInodeEffect DEF KindOK, KidOK, Becomes, OnFd, Outside, Removed, Emptying, Named, Root
<1>5. IndexOK(t)'
  BY <1>0, UndoInodeEffect DEF KindOK, WalkOK, KidOK, IndexOK, Becomes, OnFd, Outside, Making, Opening
<1>6. InoOK(t)'
  BY <1>0, UndoInodeEffect, NoInodeType DEF KindOK, InoOK, Becomes, Making, Removed, Removing,
     Emptying
<1> QED BY <1>0, UndoInodeEffect, <1>2, <1>3, <1>4, <1>5, <1>6

\* The new inode is written: the step keeps the thread's locals what its place asks
\* for.
LEMMA WriteNewShape ==
  ASSUME SafeInv, NEW t \in Threads, WriteNew(t)
  PROVE  Steps(t) /\ KindOK(t)' /\ WalkOK(t)' /\ KidOK(t)' /\ IndexOK(t)' /\ InoOK(t)'
<1>0. /\ TypeOK /\ th[t] \in Locals /\ pc[t] \in Labels /\ KindOK(t) /\ WalkOK(t) /\ KidOK(t) /\ IndexOK(t) /\ InoOK(t)
      /\ (th[t].cur # 0 => th[t].cur \in Inodes) /\ (th[t].kid # 0 => th[t].kid \in Inodes)
      /\ th[t].index \in Nat
  BY Own
<1>1. Goal(t)' = Goal(t) BY <1>0, WriteNewEffect DEF Goal, Becomes
<1>2. KindOK(t)' BY <1>0, WriteNewEffect DEF KindOK, Becomes
<1>3. WalkOK(t)' BY <1>0, WriteNewEffect, <1>1, NameIn DEF KindOK, WalkOK, Becomes, OnFd, Outside
<1>4. KidOK(t)'
  BY <1>0, WriteNewEffect DEF KindOK, KidOK, Becomes, OnFd, Outside, Removed, Emptying, Named, Root
<1>5. IndexOK(t)'
  BY <1>0, WriteNewEffect DEF KindOK, WalkOK, KidOK, IndexOK, Becomes, OnFd, Outside, Making, Opening
<1>6. InoOK(t)'
  BY <1>0, WriteNewEffect, NoInodeType DEF KindOK, InoOK, Becomes, Making, Removed, Removing, Emptying
<1> QED BY <1>0, WriteNewEffect, <1>2, <1>3, <1>4, <1>5, <1>6

\* The directory's inode is written: the step keeps the thread's locals what its place
\* asks for.
LEMMA WriteDirShape ==
  ASSUME SafeInv, NEW t \in Threads, WriteDir(t)
  PROVE  Steps(t) /\ KindOK(t)' /\ WalkOK(t)' /\ KidOK(t)' /\ IndexOK(t)' /\ InoOK(t)'
<1>0. /\ TypeOK /\ th[t] \in Locals /\ pc[t] \in Labels /\ KindOK(t) /\ WalkOK(t) /\ KidOK(t) /\ IndexOK(t) /\ InoOK(t)
      /\ (th[t].cur # 0 => th[t].cur \in Inodes) /\ (th[t].kid # 0 => th[t].kid \in Inodes)
      /\ th[t].index \in Nat
  BY Own
<1>1. Goal(t)' = Goal(t) BY <1>0, WriteDirEffect DEF Goal, Becomes
<1>2. KindOK(t)' BY <1>0, WriteDirEffect DEF KindOK, Becomes
<1>3. WalkOK(t)' BY <1>0, WriteDirEffect, <1>1, NameIn DEF KindOK, WalkOK, Becomes, OnFd, Outside
<1>4. KidOK(t)'
  BY <1>0, WriteDirEffect DEF KindOK, KidOK, Becomes, OnFd, Outside, Removed, Emptying, Named, Root
<1>5. IndexOK(t)'
  BY <1>0, WriteDirEffect DEF KindOK, WalkOK, KidOK, IndexOK, Becomes, OnFd, Outside, Making, Opening
<1>6. InoOK(t)'
  BY <1>0, WriteDirEffect, NoInodeType DEF KindOK, InoOK, Becomes, Making, Removed, Removing, Emptying
<1> QED BY <1>0, WriteDirEffect, <1>2, <1>3, <1>4, <1>5, <1>6

\* Unlink and rmdir check what they would remove: the step keeps the thread's locals
\* what its place asks for.
LEMMA CheckShape ==
  ASSUME SafeInv, NEW t \in Threads, Check(t)
  PROVE  Steps(t) /\ KindOK(t)' /\ WalkOK(t)' /\ KidOK(t)' /\ IndexOK(t)' /\ InoOK(t)'
<1>0. /\ TypeOK /\ th[t] \in Locals /\ pc[t] \in Labels /\ KindOK(t) /\ WalkOK(t) /\ KidOK(t) /\ IndexOK(t) /\ InoOK(t)
      /\ (th[t].cur # 0 => th[t].cur \in Inodes) /\ (th[t].kid # 0 => th[t].kid \in Inodes)
      /\ th[t].index \in Nat
  BY Own
<1>e. th[t].cur # 0 /\ inode[th[t].cur].mode = "dir"
  <2> pc[t] = "check" BY DEF Check
  <2>1. th[t].cur # 0 BY <1>0 DEF WalkOK, KindOK, OnFd, Outside
  <2> QED BY <2>1 DEF SafeInv, ThereInv, HeldOK, Named, IsDir
<1>1. Goal(t)' = Goal(t) BY <1>0, <1>e, CheckEffect DEF Goal, Becomes
<1>2. KindOK(t)' BY <1>0, <1>e, CheckEffect DEF KindOK, Becomes
<1>3. WalkOK(t)' BY <1>0, <1>e, CheckEffect, <1>1, NameIn DEF KindOK, WalkOK, Becomes, OnFd, Outside
<1>4. KidOK(t)'
  BY <1>0, <1>e, CheckEffect DEF KindOK, KidOK, Becomes, OnFd, Outside, Removed, Emptying, Named, Root
<1>5. IndexOK(t)'
  BY <1>0, <1>e, CheckEffect DEF KindOK, WalkOK, KidOK, IndexOK, Becomes, OnFd, Outside, Making,
     Opening
<1>6. InoOK(t)'
  BY <1>0, <1>e, CheckEffect, NoInodeType DEF KindOK, InoOK, Becomes, Making, Removed, Removing,
     Emptying
<1> QED BY <1>0, <1>e, CheckEffect, <1>2, <1>3, <1>4, <1>5, <1>6

\* Dir_remove: the step keeps the thread's locals what its place asks for.
LEMMA DirRemoveShape ==
  ASSUME SafeInv, NEW t \in Threads, DirRemove(t)
  PROVE  Steps(t) /\ KindOK(t)' /\ WalkOK(t)' /\ KidOK(t)' /\ IndexOK(t)' /\ InoOK(t)'
<1>0. /\ TypeOK /\ th[t] \in Locals /\ pc[t] \in Labels /\ KindOK(t) /\ WalkOK(t) /\ KidOK(t) /\ IndexOK(t) /\ InoOK(t)
      /\ (th[t].cur # 0 => th[t].cur \in Inodes) /\ (th[t].kid # 0 => th[t].kid \in Inodes)
      /\ th[t].index \in Nat
  BY Own
<1>1. Goal(t)' = Goal(t) BY <1>0, DirRemoveEffect DEF Goal, Becomes
<1>2. KindOK(t)' BY <1>0, DirRemoveEffect DEF KindOK, Becomes
<1>3. WalkOK(t)' BY <1>0, DirRemoveEffect, <1>1, NameIn DEF KindOK, WalkOK, Becomes, OnFd, Outside
<1>4. KidOK(t)'
  BY <1>0, DirRemoveEffect DEF KindOK, KidOK, Becomes, OnFd, Outside, Removed, Emptying, Named, Root
<1>5. IndexOK(t)'
  BY <1>0, DirRemoveEffect DEF KindOK, WalkOK, KidOK, IndexOK, Becomes, OnFd, Outside, Making, Opening
<1>6. InoOK(t)'
  BY <1>0, DirRemoveEffect, NoInodeType DEF KindOK, InoOK, Becomes, Making, Removed, Removing,
     Emptying
<1> QED BY <1>0, DirRemoveEffect, <1>2, <1>3, <1>4, <1>5, <1>6

\* O_TRUNC looks at the file: the step keeps the thread's locals what its place asks
\* for.
LEMMA TruncateShape ==
  ASSUME SafeInv, NEW t \in Threads, Truncate(t)
  PROVE  Steps(t) /\ KindOK(t)' /\ WalkOK(t)' /\ KidOK(t)' /\ IndexOK(t)' /\ InoOK(t)'
<1>0. /\ TypeOK /\ th[t] \in Locals /\ pc[t] \in Labels /\ KindOK(t) /\ WalkOK(t) /\ KidOK(t) /\ IndexOK(t) /\ InoOK(t)
      /\ (th[t].cur # 0 => th[t].cur \in Inodes) /\ (th[t].kid # 0 => th[t].kid \in Inodes)
      /\ th[t].index \in Nat
  BY Own
<1>1. Goal(t)' = Goal(t) BY <1>0, TruncateEffect DEF Goal, Becomes
<1>2. KindOK(t)' BY <1>0, TruncateEffect DEF KindOK, Becomes
<1>3. WalkOK(t)' BY <1>0, TruncateEffect, <1>1, NameIn DEF KindOK, WalkOK, Becomes, OnFd, Outside
<1>4. KidOK(t)'
  BY <1>0, TruncateEffect DEF KindOK, KidOK, Becomes, OnFd, Outside, Removed, Emptying, Named, Root
<1>5. IndexOK(t)'
  BY <1>0, TruncateEffect DEF KindOK, WalkOK, KidOK, IndexOK, Becomes, OnFd, Outside, Making, Opening
<1>6. InoOK(t)'
  BY <1>0, TruncateEffect, NoInodeType DEF KindOK, InoOK, Becomes, Making, Removed, Removing, Emptying
<1> QED BY <1>0, TruncateEffect, <1>2, <1>3, <1>4, <1>5, <1>6

\* Free_all_blocks: the step keeps the thread's locals what its place asks for.
LEMMA FreeBlocksShape ==
  ASSUME SafeInv, NEW t \in Threads, FreeBlocks(t)
  PROVE  Steps(t) /\ KindOK(t)' /\ WalkOK(t)' /\ KidOK(t)' /\ IndexOK(t)' /\ InoOK(t)'
<1>0. /\ TypeOK /\ th[t] \in Locals /\ pc[t] \in Labels /\ KindOK(t) /\ WalkOK(t) /\ KidOK(t) /\ IndexOK(t) /\ InoOK(t)
      /\ (th[t].cur # 0 => th[t].cur \in Inodes) /\ (th[t].kid # 0 => th[t].kid \in Inodes)
      /\ th[t].index \in Nat
  BY Own
<1>1. Goal(t)' = Goal(t) BY <1>0, FreeBlocksEffect DEF Goal, Becomes
<1>2. KindOK(t)' BY <1>0, FreeBlocksEffect DEF KindOK, Becomes
<1>3. WalkOK(t)' BY <1>0, FreeBlocksEffect, <1>1, NameIn DEF KindOK, WalkOK, Becomes, OnFd, Outside
<1>4. KidOK(t)'
  BY <1>0, FreeBlocksEffect DEF KindOK, KidOK, Becomes, OnFd, Outside, Removed, Emptying, Named, Root
<1>5. IndexOK(t)'
  BY <1>0, FreeBlocksEffect DEF KindOK, WalkOK, KidOK, IndexOK, Becomes, OnFd, Outside, Making,
     Opening
<1>6. InoOK(t)'
  BY <1>0, FreeBlocksEffect, NoInodeType DEF KindOK, InoOK, Becomes, Making, Removed, Removing,
     Emptying
<1> QED BY <1>0, FreeBlocksEffect, <1>2, <1>3, <1>4, <1>5, <1>6

\* The emptied inode is written: the step keeps the thread's locals what its place
\* asks for.
LEMMA WriteFileShape ==
  ASSUME SafeInv, NEW t \in Threads, WriteFile(t)
  PROVE  Steps(t) /\ KindOK(t)' /\ WalkOK(t)' /\ KidOK(t)' /\ IndexOK(t)' /\ InoOK(t)'
<1>0. /\ TypeOK /\ th[t] \in Locals /\ pc[t] \in Labels /\ KindOK(t) /\ WalkOK(t) /\ KidOK(t) /\ IndexOK(t) /\ InoOK(t)
      /\ (th[t].cur # 0 => th[t].cur \in Inodes) /\ (th[t].kid # 0 => th[t].kid \in Inodes)
      /\ th[t].index \in Nat
  BY Own
<1>1. Goal(t)' = Goal(t) BY <1>0, WriteFileEffect DEF Goal, Becomes
<1>2. KindOK(t)' BY <1>0, WriteFileEffect DEF KindOK, Becomes
<1>3. WalkOK(t)' BY <1>0, WriteFileEffect, <1>1, NameIn DEF KindOK, WalkOK, Becomes, OnFd, Outside
<1>4. KidOK(t)'
  BY <1>0, WriteFileEffect DEF KindOK, KidOK, Becomes, OnFd, Outside, Removed, Emptying, Named, Root
<1>5. IndexOK(t)'
  BY <1>0, WriteFileEffect DEF KindOK, WalkOK, KidOK, IndexOK, Becomes, OnFd, Outside, Making, Opening
<1>6. InoOK(t)'
  BY <1>0, WriteFileEffect, NoInodeType DEF KindOK, InoOK, Becomes, Making, Removed, Removing,
     Emptying
<1> QED BY <1>0, WriteFileEffect, <1>2, <1>3, <1>4, <1>5, <1>6

\* The removed inode is cleared: the step keeps the thread's locals what its place
\* asks for.
LEMMA ClearInodeShape ==
  ASSUME SafeInv, NEW t \in Threads, ClearInode(t)
  PROVE  Steps(t) /\ KindOK(t)' /\ WalkOK(t)' /\ KidOK(t)' /\ IndexOK(t)' /\ InoOK(t)'
<1>0. /\ TypeOK /\ th[t] \in Locals /\ pc[t] \in Labels /\ KindOK(t) /\ WalkOK(t) /\ KidOK(t) /\ IndexOK(t) /\ InoOK(t)
      /\ (th[t].cur # 0 => th[t].cur \in Inodes) /\ (th[t].kid # 0 => th[t].kid \in Inodes)
      /\ th[t].index \in Nat
  BY Own
<1>1. Goal(t)' = Goal(t) BY <1>0, ClearInodeEffect DEF Goal, Becomes
<1>2. KindOK(t)' BY <1>0, ClearInodeEffect DEF KindOK, Becomes
<1>3. WalkOK(t)' BY <1>0, ClearInodeEffect, <1>1, NameIn DEF KindOK, WalkOK, Becomes, OnFd, Outside
<1>4. KidOK(t)'
  BY <1>0, ClearInodeEffect DEF KindOK, KidOK, Becomes, OnFd, Outside, Removed, Emptying, Named, Root
<1>5. IndexOK(t)'
  BY <1>0, ClearInodeEffect DEF KindOK, WalkOK, KidOK, IndexOK, Becomes, OnFd, Outside, Making,
     Opening
<1>6. InoOK(t)'
  BY <1>0, ClearInodeEffect, NoInodeType DEF KindOK, InoOK, Becomes, Making, Removed, Removing,
     Emptying
<1> QED BY <1>0, ClearInodeEffect, <1>2, <1>3, <1>4, <1>5, <1>6

\* Free_inode: the step keeps the thread's locals what its place asks for.
LEMMA FreeInodeShape ==
  ASSUME SafeInv, NEW t \in Threads, FreeInode(t)
  PROVE  Steps(t) /\ KindOK(t)' /\ WalkOK(t)' /\ KidOK(t)' /\ IndexOK(t)' /\ InoOK(t)'
<1>0. /\ TypeOK /\ th[t] \in Locals /\ pc[t] \in Labels /\ KindOK(t) /\ WalkOK(t) /\ KidOK(t) /\ IndexOK(t) /\ InoOK(t)
      /\ (th[t].cur # 0 => th[t].cur \in Inodes) /\ (th[t].kid # 0 => th[t].kid \in Inodes)
      /\ th[t].index \in Nat
  BY Own
<1>1. Goal(t)' = Goal(t) BY <1>0, FreeInodeEffect DEF Goal, Becomes
<1>2. KindOK(t)' BY <1>0, FreeInodeEffect DEF KindOK, Becomes
<1>3. WalkOK(t)' BY <1>0, FreeInodeEffect, <1>1, NameIn DEF KindOK, WalkOK, Becomes, OnFd, Outside
<1>4. KidOK(t)'
  BY <1>0, FreeInodeEffect DEF KindOK, KidOK, Becomes, OnFd, Outside, Removed, Emptying, Named, Root
<1>5. IndexOK(t)'
  BY <1>0, FreeInodeEffect DEF KindOK, WalkOK, KidOK, IndexOK, Becomes, OnFd, Outside, Making, Opening
<1>6. InoOK(t)'
  BY <1>0, FreeInodeEffect, NoInodeType DEF KindOK, InoOK, Becomes, Making, Removed, Removing,
     Emptying
<1> QED BY <1>0, FreeInodeEffect, <1>2, <1>3, <1>4, <1>5, <1>6

\* Alloc_all gives back what it had taken: the step keeps the thread's locals what its
\* place asks for.
LEMMA GiveBackShape ==
  ASSUME SafeInv, NEW t \in Threads, GiveBack(t)
  PROVE  Steps(t) /\ KindOK(t)' /\ WalkOK(t)' /\ KidOK(t)' /\ IndexOK(t)' /\ InoOK(t)'
<1>0. /\ TypeOK /\ th[t] \in Locals /\ pc[t] \in Labels /\ KindOK(t) /\ WalkOK(t) /\ KidOK(t) /\ IndexOK(t) /\ InoOK(t)
      /\ (th[t].cur # 0 => th[t].cur \in Inodes) /\ (th[t].kid # 0 => th[t].kid \in Inodes)
      /\ th[t].index \in Nat
  BY Own
<1>1. Goal(t)' = Goal(t) BY <1>0, GiveBackEffect DEF Goal, Becomes
<1>2. KindOK(t)' BY <1>0, GiveBackEffect DEF KindOK, Becomes
<1>3. WalkOK(t)' BY <1>0, GiveBackEffect, <1>1, NameIn DEF KindOK, WalkOK, Becomes, OnFd, Outside
<1>4. KidOK(t)'
  BY <1>0, GiveBackEffect DEF KindOK, KidOK, Becomes, OnFd, Outside, Removed, Emptying, Named, Root
<1>5. IndexOK(t)'
  BY <1>0, GiveBackEffect DEF KindOK, WalkOK, KidOK, IndexOK, Becomes, OnFd, Outside, Making, Opening
<1>6. InoOK(t)'
  BY <1>0, GiveBackEffect, NoInodeType DEF KindOK, InoOK, Becomes, Making, Removed, Removing, Emptying
<1> QED BY <1>0, GiveBackEffect, <1>2, <1>3, <1>4, <1>5, <1>6

\* Write_inode after a chunk: the step keeps the thread's locals what its place asks
\* for.
LEMMA StoreShape ==
  ASSUME SafeInv, NEW t \in Threads, Store(t)
  PROVE  Steps(t) /\ KindOK(t)' /\ WalkOK(t)' /\ KidOK(t)' /\ IndexOK(t)' /\ InoOK(t)'
<1>0. /\ TypeOK /\ th[t] \in Locals /\ pc[t] \in Labels /\ KindOK(t) /\ WalkOK(t) /\ KidOK(t) /\ IndexOK(t) /\ InoOK(t)
      /\ (th[t].cur # 0 => th[t].cur \in Inodes) /\ (th[t].kid # 0 => th[t].kid \in Inodes)
      /\ th[t].index \in Nat
  BY Own
<1>1. Goal(t)' = Goal(t) BY <1>0, StoreEffect DEF Goal, Becomes
<1>2. KindOK(t)' BY <1>0, StoreEffect DEF KindOK, Becomes
<1>3. WalkOK(t)' BY <1>0, StoreEffect, <1>1, NameIn DEF KindOK, WalkOK, Becomes, OnFd, Outside
<1>4. KidOK(t)'
  BY <1>0, StoreEffect DEF KindOK, KidOK, Becomes, OnFd, Outside, Removed, Emptying, Named, Root
<1>5. IndexOK(t)'
  BY <1>0, StoreEffect DEF KindOK, WalkOK, KidOK, IndexOK, Becomes, OnFd, Outside, Making, Opening
<1>6. InoOK(t)'
  BY <1>0, StoreEffect, NoInodeType DEF KindOK, InoOK, Becomes, Making, Removed, Removing, Emptying
<1> QED BY <1>0, StoreEffect, <1>2, <1>3, <1>4, <1>5, <1>6

\* A call with a path begins: the step keeps the thread's locals what its place asks
\* for.
LEMMA CallPathShape ==
  ASSUME SafeInv, NEW t \in Threads, CallPath(t)
  PROVE  Steps(t) /\ KindOK(t)' /\ WalkOK(t)' /\ KidOK(t)' /\ IndexOK(t)' /\ InoOK(t)'
<1>0. /\ TypeOK /\ th[t] \in Locals /\ pc[t] \in Labels /\ KindOK(t) /\ WalkOK(t) /\ KidOK(t) /\ IndexOK(t) /\ InoOK(t)
      /\ (th[t].cur # 0 => th[t].cur \in Inodes) /\ (th[t].kid # 0 => th[t].kid \in Inodes)
      /\ th[t].index \in Nat
  BY Own
<1>e. th'[t].path \in Seq(Names) /\ th'[t].path # <<>> BY <1>0, CallPathEffect, PathsAssumption
<1>f. Goal(t)' >= 0
  <2> DEFINE p == th'[t].path
  <2>1. p \in Seq(Names) /\ p # <<>> BY <1>e
  <2> HIDE DEF p
  <2>2. Len(p) \in Nat /\ Len(p) # 0 BY <2>1
  <2>3. Goal(t)' = IF th'[t].kind \in {"open", "stat"} THEN Len(p) - 0 ELSE Len(p) - 1 BY DEF Goal, p
  <2> QED BY <2>2, <2>3
<1>2. KindOK(t)' BY <1>0, <1>e, <1>f, CallPathEffect DEF KindOK, Becomes
<1>3. WalkOK(t)'
  BY <1>0, <1>e, <1>f, CallPathEffect, NameIn DEF KindOK, WalkOK, Becomes, OnFd, Outside
<1>4. KidOK(t)'
  BY <1>0, <1>e, <1>f, CallPathEffect DEF KindOK, KidOK, Becomes, OnFd, Outside, Removed, Emptying,
     Named, Root
<1>5. IndexOK(t)'
  BY <1>0, <1>e, <1>f, CallPathEffect DEF KindOK, WalkOK, KidOK, IndexOK, Becomes, OnFd, Outside,
     Making, Opening
<1>6. InoOK(t)'
  BY <1>0, <1>e, <1>f, CallPathEffect, NoInodeType DEF KindOK, InoOK, Becomes, Making, Removed,
     Removing, Emptying
<1> QED BY <1>0, <1>e, <1>f, CallPathEffect, <1>2, <1>3, <1>4, <1>5, <1>6

\* A call on a descriptor begins: the step keeps the thread's locals what its place
\* asks for.
LEMMA CallFdShape ==
  ASSUME SafeInv, NEW t \in Threads, CallFd(t)
  PROVE  Steps(t) /\ KindOK(t)' /\ WalkOK(t)' /\ KidOK(t)' /\ IndexOK(t)' /\ InoOK(t)'
<1>0. /\ TypeOK /\ th[t] \in Locals /\ pc[t] \in Labels /\ KindOK(t) /\ WalkOK(t) /\ KidOK(t) /\ IndexOK(t) /\ InoOK(t)
      /\ (th[t].cur # 0 => th[t].cur \in Inodes) /\ (th[t].kid # 0 => th[t].kid \in Inodes)
      /\ th[t].index \in Nat
  BY Own
<1>2. KindOK(t)' BY <1>0, CallFdEffect DEF KindOK, Becomes
<1>3. WalkOK(t)' BY <1>0, CallFdEffect, NameIn DEF KindOK, WalkOK, Becomes, OnFd, Outside
<1>4. KidOK(t)'
  BY <1>0, CallFdEffect DEF KindOK, KidOK, Becomes, OnFd, Outside, Removed, Emptying, Named, Root
<1>5. IndexOK(t)'
  BY <1>0, CallFdEffect DEF KindOK, WalkOK, KidOK, IndexOK, Becomes, OnFd, Outside, Making, Opening
<1>6. InoOK(t)'
  BY <1>0, CallFdEffect, NoInodeType DEF KindOK, InoOK, Becomes, Making, Removed, Removing, Emptying
<1> QED BY <1>0, CallFdEffect, <1>2, <1>3, <1>4, <1>5, <1>6

\* Vfs_fsync waits for a commit: the step keeps the thread's locals what its place
\* asks for.
LEMMA FsyncShape ==
  ASSUME SafeInv, NEW t \in Threads, Fsync(t)
  PROVE  Steps(t) /\ KindOK(t)' /\ WalkOK(t)' /\ KidOK(t)' /\ IndexOK(t)' /\ InoOK(t)'
<1>0. /\ TypeOK /\ th[t] \in Locals /\ pc[t] \in Labels /\ KindOK(t) /\ WalkOK(t) /\ KidOK(t) /\ IndexOK(t) /\ InoOK(t)
      /\ (th[t].cur # 0 => th[t].cur \in Inodes) /\ (th[t].kid # 0 => th[t].kid \in Inodes)
      /\ th[t].index \in Nat
  BY Own
<1>2. KindOK(t)' BY <1>0, FsyncEffect DEF KindOK, Becomes
<1>3. WalkOK(t)' BY <1>0, FsyncEffect, NameIn DEF KindOK, WalkOK, Becomes, OnFd, Outside
<1>4. KidOK(t)'
  BY <1>0, FsyncEffect DEF KindOK, KidOK, Becomes, OnFd, Outside, Removed, Emptying, Named, Root
<1>5. IndexOK(t)'
  BY <1>0, FsyncEffect DEF KindOK, WalkOK, KidOK, IndexOK, Becomes, OnFd, Outside, Making, Opening
<1>6. InoOK(t)'
  BY <1>0, FsyncEffect, NoInodeType DEF KindOK, InoOK, Becomes, Making, Removed, Removing, Emptying
<1> QED BY <1>0, FsyncEffect, <1>2, <1>3, <1>4, <1>5, <1>6

\* Alloc_all takes one more block: the step keeps the thread's locals what its place
\* asks for.
LEMMA TakeShape ==
  ASSUME SafeInv, NEW t \in Threads, Take(t)
  PROVE  Steps(t) /\ KindOK(t)' /\ WalkOK(t)' /\ KidOK(t)' /\ IndexOK(t)' /\ InoOK(t)'
<1>0. /\ TypeOK /\ th[t] \in Locals /\ pc[t] \in Labels /\ KindOK(t) /\ WalkOK(t) /\ KidOK(t) /\ IndexOK(t) /\ InoOK(t)
      /\ (th[t].cur # 0 => th[t].cur \in Inodes) /\ (th[t].kid # 0 => th[t].kid \in Inodes)
      /\ th[t].index \in Nat
  BY Own
<1>e. Becomes(th[t], th'[t], th[t].depth, th[t].cur, th[t].kid, th[t].held, th'[t].index, th'[t].ino,
              th'[t].got, th[t].over)
  BY <1>0, TakeEffect, SetNone DEF Becomes, Bumped
<1>g. pc'[t] = "take" => th'[t].got = <<>> \/ Len(th'[t].got) < Needed(th'[t].ino, Index(t)')
  <2>1. th'[t].ino = th[t].ino /\ th'[t].index = th[t].index => Index(t)' = Index(t)
    BY <1>e DEF Index, Becomes
  <2> QED BY <1>0, <2>1, TakeEffect DEF Becomes, Bumped
<1>f. th'[t].ino.mode = th[t].ino.mode
  <2>1. CASE th'[t].ino = th[t].ino BY <2>1
  <2>2. CASE ~NoBlock(t) /\ Min(Blocks \ bbits) \in Blocks /\ th'[t].ino = With(th[t].ino, Index(t), Append(th[t].got, Min(Blocks \ bbits)))
    <3>1. Index(t) \in Indexes BY <2>2, <1>0, IndexType DEF NoBlock
    <3> DEFINE g == Append(th[t].got, Min(Blocks \ bbits))
    <3>2. g \in Seq(Blocks) /\ g # <<>> BY <2>2, Own, AppendIn
    <3> HIDE DEF g
    <3>3. th[t].ino \in InodeType BY Own
    <3>4. With(th[t].ino, Index(t), g).mode = th[t].ino.mode BY <3>1, <3>2, <3>3, ModeKept
    <3> QED BY <2>2, <3>4 DEF g
  <2> QED BY <1>0, <2>1, <2>2, TakeEffect DEF Becomes, Bumped
<1>h. /\ pc'[t] \in {"take", "give_back", "store", "write_new"}
      /\ th[t].kind \in Writes /\ pc'[t] \in {"take", "give_back"} => th'[t].index \in Indexes
      /\ th[t].kind \in Writes => pc'[t] \in {"take", "give_back", "store"}
      /\ th[t].kind \notin Writes => th'[t].index = th[t].index /\ pc'[t] # "store"
  <2>1. \A k \in Nat : k < MaxIndex => k + 1 \in Indexes BY MaxIndex \in Nat DEF Indexes
  <2> QED BY <1>0, <2>1, TakeEffect, OnwardLabels DEF Bumped, Becomes, IndexOK
<1>1. Goal(t)' = Goal(t)
  BY <1>0, <1>e, <1>f, <1>g, <1>h, TakeEffect, OnwardLabels DEF Goal, Becomes, Bumped
<1>2. KindOK(t)' BY <1>0, <1>e, <1>f, <1>g, <1>h, TakeEffect, OnwardLabels DEF KindOK, Becomes, Bumped
<1>3. WalkOK(t)'
  BY <1>0, <1>e, <1>f, <1>g, <1>h, TakeEffect, OnwardLabels, <1>1, NameIn DEF KindOK, WalkOK, Becomes,
     OnFd, Outside, Bumped
<1>4. KidOK(t)'
  BY <1>0, <1>e, <1>f, <1>g, <1>h, TakeEffect, OnwardLabels DEF KindOK, KidOK, Becomes, OnFd, Outside,
     Removed, Emptying, Named, Root, Bumped
<1>5. IndexOK(t)'
  BY <1>0, <1>e, <1>f, <1>g, <1>h, TakeEffect, OnwardLabels DEF KindOK, WalkOK, KidOK, IndexOK,
     Becomes, OnFd, Outside, Making, Opening, Bumped
<1>6. InoOK(t)'
  BY <1>0, <1>e, <1>f, <1>g, <1>h, TakeEffect, OnwardLabels, NoInodeType DEF KindOK, InoOK, Becomes,
     Making, Removed, Removing, Emptying, Bumped
<1> QED BY <1>0, <1>e, <1>f, <1>g, <1>h, TakeEffect, OnwardLabels, <1>2, <1>3, <1>4, <1>5, <1>6

\* The block is there already: the step keeps the thread's locals what its place asks
\* for.
LEMMA OverwriteShape ==
  ASSUME SafeInv, NEW t \in Threads, Overwrite(t)
  PROVE  Steps(t) /\ KindOK(t)' /\ WalkOK(t)' /\ KidOK(t)' /\ IndexOK(t)' /\ InoOK(t)'
<1>0. /\ TypeOK /\ th[t] \in Locals /\ pc[t] \in Labels /\ KindOK(t) /\ WalkOK(t) /\ KidOK(t) /\ IndexOK(t) /\ InoOK(t)
      /\ (th[t].cur # 0 => th[t].cur \in Inodes) /\ (th[t].kid # 0 => th[t].kid \in Inodes)
      /\ th[t].index \in Nat
  BY Own
<1>e. th'[t].ino.mode = th[t].ino.mode
  <2>1. th'[t].ino = Sizing(th[t].ino, Index(t)) BY <1>0, OverwriteEffect DEF Bumped, Becomes
  <2>2. th[t].ino \in InodeType /\ Index(t) \in Nat BY <1>0, Own, IndexType
  <2>3. Sizing(th[t].ino, Index(t)).mode = th[t].ino.mode BY <2>2, ModeKept
  <2> QED BY <2>1, <2>3
<1>g. th[t].got = <<>> /\ th'[t].got = <<>>
  <2>1. Needed(th[t].ino, Index(t)) = 0 BY DEF Overwrite
  <2>2. th[t].got = <<>> BY <2>1, <1>0, Own, OverwriteEffect DEF InoOK
  <2> QED BY <1>0, <2>2, OverwriteEffect DEF Bumped, Becomes
<1>f. /\ pc'[t] \in {"take", "give_back", "store", "write_new"}
      /\ th[t].kind \in Writes /\ pc'[t] \in {"take", "give_back"} => th'[t].index \in Indexes
      /\ th[t].kind \in Writes => pc'[t] \in {"take", "give_back", "store"}
      /\ th[t].kind \notin Writes => th'[t].index = th[t].index /\ pc'[t] # "store"
  <2>1. \A k \in Nat : k < MaxIndex => k + 1 \in Indexes BY MaxIndex \in Nat DEF Indexes
  <2> QED BY <1>0, <2>1, OverwriteEffect, OnwardLabels DEF Bumped, Becomes, IndexOK
<1>1. Goal(t)' = Goal(t)
  BY <1>0, <1>e, <1>f, <1>g, OverwriteEffect, OnwardLabels DEF Goal, Becomes, Bumped
<1>2. KindOK(t)' BY <1>0, <1>e, <1>f, <1>g, OverwriteEffect, OnwardLabels DEF KindOK, Becomes, Bumped
<1>3. WalkOK(t)'
  BY <1>0, <1>e, <1>f, <1>g, OverwriteEffect, OnwardLabels, <1>1, NameIn DEF KindOK, WalkOK, Becomes,
     OnFd, Outside, Bumped
<1>4. KidOK(t)'
  BY <1>0, <1>e, <1>f, <1>g, OverwriteEffect, OnwardLabels DEF KindOK, KidOK, Becomes, OnFd, Outside,
     Removed, Emptying, Named, Root, Bumped
<1>5. IndexOK(t)'
  BY <1>0, <1>e, <1>f, <1>g, OverwriteEffect, OnwardLabels DEF KindOK, WalkOK, KidOK, IndexOK,
     Becomes, OnFd, Outside, Making, Opening, Bumped
<1>6. InoOK(t)'
  BY <1>0, <1>e, <1>f, <1>g, OverwriteEffect, OnwardLabels, NoInodeType DEF KindOK, InoOK, Becomes,
     Making, Removed, Removing, Emptying, Bumped
<1> QED BY <1>0, <1>e, <1>f, <1>g, OverwriteEffect, OnwardLabels, <1>2, <1>3, <1>4, <1>5, <1>6

\* A call on a descriptor locks its file: the step keeps the thread's locals what its
\* place asks for.
LEMMA LockFileShape ==
  ASSUME SafeInv, NEW t \in Threads, LockFile(t)
  PROVE  Steps(t) /\ KindOK(t)' /\ WalkOK(t)' /\ KidOK(t)' /\ IndexOK(t)' /\ InoOK(t)'
<1>0. /\ TypeOK /\ th[t] \in Locals /\ pc[t] \in Labels /\ KindOK(t) /\ WalkOK(t) /\ KidOK(t) /\ IndexOK(t) /\ InoOK(t)
      /\ (th[t].cur # 0 => th[t].cur \in Inodes) /\ (th[t].kid # 0 => th[t].kid \in Inodes)
      /\ th[t].index \in Nat
  BY Own
<1>e. files[th[t].fd] \in Inodes
  <2> pc[t] = "lock_file" BY DEF LockFile
  <2>1. files \in [Fds -> 0..NInodes] BY <1>0 DEF TypeOK
  <2>2. OnFd(t) BY <1>0 DEF KindOK, OnFd
  <2>3. th[t].fd \in Fds /\ files[th[t].fd] # 0 BY <1>0, <2>2 DEF WalkOK, SafeInv, TableInv
  <2> QED BY <2>1, <2>3 DEF Inodes
<1>f. \A k \in Nat : ~(k > MaxIndex) => k \in Indexes BY MaxIndex \in Nat DEF Indexes
<1>1. Goal(t)' = Goal(t) BY <1>0, <1>e, <1>f, LockFileEffect DEF Goal, Becomes
<1>2. KindOK(t)' BY <1>0, <1>e, <1>f, LockFileEffect DEF KindOK, Becomes
<1>3. WalkOK(t)'
  BY <1>0, <1>e, <1>f, LockFileEffect, <1>1, NameIn DEF KindOK, WalkOK, Becomes, OnFd, Outside
<1>4. KidOK(t)'
  BY <1>0, <1>e, <1>f, LockFileEffect DEF KindOK, KidOK, Becomes, OnFd, Outside, Removed, Emptying,
     Named, Root
<1>5. IndexOK(t)'
  BY <1>0, <1>e, <1>f, LockFileEffect DEF KindOK, WalkOK, KidOK, IndexOK, Becomes, OnFd, Outside,
     Making, Opening
<1>6. InoOK(t)'
  BY <1>0, <1>e, <1>f, LockFileEffect, NoInodeType DEF KindOK, InoOK, Becomes, Making, Removed,
     Removing, Emptying
<1> QED BY <1>0, <1>e, <1>f, LockFileEffect, <1>2, <1>3, <1>4, <1>5, <1>6

\* The file is unlocked: the step keeps the thread's locals what its place asks for.
LEMMA UnlockFileShape ==
  ASSUME SafeInv, NEW t \in Threads, UnlockFile(t)
  PROVE  Steps(t) /\ KindOK(t)' /\ WalkOK(t)' /\ KidOK(t)' /\ IndexOK(t)' /\ InoOK(t)'
<1>0. /\ TypeOK /\ th[t] \in Locals /\ pc[t] \in Labels /\ KindOK(t) /\ WalkOK(t) /\ KidOK(t) /\ IndexOK(t) /\ InoOK(t)
      /\ (th[t].cur # 0 => th[t].cur \in Inodes) /\ (th[t].kid # 0 => th[t].kid \in Inodes)
      /\ th[t].index \in Nat
  BY Own
<1>2. KindOK(t)' BY <1>0, UnlockFileEffect, IdleType DEF KindOK, Becomes
<1>3. WalkOK(t)'
  BY <1>0, UnlockFileEffect, IdleType, NameIn DEF KindOK, WalkOK, Becomes, OnFd, Outside
<1>4. KidOK(t)'
  BY <1>0, UnlockFileEffect, IdleType DEF KindOK, KidOK, Becomes, OnFd, Outside, Removed, Emptying,
     Named, Root
<1>5. IndexOK(t)'
  BY <1>0, UnlockFileEffect, IdleType DEF KindOK, WalkOK, KidOK, IndexOK, Becomes, OnFd, Outside,
     Making, Opening
<1>6. InoOK(t)'
  BY <1>0, UnlockFileEffect, IdleType, NoInodeType DEF KindOK, InoOK, Becomes, Making, Removed,
     Removing, Emptying
<1> QED BY <1>0, UnlockFileEffect, IdleType, <1>2, <1>3, <1>4, <1>5, <1>6

\* Vfs_close drops the file: the step keeps the thread's locals what its place asks
\* for.
LEMMA CloseShape ==
  ASSUME SafeInv, NEW t \in Threads, Close(t)
  PROVE  Steps(t) /\ KindOK(t)' /\ WalkOK(t)' /\ KidOK(t)' /\ IndexOK(t)' /\ InoOK(t)'
<1>0. /\ TypeOK /\ th[t] \in Locals /\ pc[t] \in Labels /\ KindOK(t) /\ WalkOK(t) /\ KidOK(t) /\ IndexOK(t) /\ InoOK(t)
      /\ (th[t].cur # 0 => th[t].cur \in Inodes) /\ (th[t].kid # 0 => th[t].kid \in Inodes)
      /\ th[t].index \in Nat
  BY Own
<1>2. KindOK(t)' BY <1>0, CloseEffect, IdleType DEF KindOK, Becomes
<1>3. WalkOK(t)' BY <1>0, CloseEffect, IdleType, NameIn DEF KindOK, WalkOK, Becomes, OnFd, Outside
<1>4. KidOK(t)'
  BY <1>0, CloseEffect, IdleType DEF KindOK, KidOK, Becomes, OnFd, Outside, Removed, Emptying, Named,
     Root
<1>5. IndexOK(t)'
  BY <1>0, CloseEffect, IdleType DEF KindOK, WalkOK, KidOK, IndexOK, Becomes, OnFd, Outside, Making,
     Opening
<1>6. InoOK(t)'
  BY <1>0, CloseEffect, IdleType, NoInodeType DEF KindOK, InoOK, Becomes, Making, Removed, Removing,
     Emptying
<1> QED BY <1>0, CloseEffect, IdleType, <1>2, <1>3, <1>4, <1>5, <1>6

\* The open file enters the table: the step keeps the thread's locals what its place
\* asks for.
LEMMA InstallShape ==
  ASSUME SafeInv, NEW t \in Threads, Install(t)
  PROVE  Steps(t) /\ KindOK(t)' /\ WalkOK(t)' /\ KidOK(t)' /\ IndexOK(t)' /\ InoOK(t)'
<1>0. /\ TypeOK /\ th[t] \in Locals /\ pc[t] \in Labels /\ KindOK(t) /\ WalkOK(t) /\ KidOK(t) /\ IndexOK(t) /\ InoOK(t)
      /\ (th[t].cur # 0 => th[t].cur \in Inodes) /\ (th[t].kid # 0 => th[t].kid \in Inodes)
      /\ th[t].index \in Nat
  BY Own
<1>2. KindOK(t)' BY <1>0, InstallEffect, IdleType DEF KindOK, Becomes
<1>3. WalkOK(t)' BY <1>0, InstallEffect, IdleType, NameIn DEF KindOK, WalkOK, Becomes, OnFd, Outside
<1>4. KidOK(t)'
  BY <1>0, InstallEffect, IdleType DEF KindOK, KidOK, Becomes, OnFd, Outside, Removed, Emptying,
     Named, Root
<1>5. IndexOK(t)'
  BY <1>0, InstallEffect, IdleType DEF KindOK, WalkOK, KidOK, IndexOK, Becomes, OnFd, Outside, Making,
     Opening
<1>6. InoOK(t)'
  BY <1>0, InstallEffect, IdleType, NoInodeType DEF KindOK, InoOK, Becomes, Making, Removed, Removing,
     Emptying
<1> QED BY <1>0, InstallEffect, IdleType, <1>2, <1>3, <1>4, <1>5, <1>6

\* A call leaves its locks: the step keeps the thread's locals what its place asks
\* for.
LEMMA ExitShape ==
  ASSUME SafeInv, NEW t \in Threads, Exit(t)
  PROVE  Steps(t) /\ KindOK(t)' /\ WalkOK(t)' /\ KidOK(t)' /\ IndexOK(t)' /\ InoOK(t)'
<1>0. /\ TypeOK /\ th[t] \in Locals /\ pc[t] \in Labels /\ KindOK(t) /\ WalkOK(t) /\ KidOK(t) /\ IndexOK(t) /\ InoOK(t)
      /\ (th[t].cur # 0 => th[t].cur \in Inodes) /\ (th[t].kid # 0 => th[t].kid \in Inodes)
      /\ th[t].index \in Nat
  BY Own
<1>2. KindOK(t)' BY <1>0, ExitEffect, IdleType DEF KindOK, Becomes
<1>3. WalkOK(t)' BY <1>0, ExitEffect, IdleType, NameIn DEF KindOK, WalkOK, Becomes, OnFd, Outside
<1>4. KidOK(t)'
  BY <1>0, ExitEffect, IdleType DEF KindOK, KidOK, Becomes, OnFd, Outside, Removed, Emptying, Named,
     Root
<1>5. IndexOK(t)'
  BY <1>0, ExitEffect, IdleType DEF KindOK, WalkOK, KidOK, IndexOK, Becomes, OnFd, Outside, Making,
     Opening
<1>6. InoOK(t)'
  BY <1>0, ExitEffect, IdleType, NoInodeType DEF KindOK, InoOK, Becomes, Making, Removed, Removing,
     Emptying
<1> QED BY <1>0, ExitEffect, IdleType, <1>2, <1>3, <1>4, <1>5, <1>6

\* A block cannot be read and the step throws: the step keeps the thread's locals what
\* its place asks for.
LEMMA IoErrorShape ==
  ASSUME SafeInv, NEW t \in Threads, IoError(t)
  PROVE  Steps(t) /\ KindOK(t)' /\ WalkOK(t)' /\ KidOK(t)' /\ IndexOK(t)' /\ InoOK(t)'
<1>0. /\ TypeOK /\ th[t] \in Locals /\ pc[t] \in Labels /\ KindOK(t) /\ WalkOK(t) /\ KidOK(t) /\ IndexOK(t) /\ InoOK(t)
      /\ (th[t].cur # 0 => th[t].cur \in Inodes) /\ (th[t].kid # 0 => th[t].kid \in Inodes)
      /\ th[t].index \in Nat
  BY Own
<1>e. th[t].held \in BOOLEAN /\ pc[t] \in Reads BY <1>0, LocalsFields DEF IoError
<1>1. Goal(t)' = Goal(t) BY <1>0, <1>e, IoErrorEffect DEF Goal, Becomes, Reads
<1>2. KindOK(t)' BY <1>0, <1>e, IoErrorEffect DEF KindOK, Becomes, Reads
<1>3. WalkOK(t)'
  BY <1>0, <1>e, IoErrorEffect, <1>1, NameIn DEF KindOK, WalkOK, Becomes, OnFd, Outside, Reads
<1>4. KidOK(t)'
  <2>1. CASE pc[t] = "write_new" \/ (pc[t] = "write_dir" /\ ~th[t].held)
    BY <1>0, <1>e, <2>1, IoErrorEffect DEF KindOK, KidOK, Becomes, OnFd, Outside, Removed, Emptying,
       Named
  <2>2. CASE pc[t] \in {"dir_add", "take", "store"}
    BY <1>0, <1>e, <2>2, IoErrorEffect DEF KindOK, KidOK, Becomes, OnFd, Outside, Removed, Emptying,
       Named
  <2>3. CASE pc[t] \in {"walk", "at"}
    BY <1>0, <1>e, <2>3, IoErrorEffect DEF KindOK, KidOK, Becomes, OnFd, Outside, Removed, Emptying,
       Named
  <2>4. CASE pc[t] \in {"check", "truncate", "dir_remove", "free_blocks", "write_file", "clear_inode"}
             \/ (pc[t] = "write_dir" /\ th[t].held)
    BY <1>0, <1>e, <2>4, IoErrorEffect DEF KindOK, KidOK, Becomes, OnFd, Outside, Removed, Emptying,
       Named
  <2> QED BY <1>e, <2>1, <2>2, <2>3, <2>4 DEF Reads
<1>5. IndexOK(t)'
  BY <1>0, <1>e, IoErrorEffect DEF KindOK, WalkOK, KidOK, IndexOK, Becomes, OnFd, Outside, Making,
     Opening, Reads
<1>6. InoOK(t)'
  <2>1. th'[t].ino = th[t].ino /\ th'[t].got = th[t].got /\ th'[t].kind = th[t].kind /\ th[t].got = <<>>
    BY <1>0, IoErrorEffect DEF IoError, Becomes
  <2>2. CASE pc'[t] \in {"undo_block", "undo_inode"}
    <3>1. pc[t] \in {"dir_add", "take"} /\ th[t].kind \notin Writes BY <1>0, <2>2, IoErrorEffect
    <3> QED BY <1>0, <2>1, <2>2, <3>1 DEF KindOK, InoOK, Making, Removed, Removing, Emptying
  <2>3. CASE pc'[t] \in {"unlock_file", "exit"}
    BY <1>0, <2>1, <2>3 DEF KindOK, InoOK, Making, Removed, Removing, Emptying
  <2> QED BY <1>0, <2>2, <2>3, IoErrorEffect
<1> QED BY <1>0, <1>e, IoErrorEffect, <1>2, <1>3, <1>4, <1>5, <1>6

-----------------------------------------------------------------------------
(* The lock manager, entry by entry. *)

\* An entry of the lock manager, field by field.
Looks(f, refs, x, s, open_count, valid, ino) ==
  /\ f \in EntryType /\ f.refs = refs /\ f.x = x /\ f.s = s /\ f.open_count = open_count
  /\ f.valid = valid /\ f.inode = ino

\* Only the entry of i changes.
Only(e, f, i) == f \in [Inodes -> EntryType] /\ \A j \in Inodes : j # i => f[j] = e[j]

\* The fields of an entry of the lock manager.
LEMMA EntryFields ==
  ASSUME NEW f \in EntryType
  PROVE  /\ f.refs \in Nat /\ f.x \in Threads \cup {NoThread} /\ f.s \in SUBSET Threads /\ f.open_count \in Nat
         /\ f.valid \in BOOLEAN /\ f.inode \in InodeType
  BY DEF EntryType

\* A record of the entry type with other fields.
LEMMA EntryWith ==
  ASSUME NEW f \in EntryType
  PROVE  /\ \A refs \in Nat : Looks([f EXCEPT !.refs = refs], refs, f.x, f.s, f.open_count, f.valid, f.inode)
         /\ \A x \in Threads \cup {NoThread} :
               Looks([f EXCEPT !.x = x], f.refs, x, f.s, f.open_count, f.valid, f.inode)
         /\ \A s \in SUBSET Threads : Looks([f EXCEPT !.s = s], f.refs, f.x, s, f.open_count, f.valid, f.inode)
         /\ \A c \in Nat : Looks([f EXCEPT !.open_count = c], f.refs, f.x, f.s, c, f.valid, f.inode)
         /\ \A v \in BOOLEAN : Looks([f EXCEPT !.valid = v], f.refs, f.x, f.s, f.open_count, v, f.inode)
         /\ \A ino \in InodeType : Looks([f EXCEPT !.inode = ino], f.refs, f.x, f.s, f.open_count, f.valid, ino)
<1>1. \A refs \in Nat : Looks([f EXCEPT !.refs = refs], refs, f.x, f.s, f.open_count, f.valid, f.inode)
  BY DEF EntryType, Looks
<1>2. \A x \in Threads \cup {NoThread} : Looks([f EXCEPT !.x = x], f.refs, x, f.s, f.open_count, f.valid, f.inode)
  BY DEF EntryType, Looks
<1>3. \A s \in SUBSET Threads : Looks([f EXCEPT !.s = s], f.refs, f.x, s, f.open_count, f.valid, f.inode)
  BY DEF EntryType, Looks
<1>4. \A c \in Nat : Looks([f EXCEPT !.open_count = c], f.refs, f.x, f.s, c, f.valid, f.inode)
  BY DEF EntryType, Looks
<1>5. \A v \in BOOLEAN : Looks([f EXCEPT !.valid = v], f.refs, f.x, f.s, f.open_count, v, f.inode)
  BY DEF EntryType, Looks
<1>6. \A ino \in InodeType : Looks([f EXCEPT !.inode = ino], f.refs, f.x, f.s, f.open_count, f.valid, ino)
  BY DEF EntryType, Looks
<1> QED BY <1>1, <1>2, <1>3, <1>4, <1>5, <1>6

\* An entry has the fields it has.
LEMMA SameLooks ==
  ASSUME NEW f \in EntryType
  PROVE  Looks(f, f.refs, f.x, f.s, f.open_count, f.valid, f.inode)
  BY DEF Looks

\* What acquiring a reference changes of an entry.
LEMMA AcquireIs ==
  ASSUME NEW e \in [Inodes -> EntryType], NEW i \in Inodes
  PROVE  /\ Only(e, Acquire(e, i), i)
         /\ Looks(Acquire(e, i)[i], e[i].refs + 1, e[i].x, e[i].s, e[i].open_count, e[i].valid, e[i].inode)
<1> DEFINE f == [e[i] EXCEPT !.refs = e[i].refs + 1]
<1>1. Looks(f, e[i].refs + 1, e[i].x, e[i].s, e[i].open_count, e[i].valid, e[i].inode)
  <2>1. e[i] \in EntryType /\ e[i].refs + 1 \in Nat BY EntryFields
  <2> QED BY <2>1, EntryWith
<1>2. Acquire(e, i) = [e EXCEPT ![i] = f] BY DEF Acquire
<1> HIDE DEF f
<1>3. f \in EntryType BY <1>1 DEF Looks
<1> QED BY <1>1, <1>2, <1>3 DEF Only

\* What releasing a reference changes of an entry.
LEMMA ReleaseIs ==
  ASSUME NEW e \in [Inodes -> EntryType], NEW i \in Inodes, e[i].refs # 0
  PROVE  /\ Only(e, Release(e, i), i)
         /\ IF e[i].refs = 1 THEN Release(e, i)[i] = NoEntry
            ELSE Looks(Release(e, i)[i], e[i].refs - 1, e[i].x, e[i].s, e[i].open_count, e[i].valid, e[i].inode)
<1> DEFINE g == [e[i] EXCEPT !.refs = e[i].refs - 1]
           f == IF e[i].refs = 1 THEN NoEntry ELSE g
<1>1. Looks(g, e[i].refs - 1, e[i].x, e[i].s, e[i].open_count, e[i].valid, e[i].inode)
  <2>1. e[i] \in EntryType /\ e[i].refs \in Nat BY EntryFields
  <2>2. e[i].refs - 1 \in Nat BY <2>1
  <2> QED BY <2>1, <2>2, EntryWith
<1>2. Release(e, i) = [e EXCEPT ![i] = f]
  <2>1. CASE e[i].refs = 1
    <3>1. f = NoEntry BY <2>1
    <3> HIDE DEF f
    <3> QED BY <2>1, <3>1 DEF Release
  <2>2. CASE e[i].refs # 1
    <3>1. f = g BY <2>2
    <3>2. Release(e, i) = [e EXCEPT ![i] = g] BY <2>2 DEF Release
    <3> HIDE DEF f
    <3> QED BY <3>1, <3>2
  <2> QED BY <2>1, <2>2
<1> HIDE DEF g
<1>3. f \in EntryType BY <1>1, NoEntryType DEF Looks
<1>4. f = IF e[i].refs = 1 THEN NoEntry ELSE g OBVIOUS
<1> HIDE DEF f
<1>5. Release(e, i)[i] = f /\ Only(e, Release(e, i), i) BY <1>2, <1>3 DEF Only
<1> QED BY <1>1, <1>4, <1>5

\* What unlocking changes of an entry.
LEMMA UnlockIs ==
  ASSUME NEW e \in [Inodes -> EntryType], NEW i \in Inodes, NEW t \in Threads
  PROVE  /\ Only(e, Unlock(e, i, t), i)
         /\ Looks(Unlock(e, i, t)[i], e[i].refs, IF e[i].x = t THEN NoThread ELSE e[i].x, e[i].s \ {t},
                  e[i].open_count, e[i].valid, e[i].inode)
<1> DEFINE x == IF e[i].x = t THEN NoThread ELSE e[i].x
           f == [e[i] EXCEPT !.x = x]
           s == e[i].s \ {t}
           g == [f EXCEPT !.s = s]
<1>0. e[i] \in EntryType OBVIOUS
<1>1. x \in Threads \cup {NoThread} /\ s \in SUBSET Threads BY <1>0, EntryFields
<1>2. Unlock(e, i, t) = [e EXCEPT ![i] = g] BY <1>0 DEF Unlock, EntryType
<1> HIDE DEF x, s
<1>3. Looks(f, e[i].refs, x, e[i].s, e[i].open_count, e[i].valid, e[i].inode) BY <1>0, <1>1, EntryWith
<1> HIDE DEF f
<1>4. f \in EntryType BY <1>3 DEF Looks
<1>5. Looks(g, f.refs, f.x, s, f.open_count, f.valid, f.inode) BY <1>1, <1>4, EntryWith
<1> HIDE DEF g
<1>6. Looks(g, e[i].refs, x, s, e[i].open_count, e[i].valid, e[i].inode) BY <1>3, <1>5 DEF Looks
<1>7. g \in EntryType BY <1>6 DEF Looks
<1> QED BY <1>2, <1>6, <1>7 DEF Only, x, s

\* What locking changes of an entry.
LEMMA LockedIs ==
  ASSUME NEW e \in [Inodes -> EntryType], NEW i \in Inodes, NEW t \in Threads
  PROVE  /\ Only(e, Locked(e, t, i), i)
         /\ Looks(Locked(e, t, i)[i], e[i].refs, IF Exclusive(t) THEN t ELSE e[i].x,
                  IF Exclusive(t) THEN e[i].s ELSE e[i].s \cup {t}, e[i].open_count, e[i].valid, e[i].inode)
<1>0. e[i] \in EntryType OBVIOUS
<1>1. CASE Exclusive(t)
  <2> DEFINE f == [e[i] EXCEPT !.x = t]
  <2>1. Looks(f, e[i].refs, t, e[i].s, e[i].open_count, e[i].valid, e[i].inode) BY <1>0, EntryWith
  <2>2. Locked(e, t, i) = [e EXCEPT ![i] = f] BY <1>1 DEF Locked
  <2> HIDE DEF f
  <2>3. f \in EntryType BY <2>1 DEF Looks
  <2> QED BY <1>1, <2>1, <2>2, <2>3 DEF Only
<1>2. CASE ~Exclusive(t)
  <2> DEFINE s == e[i].s \cup {t}
             f == [e[i] EXCEPT !.s = s]
  <2>0. s \in SUBSET Threads BY <1>0, EntryFields
  <2>2. Locked(e, t, i) = [e EXCEPT ![i] = f] BY <1>2 DEF Locked
  <2> HIDE DEF s
  <2>1. Looks(f, e[i].refs, e[i].x, s, e[i].open_count, e[i].valid, e[i].inode)
    BY <1>0, <2>0, EntryWith
  <2> HIDE DEF f
  <2>3. f \in EntryType BY <2>1 DEF Looks
  <2> QED BY <1>2, <2>1, <2>2, <2>3 DEF Only, s
<1> QED BY <1>1, <1>2

\* What registering an open file changes of an entry.
LEMMA RegisteredIs ==
  ASSUME NEW e \in [Inodes -> EntryType], NEW i \in Inodes
  PROVE  /\ Only(e, Registered(e, i), i)
         /\ Looks(Registered(e, i)[i], e[i].refs + 1, e[i].x, e[i].s, e[i].open_count + 1, e[i].valid, e[i].inode)
<1> DEFINE a == Acquire(e, i)
           f == [a[i] EXCEPT !.open_count = a[i].open_count + 1]
<1>1. a \in [Inodes -> EntryType] /\ Only(e, a, i)
      /\ Looks(a[i], e[i].refs + 1, e[i].x, e[i].s, e[i].open_count, e[i].valid, e[i].inode)
  BY AcquireIs DEF Only
<1>2. Registered(e, i) = [a EXCEPT ![i] = f] BY DEF Registered
<1> HIDE DEF a
<1>3. a[i] \in EntryType /\ a[i].open_count + 1 \in Nat BY <1>1, EntryFields
<1>4. Looks(f, a[i].refs, a[i].x, a[i].s, a[i].open_count + 1, a[i].valid, a[i].inode)
  BY <1>3, EntryWith
<1> HIDE DEF f
<1>5. f \in EntryType BY <1>4 DEF Looks
<1> QED BY <1>1, <1>2, <1>4, <1>5 DEF Only, Looks

\* The copy of an inode is set aside, or made.
LEMMA CopyIs ==
  ASSUME NEW e \in [Inodes -> EntryType], NEW i \in Inodes, NEW v \in BOOLEAN, NEW ino \in InodeType
  PROVE  LET f == [e EXCEPT ![i].valid = v, ![i].inode = ino] IN
         /\ Only(e, f, i)
         /\ Looks(f[i], e[i].refs, e[i].x, e[i].s, e[i].open_count, v, ino)
<1>0. e[i] \in EntryType OBVIOUS
<1> DEFINE g == [e[i] EXCEPT !.valid = v]
           h == [g EXCEPT !.inode = ino]
           f == [e EXCEPT ![i].valid = v, ![i].inode = ino]
<1>2. f = [e EXCEPT ![i] = h] BY <1>0
<1>3. Looks(g, e[i].refs, e[i].x, e[i].s, e[i].open_count, v, e[i].inode) BY <1>0, EntryWith
<1> HIDE DEF g
<1>4. g \in EntryType BY <1>3 DEF Looks
<1>5. Looks(h, g.refs, g.x, g.s, g.open_count, g.valid, ino) BY <1>4, EntryWith
<1> HIDE DEF h
<1>6. Looks(h, e[i].refs, e[i].x, e[i].s, e[i].open_count, v, ino) BY <1>3, <1>5 DEF Looks
<1>7. h \in EntryType BY <1>6 DEF Looks
<1> HIDE DEF f
<1>8. Only(e, f, i) /\ f[i] = h BY <1>2, <1>7 DEF Only
<1> QED BY <1>6, <1>8 DEF f

\* What forgetting the copy of an inode changes of an entry.
LEMMA ForgetIs ==
  ASSUME NEW e \in [Inodes -> EntryType], NEW i \in Inodes
  PROVE  /\ Only(e, Forget(e, i), i)
         /\ Looks(Forget(e, i)[i], e[i].refs, e[i].x, e[i].s, e[i].open_count, FALSE, NoInode)
  BY CopyIs, NoInodeType DEF Forget

\* InodeLock::drop: the lock and its reference go together.
LEMMA DropIs ==
  ASSUME NEW e \in [Inodes -> EntryType], NEW i \in Inodes, NEW t \in Threads, e[i].refs # 0
  PROVE  /\ Only(e, Drop(e, i, t), i)
         /\ IF e[i].refs = 1 THEN Drop(e, i, t)[i] = NoEntry
            ELSE Looks(Drop(e, i, t)[i], e[i].refs - 1, IF e[i].x = t THEN NoThread ELSE e[i].x, e[i].s \ {t},
                       e[i].open_count, e[i].valid, e[i].inode)
<1> DEFINE f == Unlock(e, i, t)
<1>1. /\ Only(e, f, i)
      /\ Looks(f[i], e[i].refs, IF e[i].x = t THEN NoThread ELSE e[i].x, e[i].s \ {t},
               e[i].open_count, e[i].valid, e[i].inode)
  BY UnlockIs
<1>2. Drop(e, i, t) = Release(f, i) BY DEF Drop, Inodes
<1> HIDE DEF f
<1>3. f \in [Inodes -> EntryType] /\ f[i].refs = e[i].refs BY <1>1 DEF Only, Looks
<1>4. /\ Only(f, Release(f, i), i)
      /\ IF f[i].refs = 1 THEN Release(f, i)[i] = NoEntry
         ELSE Looks(Release(f, i)[i], f[i].refs - 1, f[i].x, f[i].s, f[i].open_count, f[i].valid, f[i].inode)
  BY <1>3, ReleaseIs
<1>5. Only(e, Release(f, i), i) BY <1>1, <1>4 DEF Only
<1> QED BY <1>1, <1>2, <1>3, <1>4, <1>5 DEF Looks

\* 1 for what is so.
Bit(P) == IF P THEN 1 ELSE 0

\* Sets that differ in one element at most, counted.
LEMMA CountChange ==
  ASSUME NEW S, NEW T, IsFiniteSet(S), IsFiniteSet(T), NEW t, \A u : u # t => (u \in S <=> u \in T)
  PROVE  /\ Cardinality(S) \in Nat /\ Cardinality(T) \in Nat
         /\ Cardinality(T) = Cardinality(S) + Bit(t \in T) - Bit(t \in S)
<1> DEFINE R == S \ {t}
<1>1. R = T \ {t} OBVIOUS
<1>2. IsFiniteSet(R) /\ Cardinality(R) = (IF t \in S THEN Cardinality(S) - 1 ELSE Cardinality(S))
  BY FS_RemoveElement
<1>3. Cardinality(T \ {t}) = (IF t \in T THEN Cardinality(T) - 1 ELSE Cardinality(T))
  BY FS_RemoveElement
<1>4. Cardinality(S) \in Nat /\ Cardinality(T) \in Nat BY FS_CardinalityType
<1> HIDE DEF R
<1> QED BY <1>1, <1>2, <1>3, <1>4 DEF Bit

\* What a thread counts for in the entry of i: the directory or file it has
\* locked, what it has locked or is to lock below it, the file it is opening.
Lower(t, i) == th[t].kid = i /\ (pc[t] \in {"lock", "lock_kid"} \/ th[t].held)
Opener(t, i) == Opening(t) /\ th[t].index = i
Uses(t, i) == Bit(th[t].cur = i) + Bit(Lower(t, i)) + Bit(Opener(t, i))

\* Threads and descriptors are finitely many.
LEMMA FiniteUsers ==
  /\ \A S \in SUBSET Threads : IsFiniteSet(S) /\ Cardinality(S) \in Nat
  /\ \A S \in SUBSET Fds : IsFiniteSet(S) /\ Cardinality(S) \in Nat
<1>1. IsFiniteSet(Fds) BY FS_Interval DEF Fds
<1> QED BY <1>1, ThreadsAssumption, FS_Subset, FS_CardinalityType

\* The entry of i after a step of thread t that leaves all descriptors but f as they are.
LEMMA CountStep ==
  ASSUME TypeOK, EntriesCounted, NEW t \in Threads, Steps(t), NEW f \in Fds, NEW i \in Inodes,
         \A g \in Fds : g # f => files'[g] = files[g] /\ (g \in Opened' <=> g \in Opened)
  PROVE  /\ entry'[i].refs = entry[i].refs + Uses(t, i)' - Uses(t, i) + Bit(files[f] = i)' - Bit(files[f] = i)
            => entry'[i].refs = Cardinality(At(i)') + Cardinality(Below(i)') + Cardinality(Openers(i)')
                                + Cardinality({fd \in Fds : files'[fd] = i})
         /\ entry'[i].open_count = entry[i].open_count + Bit(Opener(t, i))' - Bit(Opener(t, i))
                                   + Bit(f \in Opened /\ files[f] = i)' - Bit(f \in Opened /\ files[f] = i)
            => entry'[i].open_count = Cardinality({fd \in Opened' : files'[fd] = i}) + Cardinality(Openers(i)')
<1> DEFINE F == {fd \in Fds : files[fd] = i}  FF == {fd \in Fds : files'[fd] = i}
           O == {fd \in Opened : files[fd] = i}  OO == {fd \in Opened' : files'[fd] = i}
<1>0. Opened \subseteq Fds /\ Opened' \subseteq Fds BY DEF Opened
<1>1. /\ entry[i].refs = Cardinality(At(i)) + Cardinality(Below(i)) + Cardinality(Openers(i)) + Cardinality(F)
      /\ entry[i].open_count = Cardinality(O) + Cardinality(Openers(i))
  BY DEF EntriesCounted
<1>2. /\ Cardinality(At(i)) \in Nat /\ Cardinality(At(i)') \in Nat
      /\ Cardinality(At(i)') = Cardinality(At(i)) + Bit(th'[t].cur = i) - Bit(th[t].cur = i)
  <2>1. IsFiniteSet(At(i)) /\ IsFiniteSet(At(i)') BY FiniteUsers DEF At
  <2>2. \A u : u # t => (u \in At(i) <=> u \in At(i)') BY DEF At, Steps
  <2>3. (t \in At(i)' <=> th'[t].cur = i) /\ (t \in At(i) <=> th[t].cur = i) BY DEF At
  <2> QED BY <2>1, <2>2, <2>3, CountChange DEF Bit
<1>3. /\ Cardinality(Below(i)) \in Nat /\ Cardinality(Below(i)') \in Nat
      /\ Cardinality(Below(i)') = Cardinality(Below(i)) + Bit(Lower(t, i))' - Bit(Lower(t, i))
  <2>1. IsFiniteSet(Below(i)) /\ IsFiniteSet(Below(i)') BY FiniteUsers DEF Below
  <2>2. \A u : u # t => (u \in Below(i) <=> u \in Below(i)') BY DEF Below, Steps
  <2>3. (t \in Below(i)' <=> Lower(t, i)') /\ (t \in Below(i) <=> Lower(t, i)) BY DEF Below, Lower
  <2> QED BY <2>1, <2>2, <2>3, CountChange DEF Bit
<1>4. /\ Cardinality(Openers(i)) \in Nat /\ Cardinality(Openers(i)') \in Nat
      /\ Cardinality(Openers(i)') = Cardinality(Openers(i)) + Bit(Opener(t, i))' - Bit(Opener(t, i))
  <2>1. IsFiniteSet(Openers(i)) /\ IsFiniteSet(Openers(i)') BY FiniteUsers DEF Openers
  <2>2. \A u : u # t => (u \in Openers(i) <=> u \in Openers(i)') BY DEF Openers, Opening, Steps
  <2>3. (t \in Openers(i)' <=> Opener(t, i)') /\ (t \in Openers(i) <=> Opener(t, i))
    BY DEF Openers, Opener
  <2> QED BY <2>1, <2>2, <2>3, CountChange DEF Bit
<1>5. /\ Cardinality(F) \in Nat /\ Cardinality(FF) \in Nat
      /\ Cardinality(FF) = Cardinality(F) + Bit(files'[f] = i) - Bit(files[f] = i)
  <2>1. IsFiniteSet(F) /\ IsFiniteSet(FF) BY FiniteUsers
  <2>2. \A u : u # f => (u \in F <=> u \in FF) OBVIOUS
  <2>3. (f \in F <=> files[f] = i) /\ (f \in FF <=> files'[f] = i) OBVIOUS
  <2> HIDE DEF F, FF
  <2> QED BY <2>1, <2>2, <2>3, CountChange DEF Bit
<1>6. /\ Cardinality(O) \in Nat /\ Cardinality(OO) \in Nat
      /\ Cardinality(OO) = Cardinality(O) + Bit(f \in Opened /\ files[f] = i)' - Bit(f \in Opened /\ files[f] = i)
  <2>1. IsFiniteSet(O) /\ IsFiniteSet(OO) BY <1>0, FiniteUsers
  <2>2. \A u : u # f => (u \in O <=> u \in OO) BY <1>0
  <2>3. (f \in O <=> f \in Opened /\ files[f] = i) /\ (f \in OO <=> f \in Opened' /\ files'[f] = i)
    OBVIOUS
  <2> HIDE DEF O, OO
  <2> QED BY <2>1, <2>2, <2>3, CountChange DEF Bit
<1> HIDE DEF F, FF, O, OO
<1>7. entry'[i].refs = entry[i].refs + Uses(t, i)' - Uses(t, i) + Bit(files[f] = i)' - Bit(files[f] = i)
      => entry'[i].refs = Cardinality(At(i)') + Cardinality(Below(i)') + Cardinality(Openers(i)') + Cardinality(FF)
  BY <1>1, <1>2, <1>3, <1>4, <1>5 DEF Uses, Bit
<1>8. entry'[i].open_count = entry[i].open_count + Bit(Opener(t, i))' - Bit(Opener(t, i))
                                   + Bit(f \in Opened /\ files[f] = i)' - Bit(f \in Opened /\ files[f] = i)
      => entry'[i].open_count = Cardinality(OO) + Cardinality(Openers(i)')
  BY <1>1, <1>4, <1>6 DEF Bit
<1> QED BY <1>7, <1>8 DEF FF, OO

\* Two elements of a set are two.
LEMMA TwoIn ==
  ASSUME NEW S, IsFiniteSet(S), NEW t, NEW u, t # u
  PROVE  Cardinality(S) \in Nat /\ Cardinality(S) >= Bit(t \in S) + Bit(u \in S)
<1> DEFINE R == S \ {t}
<1>1. IsFiniteSet(R) /\ Cardinality(R) = (IF t \in S THEN Cardinality(S) - 1 ELSE Cardinality(S))
  BY FS_RemoveElement
<1>2. u \in S <=> u \in R OBVIOUS
<1> HIDE DEF R
<1>3. IsFiniteSet(R \ {u}) /\ Cardinality(R \ {u}) = (IF u \in R THEN Cardinality(R) - 1 ELSE Cardinality(R))
  BY <1>1, FS_RemoveElement
<1>4. Cardinality(S) \in Nat /\ Cardinality(R) \in Nat /\ Cardinality(R \ {u}) \in Nat
  BY <1>1, <1>3, FS_CardinalityType
<1> QED BY <1>1, <1>2, <1>3, <1>4 DEF Bit

\* An entry has a reference for all that any two threads and a descriptor use it for.
LEMMA UserCounts ==
  ASSUME TypeOK, EntriesCounted, NEW t \in Threads, NEW i \in Inodes
  PROVE  /\ entry[i].refs \in Nat /\ Uses(t, i) \in Nat /\ entry[i].refs >= Uses(t, i)
         /\ entry[i].open_count >= Bit(Opener(t, i))
         /\ \A u \in Threads : u # t => entry[i].refs >= Uses(t, i) + Uses(u, i)
         /\ \A fd \in Fds : files[fd] = i => entry[i].refs >= Uses(t, i) + 1
         /\ \A fd \in Opened : files[fd] = i => entry[i].open_count >= 1
         /\ \A fd, g \in Fds : fd # g /\ files[fd] = i /\ files[g] = i => entry[i].refs >= 2
<1> DEFINE F == {fd \in Fds : files[fd] = i}
           O == {fd \in Opened : files[fd] = i}
<1>0. Opened \subseteq Fds BY DEF Opened
<1>1. /\ entry[i].refs = Cardinality(At(i)) + Cardinality(Below(i)) + Cardinality(Openers(i)) + Cardinality(F)
      /\ entry[i].open_count = Cardinality(O) + Cardinality(Openers(i))
  BY DEF EntriesCounted
<1>2. IsFiniteSet(At(i)) /\ IsFiniteSet(Below(i)) /\ IsFiniteSet(Openers(i)) /\ IsFiniteSet(F) /\ IsFiniteSet(O)
  BY <1>0, FiniteUsers DEF At, Below, Openers
<1>3. \A u \in Threads : /\ u \in At(i) <=> th[u].cur = i
                         /\ u \in Below(i) <=> Lower(u, i)
                         /\ u \in Openers(i) <=> Opener(u, i)
  BY DEF At, Below, Openers, Lower, Opener
<1>4. \A fd \in Fds : files[fd] = i <=> fd \in F OBVIOUS
<1>5. \A fd \in Opened : files[fd] = i <=> fd \in O OBVIOUS
<1> HIDE DEF F, O
<1>6. ASSUME NEW S, IsFiniteSet(S), NEW a
      PROVE  Cardinality(S) \in Nat /\ Cardinality(S) >= Bit(a \in S)
  <2>1. Cardinality(S) \in Nat /\ Cardinality(S \ {a}) \in Nat
    BY <1>6, FS_RemoveElement, FS_CardinalityType
  <2>2. Cardinality(S \ {a}) = (IF a \in S THEN Cardinality(S) - 1 ELSE Cardinality(S))
    BY <1>6, FS_RemoveElement
  <2> QED BY <2>1, <2>2 DEF Bit
<1>7. /\ Cardinality(At(i)) \in Nat /\ Cardinality(At(i)) >= Bit(th[t].cur = i)
      /\ Cardinality(Below(i)) \in Nat /\ Cardinality(Below(i)) >= Bit(Lower(t, i))
      /\ Cardinality(Openers(i)) \in Nat /\ Cardinality(Openers(i)) >= Bit(Opener(t, i))
      /\ Cardinality(F) \in Nat /\ Cardinality(O) \in Nat
  BY <1>2, <1>3, <1>6 DEF Bit
<1>8. ASSUME NEW u \in Threads, u # t PROVE entry[i].refs >= Uses(t, i) + Uses(u, i)
  <2>1. Cardinality(At(i)) >= Bit(th[t].cur = i) + Bit(th[u].cur = i)
    BY <1>2, <1>3, <1>8, TwoIn DEF Bit
  <2>2. Cardinality(Below(i)) >= Bit(Lower(t, i)) + Bit(Lower(u, i))
    BY <1>2, <1>3, <1>8, TwoIn DEF Bit
  <2>3. Cardinality(Openers(i)) >= Bit(Opener(t, i)) + Bit(Opener(u, i))
    BY <1>2, <1>3, <1>8, TwoIn DEF Bit
  <2> QED BY <1>1, <1>7, <2>1, <2>2, <2>3 DEF Uses, Bit
<1>9. ASSUME NEW fd \in Fds, files[fd] = i PROVE entry[i].refs >= Uses(t, i) + 1
  <2>1. Cardinality(F) >= 1 BY <1>2, <1>4, <1>6, <1>9 DEF Bit
  <2> QED BY <1>1, <1>7, <2>1 DEF Uses, Bit
<1>10. ASSUME NEW fd \in Opened, files[fd] = i PROVE entry[i].open_count >= 1
  <2>1. Cardinality(O) >= 1 BY <1>2, <1>5, <1>6, <1>10 DEF Bit
  <2> QED BY <1>1, <1>7, <2>1
<1>11. ASSUME NEW fd \in Fds, NEW g \in Fds, fd # g, files[fd] = i, files[g] = i
       PROVE entry[i].refs >= 2
  <2>1. Cardinality(F) >= 2 BY <1>2, <1>4, <1>11, TwoIn DEF Bit
  <2> QED BY <1>1, <1>7, <2>1
<1>12. entry[i].refs \in Nat /\ Uses(t, i) \in Nat /\ entry[i].refs >= Uses(t, i)
       /\ entry[i].open_count >= Bit(Opener(t, i))
  BY <1>1, <1>7 DEF Uses, Bit
<1> QED BY <1>8, <1>9, <1>10, <1>11, <1>12

\* The last user of an entry.
LEMMA LastUser ==
  ASSUME TypeOK, EntriesCounted, NEW t \in Threads, NEW i \in Inodes, entry[i].refs = Uses(t, i)
  PROVE  /\ \A u \in Threads : u # t => th[u].cur # i /\ ~Lower(u, i) /\ ~Opener(u, i)
         /\ \A fd \in Fds : files[fd] # i
<1>1. Uses(t, i) \in Nat /\ ~(Uses(t, i) >= Uses(t, i) + 1) BY UserCounts
<1>2. ASSUME NEW u \in Threads, u # t PROVE th[u].cur # i /\ ~Lower(u, i) /\ ~Opener(u, i)
  <2>1. Uses(t, i) >= Uses(t, i) + Uses(u, i) /\ Uses(u, i) \in Nat BY <1>2, UserCounts
  <2>2. Uses(u, i) = 0 BY <1>1, <2>1
  <2> QED BY <2>2 DEF Uses, Bit
<1> QED BY <1>1, <1>2, UserCounts

\* A step of thread t, as the locks and the descriptors are seen by the others.
LEMMA OthersLocks ==
  ASSUME NEW t \in Threads, Steps(t), NEW u \in Threads, u # t, files'[th[u].fd] = files[th[u].fd], NEW i
  PROVE  /\ HasX(u, i)' <=> HasX(u, i)
         /\ HasS(u, i)' <=> HasS(u, i)
<1>1. pc'[u] = pc[u] /\ th'[u] = th[u] BY DEF Steps
<1>2. (CurX(u)' <=> CurX(u)) /\ (KidX(u)' <=> KidX(u)) BY <1>1 DEF CurX, KidX, Goal
<1>3. HasFile(u, i)' <=> HasFile(u, i) BY <1>1 DEF HasFile, Writing
<1> QED BY <1>1, <1>2, <1>3 DEF HasX, HasS

\* A step that changes the locks only as its thread's place changes keeps LockInv.
LEMMA LockStep ==
  ASSUME SafeInv, NEW t \in Threads, Steps(t),
         \A u \in Threads : u # t /\ OnFd(u) => files'[th[u].fd] = files[th[u].fd],
         \A i \in Inodes : \A u \in Threads : u # t =>
            (entry'[i].x = u <=> entry[i].x = u) /\ (u \in entry'[i].s <=> u \in entry[i].s),
         \A i \in Inodes : /\ entry'[i].x = t <=> HasX(t, i)'
                           /\ t \in entry'[i].s <=> HasS(t, i)'
                           /\ entry'[i].x # NoThread => entry'[i].s = {}
  PROVE  LockInv'
<1>1. ASSUME NEW i \in Inodes, NEW u \in Threads, u # t
      PROVE  (entry'[i].x = u <=> HasX(u, i)') /\ (u \in entry'[i].s <=> HasS(u, i)')
  <2>1. (entry[i].x = u <=> HasX(u, i)) /\ (u \in entry[i].s <=> HasS(u, i)) BY DEF SafeInv, LockInv
  <2>2. CASE OnFd(u)
    <3>1. (HasX(u, i)' <=> HasX(u, i)) /\ (HasS(u, i)' <=> HasS(u, i)) BY <1>1, <2>2, OthersLocks
    <3> QED BY <1>1, <2>1, <3>1
  <2>3. CASE ~OnFd(u)
    <3>1. pc'[u] = pc[u] /\ th'[u] = th[u] BY <1>1 DEF Steps
    <3>2. (CurX(u)' <=> CurX(u)) /\ (KidX(u)' <=> KidX(u)) BY <3>1 DEF CurX, KidX, Goal
    <3>3. KindOK(u) BY DEF SafeInv, ShapeInv
    <3>4. ~HasFile(u, i) /\ ~HasFile(u, i)' BY <2>3, <3>1, <3>3 DEF HasFile, Writing, KindOK, OnFd
    <3>5. (HasX(u, i)' <=> HasX(u, i)) /\ (HasS(u, i)' <=> HasS(u, i))
      BY <3>1, <3>2, <3>4 DEF HasX, HasS
    <3> QED BY <1>1, <2>1, <3>5
  <2> QED BY <2>2, <2>3
<1> QED BY <1>1 DEF LockInv

\* The invariant of the threads' places, when one of them steps.
LEMMA ShapeStep ==
  ASSUME SafeInv, NEW t \in Threads, Steps(t), KindOK(t)', WalkOK(t)', KidOK(t)', IndexOK(t)', InoOK(t)'
  PROVE  ShapeInv'
<1> SUFFICES ASSUME NEW u \in Threads, u # t
             PROVE  KindOK(u)' /\ WalkOK(u)' /\ KidOK(u)' /\ IndexOK(u)' /\ InoOK(u)'
  BY DEF ShapeInv
<1>1. pc'[u] = pc[u] /\ th'[u] = th[u] BY DEF Steps
<1>2. KindOK(u) /\ WalkOK(u) /\ KidOK(u) /\ IndexOK(u) /\ InoOK(u) BY DEF SafeInv, ShapeInv
<1>3. KindOK(u)' BY <1>1, <1>2 DEF KindOK
<1>4. WalkOK(u)'
  <2>1. Goal(u)' = Goal(u) /\ (OnFd(u)' <=> OnFd(u)) BY <1>1 DEF Goal, OnFd
  <2> QED BY <1>1, <1>2, <2>1 DEF WalkOK
<1>5. KidOK(u)' BY <1>1, <1>2 DEF KidOK, OnFd, Removed, Named, Emptying
<1>6. IndexOK(u)' BY <1>1, <1>2 DEF IndexOK, Opening, Making
<1>7. InoOK(u)'
  <2>1. Index(u)' = Index(u) BY <1>1 DEF Index
  <2> QED BY <1>1, <1>2, <2>1 DEF InoOK, Making, Removing, Removed, Emptying
<1> QED BY <1>3, <1>4, <1>5, <1>6, <1>7

\* The table of open files, when a step leaves it alone.
LEMMA TableSame ==
  ASSUME SafeInv, NEW t \in Threads, Steps(t), UNCHANGED table, th'[t].kind = th[t].kind, th'[t].fd = th[t].fd,
         pc'[t] = "install" <=> pc[t] = "install"
  PROVE  TableInv'
<1>1. /\ files' = files /\ in_use' = in_use /\ op' = op BY DEF table
<1>2. \A u \in Threads : /\ th'[u].kind = th[u].kind /\ th'[u].fd = th[u].fd
                         /\ pc'[u] = "install" <=> pc[u] = "install"
  BY DEF Steps
<1>3. \A u \in Threads : (OnFd(u)' <=> OnFd(u)) /\ (Reserving(u)' <=> Reserving(u))
  BY <1>2 DEF OnFd, Reserving
<1>4. TableInv /\ op \in [Fds -> Threads \cup {NoThread}] BY DEF SafeInv, TypeOK
<1>5. \A fd \in Fds : op[fd] # NoThread => op[fd] \in Threads BY <1>4
<1> QED BY <1>1, <1>2, <1>3, <1>4, <1>5 DEF TableInv

-----------------------------------------------------------------------------
(* Steps that take and drop no lock, and open and close no file. *)

\* A step that takes and drops no lock, and opens and closes no file.
Quiet(t) ==
  /\ Steps(t) /\ files' = files /\ th'[t].kind = th[t].kind /\ th'[t].fd = th[t].fd /\ th'[t].cur = th[t].cur
  /\ th[t].cur # 0 => (CurX(t)' <=> CurX(t))
  /\ th'[t].held <=> th[t].held
  /\ th[t].held => th'[t].kid = th[t].kid /\ (KidX(t)' <=> KidX(t))
  /\ {pc[t], pc'[t]} \cap {"lock", "lock_kid", "close"} = {}
  /\ Opening(t)' <=> Opening(t)
  /\ Opening(t) => th'[t].index = th[t].index
  /\ (Writing(t)' \/ pc'[t] = "unlock_file") <=> (Writing(t) \/ pc[t] = "unlock_file")

\* The open files and the locks are then what they were.
LEMMA QuietLocks ==
  ASSUME SafeInv, NEW t \in Threads, Quiet(t),
         \A i \in Inodes : /\ entry'[i].refs = entry[i].refs /\ entry'[i].x = entry[i].x
                           /\ entry'[i].s = entry[i].s /\ entry'[i].open_count = entry[i].open_count
                           /\ entry[i].refs = 0 => entry'[i] = entry[i]
  PROVE  LockInv' /\ EntriesCounted' /\ Opened' = Opened
<1>0. TypeOK /\ EntriesCounted /\ LockInv /\ Steps(t) /\ files' = files BY DEF SafeInv, Quiet
<1>1. Opened' = Opened
  <2>1. \A u \in Threads, fd \in Fds : (pc'[u] = "close" /\ th'[u].fd = fd) <=> (pc[u] = "close" /\ th[u].fd = fd)
    BY DEF Quiet, Steps
  <2> QED BY <1>0, <2>1 DEF Opened
<1>2. ASSUME NEW i \in Inodes PROVE (HasX(t, i)' <=> HasX(t, i)) /\ (HasS(t, i)' <=> HasS(t, i))
  <2>1. HasFile(t, i)' <=> HasFile(t, i) BY DEF HasFile, Quiet
  <2>2. i # 0 BY DEF Inodes
  <2> QED BY <2>1, <2>2 DEF HasX, HasS, Quiet
<1>3. ASSUME NEW i \in Inodes PROVE Uses(t, i)' = Uses(t, i) /\ (Opener(t, i)' <=> Opener(t, i))
  <2>1. Opener(t, i)' <=> Opener(t, i) BY DEF Opener, Quiet
  <2>2. Lower(t, i)' <=> Lower(t, i) BY DEF Lower, Quiet
  <2> QED BY <2>1, <2>2 DEF Uses, Bit, Quiet
<1>4. LockInv'
  <2>1. \A i \in Inodes : /\ entry'[i].x = t <=> HasX(t, i)'
                          /\ t \in entry'[i].s <=> HasS(t, i)'
                          /\ entry'[i].x # NoThread => entry'[i].s = {}
    BY <1>0, <1>2 DEF LockInv
  <2> QED BY <1>0, <2>1, LockStep
<1>5. EntriesCounted'
  <2> SUFFICES ASSUME NEW i \in Inodes
               PROVE  /\ entry'[i].refs = Cardinality(At(i)') + Cardinality(Below(i)') + Cardinality(Openers(i)')
                                          + Cardinality({fd \in Fds : files'[fd] = i})
                      /\ entry'[i].open_count = Cardinality({fd \in Opened' : files'[fd] = i}) + Cardinality(Openers(i)')
                      /\ entry'[i].refs = 0 => entry'[i] = NoEntry
    BY DEF EntriesCounted
  <2>0. 1 \in Fds BY NFiles \in Nat \ {0} DEF Fds
  <2>1. Bit(Opener(t, i))' = Bit(Opener(t, i)) BY <1>3 DEF Bit
  <2>2. Bit(1 \in Opened /\ files[1] = i)' = Bit(1 \in Opened /\ files[1] = i) BY <1>0, <1>1 DEF Bit
  <2>3. Bit(files[1] = i)' = Bit(files[1] = i) BY <1>0 DEF Bit
  <2>4. /\ Uses(t, i) \in Nat /\ Bit(Opener(t, i)) \in Nat /\ Bit(1 \in Opened /\ files[1] = i) \in Nat
        /\ Bit(files[1] = i) \in Nat /\ entry[i].refs \in Nat /\ entry[i].open_count \in Nat
    BY <1>0, UserCounts, EntryFields DEF Bit, TypeOK
  <2>5. entry[i].refs = 0 => entry[i] = NoEntry BY <1>0 DEF EntriesCounted
  <2>6. entry'[i].refs = entry[i].refs + Uses(t, i)' - Uses(t, i) + Bit(files[1] = i)' - Bit(files[1] = i)
    BY <1>3, <2>3, <2>4
  <2>7. entry'[i].open_count = entry[i].open_count + Bit(Opener(t, i))' - Bit(Opener(t, i))
                               + Bit(1 \in Opened /\ files[1] = i)' - Bit(1 \in Opened /\ files[1] = i)
    BY <2>1, <2>2, <2>4
  <2> QED BY <1>0, <1>1, <2>0, <2>5, <2>6, <2>7, CountStep
<1> QED BY <1>1, <1>4, <1>5

\* Begin_op lets a call in: the step leaves locks and counts alone.
LEMMA BeginQuiet ==
  ASSUME SafeInv, NEW t \in Threads, Begin(t)
  PROVE  Quiet(t)
<1>0. TypeOK /\ th[t] \in Locals /\ KindOK(t) /\ WalkOK(t) /\ KidOK(t) /\ IndexOK(t) /\ InoOK(t)
  BY Own
<1>1. pc[t] = "begin" /\ files' = files BY DEF Begin, table
<1>2. /\ Steps(t) /\ th'[t].kind = th[t].kind /\ th'[t].fd = th[t].fd /\ th'[t].cur = th[t].cur
      /\ Goal(t)' = Goal(t) /\ th'[t].depth = th[t].depth
  BY <1>0, BeginEffect DEF Becomes, Goal
<1>3. th[t].cur # 0 => (CurX(t)' <=> CurX(t)) BY <1>0, BeginEffect, <1>1, <1>2 DEF CurX
<1>4. /\ th'[t].held <=> th[t].held
      /\ th[t].held => th'[t].kid = th[t].kid /\ (KidX(t)' <=> KidX(t))
  BY <1>0, BeginEffect, <1>1, <1>2 DEF KidX, Becomes, KindOK, KidOK, Removed, Named, Emptying
<1>5. {pc[t], pc'[t]} \cap {"lock", "lock_kid", "close"} = {} BY <1>0, BeginEffect, <1>1 DEF KindOK
<1>6. (Opening(t)' <=> Opening(t)) /\ (Opening(t) => th'[t].index = th[t].index)
  BY <1>0, BeginEffect, <1>1, <1>2 DEF Opening, Becomes, KindOK, IndexOK
<1>7. (Writing(t)' \/ pc'[t] = "unlock_file") <=> (Writing(t) \/ pc[t] = "unlock_file")
  BY <1>0, BeginEffect, <1>1, <1>2 DEF Writing, KindOK
<1> QED BY <1>1, <1>2, <1>3, <1>4, <1>5, <1>6, <1>7 DEF Quiet

\* A call finds no such name: the step leaves locks and counts alone.
LEMMA AtNoneQuiet ==
  ASSUME SafeInv, NEW t \in Threads, AtNone(t)
  PROVE  Quiet(t)
<1>0. TypeOK /\ th[t] \in Locals /\ KindOK(t) /\ WalkOK(t) /\ KidOK(t) /\ IndexOK(t) /\ InoOK(t)
  BY Own
<1>1. pc[t] = "at" /\ files' = files BY DEF AtNone, table
<1>2. /\ Steps(t) /\ th'[t].kind = th[t].kind /\ th'[t].fd = th[t].fd /\ th'[t].cur = th[t].cur
      /\ Goal(t)' = Goal(t) /\ th'[t].depth = th[t].depth
  BY <1>0, AtNoneEffect DEF Becomes, Goal
<1>3. th[t].cur # 0 => (CurX(t)' <=> CurX(t)) BY <1>0, AtNoneEffect, <1>1, <1>2 DEF CurX
<1>4. /\ th'[t].held <=> th[t].held
      /\ th[t].held => th'[t].kid = th[t].kid /\ (KidX(t)' <=> KidX(t))
  BY <1>0, AtNoneEffect, <1>1, <1>2 DEF KidX, Becomes, KindOK, KidOK, Removed, Named, Emptying
<1>5. {pc[t], pc'[t]} \cap {"lock", "lock_kid", "close"} = {} BY <1>0, AtNoneEffect, <1>1 DEF KindOK
<1>6. (Opening(t)' <=> Opening(t)) /\ (Opening(t) => th'[t].index = th[t].index)
  BY <1>0, AtNoneEffect, <1>1, <1>2 DEF Opening, Becomes, KindOK, IndexOK
<1>7. (Writing(t)' \/ pc'[t] = "unlock_file") <=> (Writing(t) \/ pc[t] = "unlock_file")
  BY <1>0, AtNoneEffect, <1>1, <1>2 DEF Writing, KindOK
<1> QED BY <1>1, <1>2, <1>3, <1>4, <1>5, <1>6, <1>7 DEF Quiet

\* Alloc_inode: the step leaves locks and counts alone.
LEMMA AllocInodeQuiet ==
  ASSUME SafeInv, NEW t \in Threads, AllocInode(t)
  PROVE  Quiet(t)
<1>0. TypeOK /\ th[t] \in Locals /\ KindOK(t) /\ WalkOK(t) /\ KidOK(t) /\ IndexOK(t) /\ InoOK(t)
  BY Own
<1>1. pc[t] = "alloc_inode" /\ files' = files BY DEF AllocInode, table
<1>e. th[t].cur # 0 BY <1>0, <1>1 DEF WalkOK, KindOK, OnFd, Outside
<1>2. /\ Steps(t) /\ th'[t].kind = th[t].kind /\ th'[t].fd = th[t].fd /\ th'[t].cur = th[t].cur
      /\ Goal(t)' = Goal(t) /\ th'[t].depth = th[t].depth
  BY <1>0, <1>e, AllocInodeEffect DEF Becomes, Goal
<1>3. th[t].cur # 0 => (CurX(t)' <=> CurX(t)) BY <1>0, <1>e, AllocInodeEffect, <1>1, <1>2 DEF CurX
<1>4. /\ th'[t].held <=> th[t].held
      /\ th[t].held => th'[t].kid = th[t].kid /\ (KidX(t)' <=> KidX(t))
  BY <1>0, <1>e, AllocInodeEffect, <1>1, <1>2 DEF KidX, Becomes, KindOK, KidOK, Removed, Named,
     Emptying
<1>5. {pc[t], pc'[t]} \cap {"lock", "lock_kid", "close"} = {}
  BY <1>0, <1>e, AllocInodeEffect, <1>1 DEF KindOK
<1>6. (Opening(t)' <=> Opening(t)) /\ (Opening(t) => th'[t].index = th[t].index)
  BY <1>0, <1>e, AllocInodeEffect, <1>1, <1>2 DEF Opening, Becomes, KindOK, IndexOK
<1>7. (Writing(t)' \/ pc'[t] = "unlock_file") <=> (Writing(t) \/ pc[t] = "unlock_file")
  BY <1>0, <1>e, AllocInodeEffect, <1>1, <1>2 DEF Writing, KindOK
<1> QED BY <1>1, <1>2, <1>3, <1>4, <1>5, <1>6, <1>7 DEF Quiet

\* Mkdir takes a block for the new directory: the step leaves locks and counts alone.
LEMMA AllocBlockQuiet ==
  ASSUME SafeInv, NEW t \in Threads, AllocBlock(t)
  PROVE  Quiet(t)
<1>0. TypeOK /\ th[t] \in Locals /\ KindOK(t) /\ WalkOK(t) /\ KidOK(t) /\ IndexOK(t) /\ InoOK(t)
  BY Own
<1>1. pc[t] = "alloc_block" /\ files' = files BY DEF AllocBlock, table
<1>2. /\ Steps(t) /\ th'[t].kind = th[t].kind /\ th'[t].fd = th[t].fd /\ th'[t].cur = th[t].cur
      /\ Goal(t)' = Goal(t) /\ th'[t].depth = th[t].depth
  BY <1>0, AllocBlockEffect DEF Becomes, Goal
<1>3. th[t].cur # 0 => (CurX(t)' <=> CurX(t)) BY <1>0, AllocBlockEffect, <1>1, <1>2 DEF CurX
<1>4. /\ th'[t].held <=> th[t].held
      /\ th[t].held => th'[t].kid = th[t].kid /\ (KidX(t)' <=> KidX(t))
  BY <1>0, AllocBlockEffect, <1>1, <1>2 DEF KidX, Becomes, KindOK, KidOK, Removed, Named, Emptying
<1>5. {pc[t], pc'[t]} \cap {"lock", "lock_kid", "close"} = {}
  BY <1>0, AllocBlockEffect, <1>1 DEF KindOK
<1>6. (Opening(t)' <=> Opening(t)) /\ (Opening(t) => th'[t].index = th[t].index)
  BY <1>0, AllocBlockEffect, <1>1, <1>2 DEF Opening, Becomes, KindOK, IndexOK
<1>7. (Writing(t)' \/ pc'[t] = "unlock_file") <=> (Writing(t) \/ pc[t] = "unlock_file")
  BY <1>0, AllocBlockEffect, <1>1, <1>2 DEF Writing, KindOK
<1> QED BY <1>1, <1>2, <1>3, <1>4, <1>5, <1>6, <1>7 DEF Quiet

\* Dir_add: the step leaves locks and counts alone.
LEMMA DirAddQuiet ==
  ASSUME SafeInv, NEW t \in Threads, DirAdd(t)
  PROVE  Quiet(t)
<1>0. TypeOK /\ th[t] \in Locals /\ KindOK(t) /\ WalkOK(t) /\ KidOK(t) /\ IndexOK(t) /\ InoOK(t)
  BY Own
<1>1. pc[t] = "dir_add" /\ files' = files BY DEF DirAdd, table
<1>2. /\ Steps(t) /\ th'[t].kind = th[t].kind /\ th'[t].fd = th[t].fd /\ th'[t].cur = th[t].cur
      /\ Goal(t)' = Goal(t) /\ th'[t].depth = th[t].depth
  BY <1>0, DirAddEffect DEF Becomes, Goal
<1>3. th[t].cur # 0 => (CurX(t)' <=> CurX(t)) BY <1>0, DirAddEffect, <1>1, <1>2 DEF CurX
<1>4. /\ th'[t].held <=> th[t].held
      /\ th[t].held => th'[t].kid = th[t].kid /\ (KidX(t)' <=> KidX(t))
  BY <1>0, DirAddEffect, <1>1, <1>2 DEF KidX, Becomes, KindOK, KidOK, Removed, Named, Emptying
<1>5. {pc[t], pc'[t]} \cap {"lock", "lock_kid", "close"} = {} BY <1>0, DirAddEffect, <1>1 DEF KindOK
<1>6. (Opening(t)' <=> Opening(t)) /\ (Opening(t) => th'[t].index = th[t].index)
  BY <1>0, DirAddEffect, <1>1, <1>2 DEF Opening, Becomes, KindOK, IndexOK
<1>7. (Writing(t)' \/ pc'[t] = "unlock_file") <=> (Writing(t) \/ pc[t] = "unlock_file")
  BY <1>0, DirAddEffect, <1>1, <1>2 DEF Writing, KindOK
<1> QED BY <1>1, <1>2, <1>3, <1>4, <1>5, <1>6, <1>7 DEF Quiet

\* Mkdir hands its block back: the step leaves locks and counts alone.
LEMMA UndoBlockQuiet ==
  ASSUME SafeInv, NEW t \in Threads, UndoBlock(t)
  PROVE  Quiet(t)
<1>0. TypeOK /\ th[t] \in Locals /\ KindOK(t) /\ WalkOK(t) /\ KidOK(t) /\ IndexOK(t) /\ InoOK(t)
  BY Own
<1>1. pc[t] = "undo_block" /\ files' = files BY DEF UndoBlock, table
<1>2. /\ Steps(t) /\ th'[t].kind = th[t].kind /\ th'[t].fd = th[t].fd /\ th'[t].cur = th[t].cur
      /\ Goal(t)' = Goal(t) /\ th'[t].depth = th[t].depth
  BY <1>0, UndoBlockEffect DEF Becomes, Goal
<1>3. th[t].cur # 0 => (CurX(t)' <=> CurX(t)) BY <1>0, UndoBlockEffect, <1>1, <1>2 DEF CurX
<1>4. /\ th'[t].held <=> th[t].held
      /\ th[t].held => th'[t].kid = th[t].kid /\ (KidX(t)' <=> KidX(t))
  BY <1>0, UndoBlockEffect, <1>1, <1>2 DEF KidX, Becomes, KindOK, KidOK, Removed, Named, Emptying
<1>5. {pc[t], pc'[t]} \cap {"lock", "lock_kid", "close"} = {}
  BY <1>0, UndoBlockEffect, <1>1 DEF KindOK
<1>6. (Opening(t)' <=> Opening(t)) /\ (Opening(t) => th'[t].index = th[t].index)
  BY <1>0, UndoBlockEffect, <1>1, <1>2 DEF Opening, Becomes, KindOK, IndexOK
<1>7. (Writing(t)' \/ pc'[t] = "unlock_file") <=> (Writing(t) \/ pc[t] = "unlock_file")
  BY <1>0, UndoBlockEffect, <1>1, <1>2 DEF Writing, KindOK
<1> QED BY <1>1, <1>2, <1>3, <1>4, <1>5, <1>6, <1>7 DEF Quiet

\* The inode that was taken is handed back: the step leaves locks and counts alone.
LEMMA UndoInodeQuiet ==
  ASSUME SafeInv, NEW t \in Threads, UndoInode(t)
  PROVE  Quiet(t)
<1>0. TypeOK /\ th[t] \in Locals /\ KindOK(t) /\ WalkOK(t) /\ KidOK(t) /\ IndexOK(t) /\ InoOK(t)
  BY Own
<1>1. pc[t] = "undo_inode" /\ files' = files BY DEF UndoInode, table
<1>2. /\ Steps(t) /\ th'[t].kind = th[t].kind /\ th'[t].fd = th[t].fd /\ th'[t].cur = th[t].cur
      /\ Goal(t)' = Goal(t) /\ th'[t].depth = th[t].depth
  BY <1>0, UndoInodeEffect DEF Becomes, Goal
<1>3. th[t].cur # 0 => (CurX(t)' <=> CurX(t)) BY <1>0, UndoInodeEffect, <1>1, <1>2 DEF CurX
<1>4. /\ th'[t].held <=> th[t].held
      /\ th[t].held => th'[t].kid = th[t].kid /\ (KidX(t)' <=> KidX(t))
  BY <1>0, UndoInodeEffect, <1>1, <1>2 DEF KidX, Becomes, KindOK, KidOK, Removed, Named, Emptying
<1>5. {pc[t], pc'[t]} \cap {"lock", "lock_kid", "close"} = {}
  BY <1>0, UndoInodeEffect, <1>1 DEF KindOK
<1>6. (Opening(t)' <=> Opening(t)) /\ (Opening(t) => th'[t].index = th[t].index)
  BY <1>0, UndoInodeEffect, <1>1, <1>2 DEF Opening, Becomes, KindOK, IndexOK
<1>7. (Writing(t)' \/ pc'[t] = "unlock_file") <=> (Writing(t) \/ pc[t] = "unlock_file")
  BY <1>0, UndoInodeEffect, <1>1, <1>2 DEF Writing, KindOK
<1> QED BY <1>1, <1>2, <1>3, <1>4, <1>5, <1>6, <1>7 DEF Quiet

\* The new inode is written: the step leaves locks and counts alone.
LEMMA WriteNewQuiet ==
  ASSUME SafeInv, NEW t \in Threads, WriteNew(t)
  PROVE  Quiet(t)
<1>0. TypeOK /\ th[t] \in Locals /\ KindOK(t) /\ WalkOK(t) /\ KidOK(t) /\ IndexOK(t) /\ InoOK(t)
  BY Own
<1>1. pc[t] = "write_new" /\ files' = files BY DEF WriteNew, table
<1>2. /\ Steps(t) /\ th'[t].kind = th[t].kind /\ th'[t].fd = th[t].fd /\ th'[t].cur = th[t].cur
      /\ Goal(t)' = Goal(t) /\ th'[t].depth = th[t].depth
  BY <1>0, WriteNewEffect DEF Becomes, Goal
<1>3. th[t].cur # 0 => (CurX(t)' <=> CurX(t)) BY <1>0, WriteNewEffect, <1>1, <1>2 DEF CurX
<1>4. /\ th'[t].held <=> th[t].held
      /\ th[t].held => th'[t].kid = th[t].kid /\ (KidX(t)' <=> KidX(t))
  BY <1>0, WriteNewEffect, <1>1, <1>2 DEF KidX, Becomes, KindOK, KidOK, Removed, Named, Emptying
<1>5. {pc[t], pc'[t]} \cap {"lock", "lock_kid", "close"} = {} BY <1>0, WriteNewEffect, <1>1 DEF KindOK
<1>6. (Opening(t)' <=> Opening(t)) /\ (Opening(t) => th'[t].index = th[t].index)
  BY <1>0, WriteNewEffect, <1>1, <1>2 DEF Opening, Becomes, KindOK, IndexOK
<1>7. (Writing(t)' \/ pc'[t] = "unlock_file") <=> (Writing(t) \/ pc[t] = "unlock_file")
  BY <1>0, WriteNewEffect, <1>1, <1>2 DEF Writing, KindOK
<1> QED BY <1>1, <1>2, <1>3, <1>4, <1>5, <1>6, <1>7 DEF Quiet

\* Unlink and rmdir check what they would remove: the step leaves locks and counts
\* alone.
LEMMA CheckQuiet ==
  ASSUME SafeInv, NEW t \in Threads, Check(t)
  PROVE  Quiet(t)
<1>0. TypeOK /\ th[t] \in Locals /\ KindOK(t) /\ WalkOK(t) /\ KidOK(t) /\ IndexOK(t) /\ InoOK(t)
  BY Own
<1>1. pc[t] = "check" /\ files' = files BY DEF Check, table
<1>e. th[t].cur # 0 BY <1>0, <1>1 DEF WalkOK, KindOK, OnFd, Outside
<1>2. /\ Steps(t) /\ th'[t].kind = th[t].kind /\ th'[t].fd = th[t].fd /\ th'[t].cur = th[t].cur
      /\ Goal(t)' = Goal(t) /\ th'[t].depth = th[t].depth
  BY <1>0, <1>e, CheckEffect DEF Becomes, Goal
<1>3. th[t].cur # 0 => (CurX(t)' <=> CurX(t)) BY <1>0, <1>e, CheckEffect, <1>1, <1>2 DEF CurX
<1>4. /\ th'[t].held <=> th[t].held
      /\ th[t].held => th'[t].kid = th[t].kid /\ (KidX(t)' <=> KidX(t))
  BY <1>0, <1>e, CheckEffect, <1>1, <1>2 DEF KidX, Becomes, KindOK, KidOK, Removed, Named, Emptying
<1>5. {pc[t], pc'[t]} \cap {"lock", "lock_kid", "close"} = {}
  BY <1>0, <1>e, CheckEffect, <1>1 DEF KindOK
<1>6. (Opening(t)' <=> Opening(t)) /\ (Opening(t) => th'[t].index = th[t].index)
  BY <1>0, <1>e, CheckEffect, <1>1, <1>2 DEF Opening, Becomes, KindOK, IndexOK
<1>7. (Writing(t)' \/ pc'[t] = "unlock_file") <=> (Writing(t) \/ pc[t] = "unlock_file")
  BY <1>0, <1>e, CheckEffect, <1>1, <1>2 DEF Writing, KindOK
<1> QED BY <1>1, <1>2, <1>3, <1>4, <1>5, <1>6, <1>7 DEF Quiet

\* Dir_remove: the step leaves locks and counts alone.
LEMMA DirRemoveQuiet ==
  ASSUME SafeInv, NEW t \in Threads, DirRemove(t)
  PROVE  Quiet(t)
<1>0. TypeOK /\ th[t] \in Locals /\ KindOK(t) /\ WalkOK(t) /\ KidOK(t) /\ IndexOK(t) /\ InoOK(t)
  BY Own
<1>1. pc[t] = "dir_remove" /\ files' = files BY DEF DirRemove, table
<1>2. /\ Steps(t) /\ th'[t].kind = th[t].kind /\ th'[t].fd = th[t].fd /\ th'[t].cur = th[t].cur
      /\ Goal(t)' = Goal(t) /\ th'[t].depth = th[t].depth
  BY <1>0, DirRemoveEffect DEF Becomes, Goal
<1>3. th[t].cur # 0 => (CurX(t)' <=> CurX(t)) BY <1>0, DirRemoveEffect, <1>1, <1>2 DEF CurX
<1>4. /\ th'[t].held <=> th[t].held
      /\ th[t].held => th'[t].kid = th[t].kid /\ (KidX(t)' <=> KidX(t))
  BY <1>0, DirRemoveEffect, <1>1, <1>2 DEF KidX, Becomes, KindOK, KidOK, Removed, Named, Emptying
<1>5. {pc[t], pc'[t]} \cap {"lock", "lock_kid", "close"} = {}
  BY <1>0, DirRemoveEffect, <1>1 DEF KindOK
<1>6. (Opening(t)' <=> Opening(t)) /\ (Opening(t) => th'[t].index = th[t].index)
  BY <1>0, DirRemoveEffect, <1>1, <1>2 DEF Opening, Becomes, KindOK, IndexOK
<1>7. (Writing(t)' \/ pc'[t] = "unlock_file") <=> (Writing(t) \/ pc[t] = "unlock_file")
  BY <1>0, DirRemoveEffect, <1>1, <1>2 DEF Writing, KindOK
<1> QED BY <1>1, <1>2, <1>3, <1>4, <1>5, <1>6, <1>7 DEF Quiet

\* O_TRUNC looks at the file: the step leaves locks and counts alone.
LEMMA TruncateQuiet ==
  ASSUME SafeInv, NEW t \in Threads, Truncate(t)
  PROVE  Quiet(t)
<1>0. TypeOK /\ th[t] \in Locals /\ KindOK(t) /\ WalkOK(t) /\ KidOK(t) /\ IndexOK(t) /\ InoOK(t)
  BY Own
<1>1. pc[t] = "truncate" /\ files' = files BY DEF Truncate, table
<1>2. /\ Steps(t) /\ th'[t].kind = th[t].kind /\ th'[t].fd = th[t].fd /\ th'[t].cur = th[t].cur
      /\ Goal(t)' = Goal(t) /\ th'[t].depth = th[t].depth
  BY <1>0, TruncateEffect DEF Becomes, Goal
<1>3. th[t].cur # 0 => (CurX(t)' <=> CurX(t)) BY <1>0, TruncateEffect, <1>1, <1>2 DEF CurX
<1>4. /\ th'[t].held <=> th[t].held
      /\ th[t].held => th'[t].kid = th[t].kid /\ (KidX(t)' <=> KidX(t))
  BY <1>0, TruncateEffect, <1>1, <1>2 DEF KidX, Becomes, KindOK, KidOK, Removed, Named, Emptying
<1>5. {pc[t], pc'[t]} \cap {"lock", "lock_kid", "close"} = {} BY <1>0, TruncateEffect, <1>1 DEF KindOK
<1>6. (Opening(t)' <=> Opening(t)) /\ (Opening(t) => th'[t].index = th[t].index)
  BY <1>0, TruncateEffect, <1>1, <1>2 DEF Opening, Becomes, KindOK, IndexOK
<1>7. (Writing(t)' \/ pc'[t] = "unlock_file") <=> (Writing(t) \/ pc[t] = "unlock_file")
  BY <1>0, TruncateEffect, <1>1, <1>2 DEF Writing, KindOK
<1> QED BY <1>1, <1>2, <1>3, <1>4, <1>5, <1>6, <1>7 DEF Quiet

\* Free_all_blocks: the step leaves locks and counts alone.
LEMMA FreeBlocksQuiet ==
  ASSUME SafeInv, NEW t \in Threads, FreeBlocks(t)
  PROVE  Quiet(t)
<1>0. TypeOK /\ th[t] \in Locals /\ KindOK(t) /\ WalkOK(t) /\ KidOK(t) /\ IndexOK(t) /\ InoOK(t)
  BY Own
<1>1. pc[t] = "free_blocks" /\ files' = files BY DEF FreeBlocks, table
<1>2. /\ Steps(t) /\ th'[t].kind = th[t].kind /\ th'[t].fd = th[t].fd /\ th'[t].cur = th[t].cur
      /\ Goal(t)' = Goal(t) /\ th'[t].depth = th[t].depth
  BY <1>0, FreeBlocksEffect DEF Becomes, Goal
<1>3. th[t].cur # 0 => (CurX(t)' <=> CurX(t)) BY <1>0, FreeBlocksEffect, <1>1, <1>2 DEF CurX
<1>4. /\ th'[t].held <=> th[t].held
      /\ th[t].held => th'[t].kid = th[t].kid /\ (KidX(t)' <=> KidX(t))
  BY <1>0, FreeBlocksEffect, <1>1, <1>2 DEF KidX, Becomes, KindOK, KidOK, Removed, Named, Emptying
<1>5. {pc[t], pc'[t]} \cap {"lock", "lock_kid", "close"} = {}
  BY <1>0, FreeBlocksEffect, <1>1 DEF KindOK
<1>6. (Opening(t)' <=> Opening(t)) /\ (Opening(t) => th'[t].index = th[t].index)
  BY <1>0, FreeBlocksEffect, <1>1, <1>2 DEF Opening, Becomes, KindOK, IndexOK
<1>7. (Writing(t)' \/ pc'[t] = "unlock_file") <=> (Writing(t) \/ pc[t] = "unlock_file")
  BY <1>0, FreeBlocksEffect, <1>1, <1>2 DEF Writing, KindOK
<1> QED BY <1>1, <1>2, <1>3, <1>4, <1>5, <1>6, <1>7 DEF Quiet

\* The emptied inode is written: the step leaves locks and counts alone.
LEMMA WriteFileQuiet ==
  ASSUME SafeInv, NEW t \in Threads, WriteFile(t)
  PROVE  Quiet(t)
<1>0. TypeOK /\ th[t] \in Locals /\ KindOK(t) /\ WalkOK(t) /\ KidOK(t) /\ IndexOK(t) /\ InoOK(t)
  BY Own
<1>1. pc[t] = "write_file" /\ files' = files BY DEF WriteFile, table
<1>2. /\ Steps(t) /\ th'[t].kind = th[t].kind /\ th'[t].fd = th[t].fd /\ th'[t].cur = th[t].cur
      /\ Goal(t)' = Goal(t) /\ th'[t].depth = th[t].depth
  BY <1>0, WriteFileEffect DEF Becomes, Goal
<1>3. th[t].cur # 0 => (CurX(t)' <=> CurX(t)) BY <1>0, WriteFileEffect, <1>1, <1>2 DEF CurX
<1>4. /\ th'[t].held <=> th[t].held
      /\ th[t].held => th'[t].kid = th[t].kid /\ (KidX(t)' <=> KidX(t))
  BY <1>0, WriteFileEffect, <1>1, <1>2 DEF KidX, Becomes, KindOK, KidOK, Removed, Named, Emptying
<1>5. {pc[t], pc'[t]} \cap {"lock", "lock_kid", "close"} = {}
  BY <1>0, WriteFileEffect, <1>1 DEF KindOK
<1>6. (Opening(t)' <=> Opening(t)) /\ (Opening(t) => th'[t].index = th[t].index)
  BY <1>0, WriteFileEffect, <1>1, <1>2 DEF Opening, Becomes, KindOK, IndexOK
<1>7. (Writing(t)' \/ pc'[t] = "unlock_file") <=> (Writing(t) \/ pc[t] = "unlock_file")
  BY <1>0, WriteFileEffect, <1>1, <1>2 DEF Writing, KindOK
<1> QED BY <1>1, <1>2, <1>3, <1>4, <1>5, <1>6, <1>7 DEF Quiet

\* The removed inode is cleared: the step leaves locks and counts alone.
LEMMA ClearInodeQuiet ==
  ASSUME SafeInv, NEW t \in Threads, ClearInode(t)
  PROVE  Quiet(t)
<1>0. TypeOK /\ th[t] \in Locals /\ KindOK(t) /\ WalkOK(t) /\ KidOK(t) /\ IndexOK(t) /\ InoOK(t)
  BY Own
<1>1. pc[t] = "clear_inode" /\ files' = files BY DEF ClearInode, table
<1>2. /\ Steps(t) /\ th'[t].kind = th[t].kind /\ th'[t].fd = th[t].fd /\ th'[t].cur = th[t].cur
      /\ Goal(t)' = Goal(t) /\ th'[t].depth = th[t].depth
  BY <1>0, ClearInodeEffect DEF Becomes, Goal
<1>3. th[t].cur # 0 => (CurX(t)' <=> CurX(t)) BY <1>0, ClearInodeEffect, <1>1, <1>2 DEF CurX
<1>4. /\ th'[t].held <=> th[t].held
      /\ th[t].held => th'[t].kid = th[t].kid /\ (KidX(t)' <=> KidX(t))
  BY <1>0, ClearInodeEffect, <1>1, <1>2 DEF KidX, Becomes, KindOK, KidOK, Removed, Named, Emptying
<1>5. {pc[t], pc'[t]} \cap {"lock", "lock_kid", "close"} = {}
  BY <1>0, ClearInodeEffect, <1>1 DEF KindOK
<1>6. (Opening(t)' <=> Opening(t)) /\ (Opening(t) => th'[t].index = th[t].index)
  BY <1>0, ClearInodeEffect, <1>1, <1>2 DEF Opening, Becomes, KindOK, IndexOK
<1>7. (Writing(t)' \/ pc'[t] = "unlock_file") <=> (Writing(t) \/ pc[t] = "unlock_file")
  BY <1>0, ClearInodeEffect, <1>1, <1>2 DEF Writing, KindOK
<1> QED BY <1>1, <1>2, <1>3, <1>4, <1>5, <1>6, <1>7 DEF Quiet

\* Free_inode: the step leaves locks and counts alone.
LEMMA FreeInodeQuiet ==
  ASSUME SafeInv, NEW t \in Threads, FreeInode(t)
  PROVE  Quiet(t)
<1>0. TypeOK /\ th[t] \in Locals /\ KindOK(t) /\ WalkOK(t) /\ KidOK(t) /\ IndexOK(t) /\ InoOK(t)
  BY Own
<1>1. pc[t] = "free_inode" /\ files' = files BY DEF FreeInode, table
<1>2. /\ Steps(t) /\ th'[t].kind = th[t].kind /\ th'[t].fd = th[t].fd /\ th'[t].cur = th[t].cur
      /\ Goal(t)' = Goal(t) /\ th'[t].depth = th[t].depth
  BY <1>0, FreeInodeEffect DEF Becomes, Goal
<1>3. th[t].cur # 0 => (CurX(t)' <=> CurX(t)) BY <1>0, FreeInodeEffect, <1>1, <1>2 DEF CurX
<1>4. /\ th'[t].held <=> th[t].held
      /\ th[t].held => th'[t].kid = th[t].kid /\ (KidX(t)' <=> KidX(t))
  BY <1>0, FreeInodeEffect, <1>1, <1>2 DEF KidX, Becomes, KindOK, KidOK, Removed, Named, Emptying
<1>5. {pc[t], pc'[t]} \cap {"lock", "lock_kid", "close"} = {}
  BY <1>0, FreeInodeEffect, <1>1 DEF KindOK
<1>6. (Opening(t)' <=> Opening(t)) /\ (Opening(t) => th'[t].index = th[t].index)
  BY <1>0, FreeInodeEffect, <1>1, <1>2 DEF Opening, Becomes, KindOK, IndexOK
<1>7. (Writing(t)' \/ pc'[t] = "unlock_file") <=> (Writing(t) \/ pc[t] = "unlock_file")
  BY <1>0, FreeInodeEffect, <1>1, <1>2 DEF Writing, KindOK
<1> QED BY <1>1, <1>2, <1>3, <1>4, <1>5, <1>6, <1>7 DEF Quiet

\* Alloc_all takes one more block: the step leaves locks and counts alone.
LEMMA TakeQuiet ==
  ASSUME SafeInv, NEW t \in Threads, Take(t)
  PROVE  Quiet(t)
<1>0. TypeOK /\ th[t] \in Locals /\ KindOK(t) /\ WalkOK(t) /\ KidOK(t) /\ IndexOK(t) /\ InoOK(t)
  BY Own
<1>1. pc[t] = "take" /\ files' = files BY DEF Take, table
<1>e. Becomes(th[t], th'[t], th[t].depth, th[t].cur, th[t].kid, th[t].held, th'[t].index, th'[t].ino,
              th'[t].got, th[t].over)
  BY <1>0, TakeEffect, SetNone DEF Becomes, Bumped
<1>2. /\ Steps(t) /\ th'[t].kind = th[t].kind /\ th'[t].fd = th[t].fd /\ th'[t].cur = th[t].cur
      /\ Goal(t)' = Goal(t) /\ th'[t].depth = th[t].depth
  BY <1>0, <1>e, TakeEffect, OnwardLabels DEF Becomes, Goal, Bumped
<1>3. th[t].cur # 0 => (CurX(t)' <=> CurX(t))
  BY <1>0, <1>e, TakeEffect, OnwardLabels, <1>1, <1>2 DEF CurX, Bumped
<1>4. /\ th'[t].held <=> th[t].held
      /\ th[t].held => th'[t].kid = th[t].kid /\ (KidX(t)' <=> KidX(t))
  BY <1>0, <1>e, TakeEffect, OnwardLabels, <1>1, <1>2 DEF KidX, Becomes, KindOK, KidOK, Removed,
     Named, Emptying, Bumped
<1>5. {pc[t], pc'[t]} \cap {"lock", "lock_kid", "close"} = {}
  BY <1>0, <1>e, TakeEffect, OnwardLabels, <1>1 DEF KindOK, Bumped
<1>6. (Opening(t)' <=> Opening(t)) /\ (Opening(t) => th'[t].index = th[t].index)
  BY <1>0, <1>e, TakeEffect, OnwardLabels, <1>1, <1>2 DEF Opening, Becomes, KindOK, IndexOK, Bumped
<1>7. (Writing(t)' \/ pc'[t] = "unlock_file") <=> (Writing(t) \/ pc[t] = "unlock_file")
  BY <1>0, <1>e, TakeEffect, OnwardLabels, <1>1, <1>2 DEF Writing, KindOK, Bumped
<1> QED BY <1>1, <1>2, <1>3, <1>4, <1>5, <1>6, <1>7 DEF Quiet

\* Alloc_all gives back what it had taken: the step leaves locks and counts alone.
LEMMA GiveBackQuiet ==
  ASSUME SafeInv, NEW t \in Threads, GiveBack(t)
  PROVE  Quiet(t)
<1>0. TypeOK /\ th[t] \in Locals /\ KindOK(t) /\ WalkOK(t) /\ KidOK(t) /\ IndexOK(t) /\ InoOK(t)
  BY Own
<1>1. pc[t] = "give_back" /\ files' = files BY DEF GiveBack, table
<1>2. /\ Steps(t) /\ th'[t].kind = th[t].kind /\ th'[t].fd = th[t].fd /\ th'[t].cur = th[t].cur
      /\ Goal(t)' = Goal(t) /\ th'[t].depth = th[t].depth
  BY <1>0, GiveBackEffect DEF Becomes, Goal
<1>3. th[t].cur # 0 => (CurX(t)' <=> CurX(t)) BY <1>0, GiveBackEffect, <1>1, <1>2 DEF CurX
<1>4. /\ th'[t].held <=> th[t].held
      /\ th[t].held => th'[t].kid = th[t].kid /\ (KidX(t)' <=> KidX(t))
  BY <1>0, GiveBackEffect, <1>1, <1>2 DEF KidX, Becomes, KindOK, KidOK, Removed, Named, Emptying
<1>5. {pc[t], pc'[t]} \cap {"lock", "lock_kid", "close"} = {} BY <1>0, GiveBackEffect, <1>1 DEF KindOK
<1>6. (Opening(t)' <=> Opening(t)) /\ (Opening(t) => th'[t].index = th[t].index)
  BY <1>0, GiveBackEffect, <1>1, <1>2 DEF Opening, Becomes, KindOK, IndexOK
<1>7. (Writing(t)' \/ pc'[t] = "unlock_file") <=> (Writing(t) \/ pc[t] = "unlock_file")
  BY <1>0, GiveBackEffect, <1>1, <1>2 DEF Writing, KindOK
<1> QED BY <1>1, <1>2, <1>3, <1>4, <1>5, <1>6, <1>7 DEF Quiet

\* The block is there already: the step leaves locks and counts alone.
LEMMA OverwriteQuiet ==
  ASSUME SafeInv, NEW t \in Threads, Overwrite(t)
  PROVE  Quiet(t)
<1>0. TypeOK /\ th[t] \in Locals /\ KindOK(t) /\ WalkOK(t) /\ KidOK(t) /\ IndexOK(t) /\ InoOK(t)
  BY Own
<1>1. pc[t] = "take" /\ files' = files BY DEF Overwrite, table
<1>2. /\ Steps(t) /\ th'[t].kind = th[t].kind /\ th'[t].fd = th[t].fd /\ th'[t].cur = th[t].cur
      /\ Goal(t)' = Goal(t) /\ th'[t].depth = th[t].depth
  BY <1>0, OverwriteEffect, OnwardLabels DEF Becomes, Goal, Bumped
<1>3. th[t].cur # 0 => (CurX(t)' <=> CurX(t))
  BY <1>0, OverwriteEffect, OnwardLabels, <1>1, <1>2 DEF CurX, Bumped
<1>4. /\ th'[t].held <=> th[t].held
      /\ th[t].held => th'[t].kid = th[t].kid /\ (KidX(t)' <=> KidX(t))
  BY <1>0, OverwriteEffect, OnwardLabels, <1>1, <1>2 DEF KidX, Becomes, KindOK, KidOK, Removed, Named,
     Emptying, Bumped
<1>5. {pc[t], pc'[t]} \cap {"lock", "lock_kid", "close"} = {}
  BY <1>0, OverwriteEffect, OnwardLabels, <1>1 DEF KindOK, Bumped
<1>6. (Opening(t)' <=> Opening(t)) /\ (Opening(t) => th'[t].index = th[t].index)
  BY <1>0, OverwriteEffect, OnwardLabels, <1>1, <1>2 DEF Opening, Becomes, KindOK, IndexOK, Bumped
<1>7. (Writing(t)' \/ pc'[t] = "unlock_file") <=> (Writing(t) \/ pc[t] = "unlock_file")
  BY <1>0, OverwriteEffect, OnwardLabels, <1>1, <1>2 DEF Writing, KindOK, Bumped
<1> QED BY <1>1, <1>2, <1>3, <1>4, <1>5, <1>6, <1>7 DEF Quiet

\* Write_inode after a chunk: the step leaves locks and counts alone.
LEMMA StoreQuiet ==
  ASSUME SafeInv, NEW t \in Threads, Store(t)
  PROVE  Quiet(t)
<1>0. TypeOK /\ th[t] \in Locals /\ KindOK(t) /\ WalkOK(t) /\ KidOK(t) /\ IndexOK(t) /\ InoOK(t)
  BY Own
<1>1. pc[t] = "store" /\ files' = files BY DEF Store, table
<1>2. /\ Steps(t) /\ th'[t].kind = th[t].kind /\ th'[t].fd = th[t].fd /\ th'[t].cur = th[t].cur
      /\ Goal(t)' = Goal(t) /\ th'[t].depth = th[t].depth
  BY <1>0, StoreEffect DEF Becomes, Goal
<1>3. th[t].cur # 0 => (CurX(t)' <=> CurX(t)) BY <1>0, StoreEffect, <1>1, <1>2 DEF CurX
<1>4. /\ th'[t].held <=> th[t].held
      /\ th[t].held => th'[t].kid = th[t].kid /\ (KidX(t)' <=> KidX(t))
  BY <1>0, StoreEffect, <1>1, <1>2 DEF KidX, Becomes, KindOK, KidOK, Removed, Named, Emptying
<1>5. {pc[t], pc'[t]} \cap {"lock", "lock_kid", "close"} = {} BY <1>0, StoreEffect, <1>1 DEF KindOK
<1>6. (Opening(t)' <=> Opening(t)) /\ (Opening(t) => th'[t].index = th[t].index)
  BY <1>0, StoreEffect, <1>1, <1>2 DEF Opening, Becomes, KindOK, IndexOK
<1>7. (Writing(t)' \/ pc'[t] = "unlock_file") <=> (Writing(t) \/ pc[t] = "unlock_file")
  BY <1>0, StoreEffect, <1>1, <1>2 DEF Writing, KindOK
<1> QED BY <1>1, <1>2, <1>3, <1>4, <1>5, <1>6, <1>7 DEF Quiet

\* Vfs_fsync waits for a commit: the step leaves locks and counts alone.
LEMMA FsyncQuiet ==
  ASSUME SafeInv, NEW t \in Threads, Fsync(t)
  PROVE  Quiet(t)
<1>0. TypeOK /\ th[t] \in Locals /\ KindOK(t) /\ WalkOK(t) /\ KidOK(t) /\ IndexOK(t) /\ InoOK(t)
  BY Own
<1>1. pc[t] = "idle" /\ files' = files BY DEF Fsync, table
<1>2. /\ Steps(t) /\ th'[t].kind = th[t].kind /\ th'[t].fd = th[t].fd /\ th'[t].cur = th[t].cur
      /\ Goal(t)' = Goal(t) /\ th'[t].depth = th[t].depth
  BY <1>0, FsyncEffect DEF Becomes, Goal
<1>3. th[t].cur # 0 => (CurX(t)' <=> CurX(t)) BY <1>0, FsyncEffect, <1>1, <1>2 DEF CurX
<1>4. /\ th'[t].held <=> th[t].held
      /\ th[t].held => th'[t].kid = th[t].kid /\ (KidX(t)' <=> KidX(t))
  BY <1>0, FsyncEffect, <1>1, <1>2 DEF KidX, Becomes, KindOK, KidOK, Removed, Named, Emptying
<1>5. {pc[t], pc'[t]} \cap {"lock", "lock_kid", "close"} = {} BY <1>0, FsyncEffect, <1>1 DEF KindOK
<1>6. (Opening(t)' <=> Opening(t)) /\ (Opening(t) => th'[t].index = th[t].index)
  BY <1>0, FsyncEffect, <1>1, <1>2 DEF Opening, Becomes, KindOK, IndexOK
<1>7. (Writing(t)' \/ pc'[t] = "unlock_file") <=> (Writing(t) \/ pc[t] = "unlock_file")
  BY <1>0, FsyncEffect, <1>1, <1>2 DEF Writing, KindOK
<1> QED BY <1>1, <1>2, <1>3, <1>4, <1>5, <1>6, <1>7 DEF Quiet

\* A block cannot be read and the step throws: the step leaves locks and counts alone.
LEMMA IoErrorQuiet ==
  ASSUME SafeInv, NEW t \in Threads, IoError(t)
  PROVE  Quiet(t)
<1>0. TypeOK /\ th[t] \in Locals /\ KindOK(t) /\ WalkOK(t) /\ KidOK(t) /\ IndexOK(t) /\ InoOK(t)
  BY Own
<1>1. pc[t] \in Reads /\ files' = files BY DEF IoError, table
<1>e. pc[t] \in Reads /\ th[t].held \in BOOLEAN BY <1>0, LocalsFields DEF IoError
<1>2. /\ Steps(t) /\ th'[t].kind = th[t].kind /\ th'[t].fd = th[t].fd /\ th'[t].cur = th[t].cur
      /\ Goal(t)' = Goal(t) /\ th'[t].depth = th[t].depth
  BY <1>0, <1>e, IoErrorEffect DEF Becomes, Goal, Reads
<1>3. th[t].cur # 0 => (CurX(t)' <=> CurX(t)) BY <1>0, <1>e, IoErrorEffect, <1>1, <1>2 DEF CurX, Reads
<1>4. /\ th'[t].held <=> th[t].held
      /\ th[t].held => th'[t].kid = th[t].kid /\ (KidX(t)' <=> KidX(t))
  BY <1>0, <1>e, IoErrorEffect, <1>1, <1>2 DEF KidX, Becomes, KindOK, KidOK, Removed, Named, Emptying,
     Reads
<1>5. {pc[t], pc'[t]} \cap {"lock", "lock_kid", "close"} = {}
  BY <1>0, <1>e, IoErrorEffect, <1>1 DEF KindOK, Reads
<1>6. (Opening(t)' <=> Opening(t)) /\ (Opening(t) => th'[t].index = th[t].index)
  BY <1>0, <1>e, IoErrorEffect, <1>1, <1>2 DEF Opening, Becomes, KindOK, IndexOK, Reads
<1>7. (Writing(t)' \/ pc'[t] = "unlock_file") <=> (Writing(t) \/ pc[t] = "unlock_file")
  BY <1>0, <1>e, IoErrorEffect, <1>1, <1>2 DEF Writing, KindOK, Reads
<1> QED BY <1>1, <1>2, <1>3, <1>4, <1>5, <1>6, <1>7 DEF Quiet

-----------------------------------------------------------------------------
(* What a step does to the locks and the counts. *)

\* The copies of inodes an entry keeps are only forgotten.
Fades == /\ entry' \in [Inodes -> EntryType]
         /\ \A i \in Inodes : entry'[i].valid => entry[i].valid /\ entry'[i].inode = entry[i].inode

\* The last user of an entry counts for all the opens it counts.
LEMMA LastCount ==
  ASSUME TypeOK, EntriesCounted, NEW t \in Threads, NEW i \in Inodes, entry[i].refs = Uses(t, i), ~Opener(t, i)
  PROVE  entry[i].open_count = 0
<1>1. /\ \A u \in Threads : u # t => ~Opener(u, i)
      /\ \A fd \in Fds : files[fd] # i
  BY LastUser
<1>2. Openers(i) = {} BY <1>1 DEF Openers, Opener
<1>3. {fd \in Opened : files[fd] = i} = {} BY <1>1 DEF Opened
<1>4. Cardinality({}) = 0 BY FS_EmptySet
<1>5. entry[i].open_count = Cardinality({fd \in Opened : files[fd] = i}) + Cardinality(Openers(i))
  BY DEF EntriesCounted
<1>6. entry[i].open_count = Cardinality({}) + Cardinality({}) BY <1>2, <1>3, <1>5
<1> QED BY <1>4, <1>6

\* Counts and open files, when a step leaves the descriptors alone.
LEMMA PlainCounts ==
  ASSUME SafeInv, NEW t \in Threads, Steps(t), files' = files, pc[t] # "close", pc'[t] # "close",
         \A i \in Inodes :
            /\ entry'[i].refs = entry[i].refs + Uses(t, i)' - Uses(t, i)
            /\ entry'[i].open_count = entry[i].open_count + Bit(Opener(t, i))' - Bit(Opener(t, i))
            /\ entry'[i].refs = 0 => entry'[i] = NoEntry
  PROVE  EntriesCounted' /\ Opened' = Opened
<1>0. TypeOK /\ EntriesCounted BY DEF SafeInv
<1>1. Opened' = Opened
  <2>1. \A u \in Threads, fd \in Fds : (pc'[u] = "close" /\ th'[u].fd = fd) <=> (pc[u] = "close" /\ th[u].fd = fd)
    BY DEF Steps
  <2> QED BY <2>1 DEF Opened
<1>2. EntriesCounted'
  <2> SUFFICES ASSUME NEW i \in Inodes
               PROVE  /\ entry'[i].refs = Cardinality(At(i)') + Cardinality(Below(i)') + Cardinality(Openers(i)')
                                          + Cardinality({fd \in Fds : files'[fd] = i})
                      /\ entry'[i].open_count = Cardinality({fd \in Opened' : files'[fd] = i}) + Cardinality(Openers(i)')
                      /\ entry'[i].refs = 0 => entry'[i] = NoEntry
    BY DEF EntriesCounted
  <2>0. 1 \in Fds BY NFiles \in Nat \ {0} DEF Fds
  <2>2. Bit(1 \in Opened /\ files[1] = i)' = Bit(1 \in Opened /\ files[1] = i) BY <1>0, <1>1 DEF Bit
  <2>3. Bit(files[1] = i)' = Bit(files[1] = i) BY <1>0 DEF Bit
  <2>4. /\ Uses(t, i) \in Nat /\ Bit(Opener(t, i)) \in Nat /\ Bit(1 \in Opened /\ files[1] = i) \in Nat
        /\ Bit(files[1] = i) \in Nat /\ entry[i].refs \in Nat /\ entry[i].open_count \in Nat
        /\ Bit(Opener(t, i))' \in Nat /\ Uses(t, i)' \in Nat
    BY <1>0, UserCounts, EntryFields DEF Bit, TypeOK, Uses
  <2>6. entry'[i].refs = entry[i].refs + Uses(t, i)' - Uses(t, i) + Bit(files[1] = i)' - Bit(files[1] = i)
    BY <2>3, <2>4
  <2>7. entry'[i].open_count = entry[i].open_count + Bit(Opener(t, i))' - Bit(Opener(t, i))
                               + Bit(1 \in Opened /\ files[1] = i)' - Bit(1 \in Opened /\ files[1] = i)
    BY <2>2, <2>4
  <2> QED BY <1>0, <1>1, <2>0, <2>6, <2>7, CountStep
<1> QED BY <1>1, <1>2

\* Locks, when a step takes and drops none.
LEMMA PlainLocks ==
  ASSUME SafeInv, NEW t \in Threads, Steps(t), files' = files,
         \A i \in Inodes : /\ entry'[i].x = entry[i].x /\ entry'[i].s = entry[i].s
                           /\ HasX(t, i)' <=> HasX(t, i)
                           /\ HasS(t, i)' <=> HasS(t, i)
  PROVE  LockInv'
<1>1. \A i \in Inodes : /\ entry'[i].x = t <=> HasX(t, i)'
                        /\ t \in entry'[i].s <=> HasS(t, i)'
                        /\ entry'[i].x # NoThread => entry'[i].s = {}
  BY DEF SafeInv, LockInv
<1> QED BY <1>1, LockStep

\* An entry that a thread lets go of.
LEMMA DropEntry ==
  ASSUME SafeInv, NEW t \in Threads, NEW i \in Inodes, th[t].cur = i \/ Lower(t, i),
         NEW e \in [Inodes -> EntryType], e[i].refs = entry[i].refs, e[i].open_count = entry[i].open_count,
         \A u \in Threads : u # t => (e[i].x = u <=> entry[i].x = u) /\ (u \in e[i].s <=> u \in entry[i].s),
         e[i].x # NoThread => e[i].s = {}
  PROVE  LET f == Drop(e, i, t) IN
         /\ f \in [Inodes -> EntryType] /\ \A j \in Inodes : j # i => f[j] = e[j]
         /\ f[i].refs = entry[i].refs - 1 /\ f[i].open_count = entry[i].open_count
         /\ f[i].refs = 0 => f[i] = NoEntry
         /\ f[i].x # t /\ t \notin f[i].s
         /\ \A u \in Threads : u # t => (f[i].x = u <=> entry[i].x = u) /\ (u \in f[i].s <=> u \in entry[i].s)
         /\ f[i].x # NoThread => f[i].s = {}
         /\ f[i].valid => e[i].valid /\ f[i].inode = e[i].inode
<1> DEFINE f == Drop(e, i, t)
<1>0. TypeOK /\ EntriesCounted /\ LockInv /\ ShapeInv BY DEF SafeInv
<1>1. /\ Uses(t, i) \in Nat /\ Uses(t, i) >= 1 /\ entry[i].refs \in Nat /\ entry[i].refs >= Uses(t, i)
      /\ Uses(t, i) = 1 => ~Opener(t, i)
  BY <1>0, UserCounts DEF Uses, Bit
<1>2. e[i].refs # 0 /\ t # NoThread BY <1>1, ThreadsAssumption
<1>3. /\ Only(e, f, i)
      /\ IF e[i].refs = 1 THEN f[i] = NoEntry
         ELSE Looks(f[i], e[i].refs - 1, IF e[i].x = t THEN NoThread ELSE e[i].x, e[i].s \ {t}, e[i].open_count,
                    e[i].valid, e[i].inode)
  BY <1>2, DropIs
<1> HIDE DEF f
<1>4. CASE e[i].refs = 1
  <2>1. entry[i].refs = Uses(t, i) /\ Uses(t, i) = 1 BY <1>1, <1>4
  <2>2. /\ \A u \in Threads : u # t => th[u].cur # i /\ ~Lower(u, i) /\ ~Opener(u, i)
        /\ \A fd \in Fds : files[fd] # i
    BY <1>0, <2>1, LastUser
  <2>3. \A u \in Threads : u # t => entry[i].x # u /\ u \notin entry[i].s
    <3> SUFFICES ASSUME NEW u \in Threads, u # t PROVE ~HasX(u, i) /\ ~HasS(u, i) BY <1>0 DEF LockInv
    <3>1. KindOK(u) /\ WalkOK(u) BY <1>0 DEF ShapeInv
    <3>2. ~HasFile(u, i) BY <2>2, <3>1 DEF HasFile, Writing, KindOK, WalkOK, OnFd
    <3> QED BY <2>2, <3>2 DEF HasX, HasS, Lower
  <2>4. entry[i].open_count = 0 BY <1>0, <1>1, <2>1, LastCount
  <2> QED BY <1>2, <1>3, <1>4, <2>3, <2>4, NoEntryType, ThreadsAssumption DEF Only, f
<1>5. CASE e[i].refs # 1
  <2>1. e[i].refs - 1 # 0 BY <1>1, <1>5
  <2>2. Only(e, f, i) /\ f[i].refs = e[i].refs - 1 /\ f[i].open_count = e[i].open_count
        /\ f[i].valid = e[i].valid /\ f[i].inode = e[i].inode
    BY <1>3, <1>5 DEF Looks
  <2>3. f[i].x = (IF e[i].x = t THEN NoThread ELSE e[i].x) /\ f[i].s = e[i].s \ {t}
    BY <1>3, <1>5 DEF Looks
  <2>4. /\ f[i].x # t /\ t \notin f[i].s
        /\ \A u \in Threads : u # t => (f[i].x = u <=> entry[i].x = u) /\ (u \in f[i].s <=> u \in entry[i].s)
        /\ f[i].x # NoThread => f[i].s = {}
    BY <1>2, <2>3, ThreadsAssumption
  <2> QED BY <2>1, <2>2, <2>4 DEF Only, f
<1> QED BY <1>4, <1>5

\* A reference is taken, to what is to be locked.
LEMMA AcquireStep ==
  ASSUME SafeInv, NEW t \in Threads, Steps(t), files' = files, pc[t] # "close", pc'[t] # "close",
         NEW j \in Inodes, entry' = Acquire(entry, j), th'[t].cur = th[t].cur,
         \A i \in Inodes : /\ ~Lower(t, i) /\ (Lower(t, i)' <=> i = j)
                           /\ Opener(t, i)' <=> Opener(t, i)
                           /\ HasX(t, i)' <=> HasX(t, i)
                           /\ HasS(t, i)' <=> HasS(t, i)
  PROVE  LockInv' /\ EntriesCounted' /\ Opened' = Opened /\ Fades
<1>0. TypeOK /\ EntriesCounted /\ entry \in [Inodes -> EntryType] BY DEF SafeInv, TypeOK
<1>1. /\ Only(entry, entry', j)
      /\ Looks(entry'[j], entry[j].refs + 1, entry[j].x, entry[j].s, entry[j].open_count, entry[j].valid, entry[j].inode)
  BY <1>0, AcquireIs
<1>2. \A i \in Inodes : /\ entry'[i].x = entry[i].x /\ entry'[i].s = entry[i].s
                        /\ entry'[i].open_count = entry[i].open_count
                        /\ entry'[i].refs = (IF i = j THEN entry[i].refs + 1 ELSE entry[i].refs)
                        /\ entry'[i].valid = entry[i].valid /\ entry'[i].inode = entry[i].inode
                        /\ i # j => entry'[i] = entry[i]
  BY <1>1 DEF Only, Looks
<1>3. ASSUME NEW i \in Inodes
      PROVE  /\ entry'[i].refs = entry[i].refs + Uses(t, i)' - Uses(t, i)
             /\ entry'[i].open_count = entry[i].open_count + Bit(Opener(t, i))' - Bit(Opener(t, i))
             /\ entry'[i].refs = 0 => entry'[i] = NoEntry
  <2>0. entry[i].refs \in Nat /\ entry[i].open_count \in Nat BY <1>0, EntryFields
  <2>1. Bit(Opener(t, i))' = Bit(Opener(t, i)) /\ Bit(Opener(t, i)) \in Nat BY DEF Bit
  <2>2. Bit(th[t].cur = i)' = Bit(th[t].cur = i) /\ Bit(th[t].cur = i) \in Nat BY DEF Bit
  <2>3. Bit(Lower(t, i))' = (IF i = j THEN 1 ELSE 0) /\ Bit(Lower(t, i)) = 0 BY DEF Bit
  <2>4. Uses(t, i)' = Uses(t, i) + (IF i = j THEN 1 ELSE 0) /\ Uses(t, i) \in Nat
    BY <2>1, <2>2, <2>3 DEF Uses
  <2>5. entry[i].refs = 0 => entry[i] = NoEntry BY <1>0 DEF EntriesCounted
  <2> QED BY <1>2, <2>0, <2>1, <2>4, <2>5
<1>4. EntriesCounted' /\ Opened' = Opened BY <1>3, PlainCounts
<1>5. LockInv' BY <1>2, PlainLocks
<1>6. Fades BY <1>1, <1>2 DEF Fades, Only
<1> QED BY <1>4, <1>5, <1>6

\* A file is registered as open.
LEMMA RegisterStep ==
  ASSUME SafeInv, NEW t \in Threads, Steps(t), files' = files, pc[t] # "close", pc'[t] # "close",
         NEW j \in Inodes, entry' = Registered(entry, j), th'[t].cur = th[t].cur,
         \A i \in Inodes : /\ Lower(t, i)' <=> Lower(t, i)
                           /\ ~Opener(t, i) /\ (Opener(t, i)' <=> i = j)
                           /\ HasX(t, i)' <=> HasX(t, i)
                           /\ HasS(t, i)' <=> HasS(t, i)
  PROVE  LockInv' /\ EntriesCounted' /\ Opened' = Opened /\ Fades
<1>0. TypeOK /\ EntriesCounted /\ entry \in [Inodes -> EntryType] BY DEF SafeInv, TypeOK
<1>1. /\ Only(entry, entry', j)
      /\ Looks(entry'[j], entry[j].refs + 1, entry[j].x, entry[j].s, entry[j].open_count + 1, entry[j].valid, entry[j].inode)
  BY <1>0, RegisteredIs
<1>2. \A i \in Inodes : /\ entry'[i].x = entry[i].x /\ entry'[i].s = entry[i].s
                        /\ entry'[i].open_count = (IF i = j THEN entry[i].open_count + 1 ELSE entry[i].open_count)
                        /\ entry'[i].refs = (IF i = j THEN entry[i].refs + 1 ELSE entry[i].refs)
                        /\ entry'[i].valid = entry[i].valid /\ entry'[i].inode = entry[i].inode
                        /\ i # j => entry'[i] = entry[i]
  BY <1>1 DEF Only, Looks
<1>3. ASSUME NEW i \in Inodes
      PROVE  /\ entry'[i].refs = entry[i].refs + Uses(t, i)' - Uses(t, i)
             /\ entry'[i].open_count = entry[i].open_count + Bit(Opener(t, i))' - Bit(Opener(t, i))
             /\ entry'[i].refs = 0 => entry'[i] = NoEntry
  <2>0. entry[i].refs \in Nat /\ entry[i].open_count \in Nat BY <1>0, EntryFields
  <2>1. Bit(Lower(t, i))' = Bit(Lower(t, i)) /\ Bit(Lower(t, i)) \in Nat BY DEF Bit
  <2>2. Bit(th[t].cur = i)' = Bit(th[t].cur = i) /\ Bit(th[t].cur = i) \in Nat BY DEF Bit
  <2>3. Bit(Opener(t, i))' = (IF i = j THEN 1 ELSE 0) /\ Bit(Opener(t, i)) = 0 BY DEF Bit
  <2>4. Uses(t, i)' = Uses(t, i) + (IF i = j THEN 1 ELSE 0) /\ Uses(t, i) \in Nat
    BY <2>1, <2>2, <2>3 DEF Uses
  <2>5. entry[i].refs = 0 => entry[i] = NoEntry BY <1>0 DEF EntriesCounted
  <2> QED BY <1>2, <2>0, <2>3, <2>4, <2>5
<1>4. EntriesCounted' /\ Opened' = Opened BY <1>3, PlainCounts
<1>5. LockInv' BY <1>2, PlainLocks
<1>6. Fades BY <1>1, <1>2 DEF Fades, Only
<1> QED BY <1>4, <1>5, <1>6

\* A lock is taken that the thread has a reference to.
LEMMA LockedStep ==
  ASSUME SafeInv, NEW t \in Threads, Steps(t), files' = files, pc[t] # "close", pc'[t] # "close",
         NEW j \in Inodes, CanLock(t, j), entry[j].refs # 0, th'[t].cur = th[t].cur,
         Only(entry, entry', j),
         /\ entry'[j].refs = entry[j].refs /\ entry'[j].open_count = entry[j].open_count
         /\ entry'[j].x = (IF Exclusive(t) THEN t ELSE entry[j].x)
         /\ entry'[j].s = (IF Exclusive(t) THEN entry[j].s ELSE entry[j].s \cup {t})
         /\ entry'[j].valid => entry[j].valid /\ entry'[j].inode = entry[j].inode,
         \A i \in Inodes : /\ Lower(t, i)' <=> Lower(t, i)
                           /\ Opener(t, i)' <=> Opener(t, i)
                           /\ HasX(t, i)' <=> (HasX(t, i) \/ (i = j /\ Exclusive(t)))
                           /\ HasS(t, i)' <=> (HasS(t, i) \/ (i = j /\ ~Exclusive(t)))
  PROVE  LockInv' /\ EntriesCounted' /\ Opened' = Opened /\ Fades
<1>0. TypeOK /\ EntriesCounted /\ LockInv /\ entry \in [Inodes -> EntryType] BY DEF SafeInv, TypeOK
<1>1. \A i \in Inodes : i # j => entry'[i] = entry[i] BY DEF Only
<1>2. entry[j].x = NoThread /\ (Exclusive(t) => entry[j].s = {}) /\ t # NoThread
  BY ThreadsAssumption DEF CanLock
<1>3. ASSUME NEW i \in Inodes
      PROVE  /\ entry'[i].refs = entry[i].refs + Uses(t, i)' - Uses(t, i)
             /\ entry'[i].open_count = entry[i].open_count + Bit(Opener(t, i))' - Bit(Opener(t, i))
             /\ entry'[i].refs = 0 => entry'[i] = NoEntry
  <2>0. entry[i].refs \in Nat /\ entry[i].open_count \in Nat BY <1>0, EntryFields
  <2>1. Bit(Lower(t, i))' = Bit(Lower(t, i)) /\ Bit(Lower(t, i)) \in Nat BY DEF Bit
  <2>2. Bit(th[t].cur = i)' = Bit(th[t].cur = i) /\ Bit(th[t].cur = i) \in Nat BY DEF Bit
  <2>3. Bit(Opener(t, i))' = Bit(Opener(t, i)) /\ Bit(Opener(t, i)) \in Nat BY DEF Bit
  <2>4. Uses(t, i)' = Uses(t, i) /\ Uses(t, i) \in Nat BY <2>1, <2>2, <2>3 DEF Uses
  <2>5. entry[i].refs = 0 => entry[i] = NoEntry BY <1>0 DEF EntriesCounted
  <2>6. entry'[i].refs = entry[i].refs /\ entry'[i].open_count = entry[i].open_count BY <1>1
  <2> QED BY <1>1, <2>0, <2>3, <2>4, <2>5, <2>6
<1>4. EntriesCounted' /\ Opened' = Opened BY <1>3, PlainCounts
<1>5. LockInv'
  <2>1. ASSUME NEW i \in Inodes
        PROVE  /\ \A u \in Threads : u # t =>
                     (entry'[i].x = u <=> entry[i].x = u) /\ (u \in entry'[i].s <=> u \in entry[i].s)
               /\ entry'[i].x = t <=> HasX(t, i)'
               /\ t \in entry'[i].s <=> HasS(t, i)'
               /\ entry'[i].x # NoThread => entry'[i].s = {}
    <3>1. (entry[i].x = t <=> HasX(t, i)) /\ (t \in entry[i].s <=> HasS(t, i))
          /\ (entry[i].x # NoThread => entry[i].s = {})
      BY <1>0 DEF LockInv
    <3>2. CASE i # j BY <1>1, <3>1, <3>2
    <3>3. CASE i = j BY <1>2, <3>1, <3>3, ThreadsAssumption
    <3> QED BY <3>2, <3>3
  <2> QED BY <2>1, LockStep
<1>6. Fades BY <1>1 DEF Fades, Only
<1> QED BY <1>4, <1>5, <1>6

\* The locks a thread has, when it keeps them.
LEMMA KeepsLocks ==
  ASSUME NEW t \in Threads, files' = files, th'[t].kind = th[t].kind, th'[t].fd = th[t].fd, th'[t].cur = th[t].cur,
         th[t].cur # 0 => (CurX(t)' <=> CurX(t)),
         th'[t].held <=> th[t].held,
         th[t].held => th'[t].kid = th[t].kid /\ (KidX(t)' <=> KidX(t)),
         (Writing(t)' \/ pc'[t] = "unlock_file") <=> (Writing(t) \/ pc[t] = "unlock_file")
  PROVE  \A i \in Inodes : (HasX(t, i)' <=> HasX(t, i)) /\ (HasS(t, i)' <=> HasS(t, i))
<1> SUFFICES ASSUME NEW i \in Inodes
             PROVE (HasX(t, i)' <=> HasX(t, i)) /\ (HasS(t, i)' <=> HasS(t, i))
  OBVIOUS
<1>1. HasFile(t, i)' <=> HasFile(t, i) BY DEF HasFile
<1>2. i # 0 BY DEF Inodes
<1> QED BY <1>1, <1>2 DEF HasX, HasS

\* A walk starts at the root: the locks and the counts of users still agree.
LEMMA WalkRootLocks ==
  ASSUME SafeInv, NEW t \in Threads, WalkRoot(t)
  PROVE  LockInv' /\ EntriesCounted' /\ Opened' = Opened /\ Fades
<1>0. TypeOK /\ th[t] \in Locals /\ KindOK(t) /\ WalkOK(t) /\ KidOK(t) /\ IndexOK(t) BY Own
<1>1. entry' = Acquire(entry, Root) /\ files' = files BY DEF WalkRoot, table
<1>2. /\ Steps(t) /\ pc[t] = "root" /\ pc'[t] = "lock" /\ th'[t].kind = th[t].kind /\ th'[t].fd = th[t].fd
      /\ th'[t].cur = th[t].cur /\ th'[t].kid = Root /\ th'[t].held = th[t].held /\ th'[t].index = th[t].index
  BY <1>0, WalkRootEffect DEF Becomes
<1>3. th[t].cur = 0 /\ th[t].kid = 0 /\ ~th[t].held
  BY <1>0, <1>2 DEF WalkOK, KidOK, Outside, Removed, Named, Emptying
<1>4. Root \in Inodes /\ \A i \in Inodes : i # 0 BY DEF Root, Inodes
<1>5. \A i \in Inodes : (HasX(t, i)' <=> HasX(t, i)) /\ (HasS(t, i)' <=> HasS(t, i))
  <2>1. (Writing(t)' \/ pc'[t] = "unlock_file") <=> (Writing(t) \/ pc[t] = "unlock_file")
    BY <1>2 DEF Writing
  <2> QED BY <1>1, <1>2, <1>3, <2>1, KeepsLocks
<1>6. \A i \in Inodes : /\ ~Lower(t, i) /\ (Lower(t, i)' <=> i = Root)
                        /\ Opener(t, i)' <=> Opener(t, i)
  BY <1>2, <1>3, <1>4 DEF Lower, Opener, Opening
<1> QED BY <1>1, <1>2, <1>4, <1>5, <1>6, AcquireStep

\* A walk looks a component up: the locks and the counts of users still agree.
LEMMA WalkNextLocks ==
  ASSUME SafeInv, NEW t \in Threads, WalkNext(t)
  PROVE  LockInv' /\ EntriesCounted' /\ Opened' = Opened /\ Fades
<1>0. TypeOK /\ th[t] \in Locals /\ KindOK(t) /\ WalkOK(t) /\ KidOK(t) /\ IndexOK(t) /\ (th[t].cur # 0 => th[t].cur \in Inodes)
  BY Own
<1> DEFINE n == th[t].path[th[t].depth + 1]
           child == dirent[th[t].cur][n]
<1>e. /\ pc[t] = "walk" /\ th[t].cur # 0 /\ th[t].cur \in Inodes /\ n \in Names /\ (child # 0 => child \in Inodes)
      /\ th[t].depth < Goal(t) /\ th[t].kind \in ByPath
  <2>0. pc[t] = "walk" BY DEF WalkNext
  <2>1. th[t].kind \in ByPath BY <1>0, <2>0 DEF KindOK
  <2>2. th[t].cur # 0 /\ th[t].depth < Goal(t) BY <1>0, <2>0, <2>1 DEF WalkOK, OnFd, Outside
  <2> QED BY <1>0, <2>0, <2>1, <2>2, NameIn, Named1
<1>1. files' = files BY DEF WalkNext, table
<1>2. /\ \/ pc'[t] = "exit" /\ entry' = entry
         \/ pc'[t] = "lock" /\ child # 0 /\ entry' = Acquire(entry, child)
  BY <1>0 DEF WalkNext, Descend, Goto, TypeOK
<1>3. /\ Steps(t) /\ th'[t].kind = th[t].kind /\ th'[t].fd = th[t].fd /\ th'[t].path = th[t].path
      /\ th'[t].cur = th[t].cur /\ th'[t].held = th[t].held /\ th'[t].index = th[t].index
      /\ pc'[t] = "exit" => th'[t].depth = th[t].depth /\ th'[t].kid = th[t].kid
      /\ pc'[t] = "lock" => th'[t].kid = child
  BY <1>0, <1>e, WalkNextEffect DEF Becomes
<1>4. th[t].kid = 0 /\ ~th[t].held BY <1>0, <1>e DEF KidOK, Outside, Removed, Named, Emptying
<1> HIDE DEF child, n
<1>5. \A i \in Inodes : (HasX(t, i)' <=> HasX(t, i)) /\ (HasS(t, i)' <=> HasS(t, i))
  <2>1. (Writing(t)' \/ pc'[t] = "unlock_file") <=> (Writing(t) \/ pc[t] = "unlock_file")
    BY <1>2, <1>e DEF Writing
  <2>2. Goal(t)' = Goal(t) /\ Goal(t) \in Nat /\ th[t].depth \in Nat
    BY <1>0, <1>3, <1>e, NameIn DEF Goal
  <2>3. CurX(t)' <=> CurX(t) BY <1>2, <1>3, <1>e, <2>2 DEF CurX
  <2> QED BY <1>1, <1>3, <1>4, <2>1, <2>3, KeepsLocks
<1>6. CASE pc'[t] = "lock" /\ child # 0 /\ entry' = Acquire(entry, child)
  <2>1. \A i \in Inodes : /\ ~Lower(t, i) /\ (Lower(t, i)' <=> i = child)
                          /\ Opener(t, i)' <=> Opener(t, i)
    BY <1>e, <1>3, <1>4, <1>6 DEF Lower, Opener, Opening, Inodes
  <2> QED BY <1>1, <1>3, <1>e, <1>5, <1>6, <2>1, AcquireStep
<1>7. CASE pc'[t] = "exit" /\ entry' = entry
  <2>1. Opening(t)' <=> Opening(t)
    BY <1>0, <1>3, <1>e, <1>7 DEF Opening, IndexOK
  <2>2. th[t].cur # 0 => (CurX(t)' <=> CurX(t))
    <3>2. Goal(t)' = Goal(t) BY <1>3 DEF Goal
    <3> QED BY <1>3, <1>e, <1>7, <3>2 DEF CurX
  <2>3. Quiet(t) BY <1>1, <1>3, <1>4, <1>e, <1>7, <2>1, <2>2 DEF Quiet, Writing
  <2>4. \A i \in Inodes : entry'[i].refs = 0 => entry'[i] = NoEntry
    BY <1>7 DEF SafeInv, EntriesCounted
  <2>5. Fades BY <1>0, <1>7 DEF Fades, TypeOK
  <2> QED BY <1>7, <2>3, <2>5, QuietLocks
<1> QED BY <1>2, <1>6, <1>7

\* A call has found its last component: the locks and the counts of users still agree.
LEMMA AtChildLocks ==
  ASSUME SafeInv, NEW t \in Threads, AtChild(t)
  PROVE  LockInv' /\ EntriesCounted' /\ Opened' = Opened /\ Fades
<1>0. TypeOK /\ th[t] \in Locals /\ KindOK(t) /\ WalkOK(t) /\ KidOK(t) /\ IndexOK(t) /\ (th[t].cur # 0 => th[t].cur \in Inodes)
  BY Own
<1>e. /\ pc[t] = "at" /\ th[t].cur # 0 /\ th[t].cur \in Inodes /\ Name(t) \in Names /\ (Child(t) # 0 => Child(t) \in Inodes)
      /\ th[t].kind \in ByPath
  <2>0. pc[t] = "at" BY DEF AtChild
  <2>1. th[t].kind \in ByPath BY <1>0, <2>0 DEF KindOK
  <2>2. th[t].cur # 0 BY <1>0, <2>0, <2>1 DEF WalkOK, OnFd, Outside
  <2> QED BY <1>0, <2>0, <2>1, <2>2, NameIn, Named1 DEF Child
<1>1. files' = files BY DEF AtChild, table
<1>2. /\ \/ pc'[t] = "exit" /\ entry' = entry
         \/ pc'[t] = "lock_kid" /\ Child(t) # 0 /\ entry' = Acquire(entry, Child(t))
  BY <1>0 DEF AtChild, Goto, TypeOK
<1>3. /\ Steps(t) /\ th'[t].kind = th[t].kind /\ th'[t].fd = th[t].fd /\ th'[t].path = th[t].path
      /\ th'[t].cur = th[t].cur /\ th'[t].held = th[t].held /\ th'[t].index = th[t].index
      /\ th'[t].depth = th[t].depth /\ (pc'[t] = "lock_kid" => th'[t].kid = Child(t))
      /\ pc'[t] = "exit" => th'[t].kid = th[t].kid
  BY <1>0, <1>e, AtChildEffect DEF Becomes
<1>4. th[t].kid = 0 /\ ~th[t].held BY <1>0, <1>e DEF KidOK, Outside, Removed, Named, Emptying
<1>5. \A i \in Inodes : (HasX(t, i)' <=> HasX(t, i)) /\ (HasS(t, i)' <=> HasS(t, i))
  <2>1. (Writing(t)' \/ pc'[t] = "unlock_file") <=> (Writing(t) \/ pc[t] = "unlock_file")
    BY <1>2, <1>e DEF Writing
  <2>2. Goal(t)' = Goal(t) BY <1>3 DEF Goal
  <2>3. CurX(t)' <=> CurX(t) BY <1>2, <1>3, <1>e, <2>2 DEF CurX
  <2> QED BY <1>1, <1>3, <1>4, <2>1, <2>3, KeepsLocks
<1>6. CASE pc'[t] = "lock_kid" /\ Child(t) # 0 /\ entry' = Acquire(entry, Child(t))
  <2> DEFINE child == Child(t)
  <2>0. child \in Inodes /\ th'[t].kid = child /\ entry' = Acquire(entry, child) BY <1>3, <1>e, <1>6
  <2> HIDE DEF child
  <2>1. \A i \in Inodes : /\ ~Lower(t, i) /\ (Lower(t, i)' <=> i = child)
                          /\ Opener(t, i)' <=> Opener(t, i)
    BY <1>e, <1>3, <1>4, <1>6, <2>0 DEF Lower, Opener, Opening, Inodes
  <2> QED BY <1>1, <1>3, <1>e, <1>5, <1>6, <2>0, <2>1, AcquireStep
<1>7. CASE pc'[t] = "exit" /\ entry' = entry
  <2>1. Opening(t)' <=> Opening(t)
    BY <1>0, <1>3, <1>e, <1>7 DEF Opening, IndexOK
  <2>2. th[t].cur # 0 => (CurX(t)' <=> CurX(t))
    <3>2. Goal(t)' = Goal(t) BY <1>3 DEF Goal
    <3> QED BY <1>3, <1>e, <1>7, <3>2 DEF CurX
  <2>3. Quiet(t) BY <1>1, <1>3, <1>4, <1>e, <1>7, <2>1, <2>2 DEF Quiet, Writing
  <2>5. Fades BY <1>0, <1>7 DEF Fades, TypeOK
  <2> QED BY <1>7, <2>3, <2>5, QuietLocks
<1> QED BY <1>2, <1>6, <1>7

\* The directory's inode is written: the locks and the counts of users still agree.
LEMMA WriteDirLocks ==
  ASSUME SafeInv, NEW t \in Threads, WriteDir(t)
  PROVE  LockInv' /\ EntriesCounted' /\ Opened' = Opened /\ Fades
<1>0. TypeOK /\ th[t] \in Locals /\ KindOK(t) /\ WalkOK(t) /\ KidOK(t) /\ IndexOK(t) /\ (th[t].kid # 0 => th[t].kid \in Inodes)
  BY Own
<1>e. /\ pc[t] = "write_dir" /\ th[t].kind \in Creates \cup Changes /\ th[t].kid \in Inodes /\ th[t].cur # 0
      /\ th[t].kind \in Creates => ~th[t].held
  <2>0. pc[t] = "write_dir" BY DEF WriteDir
  <2>1. th[t].kind \in Creates \cup Changes BY <1>0, <2>0 DEF KindOK
  <2> QED BY <1>0, <2>0, <2>1 DEF WalkOK, KidOK, OnFd, Outside, Removed, Named, Emptying
<1>1. files' = files BY DEF WriteDir, table
<1>2. /\ \/ th[t].kind \notin Creates /\ entry' = entry
         \/ th[t].kind \in Creates /\ entry' = Acquire(entry, th[t].kid)
  BY <1>0 DEF WriteDir
<1>3. /\ Steps(t) /\ th'[t].kind = th[t].kind /\ th'[t].fd = th[t].fd /\ th'[t].path = th[t].path
      /\ th'[t].cur = th[t].cur /\ th'[t].held = th[t].held
      /\ th'[t].depth = th[t].depth /\ th'[t].ino = th[t].ino
      /\ th[t].held => th'[t].kid = th[t].kid
      /\ th[t].kind \in Creates => pc'[t] = "lock_kid" /\ th'[t].kid = th[t].kid /\ th'[t].index = th[t].index
      /\ th[t].kind \notin Creates => pc'[t] = "exit"
  BY <1>0, <1>e, WriteDirEffect DEF Becomes
<1>4. CurX(t)' <=> CurX(t)
  <2>2. Goal(t)' = Goal(t) BY <1>3 DEF Goal
  <2> QED BY <1>3, <1>e, <2>2 DEF CurX
<1>5. (Writing(t)' \/ pc'[t] = "unlock_file") <=> (Writing(t) \/ pc[t] = "unlock_file")
  BY <1>3, <1>e DEF Writing
<1>6. CASE th[t].kind \in Creates /\ entry' = Acquire(entry, th[t].kid)
  <2> DEFINE child == th[t].kid
  <2>0. child \in Inodes /\ th'[t].kid = child /\ entry' = Acquire(entry, child) BY <1>3, <1>e, <1>6
  <2> HIDE DEF child
  <2>1. \A i \in Inodes : /\ ~Lower(t, i) /\ (Lower(t, i)' <=> i = child)
                          /\ Opener(t, i)' <=> Opener(t, i)
    BY <1>e, <1>3, <1>6, <2>0 DEF Lower, Opener, Opening, Inodes
  <2>2. \A i \in Inodes : (HasX(t, i)' <=> HasX(t, i)) /\ (HasS(t, i)' <=> HasS(t, i))
    BY <1>1, <1>3, <1>4, <1>5, <1>e, <1>6, KeepsLocks
  <2> QED BY <1>1, <1>3, <1>e, <1>6, <2>0, <2>1, <2>2, AcquireStep
<1>7. CASE th[t].kind \notin Creates /\ entry' = entry
  <2>1. (Opening(t)' <=> Opening(t)) /\ ~Opening(t)
    BY <1>0, <1>3, <1>e, <1>7 DEF Opening, IndexOK
  <2>2. KidX(t)' <=> KidX(t) BY <1>3 DEF KidX
  <2>3. Quiet(t) BY <1>1, <1>3, <1>4, <1>5, <1>e, <1>7, <2>1, <2>2 DEF Quiet
  <2>5. Fades BY <1>0, <1>7 DEF Fades, TypeOK
  <2> QED BY <1>7, <2>3, <2>5, QuietLocks
<1> QED BY <1>2, <1>6, <1>7

\* Open has reached the file's name: the locks and the counts of users still agree.
LEMMA AtOpenLocks ==
  ASSUME SafeInv, NEW t \in Threads, AtOpen(t)
  PROVE  LockInv' /\ EntriesCounted' /\ Opened' = Opened /\ Fades
<1>0. TypeOK /\ th[t] \in Locals /\ KindOK(t) /\ WalkOK(t) /\ KidOK(t) /\ IndexOK(t) /\ (th[t].cur # 0 => th[t].cur \in Inodes)
  BY Own
<1>e. /\ pc[t] = "at" /\ th[t].cur # 0 /\ th[t].cur \in Inodes /\ th[t].kind \in {"open", "stat"}
  <2>0. pc[t] = "at" BY DEF AtOpen
  <2>1. th[t].kind \in {"open", "stat"} BY DEF AtOpen
  <2>2. th[t].cur # 0 BY <1>0, <2>0, <2>1 DEF WalkOK, OnFd, Outside
  <2> QED BY <1>0, <2>0, <2>1, <2>2
<1>1. files' = files BY DEF AtOpen, table
<1>2. /\ \/ th[t].kind = "open" /\ entry' = Registered(entry, th[t].cur) /\ Set(t, [th[t] EXCEPT !.index = th[t].cur])
         \/ entry' = entry /\ th' = th
  BY DEF AtOpen
<1>3. /\ Steps(t) /\ th'[t].kind = th[t].kind /\ th'[t].fd = th[t].fd /\ th'[t].path = th[t].path
      /\ th'[t].cur = th[t].cur /\ th'[t].held = th[t].held /\ th'[t].kid = th[t].kid
      /\ th'[t].depth = th[t].depth /\ pc'[t] = "exit"
  BY <1>0, <1>e, AtOpenEffect DEF Becomes
<1>4. th[t].kid = 0 /\ ~th[t].held BY <1>0, <1>e DEF KidOK, Outside, Removed, Named, Emptying
<1>5. CurX(t)' <=> CurX(t)
  <2>2. Goal(t)' = Goal(t) BY <1>3 DEF Goal
  <2> QED BY <1>3, <1>e, <2>2 DEF CurX
<1>c. (Writing(t)' \/ pc'[t] = "unlock_file") <=> (Writing(t) \/ pc[t] = "unlock_file")
  BY <1>3, <1>e DEF Writing
<1>6. CASE th[t].kind = "open" /\ entry' = Registered(entry, th[t].cur) /\ Set(t, [th[t] EXCEPT !.index = th[t].cur])
  <2> DEFINE j == th[t].cur
  <2>0. th'[t].index = j
    <3>1. th[t].cur \in Nat BY <1>0, LocalsFields
    <3>2. Becomes(th[t], [th[t] EXCEPT !.index = th[t].cur], th[t].depth, th[t].cur, th[t].kid,
                  th[t].held,
                  th[t].cur, th[t].ino, th[t].got, th[t].over) BY <1>0, <3>1, SetIndex
    <3>3. th'[t] = [th[t] EXCEPT !.index = th[t].cur] BY <1>0, <1>6 DEF Set, TypeOK
    <3> QED BY <3>2, <3>3 DEF Becomes
  <2>1. j \in Inodes /\ entry' = Registered(entry, j) /\ j # 0 BY <1>e, <1>6
  <2>2. \A i \in Inodes : (HasX(t, i)' <=> HasX(t, i)) /\ (HasS(t, i)' <=> HasS(t, i))
    BY <1>1, <1>3, <1>4, <1>5, <1>c, KeepsLocks
  <2> HIDE DEF j
  <2>3. \A i \in Inodes : /\ Lower(t, i)' <=> Lower(t, i)
                          /\ ~Opener(t, i) /\ (Opener(t, i)' <=> i = j)
    BY <1>e, <1>3, <1>4, <1>6, <2>0, <2>1 DEF Lower, Opener, Opening
  <2> QED BY <1>1, <1>3, <1>e, <2>1, <2>2, <2>3, RegisterStep
<1>7. CASE entry' = entry /\ th' = th
  <2>1. (Opening(t)' <=> Opening(t)) /\ ~Opening(t)
    BY <1>0, <1>3, <1>e, <1>7 DEF Opening, IndexOK
  <2>3. Quiet(t) BY <1>1, <1>3, <1>4, <1>5, <1>c, <1>e, <1>7, <2>1 DEF Quiet
  <2>5. Fades BY <1>0, <1>7 DEF Fades, TypeOK
  <2> QED BY <1>7, <2>3, <2>5, QuietLocks
<1> QED BY <1>2, <1>6, <1>7

\* A file is counted open: the locks and the counts of users still agree.
LEMMA RegisterLocks ==
  ASSUME SafeInv, NEW t \in Threads, Register(t)
  PROVE  LockInv' /\ EntriesCounted' /\ Opened' = Opened /\ Fades
<1>0. TypeOK /\ th[t] \in Locals /\ KindOK(t) /\ WalkOK(t) /\ KidOK(t) /\ IndexOK(t) /\ (th[t].kid # 0 => th[t].kid \in Inodes)
  BY Own
<1>e. /\ pc[t] = "register" /\ th[t].cur # 0 /\ th[t].kid \in Inodes /\ th[t].kid # 0 /\ th[t].kind \in Creates \cup Truncates
  <2>0. pc[t] = "register" BY DEF Register
  <2>1. th[t].kind \in Creates \cup Truncates BY <1>0, <2>0 DEF KindOK
  <2> QED BY <1>0, <2>0, <2>1 DEF WalkOK, KidOK, OnFd, Outside
<1>1. files' = files BY DEF Register, table
<1>3. /\ Steps(t) /\ th'[t].kind = th[t].kind /\ th'[t].fd = th[t].fd /\ th'[t].path = th[t].path
      /\ th'[t].cur = th[t].cur /\ th'[t].held = th[t].held /\ th'[t].kid = th[t].kid /\ th'[t].index = th[t].kid
      /\ th'[t].depth = th[t].depth /\ pc'[t] = "exit" /\ th'[t].ino = th[t].ino
  BY <1>0, <1>e, RegisterEffect DEF Becomes
<1>5. (CurX(t)' <=> CurX(t)) /\ (KidX(t)' <=> KidX(t))
  <2>2. Goal(t)' = Goal(t) BY <1>3 DEF Goal
  <2> QED BY <1>3, <1>e, <2>2 DEF CurX, KidX
<1>c. (Writing(t)' \/ pc'[t] = "unlock_file") <=> (Writing(t) \/ pc[t] = "unlock_file")
  BY <1>3, <1>e DEF Writing
<1> DEFINE j == th[t].kid
<1>6. j \in Inodes /\ entry' = Registered(entry, j) /\ j # 0 /\ th'[t].index = j
  BY <1>e, <1>3 DEF Register
<1>7. \A i \in Inodes : (HasX(t, i)' <=> HasX(t, i)) /\ (HasS(t, i)' <=> HasS(t, i))
  BY <1>1, <1>3, <1>5, <1>c, KeepsLocks
<1> HIDE DEF j
<1>8. \A i \in Inodes : /\ Lower(t, i)' <=> Lower(t, i)
                        /\ ~Opener(t, i) /\ (Opener(t, i)' <=> i = j)
  BY <1>e, <1>3, <1>6 DEF Lower, Opener, Opening
<1> QED BY <1>1, <1>3, <1>e, <1>6, <1>7, <1>8, RegisterStep

\* The inode below the directory is locked: the locks and the counts of users still
\* agree.
LEMMA LockKidLocks ==
  ASSUME SafeInv, NEW t \in Threads, LockKid(t)
  PROVE  LockInv' /\ EntriesCounted' /\ Opened' = Opened /\ Fades
<1>0. TypeOK /\ th[t] \in Locals /\ KindOK(t) /\ WalkOK(t) /\ KidOK(t) /\ IndexOK(t) /\ (th[t].kid # 0 => th[t].kid \in Inodes)
      /\ EntriesCounted
  BY Own DEF SafeInv
<1>e. /\ pc[t] = "lock_kid" /\ th[t].cur # 0 /\ th[t].kid \in Inodes /\ th[t].kid # 0
      /\ th[t].kind \in Creates \cup Truncates \cup Changes /\ ~th[t].held
  <2>0. pc[t] = "lock_kid" BY DEF LockKid
  <2>1. th[t].kind \in Creates \cup Truncates \cup Changes BY <1>0, <2>0 DEF KindOK
  <2> QED BY <1>0, <2>0, <2>1 DEF WalkOK, KidOK, OnFd, Outside, Removed, Named, Emptying
<1>1. files' = files BY DEF LockKid, table
<1>3. /\ Steps(t) /\ th'[t].kind = th[t].kind /\ th'[t].fd = th[t].fd /\ th'[t].path = th[t].path
      /\ th'[t].cur = th[t].cur /\ th'[t].held /\ th'[t].kid = th[t].kid /\ th'[t].index = th[t].index
      /\ th'[t].depth = th[t].depth /\ pc'[t] \in {"register", "truncate", "check"} /\ th'[t].ino = th[t].ino
  BY <1>0, <1>e, LockKidEffect DEF Becomes
<1> DEFINE j == th[t].kid
<1>4. j \in Inodes /\ j # 0 /\ CanLock(t, j) /\ entry' = Locked(entry, t, j) /\ th'[t].kid = j
  BY <1>e, <1>3 DEF LockKid
<1>5. Exclusive(t) <=> KidX(t) BY <1>e DEF Exclusive, KidX
<1>6. (CurX(t)' <=> CurX(t)) /\ (KidX(t)' <=> KidX(t))
  <2>2. Goal(t)' = Goal(t) BY <1>3 DEF Goal
  <2> QED BY <1>3, <1>e, <2>2 DEF CurX, KidX
<1>7. entry[j].refs # 0
  <2>1. Uses(t, j) \in Nat /\ entry[j].refs >= Uses(t, j) /\ entry[j].refs \in Nat
    BY <1>0, <1>4, UserCounts
  <2>2. Lower(t, j) BY <1>e DEF Lower
  <2>3. Uses(t, j) # 0 BY <2>2 DEF Uses, Bit
  <2> QED BY <2>1, <2>3
<1>8. /\ Only(entry, entry', j)
      /\ entry'[j].refs = entry[j].refs /\ entry'[j].open_count = entry[j].open_count
      /\ entry'[j].x = (IF Exclusive(t) THEN t ELSE entry[j].x)
      /\ entry'[j].s = (IF Exclusive(t) THEN entry[j].s ELSE entry[j].s \cup {t})
      /\ entry'[j].valid => entry[j].valid /\ entry'[j].inode = entry[j].inode
  <2>1. entry \in [Inodes -> EntryType] BY <1>0 DEF TypeOK
  <2> HIDE DEF j
  <2>2. /\ Only(entry, entry', j)
        /\ Looks(entry'[j], entry[j].refs, IF Exclusive(t) THEN t ELSE entry[j].x,
                 IF Exclusive(t) THEN entry[j].s ELSE entry[j].s \cup {t}, entry[j].open_count, entry[j].valid, entry[j].inode)
    BY <1>4, <2>1, LockedIs
  <2> QED BY <2>2 DEF Looks
<1>9. ASSUME NEW i \in Inodes
      PROVE  /\ Lower(t, i)' <=> Lower(t, i)
             /\ Opener(t, i)' <=> Opener(t, i)
             /\ HasX(t, i)' <=> (HasX(t, i) \/ (i = j /\ Exclusive(t)))
             /\ HasS(t, i)' <=> (HasS(t, i) \/ (i = j /\ ~Exclusive(t)))
  <2>1. ~HasFile(t, i)' /\ ~HasFile(t, i) BY <1>e, <1>3 DEF HasFile, Writing
  <2>2. Lower(t, i)' <=> Lower(t, i) BY <1>e, <1>3 DEF Lower
  <2>3. Opener(t, i)' <=> Opener(t, i) BY <1>e, <1>3 DEF Opener, Opening
  <2>4. HasX(t, i)' <=> (HasX(t, i) \/ (i = j /\ Exclusive(t)))
    BY <1>e, <1>3, <1>5, <1>6, <2>1 DEF HasX
  <2>5. HasS(t, i)' <=> (HasS(t, i) \/ (i = j /\ ~Exclusive(t)))
    BY <1>e, <1>3, <1>5, <1>6, <2>1 DEF HasS
  <2> QED BY <2>2, <2>3, <2>4, <2>5
<1> HIDE DEF j
<1> QED BY <1>1, <1>3, <1>e, <1>4, <1>7, <1>8, <1>9, LockedStep

\* A call on a descriptor has it, and the file is there to lock.
LEMMA OnFile ==
  ASSUME SafeInv, NEW t \in Threads, OnFd(t)
  PROVE  /\ th[t].fd \in Fds /\ files[th[t].fd] \in Inodes /\ op[th[t].fd] = t
         /\ entry[files[th[t].fd]].refs # 0
         /\ th[t].cur = 0 /\ th[t].kid = 0 /\ ~th[t].held /\ ~Opening(t)
<1>0. TypeOK /\ EntriesCounted /\ TableInv /\ KindOK(t) /\ WalkOK(t) /\ KidOK(t) BY Own DEF SafeInv
<1>1. th[t].fd \in Fds /\ op[th[t].fd] = t /\ files[th[t].fd] # 0 /\ th[t].cur = 0 /\ th[t].kid = 0
  BY <1>0 DEF WalkOK, TableInv, KidOK
<1>2. files[th[t].fd] \in Inodes
  <2>1. \A f \in Fds : files[f] \in 0..NInodes BY <1>0 DEF TypeOK
  <2>2. files[th[t].fd] \in 0..NInodes BY <1>1, <2>1
  <2> QED BY <1>1, <2>2 DEF Inodes
<1>3. entry[files[th[t].fd]].refs # 0
  <2> DEFINE i == files[th[t].fd]
  <2>1. i \in Inodes /\ \E fd \in Fds : files[fd] = i BY <1>1, <1>2
  <2> HIDE DEF i
  <2>2. Uses(t, i) \in Nat /\ entry[i].refs >= Uses(t, i) + 1 BY <1>0, <2>1, UserCounts
  <2>3. entry[i].refs # 0 BY <2>2
  <2> QED BY <2>3 DEF i
<1>4. ~th[t].held /\ ~Opening(t)
  BY <1>0 DEF KidOK, KindOK, OnFd, Opening, Removed, Named, Emptying
<1> QED BY <1>1, <1>2, <1>3, <1>4

\* A call on a descriptor locks its file: the locks and the counts of users still
\* agree.
LEMMA LockFileLocks ==
  ASSUME SafeInv, NEW t \in Threads, LockFile(t)
  PROVE  LockInv' /\ EntriesCounted' /\ Opened' = Opened /\ Fades
<1>0. TypeOK /\ th[t] \in Locals /\ KindOK(t) BY Own
<1>e. /\ pc[t] = "lock_file" /\ OnFd(t) /\ th[t].kind \in Writes \cup {"read"}
      /\ th[t].fd \in Fds /\ files[th[t].fd] \in Inodes /\ entry[files[th[t].fd]].refs # 0
      /\ th[t].cur = 0 /\ th[t].kid = 0 /\ ~th[t].held /\ ~Opening(t)
  <2>0. pc[t] = "lock_file" BY DEF LockFile
  <2>1. OnFd(t) /\ th[t].kind \in Writes \cup {"read"} BY <1>0, <2>0 DEF KindOK, OnFd
  <2> QED BY <2>0, <2>1, OnFile
<1>1. files' = files BY DEF LockFile, table
<1> DEFINE j == files[th[t].fd]
<1>3. /\ Steps(t) /\ th'[t].kind = th[t].kind /\ th'[t].fd = th[t].fd
      /\ th'[t].cur = 0 /\ ~th'[t].held /\ th'[t].kid = 0
      /\ \/ pc'[t] = "unlock_file"
         \/ pc'[t] = "take" /\ th[t].kind \in Writes
      /\ \/ entry' = Locked(entry, t, j)
         \/ entry' = Forget(Locked(entry, t, j), j)
  BY <1>0, <1>e, LockFileEffect DEF Becomes
<1>4. j \in Inodes /\ CanLock(t, j) /\ entry[j].refs # 0 BY <1>e DEF LockFile
<1>5. Exclusive(t) <=> th[t].kind # "read" BY <1>e DEF Exclusive
<1>9. ASSUME NEW i \in Inodes
      PROVE  /\ Lower(t, i)' <=> Lower(t, i)
             /\ Opener(t, i)' <=> Opener(t, i)
             /\ HasX(t, i)' <=> (HasX(t, i) \/ (i = j /\ Exclusive(t)))
             /\ HasS(t, i)' <=> (HasS(t, i) \/ (i = j /\ ~Exclusive(t)))
  <2>0. i # 0 BY DEF Inodes
  <2>1. (HasFile(t, i)' <=> i = j) /\ ~HasFile(t, i) BY <1>e, <1>1, <1>3 DEF HasFile, Writing
  <2>2. Lower(t, i)' <=> Lower(t, i) BY <1>e, <1>3, <2>0 DEF Lower
  <2>3. Opener(t, i)' <=> Opener(t, i) BY <1>e, <1>3 DEF Opener, Opening
  <2>4. HasX(t, i)' <=> (HasX(t, i) \/ (i = j /\ Exclusive(t)))
    BY <1>e, <1>3, <1>5, <2>0, <2>1 DEF HasX
  <2>5. HasS(t, i)' <=> (HasS(t, i) \/ (i = j /\ ~Exclusive(t)))
    BY <1>e, <1>3, <1>5, <2>0, <2>1 DEF HasS
  <2> QED BY <2>2, <2>3, <2>4, <2>5
<1> HIDE DEF j
<1>8. /\ Only(entry, entry', j)
      /\ entry'[j].refs = entry[j].refs /\ entry'[j].open_count = entry[j].open_count
      /\ entry'[j].x = (IF Exclusive(t) THEN t ELSE entry[j].x)
      /\ entry'[j].s = (IF Exclusive(t) THEN entry[j].s ELSE entry[j].s \cup {t})
      /\ entry'[j].valid => entry[j].valid /\ entry'[j].inode = entry[j].inode
  <2>1. entry \in [Inodes -> EntryType] BY <1>0 DEF TypeOK
  <2> DEFINE e == Locked(entry, t, j)
  <2>2. /\ Only(entry, e, j)
        /\ Looks(e[j], entry[j].refs, IF Exclusive(t) THEN t ELSE entry[j].x,
                 IF Exclusive(t) THEN entry[j].s ELSE entry[j].s \cup {t}, entry[j].open_count, entry[j].valid, entry[j].inode)
    BY <1>4, <2>1, LockedIs
  <2>3. entry' = e \/ entry' = Forget(e, j) BY <1>3
  <2> HIDE DEF e
  <2>4. e \in [Inodes -> EntryType] BY <2>2 DEF Only
  <2>5. CASE entry' = e BY <2>2, <2>5 DEF Looks
  <2>6. CASE entry' = Forget(e, j)
    <3>1. /\ Only(e, entry', j)
          /\ Looks(entry'[j], e[j].refs, e[j].x, e[j].s, e[j].open_count, FALSE, NoInode)
      BY <1>4, <2>4, <2>6, ForgetIs
    <3>2. Only(entry, entry', j) BY <2>2, <3>1 DEF Only
    <3> QED BY <2>2, <3>1, <3>2 DEF Looks
  <2> QED BY <2>3, <2>5, <2>6
<1>10. th'[t].cur = th[t].cur /\ pc[t] # "close" /\ pc'[t] # "close" BY <1>e, <1>3
<1> QED BY <1>1, <1>3, <1>4, <1>8, <1>9, <1>10, LockedStep

\* The file is unlocked: the locks and the counts of users still agree.
LEMMA UnlockFileLocks ==
  ASSUME SafeInv, NEW t \in Threads, UnlockFile(t)
  PROVE  LockInv' /\ EntriesCounted' /\ Opened' = Opened /\ Fades
<1>0. TypeOK /\ EntriesCounted /\ LockInv /\ th[t] \in Locals /\ KindOK(t) BY Own DEF SafeInv
<1>e. /\ pc[t] = "unlock_file" /\ OnFd(t) /\ th[t].kind \in Writes \cup {"read"}
      /\ th[t].fd \in Fds /\ files[th[t].fd] \in Inodes /\ entry[files[th[t].fd]].refs # 0
      /\ th[t].cur = 0 /\ th[t].kid = 0 /\ ~th[t].held /\ ~Opening(t)
  <2>0. pc[t] = "unlock_file" BY DEF UnlockFile
  <2>1. OnFd(t) /\ th[t].kind \in Writes \cup {"read"} BY <1>0, <2>0 DEF KindOK, OnFd
  <2> QED BY <2>0, <2>1, OnFile
<1> DEFINE j == files[th[t].fd]
<1>1. files' = files /\ entry' = Unlock(entry, j, t) /\ j \in Inodes BY <1>e DEF UnlockFile, ChunkEnd
<1>3. /\ Steps(t) /\ pc'[t] \in {"begin", "idle"} /\ th'[t].cur = 0 /\ ~th'[t].held /\ th'[t].kid = 0
  BY <1>0, <1>e, UnlockFileEffect, IdleType DEF Becomes
<1>4. \A i \in Inodes : HasFile(t, i) => i = j BY DEF HasFile
<1> HIDE DEF j
<1>5. /\ Only(entry, entry', j)
      /\ Looks(entry'[j], entry[j].refs, IF entry[j].x = t THEN NoThread ELSE entry[j].x, entry[j].s \ {t},
               entry[j].open_count, entry[j].valid, entry[j].inode)
  BY <1>0, <1>1, UnlockIs DEF TypeOK
<1>6. \A i \in Inodes : i # j => entry'[i] = entry[i] BY <1>5 DEF Only
<1>7. /\ entry'[j].refs = entry[j].refs /\ entry'[j].open_count = entry[j].open_count
      /\ entry'[j].valid = entry[j].valid /\ entry'[j].inode = entry[j].inode
      /\ entry'[j].x = (IF entry[j].x = t THEN NoThread ELSE entry[j].x) /\ entry'[j].s = entry[j].s \ {t}
  BY <1>5 DEF Looks
<1>8. ASSUME NEW i \in Inodes
      PROVE  /\ entry'[i].refs = entry[i].refs + Uses(t, i)' - Uses(t, i)
             /\ entry'[i].open_count = entry[i].open_count + Bit(Opener(t, i))' - Bit(Opener(t, i))
             /\ entry'[i].refs = 0 => entry'[i] = NoEntry
  <2>0. i # 0 /\ entry[i].refs \in Nat /\ entry[i].open_count \in Nat
    BY <1>0, EntryFields DEF Inodes, TypeOK
  <2>1. ~Lower(t, i) /\ ~Lower(t, i)' /\ ~Opener(t, i) /\ ~Opener(t, i)' /\ th[t].cur # i /\ th'[t].cur # i
    BY <1>e, <1>3, <2>0 DEF Lower, Opener, Opening
  <2>2. Uses(t, i)' = 0 /\ Uses(t, i) = 0 /\ Bit(Opener(t, i))' = 0 /\ Bit(Opener(t, i)) = 0
    BY <2>1 DEF Uses, Bit
  <2>3. entry'[i].refs = entry[i].refs /\ entry'[i].open_count = entry[i].open_count BY <1>6, <1>7
  <2>4. entry[i].refs = 0 => entry[i] = NoEntry BY <1>0 DEF EntriesCounted
  <2>5. entry[j].refs # 0 BY <1>e DEF j
  <2> QED BY <1>6, <2>0, <2>2, <2>3, <2>4, <2>5
<1>9. EntriesCounted' /\ Opened' = Opened BY <1>1, <1>3, <1>e, <1>8, PlainCounts
<1>10. LockInv'
  <2>1. ASSUME NEW i \in Inodes
        PROVE  /\ \A u \in Threads : u # t =>
                     (entry'[i].x = u <=> entry[i].x = u) /\ (u \in entry'[i].s <=> u \in entry[i].s)
               /\ entry'[i].x = t <=> HasX(t, i)'
               /\ t \in entry'[i].s <=> HasS(t, i)'
               /\ entry'[i].x # NoThread => entry'[i].s = {}
    <3>1. (entry[i].x = t <=> HasX(t, i)) /\ (t \in entry[i].s <=> HasS(t, i))
          /\ (entry[i].x # NoThread => entry[i].s = {})
      BY <1>0 DEF LockInv
    <3>0. i # 0 BY DEF Inodes
    <3>4. ~HasX(t, i)' /\ ~HasS(t, i)' BY <1>3, <3>0 DEF HasX, HasS, HasFile, Writing
    <3>5. i # j => ~HasX(t, i) /\ ~HasS(t, i) BY <1>4, <1>e, <3>0 DEF HasX, HasS
    <3>2. CASE i # j BY <1>6, <3>1, <3>2, <3>4, <3>5
    <3>3. CASE i = j BY <1>7, <3>1, <3>3, <3>4, ThreadsAssumption
    <3> QED BY <3>2, <3>3
  <2> QED BY <1>1, <1>3, <2>1, LockStep
<1>11. Fades BY <1>5, <1>6, <1>7 DEF Fades, Only
<1> QED BY <1>9, <1>10, <1>11

\* A walk locks what it has found: the locks and the counts of users still agree.
LEMMA WalkLockLocks ==
  ASSUME SafeInv, NEW t \in Threads, WalkLock(t)
  PROVE  LockInv' /\ EntriesCounted' /\ Opened' = Opened /\ Fades
<1>0. /\ TypeOK /\ EntriesCounted /\ LockInv /\ th[t] \in Locals /\ KindOK(t) /\ WalkOK(t) /\ KidOK(t)
      /\ (th[t].kid # 0 => th[t].kid \in Inodes) /\ (th[t].cur # 0 => th[t].cur \in Inodes)
  BY Own DEF SafeInv
<1>e. /\ pc[t] = "lock" /\ th[t].kind \in ByPath /\ th[t].kid # 0 /\ th[t].kid \in Inodes /\ th[t].kid # th[t].cur
      /\ ~th[t].held
  <2>0. pc[t] = "lock" BY DEF WalkLock
  <2>1. th[t].kind \in ByPath BY <1>0, <2>0 DEF KindOK
  <2> QED BY <1>0, <2>0, <2>1 DEF KidOK, OnFd, Outside, Removed, Named, Emptying
<1> DEFINE j == th[t].kid
           c == th[t].cur
           e == Locked(entry, t, j)
<1>1. files' = files /\ entry' = Drop(e, c, t) /\ CanLock(t, j) BY DEF WalkLock, table
<1>2. /\ Steps(t) /\ th'[t].kind = th[t].kind /\ th'[t].fd = th[t].fd /\ th'[t].path = th[t].path
      /\ th'[t].cur = j /\ th'[t].held = th[t].held /\ th'[t].kid = 0 /\ th'[t].index = th[t].index
      /\ th'[t].depth = th[t].depth /\ pc'[t] \in {"at", "walk"}
  BY <1>0, <1>e, WalkLockEffect DEF Becomes
<1>3. j \in Inodes /\ j # 0 /\ j # c /\ (c # 0 => c \in Inodes) BY <1>0, <1>e
<1>4. Exclusive(t) <=> CurX(t)'
  <2>1. Goal(t)' = Goal(t) BY <1>2 DEF Goal
  <2> QED BY <1>e, <1>2, <2>1 DEF CurX, Exclusive
<1>5. ASSUME NEW i \in Inodes
      PROVE  /\ HasX(t, i)' <=> i = j /\ Exclusive(t)
             /\ HasS(t, i)' <=> i = j /\ ~Exclusive(t)
             /\ ~HasX(t, i) /\ (HasS(t, i) <=> i = c)
  <2>1. ~HasFile(t, i)' /\ ~HasFile(t, i) BY <1>e, <1>2 DEF HasFile, Writing
  <2>2. i # 0 BY DEF Inodes
  <2>3. ~CurX(t) BY <1>e DEF CurX
  <2> QED BY <1>e, <1>2, <1>4, <2>1, <2>2, <2>3 DEF HasX, HasS
<1>6. ASSUME NEW i \in Inodes
      PROVE  /\ Lower(t, i) <=> i = j
             /\ ~Lower(t, i)' /\ ~Opener(t, i) /\ ~Opener(t, i)'
             /\ (th[t].cur = i <=> i = c) /\ (th'[t].cur = i <=> i = j)
  <2>2. i # 0 BY DEF Inodes
  <2> QED BY <1>e, <1>2, <2>2 DEF Lower, Opener, Opening
<1>7. entry \in [Inodes -> EntryType] BY <1>0 DEF TypeOK
<1>8. /\ Only(entry, e, j)
      /\ Looks(e[j], entry[j].refs, IF Exclusive(t) THEN t ELSE entry[j].x,
               IF Exclusive(t) THEN entry[j].s ELSE entry[j].s \cup {t}, entry[j].open_count, entry[j].valid, entry[j].inode)
  BY <1>3, <1>7, LockedIs
<1>9. th[t].cur = c OBVIOUS
<1> HIDE DEF e, c, j
<1>10. e \in [Inodes -> EntryType] /\ \A i \in Inodes : i # j => e[i] = entry[i] BY <1>8 DEF Only
<1>11. /\ entry[j].x = NoThread /\ (Exclusive(t) => entry[j].s = {}) /\ t # NoThread
       /\ e[j].refs = entry[j].refs /\ e[j].open_count = entry[j].open_count
       /\ e[j].x = (IF Exclusive(t) THEN t ELSE entry[j].x)
       /\ e[j].s = (IF Exclusive(t) THEN entry[j].s ELSE entry[j].s \cup {t})
       /\ e[j].valid = entry[j].valid /\ e[j].inode = entry[j].inode
  BY <1>1, <1>8, ThreadsAssumption DEF CanLock, Looks
<1>12. entry' \in [Inodes -> EntryType] /\ \A i \in Inodes : i # c => entry'[i] = e[i]
  <2>1. CASE c = 0 BY <1>1, <1>10, <2>1 DEF Drop
  <2>2. CASE c # 0
    <3>1. \A u \in Threads : u # t => (e[c].x = u <=> entry[c].x = u) /\ (u \in e[c].s <=> u \in entry[c].s)
      BY <1>3, <1>10, <2>2
    <3>2. e[c].refs = entry[c].refs /\ e[c].open_count = entry[c].open_count /\ (e[c].x # NoThread => e[c].s = {})
      BY <1>0, <1>3, <1>10, <2>2 DEF LockInv
    <3> QED BY <1>1, <1>3, <1>9, <1>10, <2>2, <3>1, <3>2, DropEntry
  <2> QED BY <2>1, <2>2
<1>13. ASSUME c # 0
       PROVE  /\ entry'[c].refs = entry[c].refs - 1 /\ entry'[c].open_count = entry[c].open_count
              /\ entry'[c].refs = 0 => entry'[c] = NoEntry
              /\ entry'[c].x # t /\ t \notin entry'[c].s
              /\ \A u \in Threads : u # t => (entry'[c].x = u <=> entry[c].x = u) /\ (u \in entry'[c].s <=> u \in entry[c].s)
              /\ entry'[c].x # NoThread => entry'[c].s = {}
              /\ entry'[c].valid => entry[c].valid /\ entry'[c].inode = entry[c].inode
  <2>1. \A u \in Threads : u # t => (e[c].x = u <=> entry[c].x = u) /\ (u \in e[c].s <=> u \in entry[c].s)
    BY <1>3, <1>10, <1>13
  <2>2. e[c] = entry[c] BY <1>3, <1>10, <1>13
  <2>3. e[c].refs = entry[c].refs /\ e[c].open_count = entry[c].open_count /\ (e[c].x # NoThread => e[c].s = {})
    BY <1>0, <1>3, <1>13, <2>2 DEF LockInv
  <2> QED BY <1>1, <1>3, <1>9, <1>10, <1>13, <2>1, <2>2, <2>3, DropEntry
<1>14. ASSUME NEW i \in Inodes
       PROVE  /\ entry'[i].refs = entry[i].refs + Uses(t, i)' - Uses(t, i)
              /\ entry'[i].open_count = entry[i].open_count + Bit(Opener(t, i))' - Bit(Opener(t, i))
              /\ entry'[i].refs = 0 => entry'[i] = NoEntry
  <2>0. i # 0 /\ entry[i].refs \in Nat /\ entry[i].open_count \in Nat BY <1>7, EntryFields DEF Inodes
  <2>1. Bit(Opener(t, i))' = 0 /\ Bit(Opener(t, i)) = 0 /\ Bit(Lower(t, i))' = 0 BY <1>6 DEF Bit
  <2>2. Uses(t, i)' = (IF i = j THEN 1 ELSE 0) BY <1>6, <2>1 DEF Uses, Bit
  <2>3. Uses(t, i) = (IF i = c THEN 1 ELSE 0) + (IF i = j THEN 1 ELSE 0) BY <1>6, <2>1 DEF Uses, Bit
  <2>4. entry[i].refs = 0 => entry[i] = NoEntry BY <1>0 DEF EntriesCounted
  <2>5. CASE i = c BY <1>3, <1>13, <2>0, <2>1, <2>2, <2>3, <2>5
  <2>6. CASE i = j
    <3>1. entry[j].refs # 0
      <4>1. entry[i].refs >= Uses(t, i) BY <1>0, UserCounts
      <4>2. Uses(t, i) = 1 BY <1>3, <2>3, <2>6
      <4> QED BY <2>0, <2>6, <4>1, <4>2
    <3>2. entry'[i] = e[i] BY <1>3, <1>12, <2>6
    <3> QED BY <1>3, <1>11, <2>0, <2>1, <2>2, <2>3, <2>6, <3>1, <3>2
  <2>7. CASE i # c /\ i # j
    <3>1. entry'[i] = entry[i] BY <1>10, <1>12, <2>7
    <3> QED BY <2>0, <2>1, <2>2, <2>3, <2>4, <2>7, <3>1
  <2> QED BY <2>5, <2>6, <2>7
<1>15. EntriesCounted' /\ Opened' = Opened BY <1>1, <1>2, <1>e, <1>14, PlainCounts
<1>16. LockInv'
  <2>1. ASSUME NEW i \in Inodes
        PROVE  /\ \A u \in Threads : u # t =>
                     (entry'[i].x = u <=> entry[i].x = u) /\ (u \in entry'[i].s <=> u \in entry[i].s)
               /\ entry'[i].x = t <=> HasX(t, i)'
               /\ t \in entry'[i].s <=> HasS(t, i)'
               /\ entry'[i].x # NoThread => entry'[i].s = {}
    <3>1. (entry[i].x = t <=> HasX(t, i)) /\ (t \in entry[i].s <=> HasS(t, i))
          /\ (entry[i].x # NoThread => entry[i].s = {})
      BY <1>0 DEF LockInv
    <3>2. i # 0 BY DEF Inodes
    <3>3. CASE i = c BY <1>3, <1>5, <1>13, <3>2, <3>3
    <3>4. CASE i = j
      <4>1. entry'[i] = e[i] BY <1>3, <1>12, <3>4
      <4> QED BY <1>3, <1>5, <1>11, <3>1, <3>4, <4>1, ThreadsAssumption
    <3>5. CASE i # c /\ i # j
      <4>1. entry'[i] = entry[i] BY <1>10, <1>12, <3>5
      <4> QED BY <1>5, <3>1, <3>5, <4>1
    <3> QED BY <3>3, <3>4, <3>5
  <2> QED BY <1>1, <1>2, <2>1, LockStep
<1>17. Fades
  <2>1. ASSUME NEW i \in Inodes, entry'[i].valid
        PROVE entry[i].valid /\ entry'[i].inode = entry[i].inode
    <3>2. i # 0 BY DEF Inodes
    <3>3. CASE i = c BY <1>13, <2>1, <3>2, <3>3
    <3>4. CASE i = j
      <4>1. entry'[i] = e[i] BY <1>3, <1>12, <3>4
      <4> QED BY <1>11, <2>1, <3>4, <4>1
    <3>5. CASE i # c /\ i # j
      <4>1. entry'[i] = entry[i] BY <1>10, <1>12, <3>5
      <4> QED BY <2>1, <4>1
    <3> QED BY <3>3, <3>4, <3>5
  <2> QED BY <1>12, <2>1 DEF Fades
<1> QED BY <1>15, <1>16, <1>17

\* A call leaves its locks: the locks and the counts of users still agree.
LEMMA ExitLocks ==
  ASSUME SafeInv, NEW t \in Threads, Exit(t)
  PROVE  LockInv' /\ EntriesCounted' /\ Opened' = Opened /\ Fades
<1>0. /\ TypeOK /\ EntriesCounted /\ LockInv /\ th[t] \in Locals /\ KindOK(t) /\ WalkOK(t) /\ KidOK(t)
      /\ (th[t].kid # 0 => th[t].kid \in Inodes) /\ (th[t].cur # 0 => th[t].cur \in Inodes)
  BY Own DEF SafeInv
<1>e. /\ pc[t] = "exit" /\ th[t].kind \in ByPath /\ th[t].cur # 0 /\ th[t].cur \in Inodes
      /\ (th[t].held <=> th[t].kid # 0) /\ th[t].kid # th[t].cur
  <2>0. pc[t] = "exit" BY DEF Exit
  <2>1. th[t].kind \in ByPath BY <1>0, <2>0 DEF KindOK
  <2>2. th[t].cur # 0 BY <1>0, <2>0, <2>1 DEF WalkOK, OnFd, Outside
  <2> QED BY <1>0, <2>0, <2>1, <2>2 DEF KidOK, OnFd, Outside, Removed, Named, Emptying
<1> DEFINE j == th[t].kid
           c == th[t].cur
           e == IF th[t].held THEN Drop(entry, j, t) ELSE entry
<1>1. files' = files /\ entry' = Drop(e, c, t) BY DEF Exit, Leaving
<1>2. /\ Steps(t) /\ th'[t].cur = 0 /\ ~th'[t].held /\ th'[t].kid = 0 /\ pc'[t] \in {"install", "idle"}
      /\ pc'[t] = "install" <=> th[t].kind \in Opens /\ th[t].index # 0
      /\ pc'[t] = "install" => th'[t].index = th[t].index
  BY <1>0, <1>e, ExitEffect, IdleType
<1>3. (j # 0 => j \in Inodes) /\ j # c /\ c \in Inodes /\ c # 0 /\ (th[t].held <=> j # 0)
  BY <1>0, <1>e
<1>5. ASSUME NEW i \in Inodes
      PROVE  ~HasX(t, i)' /\ ~HasS(t, i)' /\ (i # j /\ i # c => ~HasX(t, i) /\ ~HasS(t, i))
  <2>1. ~HasFile(t, i)' /\ ~HasFile(t, i) BY <1>e, <1>2 DEF HasFile, Writing
  <2>2. i # 0 BY DEF Inodes
  <2> QED BY <1>e, <1>2, <2>1, <2>2 DEF HasX, HasS
<1>6. ASSUME NEW i \in Inodes
      PROVE  /\ Lower(t, i) <=> i = j
             /\ ~Lower(t, i)' /\ (Opener(t, i)' <=> Opener(t, i))
             /\ (th[t].cur = i <=> i = c) /\ th'[t].cur # i
  <2>2. i # 0 BY DEF Inodes
  <2> QED BY <1>e, <1>2, <2>2 DEF Lower, Opener, Opening
<1>7. entry \in [Inodes -> EntryType] BY <1>0 DEF TypeOK
<1>9. /\ th[t].cur = c /\ e = IF j # 0 THEN Drop(entry, j, t) ELSE entry BY <1>e
<1> HIDE DEF e, c, j
<1>10. e \in [Inodes -> EntryType] /\ \A i \in Inodes : i # j => e[i] = entry[i]
  <2>1. CASE j = 0 BY <1>7, <1>9, <2>1
  <2>2. CASE j # 0
    <3>1. entry[j].x # NoThread => entry[j].s = {} BY <1>0, <1>3, <2>2 DEF LockInv
    <3>2. \A u \in Threads : u # t => (entry[j].x = u <=> entry[j].x = u) /\ (u \in entry[j].s <=> u \in entry[j].s)
      OBVIOUS
    <3> QED BY <1>3, <1>6, <1>7, <1>9, <2>2, <3>1, <3>2, DropEntry
  <2> QED BY <2>1, <2>2
<1>11. ASSUME j # 0
       PROVE  /\ e[j].refs = entry[j].refs - 1 /\ e[j].open_count = entry[j].open_count
              /\ e[j].refs = 0 => e[j] = NoEntry
              /\ e[j].x # t /\ t \notin e[j].s
              /\ \A u \in Threads : u # t => (e[j].x = u <=> entry[j].x = u) /\ (u \in e[j].s <=> u \in entry[j].s)
              /\ e[j].x # NoThread => e[j].s = {}
              /\ e[j].valid => entry[j].valid /\ e[j].inode = entry[j].inode
  <2>1. entry[j].x # NoThread => entry[j].s = {} BY <1>0, <1>3, <1>11 DEF LockInv
  <2>2. \A u \in Threads : u # t => (entry[j].x = u <=> entry[j].x = u) /\ (u \in entry[j].s <=> u \in entry[j].s)
    OBVIOUS
  <2> QED BY <1>3, <1>6, <1>7, <1>9, <1>11, <2>1, <2>2, DropEntry
<1>12. /\ entry' \in [Inodes -> EntryType] /\ \A i \in Inodes : i # c => entry'[i] = e[i]
       /\ entry'[c].refs = entry[c].refs - 1 /\ entry'[c].open_count = entry[c].open_count
       /\ entry'[c].refs = 0 => entry'[c] = NoEntry
       /\ entry'[c].x # t /\ t \notin entry'[c].s
       /\ \A u \in Threads : u # t => (entry'[c].x = u <=> entry[c].x = u) /\ (u \in entry'[c].s <=> u \in entry[c].s)
       /\ entry'[c].x # NoThread => entry'[c].s = {}
       /\ entry'[c].valid => entry[c].valid /\ entry'[c].inode = entry[c].inode
  <2>1. \A u \in Threads : u # t => (e[c].x = u <=> entry[c].x = u) /\ (u \in e[c].s <=> u \in entry[c].s)
    BY <1>3, <1>10
  <2>2. e[c] = entry[c] BY <1>3, <1>10
  <2>3. e[c].refs = entry[c].refs /\ e[c].open_count = entry[c].open_count /\ (e[c].x # NoThread => e[c].s = {})
    BY <1>0, <1>3, <2>2 DEF LockInv
  <2> QED BY <1>1, <1>3, <1>9, <1>10, <2>1, <2>2, <2>3, DropEntry
<1>14. ASSUME NEW i \in Inodes
       PROVE  /\ entry'[i].refs = entry[i].refs + Uses(t, i)' - Uses(t, i)
              /\ entry'[i].open_count = entry[i].open_count + Bit(Opener(t, i))' - Bit(Opener(t, i))
              /\ entry'[i].refs = 0 => entry'[i] = NoEntry
  <2>0. i # 0 /\ entry[i].refs \in Nat /\ entry[i].open_count \in Nat BY <1>7, EntryFields DEF Inodes
  <2>1. Bit(Opener(t, i))' = Bit(Opener(t, i)) /\ Bit(Opener(t, i)) \in Nat /\ Bit(Lower(t, i))' = 0
    BY <1>6 DEF Bit
  <2>2. Uses(t, i)' = Bit(Opener(t, i)) BY <1>6, <2>1 DEF Uses, Bit
  <2>a. Bit(th[t].cur = i) = (IF i = c THEN 1 ELSE 0) /\ Bit(Lower(t, i)) = (IF i = j THEN 1 ELSE 0)
    BY <1>6 DEF Bit
  <2>3. Uses(t, i) = (IF i = c THEN 1 ELSE 0) + (IF i = j THEN 1 ELSE 0) + Bit(Opener(t, i))
    BY <2>a, <2>1 DEF Uses
  <2>4. entry[i].refs = 0 => entry[i] = NoEntry BY <1>0 DEF EntriesCounted
  <2>5. CASE i = c BY <1>3, <1>12, <2>0, <2>1, <2>2, <2>3, <2>5
  <2>6. CASE i = j
    <3>2. entry'[i] = e[i] BY <1>3, <1>12, <2>6
    <3> QED BY <1>3, <1>11, <2>0, <2>1, <2>2, <2>3, <2>6, <3>2
  <2>7. CASE i # c /\ i # j
    <3>1. entry'[i] = entry[i] BY <1>10, <1>12, <2>7
    <3> QED BY <2>0, <2>1, <2>2, <2>3, <2>4, <2>7, <3>1
  <2> QED BY <2>5, <2>6, <2>7
<1>15. EntriesCounted' /\ Opened' = Opened BY <1>1, <1>2, <1>e, <1>14, PlainCounts
<1>16. LockInv'
  <2>1. ASSUME NEW i \in Inodes
        PROVE  /\ \A u \in Threads : u # t =>
                     (entry'[i].x = u <=> entry[i].x = u) /\ (u \in entry'[i].s <=> u \in entry[i].s)
               /\ entry'[i].x = t <=> HasX(t, i)'
               /\ t \in entry'[i].s <=> HasS(t, i)'
               /\ entry'[i].x # NoThread => entry'[i].s = {}
    <3>1. (entry[i].x = t <=> HasX(t, i)) /\ (t \in entry[i].s <=> HasS(t, i))
          /\ (entry[i].x # NoThread => entry[i].s = {})
      BY <1>0 DEF LockInv
    <3>2. i # 0 BY DEF Inodes
    <3>3. CASE i = c BY <1>5, <1>12, <3>3
    <3>4. CASE i = j
      <4>1. entry'[i] = e[i] BY <1>3, <1>12, <3>4
      <4> QED BY <1>5, <1>11, <3>2, <3>4, <4>1
    <3>5. CASE i # c /\ i # j
      <4>1. entry'[i] = entry[i] BY <1>10, <1>12, <3>5
      <4> QED BY <1>5, <3>1, <3>5, <4>1
    <3> QED BY <3>3, <3>4, <3>5
  <2> QED BY <1>1, <1>2, <2>1, LockStep
<1>17. Fades
  <2>1. ASSUME NEW i \in Inodes, entry'[i].valid
        PROVE entry[i].valid /\ entry'[i].inode = entry[i].inode
    <3>2. i # 0 BY DEF Inodes
    <3>3. CASE i = c BY <1>12, <2>1, <3>3
    <3>4. CASE i = j
      <4>1. entry'[i] = e[i] BY <1>3, <1>12, <3>4
      <4> QED BY <1>11, <2>1, <3>2, <3>4, <4>1
    <3>5. CASE i # c /\ i # j
      <4>1. entry'[i] = entry[i] BY <1>10, <1>12, <3>5
      <4> QED BY <2>1, <4>1
    <3> QED BY <3>3, <3>4, <3>5
  <2> QED BY <1>12, <2>1 DEF Fades
<1> QED BY <1>15, <1>16, <1>17

\* A call with a path begins: the locks and the counts of users still agree.
LEMMA CallPathLocks ==
  ASSUME SafeInv, NEW t \in Threads, CallPath(t)
  PROVE  LockInv' /\ EntriesCounted' /\ Opened' = Opened /\ Fades
<1>0. /\ TypeOK /\ EntriesCounted /\ LockInv /\ th[t] \in Locals /\ WalkOK(t) BY Own DEF SafeInv
<1>1. entry' = entry /\ files' = files BY DEF CallPath
<1>2. /\ Steps(t) /\ pc[t] = "idle" /\ pc'[t] \in {"begin", "root"} /\ th'[t].cur = 0 /\ th'[t].kid = 0 /\ ~th'[t].held
      /\ th[t] = Idle
  BY <1>0, CallPathEffect DEF WalkOK
<1>3. th[t].cur = 0 /\ th[t].kid = 0 /\ ~th[t].held BY <1>2, IdleType
<1>4. ASSUME NEW i \in Inodes
      PROVE  /\ ~HasX(t, i)' /\ ~HasX(t, i) /\ ~HasS(t, i)' /\ ~HasS(t, i)
             /\ Uses(t, i)' = 0 /\ Uses(t, i) = 0 /\ Bit(Opener(t, i))' = 0 /\ Bit(Opener(t, i)) = 0
  <2>1. i # 0 BY DEF Inodes
  <2>2. /\ ~HasX(t, i)' /\ ~HasX(t, i) /\ ~HasS(t, i)' /\ ~HasS(t, i)
    BY <1>2, <1>3, <2>1 DEF HasX, HasS, HasFile, Writing
  <2>3. ~Lower(t, i) /\ ~Lower(t, i)' /\ ~Opener(t, i) /\ ~Opener(t, i)' /\ th[t].cur # i /\ th'[t].cur # i
    BY <1>2, <1>3, <2>1 DEF Lower, Opener, Opening
  <2> QED BY <2>2, <2>3 DEF Uses, Bit
<1>5. LockInv' BY <1>1, <1>2, <1>4, PlainLocks
<1>6. EntriesCounted' /\ Opened' = Opened
  <2>1. ASSUME NEW i \in Inodes
        PROVE  /\ entry'[i].refs = entry[i].refs + Uses(t, i)' - Uses(t, i)
               /\ entry'[i].open_count = entry[i].open_count + Bit(Opener(t, i))' - Bit(Opener(t, i))
               /\ entry'[i].refs = 0 => entry'[i] = NoEntry
    <3>1. entry[i].refs \in Nat /\ entry[i].open_count \in Nat BY <1>0, EntryFields DEF TypeOK
    <3>2. entry[i].refs = 0 => entry[i] = NoEntry BY <1>0 DEF EntriesCounted
    <3> QED BY <1>1, <1>4, <3>1, <3>2
  <2> QED BY <1>1, <1>2, <2>1, PlainCounts
<1> QED BY <1>0, <1>1, <1>5, <1>6 DEF Fades, TypeOK

\* A count of open files is set.
LEMMA CountIs ==
  ASSUME NEW e \in [Inodes -> EntryType], NEW i \in Inodes, NEW n \in Nat
  PROVE  /\ Only(e, [e EXCEPT ![i].open_count = n], i)
         /\ Looks([e EXCEPT ![i].open_count = n][i], e[i].refs, e[i].x, e[i].s, n, e[i].valid, e[i].inode)
<1> DEFINE f == [e[i] EXCEPT !.open_count = n]
<1>1. Looks(f, e[i].refs, e[i].x, e[i].s, n, e[i].valid, e[i].inode)
  <2>1. e[i] \in EntryType OBVIOUS
  <2> QED BY <2>1, EntryWith
<1>2. [e EXCEPT ![i].open_count = n] = [e EXCEPT ![i] = f] OBVIOUS
<1> HIDE DEF f
<1>3. f \in EntryType BY <1>1 DEF Looks
<1> QED BY <1>1, <1>2, <1>3 DEF Only

\* A descriptor that no call has is not being closed.
LEMMA FreeFd ==
  ASSUME SafeInv, NEW u \in Threads, pc[u] = "close"
  PROVE  OnFd(u) /\ th[u].fd \in Fds /\ op[th[u].fd] = u /\ files[th[u].fd] # 0
<1>1. OnFd(u) BY Own DEF KindOK, OnFd
<1> QED BY <1>1, OnFile DEF Inodes

\* A call on a descriptor begins: the locks and the counts of users still agree.
LEMMA CallFdLocks ==
  ASSUME SafeInv, NEW t \in Threads, CallFd(t)
  PROVE  LockInv' /\ EntriesCounted' /\ Opened' \subseteq Opened /\ Fades
<1>0. /\ TypeOK /\ EntriesCounted /\ LockInv /\ th[t] \in Locals /\ WalkOK(t) BY Own DEF SafeInv
<1>7. PICK fd \in Fds : th'[t].fd = fd BY <1>0, CallFdEffect
<1> DEFINE j == files[fd]
<1>1. files' = files BY DEF CallFd
<1>2. /\ Steps(t) /\ pc[t] = "idle" /\ th'[t].cur = 0 /\ th'[t].kid = 0 /\ ~th'[t].held /\ th[t] = Idle
      /\ fd \in Fds /\ op[fd] = NoThread /\ files[fd] # 0
      /\ \/ pc'[t] \in {"begin", "lock_file"} /\ entry' = entry
         \/ pc'[t] = "close" /\ entry' = [entry EXCEPT ![j].open_count = @ - 1]
  BY <1>0, <1>7, CallFdEffect DEF WalkOK
<1>3. th[t].cur = 0 /\ th[t].kid = 0 /\ ~th[t].held BY <1>2, IdleType
<1>4. ASSUME NEW i \in Inodes
      PROVE  /\ ~HasX(t, i)' /\ ~HasX(t, i) /\ ~HasS(t, i)' /\ ~HasS(t, i)
             /\ Uses(t, i)' = 0 /\ Uses(t, i) = 0 /\ Bit(Opener(t, i))' = 0 /\ Bit(Opener(t, i)) = 0
  <2>1. i # 0 BY DEF Inodes
  <2>2. /\ ~HasX(t, i)' /\ ~HasX(t, i) /\ ~HasS(t, i)' /\ ~HasS(t, i)
    BY <1>2, <1>3, <2>1 DEF HasX, HasS, HasFile, Writing
  <2>3. ~Lower(t, i) /\ ~Lower(t, i)' /\ ~Opener(t, i) /\ ~Opener(t, i)' /\ th[t].cur # i /\ th'[t].cur # i
    BY <1>2, <1>3, <2>1 DEF Lower, Opener, Opening
  <2> QED BY <2>2, <2>3 DEF Uses, Bit
<1>5. \A i \in Inodes : entry[i].refs = 0 => entry[i] = NoEntry BY <1>0 DEF EntriesCounted
<1>6. \A i \in Inodes : entry[i].refs \in Nat /\ entry[i].open_count \in Nat
  BY <1>0, EntryFields DEF TypeOK
<1>8. CASE pc'[t] \in {"begin", "lock_file"} /\ entry' = entry
  <2>1. LockInv' BY <1>1, <1>2, <1>4, <1>8, PlainLocks
  <2>2. EntriesCounted' /\ Opened' = Opened
    <3>1. ASSUME NEW i \in Inodes
          PROVE  /\ entry'[i].refs = entry[i].refs + Uses(t, i)' - Uses(t, i)
                 /\ entry'[i].open_count = entry[i].open_count + Bit(Opener(t, i))' - Bit(Opener(t, i))
                 /\ entry'[i].refs = 0 => entry'[i] = NoEntry
      BY <1>4, <1>5, <1>6, <1>8
    <3> QED BY <1>1, <1>2, <1>8, <3>1, PlainCounts
  <2> QED BY <1>0, <1>8, <2>1, <2>2 DEF Fades, TypeOK
<1>9. CASE pc'[t] = "close" /\ entry' = [entry EXCEPT ![j].open_count = @ - 1]
  <2>0. j \in Inodes /\ j = files[fd]
    <3>1. \A f \in Fds : files[f] \in 0..NInodes BY <1>0 DEF TypeOK
    <3> QED BY <1>2, <3>1 DEF Inodes
  <2>1. fd \in Opened /\ Opened' = Opened \ {fd}
    <3>1. \A u \in Threads : pc[u] = "close" => th[u].fd # fd BY <1>2, FreeFd, ThreadsAssumption
    <3>2. fd \in Opened BY <1>2, <3>1 DEF Opened
    <3>3. ASSUME NEW g \in Fds, g # fd PROVE g \in Opened' <=> g \in Opened
      <4>1. \A u \in Threads : (pc'[u] = "close" /\ th'[u].fd = g) <=> (pc[u] = "close" /\ th[u].fd = g)
        BY <1>2, <1>7, <1>9, <3>3 DEF Steps
      <4> QED BY <1>1, <4>1 DEF Opened
    <3>4. fd \notin Opened' BY <1>7, <1>9 DEF Opened
    <3>5. Opened \subseteq Fds /\ Opened' \subseteq Fds BY DEF Opened
    <3> QED BY <3>2, <3>3, <3>4, <3>5
  <2>2. entry[j].open_count >= 1 /\ entry[j].refs # 0
    <3> HIDE DEF j
    <3>1. entry[j].open_count >= 1 BY <1>0, <2>0, <2>1, UserCounts
    <3>2. entry[j].refs >= Uses(t, j) + 1 BY <1>0, <1>2, <2>0, UserCounts
    <3> QED BY <1>4, <1>6, <2>0, <3>1, <3>2
  <2> DEFINE n == entry[j].open_count - 1
  <2>3. n \in Nat BY <1>6, <2>0, <2>2
  <2>4. entry' = [entry EXCEPT ![j].open_count = n] BY <1>9
  <2>n. n = entry[j].open_count - 1 OBVIOUS
  <2> HIDE DEF n
  <2>5. /\ Only(entry, entry', j)
        /\ Looks(entry'[j], entry[j].refs, entry[j].x, entry[j].s, n, entry[j].valid, entry[j].inode)
    <3> HIDE DEF j
    <3> QED BY <1>0, <2>0, <2>3, <2>4, CountIs DEF TypeOK
  <2> HIDE DEF j
  <2>6. \A i \in Inodes : i # j => entry'[i] = entry[i] BY <2>5 DEF Only
  <2>7. /\ entry'[j].refs = entry[j].refs /\ entry'[j].open_count = n /\ entry'[j].x = entry[j].x
        /\ entry'[j].s = entry[j].s /\ entry'[j].valid = entry[j].valid /\ entry'[j].inode = entry[j].inode
    BY <2>5 DEF Looks
  <2>8. LockInv'
    <3>1. \A i \in Inodes : entry'[i].x = entry[i].x /\ entry'[i].s = entry[i].s BY <2>6, <2>7
    <3> QED BY <1>1, <1>2, <1>4, <3>1, PlainLocks
  <2>9. Fades BY <2>5, <2>6, <2>7 DEF Fades, Only
  <2>10. EntriesCounted'
    <3> SUFFICES ASSUME NEW i \in Inodes
                 PROVE  /\ entry'[i].refs = Cardinality(At(i)') + Cardinality(Below(i)') + Cardinality(Openers(i)')
                                            + Cardinality({f \in Fds : files'[f] = i})
                        /\ entry'[i].open_count = Cardinality({f \in Opened' : files'[f] = i}) + Cardinality(Openers(i)')
                        /\ entry'[i].refs = 0 => entry'[i] = NoEntry
      BY DEF EntriesCounted
    <3>0. \A g \in Fds : g # fd => files'[g] = files[g] /\ (g \in Opened' <=> g \in Opened)
      BY <1>1, <2>1
    <3>1. Bit(files[fd] = i)' = Bit(files[fd] = i) /\ Bit(files[fd] = i) \in Nat BY <1>1 DEF Bit
    <3>2. Bit(fd \in Opened /\ files[fd] = i)' = 0 BY <2>1 DEF Bit
    <3>3. Bit(fd \in Opened /\ files[fd] = i) = (IF i = j THEN 1 ELSE 0) BY <2>0, <2>1 DEF Bit
    <3>4. entry'[i].refs = entry[i].refs /\ entry'[i].open_count = (IF i = j THEN entry[i].open_count - 1 ELSE entry[i].open_count)
      BY <2>6, <2>7, <2>n
    <3>5. entry'[i].refs = 0 => entry'[i] = NoEntry BY <1>5, <2>2, <2>6, <3>4
    <3>6. entry'[i].refs = entry[i].refs + Uses(t, i)' - Uses(t, i) + Bit(files[fd] = i)' - Bit(files[fd] = i)
      BY <1>4, <1>6, <3>1, <3>4
    <3>7. entry'[i].open_count = entry[i].open_count + Bit(Opener(t, i))' - Bit(Opener(t, i))
                                 + Bit(fd \in Opened /\ files[fd] = i)' - Bit(fd \in Opened /\ files[fd] = i)
      BY <1>4, <1>6, <3>2, <3>3, <3>4
    <3> QED BY <1>0, <1>2, <3>0, <3>5, <3>6, <3>7, CountStep
  <2> QED BY <2>1, <2>8, <2>9, <2>10
<1> QED BY <1>2, <1>8, <1>9

\* Vfs_close drops the file: the locks and the counts of users still agree.
LEMMA CloseLocks ==
  ASSUME SafeInv, NEW t \in Threads, Close(t)
  PROVE  LockInv' /\ EntriesCounted' /\ Opened' = Opened /\ Fades
<1>0. /\ TypeOK /\ EntriesCounted /\ LockInv /\ th[t] \in Locals /\ KindOK(t) BY Own DEF SafeInv
<1>e. pc[t] = "close" /\ OnFd(t)
  <2>0. pc[t] = "close" BY DEF Close
  <2> QED BY <1>0, <2>0 DEF KindOK, OnFd
<1>p. PICK fd \in Fds : th[t].fd = fd BY <1>e, OnFile
<1>1. /\ files[fd] \in Inodes /\ op[fd] = t /\ th[t].cur = 0 /\ th[t].kid = 0 /\ ~th[t].held /\ ~Opening(t)
      /\ entry[files[fd]].refs # 0
  BY <1>e, <1>p, OnFile
<1> DEFINE j == files[fd]
<1>2. entry' = Release(entry, j) /\ files' = [files EXCEPT ![fd] = 0] BY <1>p DEF Close, Closed
<1>3. /\ Steps(t) /\ pc'[t] = "idle" /\ th'[t].cur = 0 /\ th'[t].kid = 0 /\ ~th'[t].held
  BY <1>0, CloseEffect, IdleType
<1>4. j \in Inodes /\ j = files[fd] /\ files'[fd] = 0 /\ \A g \in Fds : g # fd => files'[g] = files[g]
  BY <1>0, <1>1, <1>2 DEF TypeOK
<1>5. ASSUME NEW i \in Inodes
      PROVE  /\ ~HasX(t, i)' /\ ~HasX(t, i) /\ ~HasS(t, i)' /\ ~HasS(t, i)
             /\ Uses(t, i)' = 0 /\ Uses(t, i) = 0 /\ Bit(Opener(t, i))' = 0 /\ Bit(Opener(t, i)) = 0
  <2>1. i # 0 BY DEF Inodes
  <2>2. /\ ~HasX(t, i)' /\ ~HasX(t, i) /\ ~HasS(t, i)' /\ ~HasS(t, i)
    BY <1>e, <1>1, <1>3, <2>1 DEF HasX, HasS, HasFile, Writing
  <2>3. ~Lower(t, i) /\ ~Lower(t, i)' /\ ~Opener(t, i) /\ ~Opener(t, i)' /\ th[t].cur # i /\ th'[t].cur # i
    BY <1>e, <1>1, <1>3, <2>1 DEF Lower, Opener, Opening
  <2> QED BY <2>2, <2>3 DEF Uses, Bit
<1>6. \A i \in Inodes : entry[i].refs \in Nat /\ entry[i].open_count \in Nat
  BY <1>0, EntryFields DEF TypeOK
<1>7. Opened' = Opened /\ fd \notin Opened
  <2>1. fd \notin Opened /\ fd \notin Opened' BY <1>e, <1>p, <1>4 DEF Opened
  <2>2. ASSUME NEW g \in Fds, g # fd PROVE g \in Opened' <=> g \in Opened
    <3>1. \A u \in Threads : (pc'[u] = "close" /\ th'[u].fd = g) <=> (pc[u] = "close" /\ th[u].fd = g)
      BY <1>e, <1>p, <1>3, <2>2 DEF Steps
    <3> QED BY <1>4, <2>2, <3>1 DEF Opened
  <2>3. Opened \subseteq Fds /\ Opened' \subseteq Fds BY DEF Opened
  <2> QED BY <2>1, <2>2, <2>3
<1>8. entry \in [Inodes -> EntryType] /\ entry[j].refs # 0 BY <1>0, <1>1 DEF TypeOK
<1> HIDE DEF j
<1>9. /\ Only(entry, entry', j)
      /\ IF entry[j].refs = 1 THEN entry'[j] = NoEntry
         ELSE Looks(entry'[j], entry[j].refs - 1, entry[j].x, entry[j].s, entry[j].open_count, entry[j].valid, entry[j].inode)
  BY <1>2, <1>4, <1>8, ReleaseIs
<1>10. \A i \in Inodes : i # j => entry'[i] = entry[i] BY <1>9 DEF Only
<1>11. ASSUME entry[j].refs = 1
       PROVE  /\ \A u \in Threads : entry[j].x # u /\ u \notin entry[j].s
              /\ entry[j].open_count = 0
  <2>1. \A u \in Threads : Uses(u, j) = 0
    <3> SUFFICES ASSUME NEW u \in Threads PROVE Uses(u, j) = 0 OBVIOUS
    <3>1. Uses(u, j) \in Nat /\ entry[j].refs >= Uses(u, j) + 1 BY <1>0, <1>4, UserCounts
    <3> QED BY <1>11, <3>1
  <2>2. \A u \in Threads : th[u].cur # j /\ ~Lower(u, j) /\ ~Opener(u, j) BY <2>1 DEF Uses, Bit
  <2>3. \A g \in Fds : files[g] = j => g = fd
    <3> SUFFICES ASSUME NEW g \in Fds, files[g] = j, g # fd PROVE FALSE OBVIOUS
    <3>1. entry[j].refs >= 2 BY <1>0, <1>4, UserCounts
    <3> QED BY <1>11, <3>1
  <2>4. \A u \in Threads : entry[j].x # u /\ u \notin entry[j].s
    <3> SUFFICES ASSUME NEW u \in Threads PROVE ~HasX(u, j) /\ ~HasS(u, j) BY <1>0, <1>4 DEF LockInv
    <3>1. KindOK(u) BY Own
    <3>2. ~HasFile(u, j)
      <4> SUFFICES ASSUME HasFile(u, j) PROVE FALSE OBVIOUS
      <4>1. OnFd(u) /\ files[th[u].fd] = j BY <3>1 DEF HasFile, Writing, KindOK, OnFd
      <4>2. th[u].fd \in Fds /\ op[th[u].fd] = u BY <4>1, OnFile
      <4>3. u = t BY <1>1, <2>3, <4>1, <4>2
      <4> QED BY <1>e, <4>3 DEF HasFile, Writing
    <3> QED BY <2>2, <3>2 DEF HasX, HasS, Lower
  <2>5. Openers(j) = {} BY <2>2 DEF Openers, Opener
  <2>6. {g \in Opened : files[g] = j} = {} BY <1>7, <2>3 DEF Opened
  <2>7. Cardinality({}) = 0 BY FS_EmptySet
  <2>8. entry[j].open_count = Cardinality({g \in Opened : files[g] = j}) + Cardinality(Openers(j))
    BY <1>0, <1>4 DEF EntriesCounted
  <2>9. entry[j].open_count = Cardinality({}) + Cardinality({}) BY <2>5, <2>6, <2>8
  <2> QED BY <2>4, <2>7, <2>9
<1>12. /\ entry'[j].refs = entry[j].refs - 1 /\ entry'[j].open_count = entry[j].open_count
       /\ entry'[j].refs = 0 => entry'[j] = NoEntry
       /\ \A u \in Threads : (entry'[j].x = u <=> entry[j].x = u) /\ (u \in entry'[j].s <=> u \in entry[j].s)
       /\ entry'[j].x # NoThread => entry'[j].s = {}
       /\ entry'[j].valid => entry[j].valid /\ entry'[j].inode = entry[j].inode
  <2>1. CASE entry[j].refs = 1 BY <1>9, <1>11, <2>1, NoEntryType, ThreadsAssumption
  <2>2. CASE entry[j].refs # 1
    <3>1. entry[j].x # NoThread => entry[j].s = {} BY <1>0, <1>4 DEF LockInv
    <3>2. entry[j].refs - 1 # 0 BY <1>4, <1>6, <2>2
    <3> QED BY <1>9, <2>2, <3>1, <3>2 DEF Looks
  <2> QED BY <2>1, <2>2
<1>13. LockInv'
  <2>1. ASSUME NEW i \in Inodes
        PROVE  /\ \A u \in Threads : u # t =>
                     (entry'[i].x = u <=> entry[i].x = u) /\ (u \in entry'[i].s <=> u \in entry[i].s)
               /\ entry'[i].x = t <=> HasX(t, i)'
               /\ t \in entry'[i].s <=> HasS(t, i)'
               /\ entry'[i].x # NoThread => entry'[i].s = {}
    <3>1. (entry[i].x = t <=> HasX(t, i)) /\ (t \in entry[i].s <=> HasS(t, i))
          /\ (entry[i].x # NoThread => entry[i].s = {})
      BY <1>0 DEF LockInv
    <3>3. CASE i = j BY <1>5, <1>12, <3>1, <3>3
    <3>4. CASE i # j BY <1>5, <1>10, <3>1, <3>4
    <3> QED BY <3>3, <3>4
  <2>2. ASSUME NEW u \in Threads, u # t, OnFd(u) PROVE files'[th[u].fd] = files[th[u].fd]
    <3>1. th[u].fd \in Fds /\ op[th[u].fd] = u BY <2>2, OnFile
    <3> QED BY <1>1, <1>4, <2>2, <3>1
  <2> QED BY <1>3, <2>1, <2>2, LockStep
<1>14. Fades BY <1>9, <1>10, <1>12 DEF Fades, Only
<1>15. EntriesCounted'
  <2> SUFFICES ASSUME NEW i \in Inodes
               PROVE  /\ entry'[i].refs = Cardinality(At(i)') + Cardinality(Below(i)') + Cardinality(Openers(i)')
                                          + Cardinality({f \in Fds : files'[f] = i})
                      /\ entry'[i].open_count = Cardinality({f \in Opened' : files'[f] = i}) + Cardinality(Openers(i)')
                      /\ entry'[i].refs = 0 => entry'[i] = NoEntry
    BY DEF EntriesCounted
  <2>0. \A g \in Fds : g # fd => files'[g] = files[g] /\ (g \in Opened' <=> g \in Opened)
    BY <1>4, <1>7
  <2>a. entry[i].refs = 0 => entry[i] = NoEntry BY <1>0 DEF EntriesCounted
  <2>1. i # 0 /\ (entry[i].refs = 0 => entry[i] = NoEntry) BY <2>a DEF Inodes
  <2>2. Bit(files[fd] = i)' = 0 /\ Bit(files[fd] = i) = (IF i = j THEN 1 ELSE 0) BY <1>4, <2>1 DEF Bit
  <2>3. Bit(fd \in Opened /\ files[fd] = i)' = 0 /\ Bit(fd \in Opened /\ files[fd] = i) = 0
    BY <1>7 DEF Bit
  <2>4. /\ entry'[i].refs = (IF i = j THEN entry[i].refs - 1 ELSE entry[i].refs) /\ entry'[i].open_count = entry[i].open_count
        /\ entry'[i].refs = 0 => entry'[i] = NoEntry
    BY <1>10, <1>12, <2>1
  <2>6. entry'[i].refs = entry[i].refs + Uses(t, i)' - Uses(t, i) + Bit(files[fd] = i)' - Bit(files[fd] = i)
    BY <1>5, <1>6, <2>2, <2>4
  <2>7. entry'[i].open_count = entry[i].open_count + Bit(Opener(t, i))' - Bit(Opener(t, i))
                               + Bit(fd \in Opened /\ files[fd] = i)' - Bit(fd \in Opened /\ files[fd] = i)
    BY <1>5, <1>6, <2>3, <2>4
  <2> QED BY <1>0, <1>3, <2>0, <2>4, <2>6, <2>7, CountStep
<1> QED BY <1>7, <1>13, <1>14, <1>15

\* The open file enters the table: the locks and the counts of users still agree.
LEMMA InstallLocks ==
  ASSUME SafeInv, NEW t \in Threads, Install(t)
  PROVE  /\ LockInv' /\ EntriesCounted' /\ Fades /\ th[t].fd \in Fds /\ Opened' = Opened \cup {th[t].fd}
         /\ files'[th[t].fd] = th[t].index /\ \A g \in Opened : g # th[t].fd /\ files'[g] = files[g]
<1>0. /\ TypeOK /\ EntriesCounted /\ LockInv /\ TableInv /\ th[t] \in Locals /\ KindOK(t) /\ WalkOK(t) /\ KidOK(t) /\ IndexOK(t)
      /\ th[t].index \in Nat
  BY Own DEF SafeInv
<1>e. pc[t] = "install" /\ Reserving(t) BY DEF Install, Reserving
<1>p. PICK fd \in Fds : th[t].fd = fd BY <1>0, <1>e DEF WalkOK
<1>q. PICK j \in Inodes : th[t].index = j BY <1>0, <1>e DEF IndexOK, Opening
<1>1. files[fd] = 0 /\ th[t].cur = 0 /\ th[t].kid = 0 /\ ~th[t].held
  BY <1>0, <1>e, <1>p DEF TableInv, WalkOK, KidOK, Outside, Removed, Named, Emptying
<1>2. entry' = entry /\ files' = [files EXCEPT ![fd] = j] BY <1>p, <1>q DEF Install
<1>3. /\ Steps(t) /\ pc'[t] = "idle" /\ th'[t].cur = 0 /\ th'[t].kid = 0 /\ ~th'[t].held /\ th'[t].index = 0
  BY <1>0, InstallEffect, IdleType
<1>4. files'[fd] = j /\ j # 0 /\ \A g \in Fds : g # fd => files'[g] = files[g]
  BY <1>0, <1>2 DEF TypeOK, Inodes
<1>5. ASSUME NEW i \in Inodes
      PROVE  /\ ~HasX(t, i)' /\ ~HasX(t, i) /\ ~HasS(t, i)' /\ ~HasS(t, i)
             /\ Uses(t, i)' = 0 /\ Uses(t, i) = (IF i = j THEN 1 ELSE 0)
             /\ Bit(Opener(t, i))' = 0 /\ Bit(Opener(t, i)) = (IF i = j THEN 1 ELSE 0)
  <2>1. i # 0 BY DEF Inodes
  <2>2. /\ ~HasX(t, i)' /\ ~HasX(t, i) /\ ~HasS(t, i)' /\ ~HasS(t, i)
    BY <1>e, <1>1, <1>3, <2>1 DEF HasX, HasS, HasFile, Writing
  <2>3. /\ ~Lower(t, i) /\ ~Lower(t, i)' /\ (Opener(t, i) <=> i = j) /\ ~Opener(t, i)'
        /\ th[t].cur # i /\ th'[t].cur # i
    BY <1>e, <1>1, <1>3, <1>4, <1>q, <2>1 DEF Lower, Opener, Opening
  <2> QED BY <2>2, <2>3 DEF Uses, Bit
<1>6. \A i \in Inodes : entry[i].refs \in Nat /\ entry[i].open_count \in Nat
  BY <1>0, EntryFields DEF TypeOK
<1>7. Opened' = Opened \cup {fd} /\ fd \notin Opened
  <2>1. fd \notin Opened BY <1>1 DEF Opened
  <2>2. ASSUME NEW g \in Fds, g # fd PROVE g \in Opened' <=> g \in Opened
    <3>1. \A u \in Threads : (pc'[u] = "close" /\ th'[u].fd = g) <=> (pc[u] = "close" /\ th[u].fd = g)
      BY <1>e, <1>p, <1>3, <2>2 DEF Steps
    <3> QED BY <1>4, <2>2, <3>1 DEF Opened
  <2>4. fd \in Opened'
    <3>1. \A u \in Threads : pc'[u] = "close" => th'[u].fd # fd
      <4> SUFFICES ASSUME NEW u \in Threads, pc'[u] = "close" PROVE th'[u].fd # fd OBVIOUS
      <4>1. u # t /\ pc[u] = "close" /\ th'[u] = th[u] BY <1>3 DEF Steps
      <4> QED BY <1>1, <4>1, FreeFd
    <3> QED BY <1>4, <3>1 DEF Opened
  <2>3. Opened \subseteq Fds /\ Opened' \subseteq Fds BY DEF Opened
  <2> QED BY <2>1, <2>2, <2>3, <2>4
<1>13. LockInv'
  <2>1. ASSUME NEW i \in Inodes
        PROVE  /\ \A u \in Threads : u # t =>
                     (entry'[i].x = u <=> entry[i].x = u) /\ (u \in entry'[i].s <=> u \in entry[i].s)
               /\ entry'[i].x = t <=> HasX(t, i)'
               /\ t \in entry'[i].s <=> HasS(t, i)'
               /\ entry'[i].x # NoThread => entry'[i].s = {}
    BY <1>0, <1>2, <1>5 DEF LockInv
  <2>2. ASSUME NEW u \in Threads, u # t, OnFd(u) PROVE files'[th[u].fd] = files[th[u].fd]
    <3>1. th[u].fd \in Fds /\ files[th[u].fd] # 0 BY <2>2, OnFile DEF Inodes
    <3> QED BY <1>1, <1>4, <2>2, <3>1
  <2> QED BY <1>3, <2>1, <2>2, LockStep
<1>14. Fades BY <1>0, <1>2 DEF Fades, TypeOK
<1>15. EntriesCounted'
  <2> SUFFICES ASSUME NEW i \in Inodes
               PROVE  /\ entry'[i].refs = Cardinality(At(i)') + Cardinality(Below(i)') + Cardinality(Openers(i)')
                                          + Cardinality({f \in Fds : files'[f] = i})
                      /\ entry'[i].open_count = Cardinality({f \in Opened' : files'[f] = i}) + Cardinality(Openers(i)')
                      /\ entry'[i].refs = 0 => entry'[i] = NoEntry
    BY DEF EntriesCounted
  <2>0. \A g \in Fds : g # fd => files'[g] = files[g] /\ (g \in Opened' <=> g \in Opened)
    BY <1>4, <1>7
  <2>a. entry[i].refs = 0 => entry[i] = NoEntry BY <1>0 DEF EntriesCounted
  <2>1. i # 0 /\ (entry[i].refs = 0 => entry[i] = NoEntry) BY <2>a DEF Inodes
  <2>2. Bit(files[fd] = i)' = (IF i = j THEN 1 ELSE 0) /\ Bit(files[fd] = i) = 0
    BY <1>1, <1>4, <2>1 DEF Bit
  <2>3. Bit(fd \in Opened /\ files[fd] = i)' = (IF i = j THEN 1 ELSE 0) /\ Bit(fd \in Opened /\ files[fd] = i) = 0
    BY <1>4, <1>7 DEF Bit
  <2>6. entry'[i].refs = entry[i].refs + Uses(t, i)' - Uses(t, i) + Bit(files[fd] = i)' - Bit(files[fd] = i)
    BY <1>2, <1>5, <1>6, <2>2
  <2>7. entry'[i].open_count = entry[i].open_count + Bit(Opener(t, i))' - Bit(Opener(t, i))
                               + Bit(fd \in Opened /\ files[fd] = i)' - Bit(fd \in Opened /\ files[fd] = i)
    BY <1>2, <1>5, <1>6, <2>3
  <2> QED BY <1>0, <1>2, <1>3, <2>0, <2>1, <2>6, <2>7, CountStep
<1>16. \A g \in Opened : g # fd /\ files'[g] = files[g] BY <1>4, <1>7 DEF Opened
<1> QED BY <1>p, <1>q, <1>4, <1>7, <1>13, <1>14, <1>15, <1>16

-----------------------------------------------------------------------------
(* The table of open files. *)

\* The calls on descriptors of the other threads, and the slots they have taken.
LEMMA OthersTable ==
  ASSUME SafeInv, NEW t \in Threads, Steps(t)
  PROVE  /\ TableInv /\ NoThread \notin Threads
         /\ files \in [Fds -> 0..NInodes] /\ op \in [Fds -> Threads \cup {NoThread}]
         /\ \A u \in Threads : u # t => /\ OnFd(u)' <=> OnFd(u)
                                        /\ Reserving(u)' <=> Reserving(u)
                                        /\ th'[u].fd = th[u].fd
         /\ \A u \in Threads : OnFd(u) \/ Reserving(u) => th[u].fd \in Fds
<1>1. \A u \in Threads : u # t => /\ OnFd(u)' <=> OnFd(u)
                                  /\ Reserving(u)' <=> Reserving(u)
                                  /\ th'[u].fd = th[u].fd
  BY DEF OnFd, Reserving, Steps
<1>2. \A u \in Threads : OnFd(u) \/ Reserving(u) => th[u].fd \in Fds
  BY Own DEF Reserving, WalkOK
<1> QED BY <1>1, <1>2, ThreadsAssumption DEF SafeInv, TypeOK

\* A call with a path begins: the descriptor table stays sound.
LEMMA CallPathTable ==
  ASSUME SafeInv, NEW t \in Threads, CallPath(t)
  PROVE  TableInv'
<1>0. TypeOK /\ WalkOK(t) BY Own
<1>1. /\ Steps(t) /\ pc[t] = "idle" /\ pc'[t] \in {"begin", "root"} /\ th'[t].kind \in ByPath
      /\ \/ th'[t].kind \notin Opens /\ in_use' = in_use
         \/ /\ th'[t].kind \in Opens /\ th'[t].fd \in Fds \ in_use
            /\ in_use' = in_use \cup {th'[t].fd}
  BY <1>0, CallPathEffect
<1>2. files' = files /\ op' = op BY DEF CallPath
<1>3. ~OnFd(t) /\ ~Reserving(t) BY <1>0, <1>1, IdleType DEF OnFd, Reserving, WalkOK
<1>4. ~OnFd(t)' /\ (Reserving(t)' <=> th'[t].kind \in Opens) BY <1>1 DEF OnFd, Reserving
<1>5. /\ TableInv /\ NoThread \notin Threads /\ op \in [Fds -> Threads \cup {NoThread}]
      /\ \A u \in Threads : u # t => /\ OnFd(u)' <=> OnFd(u)
                                     /\ Reserving(u)' <=> Reserving(u)
                                     /\ th'[u].fd = th[u].fd
      /\ \A u \in Threads : OnFd(u) \/ Reserving(u) => th[u].fd \in Fds
  BY <1>1, OthersTable
<1>6. ASSUME NEW fd \in Fds
      PROVE  /\ files'[fd] # 0 => fd \in in_use'
             /\ op'[fd] \in Threads \cup {NoThread} /\ \A u \in Threads : op'[fd] = u => OnFd(u)' /\ th'[u].fd = fd
  <2>1. files[fd] # 0 => fd \in in_use BY <1>5 DEF TableInv
  <2>2. op[fd] # NoThread => op[fd] \in Threads /\ OnFd(op[fd]) /\ th[op[fd]].fd = fd /\ op[fd] # t
    BY <1>3, <1>5 DEF TableInv
  <2> QED BY <1>1, <1>2, <1>5, <2>1, <2>2
<1>7. ASSUME NEW u \in Threads
      PROVE  /\ OnFd(u)' => op'[th'[u].fd] = u /\ files'[th'[u].fd] # 0
             /\ Reserving(u)' => th'[u].fd \in in_use' /\ files'[th'[u].fd] = 0
  <2>1. CASE u = t
    <3>1. th'[t].kind \in Opens => files[th'[t].fd] = 0 BY <1>1, <1>5 DEF TableInv
    <3> QED BY <1>1, <1>2, <1>4, <2>1, <3>1
  <2>2. CASE u # t BY <1>1, <1>2, <1>5, <2>2 DEF TableInv
  <2> QED BY <2>1, <2>2
<1>8. ASSUME NEW u \in Threads, NEW v \in Threads, Reserving(u)', Reserving(v)', u # v
      PROVE  th'[u].fd # th'[v].fd
  <2>1. CASE u = t BY <1>1, <1>4, <1>5, <1>8, <2>1 DEF TableInv
  <2>2. CASE v = t BY <1>1, <1>4, <1>5, <1>8, <2>2 DEF TableInv
  <2>3. CASE u # t /\ v # t BY <1>5, <1>8, <2>3 DEF TableInv
  <2> QED BY <2>1, <2>2, <2>3
<1> QED BY <1>6, <1>7, <1>8 DEF TableInv, OnFd

\* A call on a descriptor begins: the descriptor table stays sound.
LEMMA CallFdTable ==
  ASSUME SafeInv, NEW t \in Threads, CallFd(t)
  PROVE  TableInv'
<1>0. TypeOK /\ WalkOK(t) BY Own
<1>p. PICK fd \in Fds : th'[t].fd = fd BY <1>0, CallFdEffect
<1>1. /\ Steps(t) /\ pc[t] = "idle" /\ pc'[t] \in {"begin", "lock_file", "close"} /\ th'[t].kind \in Writes \cup {"read", "close"}
      /\ op[fd] = NoThread /\ files[fd] # 0 /\ op' = [op EXCEPT ![fd] = t]
  BY <1>0, <1>p, CallFdEffect
<1>2. files' = files /\ in_use' = in_use BY DEF CallFd
<1>3. ~OnFd(t) /\ ~Reserving(t) BY <1>0, <1>1, IdleType DEF OnFd, Reserving, WalkOK
<1>4. OnFd(t)' /\ ~Reserving(t)' BY <1>1 DEF OnFd, Reserving
<1>5. /\ TableInv /\ NoThread \notin Threads /\ op \in [Fds -> Threads \cup {NoThread}]
      /\ \A u \in Threads : u # t => /\ OnFd(u)' <=> OnFd(u)
                                     /\ Reserving(u)' <=> Reserving(u)
                                     /\ th'[u].fd = th[u].fd
      /\ \A u \in Threads : OnFd(u) \/ Reserving(u) => th[u].fd \in Fds
  BY <1>1, OthersTable
<1>b. op'[fd] = t /\ \A g \in Fds : g # fd => op'[g] = op[g] BY <1>1, <1>5
<1>6. ASSUME NEW g \in Fds
      PROVE  /\ files'[g] # 0 => g \in in_use'
             /\ op'[g] \in Threads \cup {NoThread} /\ \A u \in Threads : op'[g] = u => OnFd(u)' /\ th'[u].fd = g
  <2>1. files[g] # 0 => g \in in_use BY <1>5 DEF TableInv
  <2>2. op[g] # NoThread => op[g] \in Threads /\ OnFd(op[g]) /\ th[op[g]].fd = g /\ op[g] # t
    BY <1>3, <1>5 DEF TableInv
  <2> QED BY <1>p, <1>2, <1>4, <1>b, <1>5, <2>1, <2>2
<1>7. ASSUME NEW u \in Threads
      PROVE  /\ OnFd(u)' => op'[th'[u].fd] = u /\ files'[th'[u].fd] # 0
             /\ Reserving(u)' => th'[u].fd \in in_use' /\ files'[th'[u].fd] = 0
  <2>1. CASE u = t BY <1>p, <1>1, <1>2, <1>4, <1>b, <2>1
  <2>2. CASE u # t
    <3>1. OnFd(u) => op[th[u].fd] = u /\ files[th[u].fd] # 0 /\ th[u].fd # fd
      BY <1>1, <1>5 DEF TableInv
    <3>2. Reserving(u) => th[u].fd \in in_use /\ files[th[u].fd] = 0 BY <1>5 DEF TableInv
    <3> QED BY <1>2, <1>5, <1>b, <2>2, <3>1, <3>2
  <2> QED BY <2>1, <2>2
<1>8. ASSUME NEW u \in Threads, NEW v \in Threads, Reserving(u)', Reserving(v)', u # v
      PROVE  th'[u].fd # th'[v].fd
  BY <1>4, <1>5, <1>8 DEF TableInv
<1> QED BY <1>6, <1>7, <1>8 DEF TableInv, OnFd

\* The file is unlocked: the descriptor table stays sound.
LEMMA UnlockFileTable ==
  ASSUME SafeInv, NEW t \in Threads, UnlockFile(t)
  PROVE  TableInv'
<1>0. TypeOK /\ KindOK(t) BY Own
<1>e. pc[t] = "unlock_file" /\ OnFd(t)
  <2>0. pc[t] = "unlock_file" BY DEF UnlockFile
  <2> QED BY <1>0, <2>0 DEF KindOK, OnFd
<1>p. PICK fd \in Fds : th[t].fd = fd BY <1>e, OnFile
<1>1. /\ Steps(t) /\ files' = files /\ in_use' = in_use BY <1>0, UnlockFileEffect DEF UnlockFile
<1>2. CASE pc'[t] = "begin" /\ op' = op /\ th'[t].kind = th[t].kind /\ th'[t].fd = th[t].fd
  BY <1>e, <1>1, <1>2, TableSame DEF table
<1>3. CASE pc'[t] = "idle" /\ th'[t] = Idle /\ op' = [op EXCEPT ![fd] = NoThread]
  <2>4. ~OnFd(t)' /\ ~Reserving(t)' BY <1>3, IdleType DEF OnFd, Reserving
  <2>5. /\ TableInv /\ NoThread \notin Threads /\ op \in [Fds -> Threads \cup {NoThread}]
        /\ \A u \in Threads : u # t => /\ OnFd(u)' <=> OnFd(u)
                                       /\ Reserving(u)' <=> Reserving(u)
                                       /\ th'[u].fd = th[u].fd
        /\ \A u \in Threads : OnFd(u) \/ Reserving(u) => th[u].fd \in Fds
    BY <1>1, OthersTable
  <2>b. op'[fd] = NoThread /\ \A g \in Fds : g # fd => op'[g] = op[g] BY <1>3, <2>5
  <2>6. ASSUME NEW g \in Fds
        PROVE  /\ files'[g] # 0 => g \in in_use'
               /\ op'[g] \in Threads \cup {NoThread} /\ \A u \in Threads : op'[g] = u => OnFd(u)' /\ th'[u].fd = g
    <3>1. files[g] # 0 => g \in in_use BY <2>5 DEF TableInv
    <3>2. op[g] # NoThread => op[g] \in Threads /\ OnFd(op[g]) /\ th[op[g]].fd = g
      BY <2>5 DEF TableInv
    <3> QED BY <1>p, <1>1, <2>b, <2>5, <3>1, <3>2
  <2>7. ASSUME NEW u \in Threads
        PROVE  /\ OnFd(u)' => op'[th'[u].fd] = u /\ files'[th'[u].fd] # 0
               /\ Reserving(u)' => th'[u].fd \in in_use' /\ files'[th'[u].fd] = 0
    <3>1. CASE u = t BY <2>4, <3>1
    <3>2. CASE u # t
      <4>0. op[fd] = t BY <1>e, <1>p, <2>5 DEF TableInv
      <4>1. OnFd(u) => op[th[u].fd] = u /\ files[th[u].fd] # 0 /\ th[u].fd # fd
        BY <2>5, <3>2, <4>0 DEF TableInv
      <4>2. Reserving(u) => th[u].fd \in in_use /\ files[th[u].fd] = 0 BY <2>5 DEF TableInv
      <4> QED BY <1>1, <2>5, <2>b, <3>2, <4>1, <4>2
    <3> QED BY <3>1, <3>2
  <2>8. ASSUME NEW u \in Threads, NEW v \in Threads, Reserving(u)', Reserving(v)', u # v
        PROVE  th'[u].fd # th'[v].fd
    BY <2>4, <2>5, <2>8 DEF TableInv
  <2> QED BY <2>6, <2>7, <2>8 DEF TableInv, OnFd
<1> QED BY <1>0, <1>p, <1>2, <1>3, UnlockFileEffect DEF Becomes

\* A call leaves its locks: the descriptor table stays sound.
LEMMA ExitTable ==
  ASSUME SafeInv, NEW t \in Threads, Exit(t)
  PROVE  TableInv'
<1>0. TypeOK /\ KindOK(t) BY Own
<1>e. pc[t] = "exit" /\ th[t].kind \in ByPath
  <2>0. pc[t] = "exit" BY DEF Exit
  <2> QED BY <1>0, <2>0 DEF KindOK
<1>1. /\ Steps(t) /\ files' = files /\ op' = op BY <1>0, ExitEffect DEF Exit
<1>2. ~OnFd(t) /\ (Reserving(t) <=> th[t].kind \in Opens) BY <1>e DEF OnFd, Reserving
<1>5. /\ TableInv /\ NoThread \notin Threads /\ op \in [Fds -> Threads \cup {NoThread}]
      /\ \A u \in Threads : u # t => /\ OnFd(u)' <=> OnFd(u)
                                     /\ Reserving(u)' <=> Reserving(u)
                                     /\ th'[u].fd = th[u].fd
      /\ \A u \in Threads : OnFd(u) \/ Reserving(u) => th[u].fd \in Fds
  BY <1>1, OthersTable
<1>3. /\ ~OnFd(t)' /\ (Reserving(t)' => Reserving(t) /\ th'[t].fd = th[t].fd)
      /\ \/ in_use' = in_use
         \/ in_use' = in_use \ {th[t].fd} /\ Reserving(t) /\ ~Reserving(t)'
  BY <1>0, <1>2, ExitEffect, IdleType DEF OnFd, Reserving
<1>6. ASSUME NEW g \in Fds
      PROVE  /\ files'[g] # 0 => g \in in_use'
             /\ op'[g] \in Threads \cup {NoThread} /\ \A u \in Threads : op'[g] = u => OnFd(u)' /\ th'[u].fd = g
  <2>1. files[g] # 0 => g \in in_use /\ (Reserving(t) => g # th[t].fd) BY <1>5 DEF TableInv
  <2>2. op[g] # NoThread => op[g] \in Threads /\ OnFd(op[g]) /\ th[op[g]].fd = g /\ op[g] # t
    BY <1>2, <1>5 DEF TableInv
  <2> QED BY <1>1, <1>3, <1>5, <2>1, <2>2
<1>7. ASSUME NEW u \in Threads
      PROVE  /\ OnFd(u)' => op'[th'[u].fd] = u /\ files'[th'[u].fd] # 0
             /\ Reserving(u)' => th'[u].fd \in in_use' /\ files'[th'[u].fd] = 0
  <2>1. CASE u = t BY <1>1, <1>3, <1>5, <2>1 DEF TableInv
  <2>2. CASE u # t
    <3>1. OnFd(u) => op[th[u].fd] = u /\ files[th[u].fd] # 0 BY <1>5 DEF TableInv
    <3>2. Reserving(u) => th[u].fd \in in_use /\ files[th[u].fd] = 0 /\ (Reserving(t) => th[u].fd # th[t].fd)
      BY <1>5, <2>2 DEF TableInv
    <3> QED BY <1>1, <1>3, <1>5, <2>2, <3>1, <3>2
  <2> QED BY <2>1, <2>2
<1>8. ASSUME NEW u \in Threads, NEW v \in Threads, Reserving(u)', Reserving(v)', u # v
      PROVE  th'[u].fd # th'[v].fd
  BY <1>3, <1>5, <1>8 DEF TableInv
<1> QED BY <1>6, <1>7, <1>8 DEF TableInv, OnFd

\* The open file enters the table: the descriptor table stays sound.
LEMMA InstallTable ==
  ASSUME SafeInv, NEW t \in Threads, Install(t)
  PROVE  TableInv'
<1>0. TypeOK /\ KindOK(t) BY Own
<1>e. pc[t] = "install" /\ Reserving(t) BY DEF Install, Reserving
<1>e2. ~OnFd(t) BY <1>0, <1>e DEF OnFd, KindOK
<1>1. /\ Steps(t) /\ pc'[t] = "idle" /\ th'[t] = Idle BY <1>0, InstallEffect
<1>5. /\ TableInv /\ NoThread \notin Threads /\ op \in [Fds -> Threads \cup {NoThread}] /\ files \in [Fds -> 0..NInodes]
      /\ \A u \in Threads : u # t => /\ OnFd(u)' <=> OnFd(u)
                                     /\ Reserving(u)' <=> Reserving(u)
                                     /\ th'[u].fd = th[u].fd
      /\ \A u \in Threads : OnFd(u) \/ Reserving(u) => th[u].fd \in Fds
  BY <1>1, OthersTable
<1>p. PICK fd \in Fds : th[t].fd = fd BY <1>e, <1>5
<1>2. op' = op /\ in_use' = in_use /\ files' = [files EXCEPT ![fd] = th[t].index] BY <1>p DEF Install
<1>3. files[fd] = 0 /\ fd \in in_use BY <1>e, <1>p, <1>5 DEF TableInv
<1>b. \A g \in Fds : g # fd => files'[g] = files[g] BY <1>2, <1>5
<1>4. ~OnFd(t)' /\ ~Reserving(t)' BY <1>1, IdleType DEF OnFd, Reserving
<1>6. ASSUME NEW g \in Fds
      PROVE  /\ files'[g] # 0 => g \in in_use'
             /\ op'[g] \in Threads \cup {NoThread} /\ \A u \in Threads : op'[g] = u => OnFd(u)' /\ th'[u].fd = g
  <2>1. files[g] # 0 => g \in in_use BY <1>5 DEF TableInv
  <2>2. op[g] # NoThread => op[g] \in Threads /\ OnFd(op[g]) /\ th[op[g]].fd = g /\ op[g] # t
    BY <1>e2, <1>5 DEF TableInv
  <2> QED BY <1>2, <1>3, <1>b, <1>5, <2>1, <2>2
<1>7. ASSUME NEW u \in Threads
      PROVE  /\ OnFd(u)' => op'[th'[u].fd] = u /\ files'[th'[u].fd] # 0
             /\ Reserving(u)' => th'[u].fd \in in_use' /\ files'[th'[u].fd] = 0
  <2>1. CASE u = t BY <1>4, <2>1
  <2>2. CASE u # t
    <3>1. OnFd(u) => op[th[u].fd] = u /\ files[th[u].fd] # 0 /\ th[u].fd # fd
      BY <1>3, <1>5 DEF TableInv
    <3>2. Reserving(u) => th[u].fd \in in_use /\ files[th[u].fd] = 0 /\ th[u].fd # fd
      BY <1>e, <1>p, <1>5, <2>2 DEF TableInv
    <3> QED BY <1>2, <1>5, <1>b, <2>2, <3>1, <3>2
  <2> QED BY <2>1, <2>2
<1>8. ASSUME NEW u \in Threads, NEW v \in Threads, Reserving(u)', Reserving(v)', u # v
      PROVE  th'[u].fd # th'[v].fd
  BY <1>4, <1>5, <1>8 DEF TableInv
<1> QED BY <1>6, <1>7, <1>8 DEF TableInv, OnFd

\* Vfs_close drops the file: the descriptor table stays sound.
LEMMA CloseTable ==
  ASSUME SafeInv, NEW t \in Threads, Close(t)
  PROVE  TableInv'
<1>0. TypeOK /\ KindOK(t) BY Own
<1>e. pc[t] = "close" /\ OnFd(t)
  <2>0. pc[t] = "close" BY DEF Close
  <2> QED BY <1>0, <2>0 DEF KindOK, OnFd
<1>1. /\ Steps(t) /\ pc'[t] = "idle" /\ th'[t] = Idle BY <1>0, CloseEffect
<1>5. /\ TableInv /\ NoThread \notin Threads /\ op \in [Fds -> Threads \cup {NoThread}] /\ files \in [Fds -> 0..NInodes]
      /\ \A u \in Threads : u # t => /\ OnFd(u)' <=> OnFd(u)
                                     /\ Reserving(u)' <=> Reserving(u)
                                     /\ th'[u].fd = th[u].fd
      /\ \A u \in Threads : OnFd(u) \/ Reserving(u) => th[u].fd \in Fds
  BY <1>1, OthersTable
<1>p. PICK fd \in Fds : th[t].fd = fd BY <1>e, <1>5
<1>2. op' = [op EXCEPT ![fd] = NoThread] /\ in_use' = in_use \ {fd} /\ files' = [files EXCEPT ![fd] = 0]
  BY <1>p DEF Close
<1>3. files[fd] # 0 /\ op[fd] = t BY <1>e, <1>p, <1>5 DEF TableInv
<1>b. files'[fd] = 0 /\ op'[fd] = NoThread /\ \A g \in Fds : g # fd => files'[g] = files[g] /\ op'[g] = op[g]
  BY <1>2, <1>5
<1>4. ~OnFd(t)' /\ ~Reserving(t)' BY <1>1, IdleType DEF OnFd, Reserving
<1>6. ASSUME NEW g \in Fds
      PROVE  /\ files'[g] # 0 => g \in in_use'
             /\ op'[g] \in Threads \cup {NoThread} /\ \A u \in Threads : op'[g] = u => OnFd(u)' /\ th'[u].fd = g
  <2>1. files[g] # 0 => g \in in_use BY <1>5 DEF TableInv
  <2>2. op[g] # NoThread => op[g] \in Threads /\ OnFd(op[g]) /\ th[op[g]].fd = g BY <1>5 DEF TableInv
  <2> QED BY <1>p, <1>2, <1>3, <1>b, <1>5, <2>1, <2>2
<1>7. ASSUME NEW u \in Threads
      PROVE  /\ OnFd(u)' => op'[th'[u].fd] = u /\ files'[th'[u].fd] # 0
             /\ Reserving(u)' => th'[u].fd \in in_use' /\ files'[th'[u].fd] = 0
  <2>1. CASE u = t BY <1>4, <2>1
  <2>2. CASE u # t
    <3>1. OnFd(u) => op[th[u].fd] = u /\ files[th[u].fd] # 0 /\ th[u].fd # fd
      BY <1>3, <1>5, <2>2 DEF TableInv
    <3>2. Reserving(u) => th[u].fd \in in_use /\ files[th[u].fd] = 0 /\ th[u].fd # fd
      BY <1>3, <1>5, <2>2 DEF TableInv
    <3> QED BY <1>2, <1>5, <1>b, <2>2, <3>1, <3>2
  <2> QED BY <2>1, <2>2
<1>8. ASSUME NEW u \in Threads, NEW v \in Threads, Reserving(u)', Reserving(v)', u # v
      PROVE  th'[u].fd # th'[v].fd
  BY <1>4, <1>5, <1>8 DEF TableInv
<1> QED BY <1>6, <1>7, <1>8 DEF TableInv, OnFd
=============================================================================
