------------------------ MODULE FileSystemRulesProofs -----------------------
(***************************************************************************)
(* Proofs about module FileSystem, third part: the rules of layout.h, when *)
(* every block can be read.                                                *)
(***************************************************************************)
EXTENDS FileSystemProofs

USE SizesAssumption
USE DEF Creates, Truncates, Opens, Changes, Writes, InOperation, ByPath

-----------------------------------------------------------------------------
(* An inode that is taken is in use *)

\* A call is about to see to the inode it has taken.
Seeing(t) == Making(t) \/ pc[t] = "free_inode"

\* UsedInv after a step that accounts for every inode that is given out.
LEMMA UsedStep ==
  ASSUME UsedInv, NEW t \in Threads, Steps(t),
         \A i \in ibits' : \/ inode'[i].mode # "none"
                           \/ th'[t].kid = i /\ Seeing(t)'
                           \/ i \in ibits /\ inode[i].mode = "none" /\ ~(th[t].kid = i /\ Seeing(t))
  PROVE  UsedInv'
<1> SUFFICES ASSUME NEW i \in ibits'
             PROVE  \/ inode'[i].mode # "none"
                    \/ \E u \in Threads : th'[u].kid = i /\ Seeing(u)'
  BY DEF UsedInv, Seeing
<1>1. CASE i \in ibits /\ inode[i].mode = "none" /\ ~(th[t].kid = i /\ Seeing(t))
  <2>1. PICK u \in Threads : th[u].kid = i /\ Seeing(u) BY <1>1 DEF UsedInv, Seeing
  <2>2. u # t BY <1>1, <2>1
  <2>3. th'[u].kid = i /\ Seeing(u)' BY <2>1, <2>2 DEF Steps, Seeing, Making
  <2> QED BY <2>3
<1> QED BY <1>1

\* UsedInv after a step that neither gives out nor writes an inode.
LEMMA UsedSame ==
  ASSUME UsedInv, NEW t \in Threads, Steps(t), ibits' = ibits, inode' = inode,
         Seeing(t) => Seeing(t)' /\ th'[t].kid = th[t].kid
  PROVE  UsedInv'
<1>1. \A i \in ibits' : \/ inode'[i].mode # "none"
                        \/ th'[t].kid = i /\ Seeing(t)'
                        \/ i \in ibits /\ inode[i].mode = "none" /\ ~(th[t].kid = i /\ Seeing(t))
  OBVIOUS
<1> QED BY <1>1, UsedStep

\* Begin_op lets a call in: an inode that is taken is still in use, or about to be
\* seen to.
LEMMA BeginUsed ==
  ASSUME SafeInv, UsedInv, NEW t \in Threads, Begin(t)
  PROVE  UsedInv'
<1>0. /\ TypeOK /\ KindOK(t) /\ WalkOK(t) /\ (th[t].cur # 0 => th[t].cur \in Inodes)
  BY Own
<1>1. Steps(t) /\ (Seeing(t) => Seeing(t)' /\ th'[t].kid = th[t].kid)
  BY <1>0, BeginEffect DEF Becomes, Seeing, Making, KindOK
<1>2. ibits' = ibits /\ inode' = inode BY DEF Begin, bits, tree
<1> QED BY <1>1, <1>2, UsedSame

\* A walk starts at the root: an inode that is taken is still in use, or about to be
\* seen to.
LEMMA WalkRootUsed ==
  ASSUME SafeInv, UsedInv, NEW t \in Threads, WalkRoot(t)
  PROVE  UsedInv'
<1>0. /\ TypeOK /\ KindOK(t) /\ WalkOK(t) /\ (th[t].cur # 0 => th[t].cur \in Inodes)
  BY Own
<1>1. Steps(t) /\ (Seeing(t) => Seeing(t)' /\ th'[t].kid = th[t].kid)
  BY <1>0, WalkRootEffect DEF Becomes, Seeing, Making, KindOK
<1>2. ibits' = ibits /\ inode' = inode BY DEF WalkRoot, bits, tree
<1> QED BY <1>1, <1>2, UsedSame

\* A walk locks what it has found: an inode that is taken is still in use, or about to
\* be seen to.
LEMMA WalkLockUsed ==
  ASSUME SafeInv, UsedInv, NEW t \in Threads, WalkLock(t)
  PROVE  UsedInv'
<1>0. /\ TypeOK /\ KindOK(t) /\ WalkOK(t) /\ (th[t].cur # 0 => th[t].cur \in Inodes)
  BY Own
<1>1. Steps(t) /\ (Seeing(t) => Seeing(t)' /\ th'[t].kid = th[t].kid)
  BY <1>0, WalkLockEffect DEF Becomes, Seeing, Making, KindOK
<1>2. ibits' = ibits /\ inode' = inode BY DEF WalkLock, bits, tree
<1> QED BY <1>1, <1>2, UsedSame

\* A walk looks a component up: an inode that is taken is still in use, or about to be
\* seen to.
LEMMA WalkNextUsed ==
  ASSUME SafeInv, UsedInv, NEW t \in Threads, WalkNext(t)
  PROVE  UsedInv'
<1>0. /\ TypeOK /\ KindOK(t) /\ WalkOK(t) /\ (th[t].cur # 0 => th[t].cur \in Inodes)
  BY Own
<1>e. /\ th[t].cur # 0 /\ th[t].path[th[t].depth + 1] \in Names
      /\ dirent[th[t].cur][th[t].path[th[t].depth + 1]] # 0 => dirent[th[t].cur][th[t].path[th[t].depth + 1]] # th[t].cur
  <2> pc[t] = "walk" BY DEF WalkNext
  <2>1. th[t].kind \in ByPath BY <1>0 DEF KindOK
  <2>2. th[t].cur # 0 /\ th[t].depth < Goal(t) BY <1>0, <2>1 DEF WalkOK, OnFd, Outside
  <2> QED BY <1>0, <2>1, <2>2, NameIn, Named1
<1>1. Steps(t) /\ (Seeing(t) => Seeing(t)' /\ th'[t].kid = th[t].kid)
  BY <1>0, <1>e, WalkNextEffect DEF Becomes, Seeing, Making, KindOK
<1>2. ibits' = ibits /\ inode' = inode BY DEF WalkNext, bits, tree
<1> QED BY <1>1, <1>2, UsedSame

\* Open has reached the file's name: an inode that is taken is still in use, or about
\* to be seen to.
LEMMA AtOpenUsed ==
  ASSUME SafeInv, UsedInv, NEW t \in Threads, AtOpen(t)
  PROVE  UsedInv'
<1>0. /\ TypeOK /\ KindOK(t) /\ WalkOK(t) /\ (th[t].cur # 0 => th[t].cur \in Inodes)
  BY Own
<1>1. Steps(t) /\ (Seeing(t) => Seeing(t)' /\ th'[t].kid = th[t].kid)
  BY <1>0, AtOpenEffect DEF Becomes, Seeing, Making, KindOK
<1>2. ibits' = ibits /\ inode' = inode BY DEF AtOpen, bits, tree
<1> QED BY <1>1, <1>2, UsedSame

\* A call has found its last component: an inode that is taken is still in use, or
\* about to be seen to.
LEMMA AtChildUsed ==
  ASSUME SafeInv, UsedInv, NEW t \in Threads, AtChild(t)
  PROVE  UsedInv'
<1>0. /\ TypeOK /\ KindOK(t) /\ WalkOK(t) /\ (th[t].cur # 0 => th[t].cur \in Inodes)
  BY Own
<1>e. /\ th[t].cur # 0 /\ Name(t) \in Names /\ (Child(t) # 0 => Child(t) # th[t].cur)
      /\ th[t].kind \notin {"open", "stat"}
      /\ Suits(t) => th[t].kind \notin {"mkdir", "create_new"}
  <2> pc[t] = "at" /\ th[t].kind \notin {"open", "stat"} BY DEF AtChild
  <2>1. th[t].kind \in ByPath BY <1>0 DEF KindOK
  <2>2. th[t].cur # 0 BY <1>0, <2>1 DEF WalkOK, OnFd, Outside
  <2>3. CASE th[t].kind \in {"mkdir", "create_new"}
    <3>1. ~Suits(t) BY <2>3 DEF Suits
    <3> QED BY <1>0, <2>1, <2>2, <3>1, NameIn, Named1 DEF Child
  <2> QED BY <1>0, <2>1, <2>2, <2>3, NameIn, Named1 DEF Child
<1>1. Steps(t) /\ (Seeing(t) => Seeing(t)' /\ th'[t].kid = th[t].kid)
  BY <1>0, <1>e, AtChildEffect DEF Becomes, Seeing, Making, KindOK
<1>2. ibits' = ibits /\ inode' = inode BY DEF AtChild, bits, tree
<1> QED BY <1>1, <1>2, UsedSame

\* A call finds no such name: an inode that is taken is still in use, or about to be
\* seen to.
LEMMA AtNoneUsed ==
  ASSUME SafeInv, UsedInv, NEW t \in Threads, AtNone(t)
  PROVE  UsedInv'
<1>0. /\ TypeOK /\ KindOK(t) /\ WalkOK(t) /\ (th[t].cur # 0 => th[t].cur \in Inodes)
  BY Own
<1>1. Steps(t) /\ (Seeing(t) => Seeing(t)' /\ th'[t].kid = th[t].kid)
  BY <1>0, AtNoneEffect DEF Becomes, Seeing, Making, KindOK
<1>2. ibits' = ibits /\ inode' = inode BY DEF AtNone, bits, tree
<1> QED BY <1>1, <1>2, UsedSame

\* The inode below the directory is locked: an inode that is taken is still in use, or
\* about to be seen to.
LEMMA LockKidUsed ==
  ASSUME SafeInv, UsedInv, NEW t \in Threads, LockKid(t)
  PROVE  UsedInv'
<1>0. /\ TypeOK /\ KindOK(t) /\ WalkOK(t) /\ (th[t].cur # 0 => th[t].cur \in Inodes)
  BY Own
<1>1. Steps(t) /\ (Seeing(t) => Seeing(t)' /\ th'[t].kid = th[t].kid)
  BY <1>0, LockKidEffect DEF Becomes, Seeing, Making, KindOK
<1>2. ibits' = ibits /\ inode' = inode BY DEF LockKid, bits, tree
<1> QED BY <1>1, <1>2, UsedSame

\* A file is counted open: an inode that is taken is still in use, or about to be seen
\* to.
LEMMA RegisterUsed ==
  ASSUME SafeInv, UsedInv, NEW t \in Threads, Register(t)
  PROVE  UsedInv'
<1>0. /\ TypeOK /\ KindOK(t) /\ WalkOK(t) /\ (th[t].cur # 0 => th[t].cur \in Inodes)
  BY Own
<1>1. Steps(t) /\ (Seeing(t) => Seeing(t)' /\ th'[t].kid = th[t].kid)
  BY <1>0, RegisterEffect DEF Becomes, Seeing, Making, KindOK
<1>2. ibits' = ibits /\ inode' = inode BY DEF Register, bits, tree
<1> QED BY <1>1, <1>2, UsedSame

\* Mkdir takes a block for the new directory: an inode that is taken is still in use,
\* or about to be seen to.
LEMMA AllocBlockUsed ==
  ASSUME SafeInv, UsedInv, NEW t \in Threads, AllocBlock(t)
  PROVE  UsedInv'
<1>0. /\ TypeOK /\ KindOK(t) /\ WalkOK(t) /\ (th[t].cur # 0 => th[t].cur \in Inodes)
  BY Own
<1>1. Steps(t) /\ (Seeing(t) => Seeing(t)' /\ th'[t].kid = th[t].kid)
  BY <1>0, AllocBlockEffect DEF Becomes, Seeing, Making, KindOK
<1>2. ibits' = ibits /\ inode' = inode BY DEF AllocBlock, bits, tree
<1> QED BY <1>1, <1>2, UsedSame

\* Dir_add: an inode that is taken is still in use, or about to be seen to.
LEMMA DirAddUsed ==
  ASSUME SafeInv, UsedInv, NEW t \in Threads, DirAdd(t)
  PROVE  UsedInv'
<1>0. /\ TypeOK /\ KindOK(t) /\ WalkOK(t) /\ (th[t].cur # 0 => th[t].cur \in Inodes)
  BY Own
<1>1. Steps(t) /\ (Seeing(t) => Seeing(t)' /\ th'[t].kid = th[t].kid)
  BY <1>0, DirAddEffect DEF Becomes, Seeing, Making, KindOK
<1>2. ibits' = ibits /\ inode' = inode BY DEF DirAdd, bits, tree
<1> QED BY <1>1, <1>2, UsedSame

\* Mkdir hands its block back: an inode that is taken is still in use, or about to be
\* seen to.
LEMMA UndoBlockUsed ==
  ASSUME SafeInv, UsedInv, NEW t \in Threads, UndoBlock(t)
  PROVE  UsedInv'
<1>0. /\ TypeOK /\ KindOK(t) /\ WalkOK(t) /\ (th[t].cur # 0 => th[t].cur \in Inodes)
  BY Own
<1>1. Steps(t) /\ (Seeing(t) => Seeing(t)' /\ th'[t].kid = th[t].kid)
  BY <1>0, UndoBlockEffect DEF Becomes, Seeing, Making, KindOK
<1>2. ibits' = ibits /\ inode' = inode BY DEF UndoBlock, bits, tree
<1> QED BY <1>1, <1>2, UsedSame

\* Unlink and rmdir check what they would remove: an inode that is taken is still in
\* use, or about to be seen to.
LEMMA CheckUsed ==
  ASSUME SafeInv, UsedInv, NEW t \in Threads, Check(t)
  PROVE  UsedInv'
<1>0. /\ TypeOK /\ KindOK(t) /\ WalkOK(t) /\ (th[t].cur # 0 => th[t].cur \in Inodes)
  BY Own
<1>e. th[t].cur # 0 /\ inode[th[t].cur].mode = "dir"
  <2> pc[t] = "check" BY DEF Check
  <2>1. th[t].cur # 0 BY <1>0 DEF WalkOK, KindOK, OnFd, Outside
  <2> QED BY <2>1 DEF SafeInv, ThereInv, HeldOK, Named, IsDir
<1>1. Steps(t) /\ (Seeing(t) => Seeing(t)' /\ th'[t].kid = th[t].kid)
  BY <1>0, <1>e, CheckEffect DEF Becomes, Seeing, Making, KindOK
<1>2. ibits' = ibits /\ inode' = inode BY DEF Check, bits, tree
<1> QED BY <1>1, <1>2, UsedSame

\* Dir_remove: an inode that is taken is still in use, or about to be seen to.
LEMMA DirRemoveUsed ==
  ASSUME SafeInv, UsedInv, NEW t \in Threads, DirRemove(t)
  PROVE  UsedInv'
<1>0. /\ TypeOK /\ KindOK(t) /\ WalkOK(t) /\ (th[t].cur # 0 => th[t].cur \in Inodes)
  BY Own
<1>1. Steps(t) /\ (Seeing(t) => Seeing(t)' /\ th'[t].kid = th[t].kid)
  BY <1>0, DirRemoveEffect DEF Becomes, Seeing, Making, KindOK
<1>2. ibits' = ibits /\ inode' = inode BY DEF DirRemove, bits, tree
<1> QED BY <1>1, <1>2, UsedSame

\* O_TRUNC looks at the file: an inode that is taken is still in use, or about to be
\* seen to.
LEMMA TruncateUsed ==
  ASSUME SafeInv, UsedInv, NEW t \in Threads, Truncate(t)
  PROVE  UsedInv'
<1>0. /\ TypeOK /\ KindOK(t) /\ WalkOK(t) /\ (th[t].cur # 0 => th[t].cur \in Inodes)
  BY Own
<1>1. Steps(t) /\ (Seeing(t) => Seeing(t)' /\ th'[t].kid = th[t].kid)
  BY <1>0, TruncateEffect DEF Becomes, Seeing, Making, KindOK
<1>2. ibits' = ibits /\ inode' = inode BY DEF Truncate, bits, tree
<1> QED BY <1>1, <1>2, UsedSame

\* Free_all_blocks: an inode that is taken is still in use, or about to be seen to.
LEMMA FreeBlocksUsed ==
  ASSUME SafeInv, UsedInv, NEW t \in Threads, FreeBlocks(t)
  PROVE  UsedInv'
<1>0. /\ TypeOK /\ KindOK(t) /\ WalkOK(t) /\ (th[t].cur # 0 => th[t].cur \in Inodes)
  BY Own
<1>1. Steps(t) /\ (Seeing(t) => Seeing(t)' /\ th'[t].kid = th[t].kid)
  BY <1>0, FreeBlocksEffect DEF Becomes, Seeing, Making, KindOK
<1>2. ibits' = ibits /\ inode' = inode BY DEF FreeBlocks, bits, tree
<1> QED BY <1>1, <1>2, UsedSame

\* Alloc_all takes one more block: an inode that is taken is still in use, or about to
\* be seen to.
LEMMA TakeUsed ==
  ASSUME SafeInv, UsedInv, NEW t \in Threads, Take(t)
  PROVE  UsedInv'
<1>0. /\ TypeOK /\ KindOK(t) /\ WalkOK(t) /\ (th[t].cur # 0 => th[t].cur \in Inodes)
  BY Own
<1>1. Steps(t) /\ (Seeing(t) => Seeing(t)' /\ th'[t].kid = th[t].kid)
  <2>1. CASE pc'[t] = "give_back" /\ th' = th BY <1>0, <2>1, TakeEffect DEF Seeing, Making
  <2>2. CASE pc' = pc /\ Becomes(th[t], th'[t], th[t].depth, th[t].cur, th[t].kid, th[t].held,
                                 th[t].index, th[t].ino,
                                 Append(th[t].got, Min(Blocks \ bbits)), th[t].over)
    BY <1>0, <2>2, TakeEffect DEF Becomes, Seeing, Making
  <2>3. CASE pc'[t] \in Onward(t) /\ Bumped(t, <<>>, With(th[t].ino, Index(t), Append(th[t].got, Min(Blocks \ bbits))))
    <3>1. pc[t] = "take" /\ th'[t].kid = th[t].kid /\ th'[t].kind = th[t].kind /\ Steps(t)
      BY <1>0, <2>3, TakeEffect DEF Bumped, Becomes
    <3>2. th[t].kind \notin Writes => pc'[t] = "write_new" BY <2>3 DEF Onward
    <3> QED BY <3>1, <3>2 DEF Seeing, Making
  <2> QED BY <1>0, <2>1, <2>2, <2>3, TakeEffect
<1>2. ibits' = ibits /\ inode' = inode BY DEF Take, bits, tree
<1> QED BY <1>1, <1>2, UsedSame

\* Alloc_all gives back what it had taken: an inode that is taken is still in use, or
\* about to be seen to.
LEMMA GiveBackUsed ==
  ASSUME SafeInv, UsedInv, NEW t \in Threads, GiveBack(t)
  PROVE  UsedInv'
<1>0. /\ TypeOK /\ KindOK(t) /\ WalkOK(t) /\ (th[t].cur # 0 => th[t].cur \in Inodes)
  BY Own
<1>1. Steps(t) /\ (Seeing(t) => Seeing(t)' /\ th'[t].kid = th[t].kid)
  BY <1>0, GiveBackEffect DEF Becomes, Seeing, Making, KindOK
<1>2. ibits' = ibits /\ inode' = inode BY DEF GiveBack, bits, tree
<1> QED BY <1>1, <1>2, UsedSame

\* The block is there already: an inode that is taken is still in use, or about to be
\* seen to.
LEMMA OverwriteUsed ==
  ASSUME SafeInv, UsedInv, NEW t \in Threads, Overwrite(t)
  PROVE  UsedInv'
<1>0. /\ TypeOK /\ KindOK(t) /\ WalkOK(t) /\ (th[t].cur # 0 => th[t].cur \in Inodes)
  BY Own
<1>1. Steps(t) /\ (Seeing(t) => Seeing(t)' /\ th'[t].kid = th[t].kid)
  <2>1. pc[t] = "take" /\ pc'[t] \in Onward(t) /\ th'[t].kid = th[t].kid /\ th'[t].kind = th[t].kind /\ Steps(t)
    BY <1>0, OverwriteEffect DEF Bumped, Becomes
  <2>2. th[t].kind \notin Writes => pc'[t] = "write_new" BY <2>1 DEF Onward
  <2> QED BY <2>1, <2>2 DEF Seeing, Making
<1>2. ibits' = ibits /\ inode' = inode BY DEF Overwrite, bits, tree
<1> QED BY <1>1, <1>2, UsedSame

\* A call on a descriptor locks its file: an inode that is taken is still in use, or
\* about to be seen to.
LEMMA LockFileUsed ==
  ASSUME SafeInv, UsedInv, NEW t \in Threads, LockFile(t)
  PROVE  UsedInv'
<1>0. /\ TypeOK /\ KindOK(t) /\ WalkOK(t) /\ (th[t].cur # 0 => th[t].cur \in Inodes)
  BY Own
<1>e. files[th[t].fd] \in Inodes
  <2> pc[t] = "lock_file" BY DEF LockFile
  <2>1. files \in [Fds -> 0..NInodes] BY <1>0 DEF TypeOK
  <2>2. OnFd(t) BY <1>0 DEF KindOK, OnFd
  <2>3. th[t].fd \in Fds /\ files[th[t].fd] # 0 BY <1>0, <2>2 DEF WalkOK, SafeInv, TableInv
  <2> QED BY <2>1, <2>3 DEF Inodes
<1>1. Steps(t) /\ (Seeing(t) => Seeing(t)' /\ th'[t].kid = th[t].kid)
  BY <1>0, <1>e, LockFileEffect DEF Becomes, Seeing, Making, KindOK
<1>2. ibits' = ibits /\ inode' = inode BY DEF LockFile, bits, tree
<1> QED BY <1>1, <1>2, UsedSame

\* The file is unlocked: an inode that is taken is still in use, or about to be seen
\* to.
LEMMA UnlockFileUsed ==
  ASSUME SafeInv, UsedInv, NEW t \in Threads, UnlockFile(t)
  PROVE  UsedInv'
<1>0. /\ TypeOK /\ KindOK(t) /\ WalkOK(t) /\ (th[t].cur # 0 => th[t].cur \in Inodes)
  BY Own
<1>1. Steps(t) /\ (Seeing(t) => Seeing(t)' /\ th'[t].kid = th[t].kid)
  BY <1>0, UnlockFileEffect DEF Becomes, Seeing, Making, KindOK
<1>2. ibits' = ibits /\ inode' = inode BY DEF UnlockFile, bits, tree
<1> QED BY <1>1, <1>2, UsedSame

\* Vfs_close drops the file: an inode that is taken is still in use, or about to be
\* seen to.
LEMMA CloseUsed ==
  ASSUME SafeInv, UsedInv, NEW t \in Threads, Close(t)
  PROVE  UsedInv'
<1>0. /\ TypeOK /\ KindOK(t) /\ WalkOK(t) /\ (th[t].cur # 0 => th[t].cur \in Inodes)
  BY Own
<1>1. Steps(t) /\ (Seeing(t) => Seeing(t)' /\ th'[t].kid = th[t].kid)
  BY <1>0, CloseEffect DEF Becomes, Seeing, Making, KindOK
<1>2. ibits' = ibits /\ inode' = inode BY DEF Close, bits, tree
<1> QED BY <1>1, <1>2, UsedSame

\* A call leaves its locks: an inode that is taken is still in use, or about to be
\* seen to.
LEMMA ExitUsed ==
  ASSUME SafeInv, UsedInv, NEW t \in Threads, Exit(t)
  PROVE  UsedInv'
<1>0. /\ TypeOK /\ KindOK(t) /\ WalkOK(t) /\ (th[t].cur # 0 => th[t].cur \in Inodes)
  BY Own
<1>1. Steps(t) /\ (Seeing(t) => Seeing(t)' /\ th'[t].kid = th[t].kid)
  BY <1>0, ExitEffect DEF Becomes, Seeing, Making, KindOK
<1>2. ibits' = ibits /\ inode' = inode BY DEF Exit, bits, tree
<1> QED BY <1>1, <1>2, UsedSame

\* The open file enters the table: an inode that is taken is still in use, or about to
\* be seen to.
LEMMA InstallUsed ==
  ASSUME SafeInv, UsedInv, NEW t \in Threads, Install(t)
  PROVE  UsedInv'
<1>0. /\ TypeOK /\ KindOK(t) /\ WalkOK(t) /\ (th[t].cur # 0 => th[t].cur \in Inodes)
  BY Own
<1>1. Steps(t) /\ (Seeing(t) => Seeing(t)' /\ th'[t].kid = th[t].kid)
  BY <1>0, InstallEffect DEF Becomes, Seeing, Making, KindOK
<1>2. ibits' = ibits /\ inode' = inode BY DEF Install, bits, tree
<1> QED BY <1>1, <1>2, UsedSame

\* A call with a path begins: an inode that is taken is still in use, or about to be
\* seen to.
LEMMA CallPathUsed ==
  ASSUME SafeInv, UsedInv, NEW t \in Threads, CallPath(t)
  PROVE  UsedInv'
<1>0. /\ TypeOK /\ KindOK(t) /\ WalkOK(t) /\ (th[t].cur # 0 => th[t].cur \in Inodes)
  BY Own
<1>1. Steps(t) /\ (Seeing(t) => Seeing(t)' /\ th'[t].kid = th[t].kid)
  BY <1>0, CallPathEffect DEF Becomes, Seeing, Making, KindOK
<1>2. ibits' = ibits /\ inode' = inode BY DEF CallPath, bits, tree
<1> QED BY <1>1, <1>2, UsedSame

\* A call on a descriptor begins: an inode that is taken is still in use, or about to
\* be seen to.
LEMMA CallFdUsed ==
  ASSUME SafeInv, UsedInv, NEW t \in Threads, CallFd(t)
  PROVE  UsedInv'
<1>0. /\ TypeOK /\ KindOK(t) /\ WalkOK(t) /\ (th[t].cur # 0 => th[t].cur \in Inodes)
  BY Own
<1>1. Steps(t) /\ (Seeing(t) => Seeing(t)' /\ th'[t].kid = th[t].kid)
  BY <1>0, CallFdEffect DEF Becomes, Seeing, Making, KindOK
<1>2. ibits' = ibits /\ inode' = inode BY DEF CallFd, bits, tree
<1> QED BY <1>1, <1>2, UsedSame

\* Vfs_fsync waits for a commit: an inode that is taken is still in use, or about to
\* be seen to.
LEMMA FsyncUsed ==
  ASSUME SafeInv, UsedInv, NEW t \in Threads, Fsync(t)
  PROVE  UsedInv'
<1>0. /\ TypeOK /\ KindOK(t) /\ WalkOK(t) /\ (th[t].cur # 0 => th[t].cur \in Inodes)
  BY Own
<1>1. Steps(t) /\ (Seeing(t) => Seeing(t)' /\ th'[t].kid = th[t].kid)
  BY <1>0, FsyncEffect DEF Becomes, Seeing, Making, KindOK
<1>2. ibits' = ibits /\ inode' = inode BY DEF Fsync, bits, tree
<1> QED BY <1>1, <1>2, UsedSame

\* Alloc_inode: an inode that is taken is still in use, or about to be seen to.
LEMMA AllocInodeUsed ==
  ASSUME SafeInv, UsedInv, NEW t \in Threads, AllocInode(t)
  PROVE  UsedInv'
<1>0. /\ TypeOK /\ KindOK(t) /\ WalkOK(t) /\ (th[t].cur # 0 => th[t].cur \in Inodes) /\ pc[t] = "alloc_inode"
  BY Own DEF AllocInode
<1>1. th[t].cur # 0 BY <1>0, InDir
<1>2. Steps(t) /\ ~Seeing(t) /\ inode' = inode
  BY <1>0, <1>1, AllocInodeEffect DEF Seeing, Making, AllocInode, tree
<1>3. \/ ibits' = ibits
      \/ ibits' = ibits \cup {th'[t].kid} /\ Seeing(t)'
  <2>1. CASE ibits # Inodes
    <3>1. ibits' = ibits \cup {Min(Inodes \ ibits)} BY <2>1 DEF AllocInode
    <3>2. CASE th'[t].kid = Min(Inodes \ ibits) /\ pc'[t] \in {"alloc_block", "dir_add"}
      BY <3>1, <3>2 DEF Seeing, Making
    <3>3. Set(t, [th[t] EXCEPT !.kid = Min(Inodes \ ibits), !.ino = inode[th[t].cur]])
          /\ Goto(t, IF th[t].kind = "mkdir" THEN "alloc_block" ELSE "dir_add")
      BY <2>1 DEF AllocInode
    <3>4. th[t] \in Locals BY Own
    <3>5. th'[t].kid = Min(Inodes \ ibits) BY <1>0, <3>3, <3>4 DEF Set, TypeOK, Locals
    <3>6. pc'[t] \in {"alloc_block", "dir_add"} BY <1>0, <3>3 DEF Goto, TypeOK
    <3> QED BY <3>2, <3>5, <3>6
  <2>2. CASE ibits = Inodes BY <2>2 DEF AllocInode
  <2> QED BY <2>1, <2>2
<1>4. \A i \in ibits' : \/ inode'[i].mode # "none"
                        \/ th'[t].kid = i /\ Seeing(t)'
                        \/ i \in ibits /\ inode[i].mode = "none" /\ ~(th[t].kid = i /\ Seeing(t))
  BY <1>2, <1>3
<1> QED BY <1>2, <1>4, UsedStep

\* The inode that was taken is handed back: an inode that is taken is still in use, or
\* about to be seen to.
LEMMA UndoInodeUsed ==
  ASSUME SafeInv, UsedInv, NEW t \in Threads, UndoInode(t)
  PROVE  UsedInv'
<1>0. TypeOK BY Own
<1>1. Steps(t) /\ ibits' = ibits \ {th[t].kid} /\ inode' = inode
  BY <1>0, UndoInodeEffect DEF UndoInode, tree
<1>2. \A i \in ibits' : \/ inode'[i].mode # "none"
                        \/ th'[t].kid = i /\ Seeing(t)'
                        \/ i \in ibits /\ inode[i].mode = "none" /\ ~(th[t].kid = i /\ Seeing(t))
  BY <1>1
<1> QED BY <1>1, <1>2, UsedStep

\* Free_inode: an inode that is taken is still in use, or about to be seen to.
LEMMA FreeInodeUsed ==
  ASSUME SafeInv, UsedInv, NEW t \in Threads, FreeInode(t)
  PROVE  UsedInv'
<1>0. TypeOK BY Own
<1>1. Steps(t) /\ ibits' = ibits \ {th[t].kid} /\ inode' = inode
  BY <1>0, FreeInodeEffect DEF FreeInode, tree
<1>2. \A i \in ibits' : \/ inode'[i].mode # "none"
                        \/ th'[t].kid = i /\ Seeing(t)'
                        \/ i \in ibits /\ inode[i].mode = "none" /\ ~(th[t].kid = i /\ Seeing(t))
  BY <1>1
<1> QED BY <1>1, <1>2, UsedStep

\* The removed inode is cleared: an inode that is taken is still in use, or about to
\* be seen to.
LEMMA ClearInodeUsed ==
  ASSUME SafeInv, UsedInv, NEW t \in Threads, ClearInode(t)
  PROVE  UsedInv'
<1>0. TypeOK BY Own
<1>1. /\ Steps(t) /\ ibits' = ibits /\ inode' = [inode EXCEPT ![th[t].kid] = NoInode]
      /\ th'[t].kid = th[t].kid /\ pc'[t] = "free_inode" /\ pc[t] = "clear_inode"
  BY <1>0, ClearInodeEffect DEF ClearInode, bits, Becomes
<1>2. ~Seeing(t) /\ Seeing(t)' BY <1>1 DEF Seeing, Making
<1>3. \A i \in Inodes : i # th[t].kid => inode'[i] = inode[i] BY <1>0, <1>1 DEF TypeOK
<1>4. \A i \in ibits' : \/ inode'[i].mode # "none"
                        \/ th'[t].kid = i /\ Seeing(t)'
                        \/ i \in ibits /\ inode[i].mode = "none" /\ ~(th[t].kid = i /\ Seeing(t))
  BY <1>0, <1>1, <1>2, <1>3 DEF TypeOK
<1> QED BY <1>1, <1>4, UsedStep

\* The new inode is written: an inode that is taken is still in use, or about to be
\* seen to.
LEMMA WriteNewUsed ==
  ASSUME SafeInv, UsedInv, NEW t \in Threads, WriteNew(t)
  PROVE  UsedInv'
<1>0. TypeOK /\ IndexOK(t) /\ KindOK(t) /\ pc[t] = "write_new" /\ Making(t)
  BY Own DEF WriteNew, Making
<1>1. Steps(t) /\ ibits' = ibits BY <1>0, WriteNewEffect DEF WriteNew, bits
<1>2. th[t].kid \in Inodes BY <1>0, MakingIs
<1>3. inode'[th[t].kid].mode # "none" /\ \A i \in Inodes : i # th[t].kid => inode'[i] = inode[i]
  <2>1. CASE th[t].kind = "mkdir"
    <3>1. th[t].index \in Blocks BY <1>0, <2>1 DEF IndexOK
    <3> QED BY <1>0, <1>2, <2>1, <3>1, NewTypes DEF WriteNew, TypeOK
  <2>2. CASE th[t].kind # "mkdir" BY <1>0, <1>2, <2>2, NewTypes DEF WriteNew, TypeOK
  <2> QED BY <2>1, <2>2
<1>4. \A i \in ibits' : \/ inode'[i].mode # "none"
                        \/ th'[t].kid = i /\ Seeing(t)'
                        \/ i \in ibits /\ inode[i].mode = "none" /\ ~(th[t].kid = i /\ Seeing(t))
  BY <1>0, <1>1, <1>3 DEF TypeOK
<1> QED BY <1>1, <1>4, UsedStep

\* The directory's inode is written: an inode that is taken is still in use, or about
\* to be seen to.
LEMMA WriteDirUsed ==
  ASSUME SafeInv, UsedInv, NEW t \in Threads, WriteDir(t)
  PROVE  UsedInv'
<1>0. TypeOK /\ pc[t] = "write_dir" BY Own DEF WriteDir
<1>1. Steps(t) /\ ibits' = ibits /\ ~Seeing(t)
  BY <1>0, WriteDirEffect DEF WriteDir, bits, Seeing, Making
<1>2. /\ inode'[th[t].cur].mode = "dir" /\ th[t].cur \in Inodes
      /\ \A i \in Inodes : i # th[t].cur => inode'[i] = inode[i]
  BY WriteDirInode
<1>4. \A i \in ibits' : \/ inode'[i].mode # "none"
                        \/ th'[t].kid = i /\ Seeing(t)'
                        \/ i \in ibits /\ inode[i].mode = "none" /\ ~(th[t].kid = i /\ Seeing(t))
  BY <1>0, <1>1, <1>2 DEF TypeOK
<1> QED BY <1>1, <1>4, UsedStep

\* The emptied inode is written: an inode that is taken is still in use, or about to
\* be seen to.
LEMMA WriteFileUsed ==
  ASSUME SafeInv, UsedInv, NEW t \in Threads, WriteFile(t)
  PROVE  UsedInv'
<1>0. TypeOK /\ pc[t] = "write_file" BY Own DEF WriteFile
<1>1. Steps(t) /\ ibits' = ibits /\ ~Seeing(t)
  BY <1>0, WriteFileEffect DEF WriteFile, bits, Seeing, Making
<1>2. /\ th[t].kid \in Inodes => inode'[th[t].kid].mode = "file"
      /\ \A i \in Inodes : i # th[t].kid => inode'[i] = inode[i]
  BY <1>0, NewTypes DEF WriteFile, TypeOK
<1>4. \A i \in ibits' : \/ inode'[i].mode # "none"
                        \/ th'[t].kid = i /\ Seeing(t)'
                        \/ i \in ibits /\ inode[i].mode = "none" /\ ~(th[t].kid = i /\ Seeing(t))
  BY <1>0, <1>1, <1>2 DEF TypeOK
<1> QED BY <1>1, <1>4, UsedStep

\* Write_inode after a chunk: an inode that is taken is still in use, or about to be
\* seen to.
LEMMA StoreUsed ==
  ASSUME SafeInv, UsedInv, NEW t \in Threads, Store(t)
  PROVE  UsedInv'
<1>0. TypeOK /\ pc[t] = "store" /\ Writing(t) BY Own DEF Store, Writing
<1>1. Steps(t) /\ ibits' = ibits /\ ~Seeing(t) BY <1>0, StoreEffect DEF Store, bits, Seeing, Making
<1>2. th[t].ino.mode = inode[files[th[t].fd]].mode BY <1>0 DEF SafeInv, CopyInv
<1>3. \A i \in Inodes : inode'[i].mode = inode[i].mode BY <1>0, <1>2 DEF Store, TypeOK
<1>4. \A i \in ibits' : \/ inode'[i].mode # "none"
                        \/ th'[t].kid = i /\ Seeing(t)'
                        \/ i \in ibits /\ inode[i].mode = "none" /\ ~(th[t].kid = i /\ Seeing(t))
  BY <1>0, <1>1, <1>3 DEF TypeOK
<1> QED BY <1>1, <1>4, UsedStep

\* A commit wakes the calls that wait for it: UsedInv is kept.
LEMMA WakeUsed ==
  ASSUME UsedInv, UNCHANGED <<ibits, inode, th>>,
         \A t \in Threads : pc'[t] = pc[t] \/ (pc[t] = "sync" /\ pc'[t] = "idle")
  PROVE  UsedInv'
<1>1. \A t \in Threads : Seeing(t)' <=> Seeing(t) BY DEF Seeing, Making
<1> QED BY <1>1 DEF UsedInv, Seeing

-----------------------------------------------------------------------------
(* What is found and what is open is there *)

\* An inode that is given out, and that no call is about to see to, is in use.
LEMMA InUseIs ==
  ASSUME SafeInv, UsedInv, NEW i \in ibits, \A u \in Threads : Seeing(u) => th[u].kid # i
  PROVE  inode[i].mode # "none"
  BY DEF UsedInv, Seeing

\* What is open is there.
LEMMA OpenThere ==
  ASSUME SafeInv, UsedInv
  PROVE  OpenIsThere
<1>0. TypeOK /\ OpenInv /\ ThereInv BY DEF SafeInv
<1>1. ASSUME NEW i \in ibits, Unopened(i) => FALSE PROVE \A u \in Threads : Seeing(u) => th[u].kid # i
  BY <1>0, <1>1 DEF ThereInv, MakeOK, HeldOK, Seeing, Removing, Removed, Unopened
<1>2. \A i \in ibits : inode[i].mode \in {"none", "file", "dir"} BY <1>0 DEF TypeOK, InodeType
<1>3. ASSUME NEW fd \in Opened PROVE inode[files[fd]].mode = "file" /\ files[fd] \in ibits
  <2>1. files[fd] \in ibits /\ ~IsDir(files[fd]) BY <1>0 DEF OpenInv
  <2>2. ~Unopened(files[fd]) BY DEF Unopened
  <2> QED BY <1>1, <1>2, <2>1, <2>2, InUseIs DEF IsDir
<1>4. ASSUME NEW t \in Threads, Opening(t)
      PROVE inode[th[t].index].mode = "file" /\ th[t].index \in ibits
  <2>1. th[t].index \in ibits /\ ~IsDir(th[t].index) BY <1>0, <1>4 DEF OpenInv
  <2>2. ~Unopened(th[t].index) BY <1>4 DEF Unopened
  <2> QED BY <1>1, <1>2, <2>1, <2>2, InUseIs DEF IsDir
<1> QED BY <1>3, <1>4 DEF OpenIsThere

\* Where a call is, there is an inode.
LEMMA CurThere ==
  ASSUME SafeInv, UsedInv, NEW t \in Threads, th[t].cur # 0
  PROVE  th[t].cur \in ibits /\ th[t].cur \in Inodes /\ inode[th[t].cur].mode # "none"
<1>0. TypeOK /\ HeldOK(t) BY DEF SafeInv, ThereInv
<1>1. th[t].cur \in ibits /\ th[t].cur \in Inodes BY <1>0 DEF HeldOK, TypeOK
<1>2. ASSUME NEW u \in Threads, Seeing(u) PROVE th[u].kid # th[t].cur
  <2>1. CASE Making(u) BY <2>1, MakingIs
  <2>2. CASE Removing(u) BY <2>2, RemovalIs
  <2> QED BY <1>2, <2>1, <2>2 DEF Seeing, Removing, Removed
<1> QED BY <1>1, <1>2, InUseIs

\* What the directory a call has locked names, and no other call makes, is an inode.
LEMMA ChildThere ==
  ASSUME SafeInv, UsedInv, NEW t \in Threads, th[t].cur # 0, Name(t) \in Names, Child(t) # 0,
         pc[t] # "write_new"
  PROVE  Child(t) \in ibits /\ Child(t) \in Inodes /\ inode[Child(t)].mode # "none"
<1>0. TypeOK /\ NameInv /\ th[t].cur \in Inodes BY CurThere DEF SafeInv
<1>1. Child(t) \in ibits /\ Child(t) \in Inodes BY <1>0 DEF NameInv, TypeOK, Child
<1>2. ~Unnamed(Child(t)) BY <1>0 DEF Unnamed, Child
<1>3. ASSUME NEW u \in Threads, Seeing(u) PROVE th[u].kid # Child(t)
  <2>1. CASE Making(u) /\ pc[u] # "write_new" BY <1>2, <2>1, MakingIs
  <2>2. CASE pc[u] = "write_new"
    <3>1. Making(u) /\ u # t BY <2>2 DEF Making
    <3>2. th[u].cur \in Inodes /\ Name(u) \in Names /\ Child(u) = th[u].kid BY <2>2, <3>1, MakingIs
    <3>3. th[t].cur # th[u].cur BY <3>1, InDir
    <3> QED BY <1>0, <3>2, <3>3 DEF NameInv, Child
  <2>3. CASE pc[u] = "free_inode"
    <3>1. Unnamed(th[u].kid) BY <2>3 DEF SafeInv, ThereInv, HeldOK, Removed
    <3> QED BY <1>2, <3>1
  <2> QED BY <1>3, <2>1, <2>2, <2>3 DEF Seeing
<1> QED BY <1>1, <1>3, InUseIs

\* What is found is there.
LEMMA FoundThere ==
  ASSUME SafeInv, UsedInv
  PROVE  FoundIsThere
<1> SUFFICES ASSUME NEW t \in Threads
    PROVE
    /\ pc[t] = "lock" /\ th[t].cur # 0 =>
          dirent[th[t].cur][th[t].path[th[t].depth]] = th[t].kid /\ th[t].kid \in ibits
    /\ pc[t] = "lock_kid" => Child(t) = th[t].kid /\ inode[th[t].kid].mode # "none"
    /\ pc[t] \in {"walk", "at"} => inode[th[t].cur].mode # "none" /\ th[t].cur \in ibits
  BY DEF FoundIsThere
<1>0. /\ TypeOK /\ KindOK(t) /\ WalkOK(t) /\ KidOK(t) /\ HeldOK(t) /\ NameInv
  BY Own DEF SafeInv, ThereInv
<1>1. ASSUME pc[t] = "lock", th[t].cur # 0
      PROVE  dirent[th[t].cur][th[t].path[th[t].depth]] = th[t].kid /\ th[t].kid \in ibits
  <2>1. th[t].kind \in ByPath /\ ~OnFd(t) BY <1>0, <1>1 DEF KindOK, OnFd
  <2>2. th[t].depth # 0 /\ th[t].kid # 0 BY <1>0, <1>1, <2>1 DEF WalkOK, KidOK, Outside
  <2>3. th[t].path[th[t].depth] \in Names BY <1>0, <1>1, <2>1, <2>2, NameIn
  <2>4. dirent[th[t].cur][th[t].path[th[t].depth]] = th[t].kid BY <1>0, <1>1 DEF HeldOK
  <2>5. th[t].cur \in Inodes BY <1>1, CurThere
  <2> QED BY <1>0, <2>2, <2>3, <2>4, <2>5 DEF NameInv
<1>2. ASSUME pc[t] = "lock_kid" PROVE Child(t) = th[t].kid /\ inode[th[t].kid].mode # "none"
  <2>1. th[t].kind \in ByPath /\ ~OnFd(t) BY <1>0, <1>2 DEF KindOK, OnFd
  <2>2. th[t].cur # 0 /\ th[t].kid # 0 BY <1>0, <1>2, <2>1 DEF WalkOK, KidOK, Outside
  <2>3. Name(t) \in Names BY <1>0, <1>2, <2>1, NameIn
  <2>4. Child(t) = th[t].kid BY <1>0, <1>2 DEF HeldOK, Named
  <2> QED BY <1>2, <2>2, <2>3, <2>4, ChildThere
<1>3. ASSUME pc[t] \in {"walk", "at"} PROVE inode[th[t].cur].mode # "none" /\ th[t].cur \in ibits
  <2>1. th[t].kind \in ByPath /\ ~OnFd(t) BY <1>0, <1>3 DEF KindOK, OnFd
  <2>2. th[t].cur # 0 BY <1>0, <1>3, <2>1 DEF WalkOK, Outside
  <2> QED BY <2>2, CurThere
<1> QED BY <1>1, <1>2, <1>3

-----------------------------------------------------------------------------
(* The first theorems *)

\* The steps of one thread, but for a failure to read.
LEMMA ThreadUsed ==
  ASSUME SafeInv, UsedInv, NEW t \in Threads, CallPath(t) \/ CallFd(t) \/ Fsync(t) \/ Continue(t)
  PROVE  UsedInv'
<1>1. CASE CallPath(t) \/ CallFd(t) \/ Fsync(t) BY <1>1, CallPathUsed, CallFdUsed, FsyncUsed
<1>2. CASE Begin(t) \/ LockKid(t) \/ Register(t) \/ Exit(t) \/ Install(t)
  BY <1>2, BeginUsed, LockKidUsed, RegisterUsed, ExitUsed, InstallUsed
<1>3. CASE Walk(t)
  BY <1>3, WalkRootUsed, WalkLockUsed, WalkNextUsed, AtOpenUsed, AtChildUsed, AtNoneUsed DEF Walk
<1>4. CASE Make(t)
  BY <1>4, AllocInodeUsed, AllocBlockUsed, DirAddUsed, UndoBlockUsed, UndoInodeUsed, WriteNewUsed,
     WriteDirUsed DEF Make
<1>5. CASE Remove(t)
  BY <1>5, CheckUsed, DirRemoveUsed, TruncateUsed, FreeBlocksUsed, WriteFileUsed, ClearInodeUsed,
     FreeInodeUsed DEF Remove
<1>6. CASE Fill(t)
  BY <1>6, TakeUsed, GiveBackUsed, OverwriteUsed, LockFileUsed, StoreUsed, UnlockFileUsed, CloseUsed
     DEF Fill
<1> QED BY <1>1, <1>2, <1>3, <1>4, <1>5, <1>6 DEF Continue

\* When every block can be read, an inode that is given out is in use, unless
\* a call is about to write it or to free it.
THEOREM Used ==
  ASSUME ~IoErrors
  PROVE  Spec => [](SafeInv /\ UsedInv)
<1>1. Init => UsedInv
  <2> SUFFICES ASSUME Init PROVE UsedInv OBVIOUS
  <2>1. Root \in Inodes /\ 1 \in Blocks BY DEF Root, Inodes, Blocks
  <2> QED BY <2>1, NewTypes DEF Init, UsedInv
<1>2. SafeInv /\ UsedInv /\ [Next]_vars => UsedInv'
  <2> SUFFICES ASSUME SafeInv, UsedInv, [Next]_vars PROVE UsedInv' OBVIOUS
  <2>1. CASE \E t \in Threads : CallPath(t) \/ CallFd(t) \/ Fsync(t) \/ Continue(t)
    BY <2>1, ThreadUsed
  <2>2. CASE Commit BY <2>2, WakeUsed DEF Commit, bits, tree
  <2>3. CASE Done \/ UNCHANGED vars BY <2>3, WakeUsed DEF Done, vars, bits, tree
  <2>4. \A t \in Threads : ~IoError(t) BY DEF IoError
  <2> QED BY <2>1, <2>2, <2>3, <2>4 DEF Next
<1> QED BY <1>1, <1>2, Safe, PTL DEF Spec

\* What lookup has found, and waits to lock, is still what the name names.
THEOREM WhatIsFoundIsThere ==
  ASSUME ~IoErrors
  PROVE  Spec => []FoundIsThere
<1>1. SafeInv /\ UsedInv => FoundIsThere BY FoundThere
<1> QED BY <1>1, Used, PTL

\* No file is freed while it is open, or about to be.
THEOREM WhatIsOpenIsThere ==
  ASSUME ~IoErrors
  PROVE  Spec => []OpenIsThere
<1>1. SafeInv /\ UsedInv => OpenIsThere BY OpenThere
<1> QED BY <1>1, Used, PTL

-----------------------------------------------------------------------------
(* An operation runs *)

\* A thread in an operation.
Runs(t) == th[t].kind \in InOperation /\ pc[t] # "begin"

\* RunInv after a step that enters or leaves an operation together with `running`.
LEMMA RunStep ==
  ASSUME SafeInv, RunInv, NEW t \in Threads, Steps(t),
         \/ running' = running /\ (Runs(t)' <=> Runs(t))
         \/ running' = running \cup {t} /\ Runs(t)'
         \/ running' = running \ {t} /\ ~Runs(t)'
  PROVE  RunInv'
<1>1. \A u \in Threads : u # t => (Runs(u)' <=> Runs(u)) BY DEF Steps, Runs
<1>2. running = {u \in Threads : Runs(u)} BY DEF RunInv, Runs
<1>3. running' = {u \in Threads : Runs(u)'} BY <1>1, <1>2
<1> QED BY <1>3 DEF RunInv, Runs

\* A walk starts at the root: the operations that run are those that begin_op let in.
LEMMA WalkRootRun ==
  ASSUME SafeInv, RunInv, NEW t \in Threads, WalkRoot(t)
  PROVE  RunInv'
<1>0. /\ TypeOK /\ KindOK(t) /\ WalkOK(t) /\ (th[t].cur # 0 => th[t].cur \in Inodes)
  BY Own
<1>1. Steps(t) /\ (Runs(t)' <=> Runs(t))
  BY <1>0, WalkRootEffect DEF Becomes, Runs, KindOK
<1>2. running' = running BY DEF WalkRoot, gate
<1> QED BY <1>1, <1>2, RunStep

\* A walk locks what it has found: the operations that run are those that begin_op let
\* in.
LEMMA WalkLockRun ==
  ASSUME SafeInv, RunInv, NEW t \in Threads, WalkLock(t)
  PROVE  RunInv'
<1>0. /\ TypeOK /\ KindOK(t) /\ WalkOK(t) /\ (th[t].cur # 0 => th[t].cur \in Inodes)
  BY Own
<1>1. Steps(t) /\ (Runs(t)' <=> Runs(t))
  BY <1>0, WalkLockEffect DEF Becomes, Runs, KindOK
<1>2. running' = running BY DEF WalkLock, gate
<1> QED BY <1>1, <1>2, RunStep

\* A walk looks a component up: the operations that run are those that begin_op let
\* in.
LEMMA WalkNextRun ==
  ASSUME SafeInv, RunInv, NEW t \in Threads, WalkNext(t)
  PROVE  RunInv'
<1>0. /\ TypeOK /\ KindOK(t) /\ WalkOK(t) /\ (th[t].cur # 0 => th[t].cur \in Inodes)
  BY Own
<1>e. /\ th[t].cur # 0 /\ th[t].path[th[t].depth + 1] \in Names
      /\ dirent[th[t].cur][th[t].path[th[t].depth + 1]] # 0 => dirent[th[t].cur][th[t].path[th[t].depth + 1]] # th[t].cur
  <2> pc[t] = "walk" BY DEF WalkNext
  <2>1. th[t].kind \in ByPath BY <1>0 DEF KindOK
  <2>2. th[t].cur # 0 /\ th[t].depth < Goal(t) BY <1>0, <2>1 DEF WalkOK, OnFd, Outside
  <2> QED BY <1>0, <2>1, <2>2, NameIn, Named1
<1>1. Steps(t) /\ (Runs(t)' <=> Runs(t))
  BY <1>0, <1>e, WalkNextEffect DEF Becomes, Runs, KindOK
<1>2. running' = running BY DEF WalkNext, gate
<1> QED BY <1>1, <1>2, RunStep

\* Open has reached the file's name: the operations that run are those that begin_op
\* let in.
LEMMA AtOpenRun ==
  ASSUME SafeInv, RunInv, NEW t \in Threads, AtOpen(t)
  PROVE  RunInv'
<1>0. /\ TypeOK /\ KindOK(t) /\ WalkOK(t) /\ (th[t].cur # 0 => th[t].cur \in Inodes)
  BY Own
<1>1. Steps(t) /\ (Runs(t)' <=> Runs(t))
  BY <1>0, AtOpenEffect DEF Becomes, Runs, KindOK
<1>2. running' = running BY DEF AtOpen, gate
<1> QED BY <1>1, <1>2, RunStep

\* A call has found its last component: the operations that run are those that
\* begin_op let in.
LEMMA AtChildRun ==
  ASSUME SafeInv, RunInv, NEW t \in Threads, AtChild(t)
  PROVE  RunInv'
<1>0. /\ TypeOK /\ KindOK(t) /\ WalkOK(t) /\ (th[t].cur # 0 => th[t].cur \in Inodes)
  BY Own
<1>e. /\ th[t].cur # 0 /\ Name(t) \in Names /\ (Child(t) # 0 => Child(t) # th[t].cur)
      /\ th[t].kind \notin {"open", "stat"}
      /\ Suits(t) => th[t].kind \notin {"mkdir", "create_new"}
  <2> pc[t] = "at" /\ th[t].kind \notin {"open", "stat"} BY DEF AtChild
  <2>1. th[t].kind \in ByPath BY <1>0 DEF KindOK
  <2>2. th[t].cur # 0 BY <1>0, <2>1 DEF WalkOK, OnFd, Outside
  <2>3. CASE th[t].kind \in {"mkdir", "create_new"}
    <3>1. ~Suits(t) BY <2>3 DEF Suits
    <3> QED BY <1>0, <2>1, <2>2, <3>1, NameIn, Named1 DEF Child
  <2> QED BY <1>0, <2>1, <2>2, <2>3, NameIn, Named1 DEF Child
<1>1. Steps(t) /\ (Runs(t)' <=> Runs(t))
  BY <1>0, <1>e, AtChildEffect DEF Becomes, Runs, KindOK
<1>2. running' = running BY DEF AtChild, gate
<1> QED BY <1>1, <1>2, RunStep

\* A call finds no such name: the operations that run are those that begin_op let in.
LEMMA AtNoneRun ==
  ASSUME SafeInv, RunInv, NEW t \in Threads, AtNone(t)
  PROVE  RunInv'
<1>0. /\ TypeOK /\ KindOK(t) /\ WalkOK(t) /\ (th[t].cur # 0 => th[t].cur \in Inodes)
  BY Own
<1>1. Steps(t) /\ (Runs(t)' <=> Runs(t))
  BY <1>0, AtNoneEffect DEF Becomes, Runs, KindOK
<1>2. running' = running BY DEF AtNone, gate
<1> QED BY <1>1, <1>2, RunStep

\* The inode below the directory is locked: the operations that run are those that
\* begin_op let in.
LEMMA LockKidRun ==
  ASSUME SafeInv, RunInv, NEW t \in Threads, LockKid(t)
  PROVE  RunInv'
<1>0. /\ TypeOK /\ KindOK(t) /\ WalkOK(t) /\ (th[t].cur # 0 => th[t].cur \in Inodes)
  BY Own
<1>1. Steps(t) /\ (Runs(t)' <=> Runs(t))
  BY <1>0, LockKidEffect DEF Becomes, Runs, KindOK
<1>2. running' = running BY DEF LockKid, gate
<1> QED BY <1>1, <1>2, RunStep

\* A file is counted open: the operations that run are those that begin_op let in.
LEMMA RegisterRun ==
  ASSUME SafeInv, RunInv, NEW t \in Threads, Register(t)
  PROVE  RunInv'
<1>0. /\ TypeOK /\ KindOK(t) /\ WalkOK(t) /\ (th[t].cur # 0 => th[t].cur \in Inodes)
  BY Own
<1>1. Steps(t) /\ (Runs(t)' <=> Runs(t))
  BY <1>0, RegisterEffect DEF Becomes, Runs, KindOK
<1>2. running' = running BY DEF Register, gate
<1> QED BY <1>1, <1>2, RunStep

\* Alloc_inode: the operations that run are those that begin_op let in.
LEMMA AllocInodeRun ==
  ASSUME SafeInv, RunInv, NEW t \in Threads, AllocInode(t)
  PROVE  RunInv'
<1>0. /\ TypeOK /\ KindOK(t) /\ WalkOK(t) /\ (th[t].cur # 0 => th[t].cur \in Inodes)
  BY Own
<1>e. /\ th[t].cur # 0 /\ inode[th[t].cur].mode = "dir"
      /\ ibits # Inodes => Min(Inodes \ ibits) \in Inodes /\ Min(Inodes \ ibits) # th[t].cur /\ Min(Inodes \ ibits) # 0
  <2> pc[t] = "alloc_inode" BY DEF AllocInode
  <2>1. th[t].cur # 0 BY <1>0 DEF WalkOK, KindOK, OnFd, Outside
  <2>2. HeldOK(t) /\ ibits \in SUBSET Inodes BY <1>0 DEF SafeInv, ThereInv, TypeOK
  <2>3. th[t].cur \in ibits /\ inode[th[t].cur].mode = "dir" BY <2>1, <2>2 DEF HeldOK, IsDir
  <2>4. 0 \notin Inodes BY DEF Inodes
  <2> QED BY <2>1, <2>2, <2>3, <2>4, FreeIn
<1>1. Steps(t) /\ (Runs(t)' <=> Runs(t))
  BY <1>0, <1>e, AllocInodeEffect DEF Becomes, Runs, KindOK
<1>2. running' = running BY DEF AllocInode, gate
<1> QED BY <1>1, <1>2, RunStep

\* Mkdir takes a block for the new directory: the operations that run are those that
\* begin_op let in.
LEMMA AllocBlockRun ==
  ASSUME SafeInv, RunInv, NEW t \in Threads, AllocBlock(t)
  PROVE  RunInv'
<1>0. /\ TypeOK /\ KindOK(t) /\ WalkOK(t) /\ (th[t].cur # 0 => th[t].cur \in Inodes)
  BY Own
<1>1. Steps(t) /\ (Runs(t)' <=> Runs(t))
  BY <1>0, AllocBlockEffect DEF Becomes, Runs, KindOK
<1>2. running' = running BY DEF AllocBlock, gate
<1> QED BY <1>1, <1>2, RunStep

\* Dir_add: the operations that run are those that begin_op let in.
LEMMA DirAddRun ==
  ASSUME SafeInv, RunInv, NEW t \in Threads, DirAdd(t)
  PROVE  RunInv'
<1>0. /\ TypeOK /\ KindOK(t) /\ WalkOK(t) /\ (th[t].cur # 0 => th[t].cur \in Inodes)
  BY Own
<1>1. Steps(t) /\ (Runs(t)' <=> Runs(t))
  BY <1>0, DirAddEffect DEF Becomes, Runs, KindOK
<1>2. running' = running BY DEF DirAdd, gate
<1> QED BY <1>1, <1>2, RunStep

\* Mkdir hands its block back: the operations that run are those that begin_op let in.
LEMMA UndoBlockRun ==
  ASSUME SafeInv, RunInv, NEW t \in Threads, UndoBlock(t)
  PROVE  RunInv'
<1>0. /\ TypeOK /\ KindOK(t) /\ WalkOK(t) /\ (th[t].cur # 0 => th[t].cur \in Inodes)
  BY Own
<1>1. Steps(t) /\ (Runs(t)' <=> Runs(t))
  BY <1>0, UndoBlockEffect DEF Becomes, Runs, KindOK
<1>2. running' = running BY DEF UndoBlock, gate
<1> QED BY <1>1, <1>2, RunStep

\* The inode that was taken is handed back: the operations that run are those that
\* begin_op let in.
LEMMA UndoInodeRun ==
  ASSUME SafeInv, RunInv, NEW t \in Threads, UndoInode(t)
  PROVE  RunInv'
<1>0. /\ TypeOK /\ KindOK(t) /\ WalkOK(t) /\ (th[t].cur # 0 => th[t].cur \in Inodes)
  BY Own
<1>1. Steps(t) /\ (Runs(t)' <=> Runs(t))
  BY <1>0, UndoInodeEffect DEF Becomes, Runs, KindOK
<1>2. running' = running BY DEF UndoInode, gate
<1> QED BY <1>1, <1>2, RunStep

\* The new inode is written: the operations that run are those that begin_op let in.
LEMMA WriteNewRun ==
  ASSUME SafeInv, RunInv, NEW t \in Threads, WriteNew(t)
  PROVE  RunInv'
<1>0. /\ TypeOK /\ KindOK(t) /\ WalkOK(t) /\ (th[t].cur # 0 => th[t].cur \in Inodes)
  BY Own
<1>1. Steps(t) /\ (Runs(t)' <=> Runs(t))
  BY <1>0, WriteNewEffect DEF Becomes, Runs, KindOK
<1>2. running' = running BY DEF WriteNew, gate
<1> QED BY <1>1, <1>2, RunStep

\* The directory's inode is written: the operations that run are those that begin_op
\* let in.
LEMMA WriteDirRun ==
  ASSUME SafeInv, RunInv, NEW t \in Threads, WriteDir(t)
  PROVE  RunInv'
<1>0. /\ TypeOK /\ KindOK(t) /\ WalkOK(t) /\ (th[t].cur # 0 => th[t].cur \in Inodes)
  BY Own
<1>1. Steps(t) /\ (Runs(t)' <=> Runs(t))
  BY <1>0, WriteDirEffect DEF Becomes, Runs, KindOK
<1>2. running' = running BY DEF WriteDir, gate
<1> QED BY <1>1, <1>2, RunStep

\* Unlink and rmdir check what they would remove: the operations that run are those
\* that begin_op let in.
LEMMA CheckRun ==
  ASSUME SafeInv, RunInv, NEW t \in Threads, Check(t)
  PROVE  RunInv'
<1>0. /\ TypeOK /\ KindOK(t) /\ WalkOK(t) /\ (th[t].cur # 0 => th[t].cur \in Inodes)
  BY Own
<1>e. th[t].cur # 0 /\ inode[th[t].cur].mode = "dir"
  <2> pc[t] = "check" BY DEF Check
  <2>1. th[t].cur # 0 BY <1>0 DEF WalkOK, KindOK, OnFd, Outside
  <2> QED BY <2>1 DEF SafeInv, ThereInv, HeldOK, Named, IsDir
<1>1. Steps(t) /\ (Runs(t)' <=> Runs(t))
  BY <1>0, <1>e, CheckEffect DEF Becomes, Runs, KindOK
<1>2. running' = running BY DEF Check, gate
<1> QED BY <1>1, <1>2, RunStep

\* Dir_remove: the operations that run are those that begin_op let in.
LEMMA DirRemoveRun ==
  ASSUME SafeInv, RunInv, NEW t \in Threads, DirRemove(t)
  PROVE  RunInv'
<1>0. /\ TypeOK /\ KindOK(t) /\ WalkOK(t) /\ (th[t].cur # 0 => th[t].cur \in Inodes)
  BY Own
<1>1. Steps(t) /\ (Runs(t)' <=> Runs(t))
  BY <1>0, DirRemoveEffect DEF Becomes, Runs, KindOK
<1>2. running' = running BY DEF DirRemove, gate
<1> QED BY <1>1, <1>2, RunStep

\* O_TRUNC looks at the file: the operations that run are those that begin_op let in.
LEMMA TruncateRun ==
  ASSUME SafeInv, RunInv, NEW t \in Threads, Truncate(t)
  PROVE  RunInv'
<1>0. /\ TypeOK /\ KindOK(t) /\ WalkOK(t) /\ (th[t].cur # 0 => th[t].cur \in Inodes)
  BY Own
<1>1. Steps(t) /\ (Runs(t)' <=> Runs(t))
  BY <1>0, TruncateEffect DEF Becomes, Runs, KindOK
<1>2. running' = running BY DEF Truncate, gate
<1> QED BY <1>1, <1>2, RunStep

\* Free_all_blocks: the operations that run are those that begin_op let in.
LEMMA FreeBlocksRun ==
  ASSUME SafeInv, RunInv, NEW t \in Threads, FreeBlocks(t)
  PROVE  RunInv'
<1>0. /\ TypeOK /\ KindOK(t) /\ WalkOK(t) /\ (th[t].cur # 0 => th[t].cur \in Inodes)
  BY Own
<1>1. Steps(t) /\ (Runs(t)' <=> Runs(t))
  BY <1>0, FreeBlocksEffect DEF Becomes, Runs, KindOK
<1>2. running' = running BY DEF FreeBlocks, gate
<1> QED BY <1>1, <1>2, RunStep

\* The emptied inode is written: the operations that run are those that begin_op let
\* in.
LEMMA WriteFileRun ==
  ASSUME SafeInv, RunInv, NEW t \in Threads, WriteFile(t)
  PROVE  RunInv'
<1>0. /\ TypeOK /\ KindOK(t) /\ WalkOK(t) /\ (th[t].cur # 0 => th[t].cur \in Inodes)
  BY Own
<1>1. Steps(t) /\ (Runs(t)' <=> Runs(t))
  BY <1>0, WriteFileEffect DEF Becomes, Runs, KindOK
<1>2. running' = running BY DEF WriteFile, gate
<1> QED BY <1>1, <1>2, RunStep

\* The removed inode is cleared: the operations that run are those that begin_op let
\* in.
LEMMA ClearInodeRun ==
  ASSUME SafeInv, RunInv, NEW t \in Threads, ClearInode(t)
  PROVE  RunInv'
<1>0. /\ TypeOK /\ KindOK(t) /\ WalkOK(t) /\ (th[t].cur # 0 => th[t].cur \in Inodes)
  BY Own
<1>1. Steps(t) /\ (Runs(t)' <=> Runs(t))
  BY <1>0, ClearInodeEffect DEF Becomes, Runs, KindOK
<1>2. running' = running BY DEF ClearInode, gate
<1> QED BY <1>1, <1>2, RunStep

\* Free_inode: the operations that run are those that begin_op let in.
LEMMA FreeInodeRun ==
  ASSUME SafeInv, RunInv, NEW t \in Threads, FreeInode(t)
  PROVE  RunInv'
<1>0. /\ TypeOK /\ KindOK(t) /\ WalkOK(t) /\ (th[t].cur # 0 => th[t].cur \in Inodes)
  BY Own
<1>1. Steps(t) /\ (Runs(t)' <=> Runs(t))
  BY <1>0, FreeInodeEffect DEF Becomes, Runs, KindOK
<1>2. running' = running BY DEF FreeInode, gate
<1> QED BY <1>1, <1>2, RunStep

\* Alloc_all takes one more block: the operations that run are those that begin_op let
\* in.
LEMMA TakeRun ==
  ASSUME SafeInv, RunInv, NEW t \in Threads, Take(t)
  PROVE  RunInv'
<1>0. /\ TypeOK /\ KindOK(t) /\ WalkOK(t) /\ (th[t].cur # 0 => th[t].cur \in Inodes)
  BY Own
<1>1. Steps(t) /\ (Runs(t)' <=> Runs(t))
  <2>1. CASE pc'[t] = "give_back" /\ th' = th BY <1>0, <2>1, TakeEffect DEF Runs
  <2>2. CASE pc' = pc /\ Becomes(th[t], th'[t], th[t].depth, th[t].cur, th[t].kid, th[t].held,
                                 th[t].index, th[t].ino,
                                 Append(th[t].got, Min(Blocks \ bbits)), th[t].over)
    BY <1>0, <2>2, TakeEffect DEF Becomes, Runs
  <2>3. CASE pc'[t] \in Onward(t) /\ Bumped(t, <<>>, With(th[t].ino, Index(t), Append(th[t].got, Min(Blocks \ bbits))))
    BY <1>0, <2>3, TakeEffect DEF Becomes, Bumped, Onward, Runs
  <2> QED BY <1>0, <2>1, <2>2, <2>3, TakeEffect
<1>2. running' = running BY DEF Take, gate
<1> QED BY <1>1, <1>2, RunStep

\* Alloc_all gives back what it had taken: the operations that run are those that
\* begin_op let in.
LEMMA GiveBackRun ==
  ASSUME SafeInv, RunInv, NEW t \in Threads, GiveBack(t)
  PROVE  RunInv'
<1>0. /\ TypeOK /\ KindOK(t) /\ WalkOK(t) /\ (th[t].cur # 0 => th[t].cur \in Inodes)
  BY Own
<1>1. Steps(t) /\ (Runs(t)' <=> Runs(t))
  BY <1>0, GiveBackEffect DEF Becomes, Runs, KindOK
<1>2. running' = running BY DEF GiveBack, gate
<1> QED BY <1>1, <1>2, RunStep

\* The block is there already: the operations that run are those that begin_op let in.
LEMMA OverwriteRun ==
  ASSUME SafeInv, RunInv, NEW t \in Threads, Overwrite(t)
  PROVE  RunInv'
<1>0. /\ TypeOK /\ KindOK(t) /\ WalkOK(t) /\ (th[t].cur # 0 => th[t].cur \in Inodes)
  BY Own
<1>1. Steps(t) /\ (Runs(t)' <=> Runs(t))
  BY <1>0, OverwriteEffect DEF Becomes, Runs, KindOK, Bumped, Onward
<1>2. running' = running BY DEF Overwrite, gate
<1> QED BY <1>1, <1>2, RunStep

\* A call on a descriptor locks its file: the operations that run are those that
\* begin_op let in.
LEMMA LockFileRun ==
  ASSUME SafeInv, RunInv, NEW t \in Threads, LockFile(t)
  PROVE  RunInv'
<1>0. /\ TypeOK /\ KindOK(t) /\ WalkOK(t) /\ (th[t].cur # 0 => th[t].cur \in Inodes)
  BY Own
<1>e. files[th[t].fd] \in Inodes
  <2> pc[t] = "lock_file" BY DEF LockFile
  <2>1. files \in [Fds -> 0..NInodes] BY <1>0 DEF TypeOK
  <2>2. OnFd(t) BY <1>0 DEF KindOK, OnFd
  <2>3. th[t].fd \in Fds /\ files[th[t].fd] # 0 BY <1>0, <2>2 DEF WalkOK, SafeInv, TableInv
  <2> QED BY <2>1, <2>3 DEF Inodes
<1>1. Steps(t) /\ (Runs(t)' <=> Runs(t))
  BY <1>0, <1>e, LockFileEffect DEF Becomes, Runs, KindOK
<1>2. running' = running BY DEF LockFile, gate
<1> QED BY <1>1, <1>2, RunStep

\* Write_inode after a chunk: the operations that run are those that begin_op let in.
LEMMA StoreRun ==
  ASSUME SafeInv, RunInv, NEW t \in Threads, Store(t)
  PROVE  RunInv'
<1>0. /\ TypeOK /\ KindOK(t) /\ WalkOK(t) /\ (th[t].cur # 0 => th[t].cur \in Inodes)
  BY Own
<1>1. Steps(t) /\ (Runs(t)' <=> Runs(t))
  BY <1>0, StoreEffect DEF Becomes, Runs, KindOK
<1>2. running' = running BY DEF Store, gate
<1> QED BY <1>1, <1>2, RunStep

\* The open file enters the table: the operations that run are those that begin_op let
\* in.
LEMMA InstallRun ==
  ASSUME SafeInv, RunInv, NEW t \in Threads, Install(t)
  PROVE  RunInv'
<1>0. /\ TypeOK /\ KindOK(t) /\ WalkOK(t) /\ (th[t].cur # 0 => th[t].cur \in Inodes)
  BY Own
<1>1. Steps(t) /\ (Runs(t)' <=> Runs(t))
  BY <1>0, InstallEffect, IdleType DEF Becomes, Runs, KindOK
<1>2. running' = running BY DEF Install, gate
<1> QED BY <1>1, <1>2, RunStep

\* Vfs_close drops the file: the operations that run are those that begin_op let in.
LEMMA CloseRun ==
  ASSUME SafeInv, RunInv, NEW t \in Threads, Close(t)
  PROVE  RunInv'
<1>0. /\ TypeOK /\ KindOK(t) /\ WalkOK(t) /\ (th[t].cur # 0 => th[t].cur \in Inodes)
  BY Own
<1>1. Steps(t) /\ (Runs(t)' <=> Runs(t))
  BY <1>0, CloseEffect, IdleType DEF Becomes, Runs, KindOK
<1>2. running' = running BY DEF Close, gate
<1> QED BY <1>1, <1>2, RunStep

\* A call with a path begins: the operations that run are those that begin_op let in.
LEMMA CallPathRun ==
  ASSUME SafeInv, RunInv, NEW t \in Threads, CallPath(t)
  PROVE  RunInv'
<1>0. /\ TypeOK /\ KindOK(t) /\ WalkOK(t) /\ (th[t].cur # 0 => th[t].cur \in Inodes)
  BY Own
<1>1. Steps(t) /\ (Runs(t)' <=> Runs(t))
  BY <1>0, CallPathEffect DEF Becomes, Runs, KindOK
<1>2. running' = running BY DEF CallPath, gate
<1> QED BY <1>1, <1>2, RunStep

\* A call on a descriptor begins: the operations that run are those that begin_op let
\* in.
LEMMA CallFdRun ==
  ASSUME SafeInv, RunInv, NEW t \in Threads, CallFd(t)
  PROVE  RunInv'
<1>0. /\ TypeOK /\ KindOK(t) /\ WalkOK(t) /\ (th[t].cur # 0 => th[t].cur \in Inodes)
  BY Own
<1>1. Steps(t) /\ (Runs(t)' <=> Runs(t))
  BY <1>0, CallFdEffect DEF Becomes, Runs, KindOK
<1>2. running' = running BY DEF CallFd, gate
<1> QED BY <1>1, <1>2, RunStep

\* Vfs_fsync waits for a commit: the operations that run are those that begin_op let
\* in.
LEMMA FsyncRun ==
  ASSUME SafeInv, RunInv, NEW t \in Threads, Fsync(t)
  PROVE  RunInv'
<1>0. /\ TypeOK /\ KindOK(t) /\ WalkOK(t) /\ (th[t].cur # 0 => th[t].cur \in Inodes)
  BY Own
<1>1. Steps(t) /\ (Runs(t)' <=> Runs(t))
  BY <1>0, FsyncEffect DEF Becomes, Runs, KindOK
<1>2. running' = running BY DEF Fsync, gate
<1> QED BY <1>1, <1>2, RunStep

\* Begin_op lets a call in: the operations that run are those that begin_op let in.
LEMMA BeginRun ==
  ASSUME SafeInv, RunInv, NEW t \in Threads, Begin(t)
  PROVE  RunInv'
<1>0. TypeOK /\ KindOK(t) BY Own
<1>1. Steps(t) /\ running' = running \cup {t} /\ Runs(t)'
  BY <1>0, BeginEffect DEF Begin, Becomes, Runs, KindOK
<1> QED BY <1>1, RunStep

\* The file is unlocked: the operations that run are those that begin_op let in.
LEMMA UnlockFileRun ==
  ASSUME SafeInv, RunInv, NEW t \in Threads, UnlockFile(t)
  PROVE  RunInv'
<1>0. TypeOK /\ KindOK(t) BY Own
<1>1. Steps(t) /\ running' = running \ {t} /\ ~Runs(t)'
  BY <1>0, UnlockFileEffect, IdleType DEF UnlockFile, Becomes, Runs, KindOK
<1> QED BY <1>1, RunStep

\* A call leaves its locks: the operations that run are those that begin_op let in.
LEMMA ExitRun ==
  ASSUME SafeInv, RunInv, NEW t \in Threads, Exit(t)
  PROVE  RunInv'
<1>0. TypeOK /\ KindOK(t) BY Own
<1>1. Steps(t) /\ running' = running \ {t} /\ ~Runs(t)'
  BY <1>0, ExitEffect, IdleType DEF Exit, Becomes, Runs, KindOK
<1> QED BY <1>1, RunStep

-----------------------------------------------------------------------------
(* What the other threads have *)

\* A call that has something on the disk in its hands.
Involved(t) == Making(t) \/ Removing(t) \/ Writing(t) \/ pc[t] \in {"write_dir", "write_file"}

\* What the other threads have is left as it is.
Keep(t) == \A u \in Threads : u # t =>
    /\ th[u].cur \in Inodes => inode'[th[u].cur] = inode[th[u].cur] /\ dirent'[th[u].cur] = dirent[th[u].cur]
    /\ Writing(u) => files'[th[u].fd] = files[th[u].fd] /\ inode'[files[th[u].fd]] = inode[files[th[u].fd]]

\* A step that writes no inode and no directory leaves what the others have.
LEMMA KeepSame ==
  ASSUME NEW t \in Threads, inode' = inode, dirent' = dirent, files' = files
  PROVE  Keep(t)
  BY DEF Keep

\* A thread changes what it has locked exclusively.
LEMMA KeepAt ==
  ASSUME SafeInv, NEW t \in Threads, NEW i \in Inodes, HasX(t, i), files' = files,
         \A j \in Inodes : j # i => inode'[j] = inode[j] /\ dirent'[j] = dirent[j]
  PROVE  Keep(t)
<1> SUFFICES ASSUME NEW u \in Threads, u # t
             PROVE  /\ th[u].cur \in Inodes => inode'[th[u].cur] = inode[th[u].cur] /\ dirent'[th[u].cur] = dirent[th[u].cur]
                    /\ Writing(u) => files'[th[u].fd] = files[th[u].fd] /\ inode'[files[th[u].fd]] = inode[files[th[u].fd]]
  BY DEF Keep
<1>1. th[u].cur # i BY CurHeld, Exclusion
<1>2. Writing(u) => files[th[u].fd] \in Inodes /\ files[th[u].fd] # i
  <2> SUFFICES ASSUME Writing(u) PROVE files[th[u].fd] \in Inodes /\ files[th[u].fd] # i OBVIOUS
  <2>1. files[th[u].fd] \in Inodes /\ HasX(u, files[th[u].fd]) BY WritingFile, WritingX
  <2> QED BY <2>1, Exclusion
<1> QED BY <1>1, <1>2

\* Where a call that changes an inode writes it.
LEMMA TargetIs ==
  ASSUME SafeInv, NEW t \in Threads, Changing(t)
  PROVE  Target(t) \in Inodes /\ HasX(t, Target(t)) /\ (~Writing(t) => Target(t) = th[t].cur /\ th[t].cur \in Inodes)
<1>1. CASE Writing(t) BY <1>1, WritingFile, WritingX DEF Target
<1>2. CASE ~Writing(t)
  <2>1. pc[t] \in {"write_new", "write_dir"} BY <1>2 DEF Changing
  <2>2. th[t].cur \in Inodes /\ HasX(t, th[t].cur) BY <2>1, InDir DEF Making
  <2> QED BY <1>2, <2>2 DEF Target
<1> QED BY <1>1, <1>2

\* A directory that is not written has as many entries as before.
LEMMA EntriesSame ==
  ASSUME NEW d \in Inodes, dirent'[d] = dirent[d]
  PROVE  Entries(d)' = Entries(d)
  BY DEF Entries

\* The other threads: what they have read and changed, and the blocks they have.
LEMMA OthersIno ==
  ASSUME SafeInv, InoInv, NEW t \in Threads, Steps(t), Keep(t), NEW u \in Threads, u # t
  PROVE  /\ KeptOK(u)' /\ ChangedOK(u)'
         /\ Grown(u)' = Grown(u) /\ Spare(u)' = Spare(u) /\ Taken(u)' = Taken(u)
<1>1. pc'[u] = pc[u] /\ th'[u] = th[u] BY DEF Steps
<1>2. /\ Making(u)' <=> Making(u)
      /\ Removing(u)' <=> Removing(u)
      /\ Writing(u)' <=> Writing(u)
      /\ Changing(u)' <=> Changing(u)
  BY <1>1 DEF Making, Removing, Removed, Writing, Changing
<1>3. Spare(u)' = Spare(u) /\ Taken(u)' = Taken(u) BY <1>1, <1>2 DEF Spare, Taken
<1>4. Changing(u) => Target(u)' = Target(u) /\ inode'[Target(u)] = inode[Target(u)]
                     /\ (~Writing(u) => Entries(th[u].cur)' = Entries(th[u].cur))
  <2> SUFFICES ASSUME Changing(u)
               PROVE  Target(u)' = Target(u) /\ inode'[Target(u)] = inode[Target(u)]
                      /\ (~Writing(u) => Entries(th[u].cur)' = Entries(th[u].cur))
    OBVIOUS
  <2>1. CASE Writing(u) BY <1>1, <1>2, <2>1 DEF Keep, Target
  <2>2. CASE ~Writing(u)
    <3>1. th[u].cur \in Inodes /\ Target(u) = th[u].cur BY <2>2, TargetIs
    <3>2. inode'[th[u].cur] = inode[th[u].cur] /\ dirent'[th[u].cur] = dirent[th[u].cur]
      BY <3>1 DEF Keep
    <3> QED BY <1>1, <1>2, <2>2, <3>1, <3>2, EntriesSame DEF Target
  <2> QED BY <2>1, <2>2
<1>5. Grown(u)' = Grown(u) BY <1>1, <1>2, <1>4 DEF Grown
<1>6. KeptOK(u) /\ ChangedOK(u) BY DEF InoInv
<1>7. KeptOK(u)'
  <2>1. (Making(u) /\ pc[u] # "write_new") \/ Removing(u) \/ (pc[u] = "write_dir" /\ th[u].held)
        => inode'[th[u].cur] = inode[th[u].cur]
    BY InDir DEF Keep
  <2> QED BY <1>1, <1>2, <1>6, <2>1 DEF KeptOK
<1>8. ChangedOK(u)'
  <2> SUFFICES ASSUME Changing(u) PROVE ChangedOK(u)' BY <1>2 DEF ChangedOK
  <2>1. ~Writing(u) => Entries(th[u].cur)' = Entries(th[u].cur) BY <1>4
  <2>2. /\ th[u].ino.mode = inode[Target(u)].mode
        /\ th[u].ino.links = inode[Target(u)].links
        /\ Sized(th[u].ino)
        /\ Owned(inode[Target(u)]) \subseteq Owned(th[u].ino)
        /\ ~Writing(u) => Entries(th[u].cur) <= Slots * th[u].ino.size - 2
    BY <1>6 DEF ChangedOK
  <2>3. Target(u)' = Target(u) /\ inode'[Target(u)] = inode[Target(u)] BY <1>4
  <2>4. Sized(th[u].ino)' BY <1>1, <2>2 DEF Sized
  <2>5. Owned(inode[Target(u)])' \subseteq Owned(th[u].ino)' BY <1>1, <2>2, <2>3 DEF Owned
  <2> QED BY <1>1, <1>2, <2>1, <2>2, <2>3, <2>4, <2>5 DEF ChangedOK
<1> QED BY <1>3, <1>5, <1>7, <1>8

-----------------------------------------------------------------------------
(* Sizes and blocks *)

Filling(t, i) == th[t].cur = i /\ pc[t] \in {"write_new", "write_dir"}
Fits(i) == Entries(i) <= Slots * inode[i].size - 2

\* Directories have room for their entries, one inode after the other.
LEMMA SizeStep ==
  ASSUME SizeInv, NEW t \in Threads, Steps(t),
         \A i \in Inodes : \/ /\ inode'[i] = inode[i] /\ dirent'[i] = dirent[i]
                              /\ Filling(t, i) => Filling(t, i)'
                           \/ Sized(inode[i])' /\ (IsDir(i)' => Fits(i)' \/ Filling(t, i)')
  PROVE  SizeInv'
<1> SUFFICES ASSUME NEW i \in Inodes
             PROVE  Sized(inode[i])' /\ (IsDir(i)' => Fits(i)' \/ \E u \in Threads : Filling(u, i)')
  BY DEF SizeInv, Fits, Filling
<1>1. CASE /\ inode'[i] = inode[i] /\ dirent'[i] = dirent[i]
           /\ Filling(t, i) => Filling(t, i)'
  <2>1. Sized(inode[i]) /\ (IsDir(i) => Fits(i) \/ \E u \in Threads : Filling(u, i))
    BY DEF SizeInv, Fits, Filling
  <2>2. Sized(inode[i])' BY <1>1, <2>1 DEF Sized
  <2>3. Entries(i)' = Entries(i) BY <1>1, EntriesSame
  <2>4. \A u \in Threads : Filling(u, i) => Filling(u, i)' BY <1>1 DEF Steps, Filling
  <2> QED BY <1>1, <2>1, <2>2, <2>3, <2>4 DEF IsDir, Fits
<1> QED BY <1>1

\* Of an inode and of a call, what it has of the blocks.
LEMMA ClaimIs ==
  /\ DOMAIN Claim = Claims
  /\ \A i \in Inodes : <<i, "inode">> \in Claims /\ Claim[<<i, "inode">>] = Has(i)
  /\ \A t \in Threads : /\ <<t, "spare">> \in Claims /\ Claim[<<t, "spare">>] = Spare(t)
                        /\ <<t, "grown">> \in Claims /\ Claim[<<t, "grown">>] = Grown(t)
                        /\ <<t, "taken">> \in Claims /\ Claim[<<t, "taken">>] = Taken(t)
  /\ \A k \in Claims : \/ \E i \in Inodes : k = <<i, "inode">>
                       \/ \E t \in Threads : k \in {<<t, "spare">>, <<t, "grown">>, <<t, "taken">>}
  BY DEF Claim, Claims

\* The claims after a step, when all but thread t's and those of some inodes stay.
LEMMA OthersClaims ==
  ASSUME NEW t \in Threads, \A u \in Threads : u # t => Grown(u)' = Grown(u) /\ Spare(u)' = Spare(u) /\ Taken(u)' = Taken(u)
  PROVE  \A k \in Claims : \/ Claim'[k] = Claim[k]
                           \/ k \in {<<t, "spare">>, <<t, "grown">>, <<t, "taken">>}
                           \/ \E i \in Inodes : k = <<i, "inode">> /\ Has(i)' # Has(i)
  BY DEF Claim, Claims

\* What each claim is after a step.
LEMMA ClaimNext ==
  /\ \A i \in Inodes : Claim'[<<i, "inode">>] = Has(i)'
  /\ \A t \in Threads : /\ Claim'[<<t, "spare">>] = Spare(t)'
                        /\ Claim'[<<t, "grown">>] = Grown(t)'
                        /\ Claim'[<<t, "taken">>] = Taken(t)'
  BY DEF Claim, Claims

\* BlockInv after a step that changes no claim.
LEMMA ClaimsSame ==
  ASSUME BlockInv, bbits' = bbits, \A k \in Claims : Claim'[k] = Claim[k]
  PROVE  BlockInv'
<1>1. Claims' = Claims BY DEF Claims
<1> QED BY <1>1 DEF BlockInv

\* Free blocks become one's.
LEMMA ClaimsGrow ==
  ASSUME BlockInv, NEW p \in Claims, NEW N \in SUBSET Blocks, N \cap bbits = {}, bbits' = bbits \cup N,
         Claim'[p] = Claim[p] \cup N, \A k \in Claims : k # p => Claim'[k] = Claim[k]
  PROVE  BlockInv'
<1>0. Claims' = Claims BY DEF Claims
<1>1. ASSUME NEW b \in Blocks PROVE b \in bbits' <=> \E k \in Claims : b \in Claim'[k]
  <2>1. b \in bbits <=> \E k \in Claims : b \in Claim[k] BY DEF BlockInv
  <2> QED BY <2>1
<1>2. ASSUME NEW k \in Claims, NEW l \in Claims, k # l PROVE Claim'[k] \cap Claim'[l] = {}
  <2>1. Claim[k] \cap Claim[l] = {} BY <1>2 DEF BlockInv
  <2>2. \A m \in Claims : N \cap Claim[m] = {} BY DEF BlockInv
  <2> QED BY <1>2, <2>1, <2>2
<1> QED BY <1>0, <1>1, <1>2 DEF BlockInv

\* Some of one's blocks are freed.
LEMMA ClaimsShrink ==
  ASSUME BlockInv, NEW p \in Claims, NEW G, G \subseteq Claim[p], bbits' = bbits \ G,
         Claim'[p] = Claim[p] \ G, \A k \in Claims : k # p => Claim'[k] = Claim[k]
  PROVE  BlockInv'
<1>0. Claims' = Claims BY DEF Claims
<1>1. ASSUME NEW b \in Blocks PROVE b \in bbits' <=> \E k \in Claims : b \in Claim'[k]
  <2>1. b \in bbits <=> \E k \in Claims : b \in Claim[k] BY DEF BlockInv
  <2>2. ASSUME b \in G, NEW k \in Claims PROVE b \notin Claim'[k] BY <2>2 DEF BlockInv
  <2> QED BY <2>1, <2>2
<1>2. ASSUME NEW k \in Claims, NEW l \in Claims, k # l PROVE Claim'[k] \cap Claim'[l] = {}
  <2>1. Claim[k] \cap Claim[l] = {} BY <1>2 DEF BlockInv
  <2> QED BY <1>2, <2>1
<1> QED BY <1>0, <1>1, <1>2 DEF BlockInv

\* All of one's blocks, and free ones with them, become another's.
LEMMA ClaimsMove ==
  ASSUME BlockInv, NEW p \in Claims, NEW q \in Claims, p # q, NEW N \in SUBSET Blocks, N \cap bbits = {},
         bbits' = bbits \cup N, Claim'[p] = {}, Claim'[q] = Claim[q] \cup Claim[p] \cup N,
         \A k \in Claims : k # p /\ k # q => Claim'[k] = Claim[k]
  PROVE  BlockInv'
<1>0. Claims' = Claims BY DEF Claims
<1>1. ASSUME NEW b \in Blocks PROVE b \in bbits' <=> \E k \in Claims : b \in Claim'[k]
  <2>1. b \in bbits <=> \E k \in Claims : b \in Claim[k] BY DEF BlockInv
  <2>2. ASSUME b \in bbits' PROVE \E k \in Claims : b \in Claim'[k]
    <3>1. CASE b \in N BY <3>1
    <3>2. CASE b \in bbits
      <4>1. PICK k \in Claims : b \in Claim[k] BY <2>1, <3>2
      <4> QED BY <4>1
    <3> QED BY <2>2, <3>1, <3>2
  <2>3. ASSUME NEW k \in Claims, b \in Claim'[k] PROVE b \in bbits'
    BY <2>1, <2>3
  <2> QED BY <2>2, <2>3
<1>2. ASSUME NEW k \in Claims, NEW l \in Claims, k # l PROVE Claim'[k] \cap Claim'[l] = {}
  <2>1. \A m, n \in Claims : m # n => Claim[m] \cap Claim[n] = {} BY DEF BlockInv
  <2>2. \A m \in Claims : N \cap Claim[m] = {} BY DEF BlockInv
  <2>3. CASE k = p \/ l = p BY <1>2, <2>3
  <2>4. CASE k = q /\ l # p BY <1>2, <2>1, <2>2, <2>4
  <2>5. CASE l = q /\ k # p BY <1>2, <2>1, <2>2, <2>5
  <2>6. CASE k \notin {p, q} /\ l \notin {p, q} BY <1>2, <2>1, <2>6
  <2> QED BY <2>3, <2>4, <2>5, <2>6
<1> QED BY <1>0, <1>1, <1>2 DEF BlockInv

\* Whose blocks are not to be written back.
Freed(u) == pc[u] \in {"write_file", "clear_inode"}

\* What an inode has, when it has not changed.
LEMMA HasSame ==
  ASSUME NEW t \in Threads, Steps(t), NEW i \in Inodes, inode'[i] = inode[i],
         (th[t].kid = i /\ Freed(t)) <=> (th'[t].kid = i /\ Freed(t)')
  PROVE  Has(i)' = Has(i)
<1>1. \A u \in Threads : (th[u].kid = i /\ Freed(u)) <=> (th'[u].kid = i /\ Freed(u)')
  BY DEF Steps, Freed
<1>2. (\E u \in Threads : th[u].kid = i /\ pc[u] \in {"write_file", "clear_inode"})
      <=> (\E u \in Threads : th'[u].kid = i /\ pc'[u] \in {"write_file", "clear_inode"})
  BY <1>1 DEF Freed
<1>3. Owned(inode[i])' = Owned(inode[i]) BY DEF Owned
<1> QED BY <1>2, <1>3 DEF Has

\* What an inode has is its own, if no other call has freed it.
LEMMA HasIs ==
  ASSUME NEW i \in Inodes, \A u \in Threads : Freed(u) => th[u].kid # i
  PROVE  Has(i) = Owned(inode[i])
  BY DEF Has, Freed

\* After a step an inode has what its pointers say, unless a call has freed it.
LEMMA HasNext ==
  ASSUME NEW i \in Inodes, \A u \in Threads : Freed(u)' => th'[u].kid # i
  PROVE  Has(i)' = Owned(inode[i])'
  BY DEF Has, Freed

\* An inode whose blocks a call has freed has none.
LEMMA HasNone ==
  ASSUME NEW i \in Inodes, NEW u \in Threads, Freed(u)', th'[u].kid = i
  PROVE  Has(i)' = {}
  BY DEF Has, Freed

\* A call that frees what an inode has, has the inode for itself.
LEMMA FreedIs ==
  ASSUME SafeInv, NEW t \in Threads, NEW i \in Inodes, HasX(t, i) \/ HasS(t, i)
  PROVE  \A u \in Threads : u # t /\ Freed(u) => th[u].kid # i
<1> SUFFICES ASSUME NEW u \in Threads, u # t, Freed(u) PROVE th[u].kid # i OBVIOUS
<1>1. KindOK(u) BY Own
<1>2. Removing(u) \/ Emptying(u) BY <1>1 DEF Freed, Removing, Removed, Emptying, KindOK
<1>3. HasX(u, th[u].kid) BY <1>2, KidAlone
<1> QED BY <1>3, Exclusion

-----------------------------------------------------------------------------
(* Names, the tree, and links *)

\* A call names the inode it has taken, or has unnamed it.
Bound(t) == Making(t) \/ Removed(t)

\* KnownInv after a step that accounts for every inode without a name.
LEMMA KnownStep ==
  ASSUME KnownInv, NEW t \in Threads, Steps(t),
         \A i \in ibits' : \/ i = Root \/ ~Unnamed(i)'
                           \/ th'[t].kid = i /\ Bound(t)'
                           \/ i \in ibits /\ Unnamed(i) /\ ~(th[t].kid = i /\ Bound(t))
  PROVE  KnownInv'
<1> SUFFICES ASSUME NEW i \in ibits', i # Root, Unnamed(i)'
             PROVE  \E u \in Threads : th'[u].kid = i /\ Bound(u)'
  BY DEF KnownInv, Bound, Root
<1>1. CASE i \in ibits /\ Unnamed(i) /\ ~(th[t].kid = i /\ Bound(t))
  <2>1. PICK u \in Threads : th[u].kid = i /\ Bound(u) BY <1>1 DEF KnownInv, Bound
  <2>2. u # t BY <1>1, <2>1
  <2>3. th'[u].kid = i /\ Bound(u)' BY <2>1, <2>2 DEF Steps, Bound, Making, Removed
  <2> QED BY <2>3
<1> QED BY <1>1

\* KnownInv after a step that neither gives out nor names an inode.
LEMMA KnownSame ==
  ASSUME KnownInv, NEW t \in Threads, Steps(t), ibits' = ibits, dirent' = dirent,
         Bound(t) => Bound(t)' /\ th'[t].kid = th[t].kid
  PROVE  KnownInv'
<1>1. \A i : Unnamed(i)' <=> Unnamed(i) BY DEF Unnamed
<1>2. \A i \in ibits' : \/ i = Root \/ ~Unnamed(i)'
                        \/ th'[t].kid = i /\ Bound(t)'
                        \/ i \in ibits /\ Unnamed(i) /\ ~(th[t].kid = i /\ Bound(t))
  BY <1>1
<1> QED BY <1>2, KnownStep

\* TreeInv after a step that writes no directory.
LEMMA TreeSame ==
  ASSUME TreeInv, \A d \in Inodes, n \in Names : dirent'[d][n] = dirent[d][n]
  PROVE  TreeInv'
<1> SUFFICES ASSUME NEW S \in SUBSET Inodes, Root \in S,
                    \A d \in S, n \in Names : dirent'[d][n] # 0 => dirent'[d][n] \in S
             PROVE  \A d \in Inodes, n \in Names : dirent'[d][n] # 0 => dirent'[d][n] \in S
  BY DEF TreeInv, Root
<1>1. \A d \in S, n \in Names : dirent[d][n] # 0 => dirent[d][n] \in S OBVIOUS
<1>2. \A d \in Inodes, n \in Names : dirent[d][n] # 0 => dirent[d][n] \in S BY <1>1 DEF TreeInv
<1> QED BY <1>2

\* The parts of LinkInv.
FileLinks == \A i \in Inodes : inode[i].mode = "file" => inode[i].links = 1
DirLinks(i) == IsDir(i) => inode[i].links + OneMore(i) = 2 + Cardinality(Subdirs(i)) + OneLess(i)
Dots == /\ dotdot[Root] = Root
        /\ \A d \in Inodes, n \in Names : dirent[d][n] \in Dirs => dotdot[dirent[d][n]] = d
Mkdirs(t) == th[t].kind = "mkdir" /\ (Making(t) \/ pc[t] \in {"alloc_inode", "write_dir"})
MoreFits(t) == Mkdirs(t) => inode[th[t].cur].links # MaxLinks

\* LinkInv in parts: files, each directory, the dot-dots, room for one link more.
LEMMA LinkParts == LinkInv <=> FileLinks /\ (\A i \in Inodes : DirLinks(i)) /\ Dots /\ (\A t \in Threads : MoreFits(t))
  BY DEF LinkInv, FileLinks, DirLinks, Dots, MoreFits, Mkdirs, Dirs, IsDir

\* The same parts after a step.
LEMMA LinkNext == LinkInv' <=> FileLinks' /\ (\A i \in Inodes : DirLinks(i)') /\ Dots' /\ (\A t \in Threads : MoreFits(t)')
  BY DEF LinkInv, FileLinks, DirLinks, Dots, MoreFits, Mkdirs, Dirs, IsDir

\* Who is one more, or one less, for a directory.
LEMMA OneSame ==
  ASSUME NEW t \in Threads, Steps(t), NEW i,
         (th[t].cur = i /\ More(t)) <=> (th'[t].cur = i /\ More(t)'),
         (th[t].cur = i /\ Less(t)) <=> (th'[t].cur = i /\ Less(t)')
  PROVE  OneMore(i)' = OneMore(i) /\ OneLess(i)' = OneLess(i)
<1>1. \A u \in Threads : /\ (th[u].cur = i /\ More(u)) <=> (th'[u].cur = i /\ More(u)')
                         /\ (th[u].cur = i /\ Less(u)) <=> (th'[u].cur = i /\ Less(u)')
  BY DEF Steps, More, Less, Removed
<1>2. (\E u \in Threads : th[u].cur = i /\ More(u)) <=> (\E u \in Threads : th'[u].cur = i /\ More(u)')
  BY <1>1
<1>3. (\E u \in Threads : th[u].cur = i /\ Less(u)) <=> (\E u \in Threads : th'[u].cur = i /\ Less(u)')
  BY <1>1
<1> QED BY <1>2, <1>3 DEF OneMore, OneLess

\* What a directory lacks or has too much is its one user's doing.
LEMMA OneIs ==
  ASSUME NEW t \in Threads, NEW i, th[t].cur = i, \A u \in Threads : u # t => th[u].cur # i
  PROVE  OneMore(i) = Bit(More(t)) /\ OneLess(i) = Bit(Less(t))
  BY DEF OneMore, OneLess, Bit

\* The same after a step.
LEMMA OneNext ==
  ASSUME NEW t \in Threads, NEW i, th'[t].cur = i, \A u \in Threads : u # t => th'[u].cur # i
  PROVE  OneMore(i)' = Bit(More(t)') /\ OneLess(i)' = Bit(Less(t)')
  BY DEF OneMore, OneLess, Bit

\* The links of directories after a step that does not touch them.
LEMMA DirLinksSame ==
  ASSUME NEW t \in Threads, Steps(t), NEW i \in Inodes, DirLinks(i), inode'[i].links = inode[i].links,
         inode'[i].mode = inode[i].mode,
         \A n \in Names : dirent'[i][n] \in Dirs' <=> dirent[i][n] \in Dirs,
         (th[t].cur = i /\ More(t)) <=> (th'[t].cur = i /\ More(t)'),
         (th[t].cur = i /\ Less(t)) <=> (th'[t].cur = i /\ Less(t)')
  PROVE  DirLinks(i)'
<1>1. Subdirs(i)' = Subdirs(i) BY DEF Subdirs
<1>2. OneMore(i)' = OneMore(i) /\ OneLess(i)' = OneLess(i) BY OneSame
<1> QED BY <1>1, <1>2 DEF DirLinks, IsDir

\* The other threads that make a directory.
LEMMA OthersMore ==
  ASSUME SafeInv, LinkInv, NEW t \in Threads, Steps(t), Keep(t)
  PROVE  \A u \in Threads : u # t => MoreFits(u)'
<1> SUFFICES ASSUME NEW u \in Threads, u # t, Mkdirs(u)' PROVE inode'[th'[u].cur].links # MaxLinks
  BY DEF MoreFits
<1>1. pc'[u] = pc[u] /\ th'[u] = th[u] BY DEF Steps
<1>2. Mkdirs(u) BY <1>1 DEF Mkdirs, Making
<1>3. th[u].cur \in Inodes BY <1>2, InDir DEF Mkdirs
<1>4. inode'[th[u].cur] = inode[th[u].cur] BY <1>3 DEF Keep
<1>5. MoreFits(u) BY LinkParts
<1> QED BY <1>1, <1>2, <1>4, <1>5 DEF MoreFits

-----------------------------------------------------------------------------
(* Steps that leave the image alone *)

\* The rules between the steps, but for UsedInv and RunInv, which need no other.
Rules == KnownInv /\ LinkInv /\ TreeInv /\ InoInv /\ SizeInv /\ BlockInv

SameImage == ibits' = ibits /\ bbits' = bbits /\ inode' = inode /\ dirent' = dirent /\ dotdot' = dotdot

\* Claims are what inodes and threads have.
LEMMA ClaimsAll ==
  ASSUME \A i \in Inodes : Has(i)' = Has(i),
         \A u \in Threads : Grown(u)' = Grown(u) /\ Spare(u)' = Spare(u) /\ Taken(u)' = Taken(u)
  PROVE  \A k \in Claims : Claim'[k] = Claim[k]
  BY DEF Claim, Claims

\* A thread with nothing in its hands has no block.
LEMMA NoClaims ==
  /\ \A t \in Threads : InoOK(t) /\ ~Involved(t) => Spare(t) = {} /\ Grown(t) = {} /\ Taken(t) = {} /\ ~Freed(t)
  /\ \A t \in Threads : InoOK(t)' /\ ~Involved(t)' => Spare(t)' = {} /\ Grown(t)' = {} /\ Taken(t)' = {} /\ ~Freed(t)'
<1>1. ASSUME NEW t \in Threads, InoOK(t), ~Involved(t)
      PROVE Spare(t) = {} /\ Grown(t) = {} /\ Taken(t) = {} /\ ~Freed(t)
  <2>1. ~Making(t) /\ ~Changing(t) /\ ~Freed(t)
    BY <1>1 DEF Involved, Changing, Making, Freed, Removing, Removed
  <2>2. pc[t] \notin {"take", "give_back"} BY <1>1 DEF Involved, Making, Writing
  <2>3. th[t].got = <<>> BY <1>1, <2>2 DEF InoOK
  <2>4. Taken(t) = {} BY <2>3 DEF Taken
  <2> QED BY <2>1, <2>4 DEF Spare, Grown
<1>2. ASSUME NEW t \in Threads, InoOK(t)', ~Involved(t)'
      PROVE  Spare(t)' = {} /\ Grown(t)' = {} /\ Taken(t)' = {} /\ ~Freed(t)'
  <2>1. ~Making(t)' /\ ~Changing(t)' /\ ~Freed(t)'
    BY <1>2 DEF Involved, Changing, Making, Freed, Removing, Removed
  <2>2. pc'[t] \notin {"take", "give_back"} BY <1>2 DEF Involved, Making, Writing
  <2>3. th'[t].got = <<>> BY <1>2, <2>2 DEF InoOK
  <2>4. Taken(t)' = {} BY <2>3 DEF Taken
  <2> QED BY <2>1, <2>4 DEF Spare, Grown
<1> QED BY <1>1, <1>2

\* A step that leaves the disk alone, of a thread with nothing in its hands.
LEMMA CalmRules ==
  ASSUME SafeInv, SafeInv', Rules, NEW t \in Threads, Steps(t), Keep(t), SameImage, ~Involved(t), ~Involved(t)', MoreFits(t)'
  PROVE  Rules'
<1>0. KnownInv /\ LinkInv /\ TreeInv /\ InoInv /\ SizeInv /\ BlockInv BY DEF Rules
<1>1. KnownInv'
  <2>1. ~Bound(t) BY DEF Involved, Bound, Removing
  <2> QED BY <1>0, <2>1, KnownSame DEF SameImage
<1>2. TreeInv' BY <1>0, TreeSame DEF SameImage
<1>3. InoInv'
  <2>1. KeptOK(t)' /\ ChangedOK(t)' BY DEF Involved, KeptOK, ChangedOK, Changing, Making
  <2> QED BY <1>0, <2>1, OthersIno DEF InoInv
<1>4. SizeInv'
  <2>1. \A i \in Inodes : ~Filling(t, i) BY DEF Filling, Involved, Making
  <2> QED BY <1>0, <2>1, SizeStep DEF SameImage
<1>5. BlockInv'
  <2>1. InoOK(t) BY DEF SafeInv, ShapeInv
  <2>2. InoOK(t)' BY DEF SafeInv, ShapeInv
  <2>3. /\ Spare(t) = {} /\ Grown(t) = {} /\ Taken(t) = {} /\ ~Freed(t)
        /\ Spare(t)' = {} /\ Grown(t)' = {} /\ Taken(t)' = {} /\ ~Freed(t)'
    BY <2>1, <2>2, NoClaims
  <2>4. \A i \in Inodes : Has(i)' = Has(i) BY <2>3, HasSame DEF SameImage
  <2>5. \A u \in Threads : u # t => Grown(u)' = Grown(u) /\ Spare(u)' = Spare(u) /\ Taken(u)' = Taken(u)
    BY <1>0, OthersIno
  <2>6. \A k \in Claims : Claim'[k] = Claim[k] 
    <3>1. \A u \in Threads : Grown(u)' = Grown(u) /\ Spare(u)' = Spare(u) /\ Taken(u)' = Taken(u)
      BY <2>3, <2>5
    <3> QED BY <2>4, <3>1, ClaimsAll
  <2> QED BY <1>0, <2>6, ClaimsSame DEF SameImage
<1>6. LinkInv'
  <2>0. FileLinks /\ (\A i \in Inodes : DirLinks(i)) /\ Dots BY <1>0, LinkParts
  <2>1. ~More(t) /\ ~Less(t) /\ ~More(t)' /\ ~Less(t)' BY DEF Involved, More, Less, Removing
  <2>2. Dirs' = Dirs BY DEF SameImage, Dirs
  <2>3. \A i \in Inodes : DirLinks(i)' BY <2>0, <2>1, <2>2, DirLinksSame DEF SameImage
  <2>4. FileLinks' /\ Dots' BY <2>0, <2>2 DEF SameImage, FileLinks, Dots, Root
  <2>5. \A u \in Threads : MoreFits(u)' BY <1>0, OthersMore
  <2> QED BY <2>3, <2>4, <2>5, LinkNext
<1> QED BY <1>1, <1>2, <1>3, <1>4, <1>5, <1>6 DEF Rules

\* Begin_op lets a call in: the rules between the steps still hold.
LEMMA BeginRules ==
  ASSUME SafeInv, Rules, NEW t \in Threads, Begin(t)
  PROVE  Rules'
<1>0. /\ TypeOK /\ KindOK(t) /\ WalkOK(t) /\ (th[t].cur # 0 => th[t].cur \in Inodes)
  BY Own
<1>1. Steps(t) /\ ~Involved(t) /\ ~Involved(t)' /\ MoreFits(t)'
  BY <1>0, BeginEffect DEF Becomes, Involved, Making, Removing, Removed, Writing, KindOK, MoreFits,
     Mkdirs
<1>2. SameImage BY DEF Begin, SameImage, bits, tree
<1>3. Keep(t) BY KeepSame DEF Begin, bits, tree, table
<1> QED BY <1>1, <1>2, <1>3, BeginSafe, CalmRules

\* A walk starts at the root: the rules between the steps still hold.
LEMMA WalkRootRules ==
  ASSUME SafeInv, Rules, NEW t \in Threads, WalkRoot(t)
  PROVE  Rules'
<1>0. /\ TypeOK /\ KindOK(t) /\ WalkOK(t) /\ (th[t].cur # 0 => th[t].cur \in Inodes)
  BY Own
<1>1. Steps(t) /\ ~Involved(t) /\ ~Involved(t)' /\ MoreFits(t)'
  BY <1>0, WalkRootEffect DEF Becomes, Involved, Making, Removing, Removed, Writing, KindOK, MoreFits,
     Mkdirs
<1>2. SameImage BY DEF WalkRoot, SameImage, bits, tree
<1>3. Keep(t) BY KeepSame DEF WalkRoot, bits, tree, table
<1> QED BY <1>1, <1>2, <1>3, WalkRootSafe, CalmRules

\* A walk locks what it has found: the rules between the steps still hold.
LEMMA WalkLockRules ==
  ASSUME SafeInv, Rules, NEW t \in Threads, WalkLock(t)
  PROVE  Rules'
<1>0. /\ TypeOK /\ KindOK(t) /\ WalkOK(t) /\ (th[t].cur # 0 => th[t].cur \in Inodes)
  BY Own
<1>1. Steps(t) /\ ~Involved(t) /\ ~Involved(t)' /\ MoreFits(t)'
  BY <1>0, WalkLockEffect DEF Becomes, Involved, Making, Removing, Removed, Writing, KindOK, MoreFits,
     Mkdirs
<1>2. SameImage BY DEF WalkLock, SameImage, bits, tree
<1>3. Keep(t) BY KeepSame DEF WalkLock, bits, tree, table
<1> QED BY <1>1, <1>2, <1>3, WalkLockSafe, CalmRules

\* A walk looks a component up: the rules between the steps still hold.
LEMMA WalkNextRules ==
  ASSUME SafeInv, Rules, NEW t \in Threads, WalkNext(t)
  PROVE  Rules'
<1>0. /\ TypeOK /\ KindOK(t) /\ WalkOK(t) /\ (th[t].cur # 0 => th[t].cur \in Inodes)
  BY Own
<1>e. /\ th[t].cur # 0 /\ th[t].path[th[t].depth + 1] \in Names
      /\ dirent[th[t].cur][th[t].path[th[t].depth + 1]] # 0 => dirent[th[t].cur][th[t].path[th[t].depth + 1]] # th[t].cur
  <2> pc[t] = "walk" BY DEF WalkNext
  <2>1. th[t].kind \in ByPath BY <1>0 DEF KindOK
  <2>2. th[t].cur # 0 /\ th[t].depth < Goal(t) BY <1>0, <2>1 DEF WalkOK, OnFd, Outside
  <2> QED BY <1>0, <2>1, <2>2, NameIn, Named1
<1>1. Steps(t) /\ ~Involved(t) /\ ~Involved(t)' /\ MoreFits(t)'
  BY <1>0, <1>e, WalkNextEffect DEF Becomes, Involved, Making, Removing, Removed, Writing, KindOK,
     MoreFits, Mkdirs
<1>2. SameImage BY DEF WalkNext, SameImage, bits, tree
<1>3. Keep(t) BY KeepSame DEF WalkNext, bits, tree, table
<1> QED BY <1>1, <1>2, <1>3, WalkNextSafe, CalmRules

\* Open has reached the file's name: the rules between the steps still hold.
LEMMA AtOpenRules ==
  ASSUME SafeInv, Rules, NEW t \in Threads, AtOpen(t)
  PROVE  Rules'
<1>0. /\ TypeOK /\ KindOK(t) /\ WalkOK(t) /\ (th[t].cur # 0 => th[t].cur \in Inodes)
  BY Own
<1>1. Steps(t) /\ ~Involved(t) /\ ~Involved(t)' /\ MoreFits(t)'
  BY <1>0, AtOpenEffect DEF Becomes, Involved, Making, Removing, Removed, Writing, KindOK, MoreFits,
     Mkdirs
<1>2. SameImage BY DEF AtOpen, SameImage, bits, tree
<1>3. Keep(t) BY KeepSame DEF AtOpen, bits, tree, table
<1> QED BY <1>1, <1>2, <1>3, AtOpenSafe, CalmRules

\* A call has found its last component: the rules between the steps still hold.
LEMMA AtChildRules ==
  ASSUME SafeInv, Rules, NEW t \in Threads, AtChild(t)
  PROVE  Rules'
<1>0. /\ TypeOK /\ KindOK(t) /\ WalkOK(t) /\ (th[t].cur # 0 => th[t].cur \in Inodes)
  BY Own
<1>e. /\ th[t].cur # 0 /\ Name(t) \in Names /\ (Child(t) # 0 => Child(t) # th[t].cur)
      /\ th[t].kind \notin {"open", "stat"}
      /\ Suits(t) => th[t].kind \notin {"mkdir", "create_new"}
  <2> pc[t] = "at" /\ th[t].kind \notin {"open", "stat"} BY DEF AtChild
  <2>1. th[t].kind \in ByPath BY <1>0 DEF KindOK
  <2>2. th[t].cur # 0 BY <1>0, <2>1 DEF WalkOK, OnFd, Outside
  <2>3. CASE th[t].kind \in {"mkdir", "create_new"}
    <3>1. ~Suits(t) BY <2>3 DEF Suits
    <3> QED BY <1>0, <2>1, <2>2, <3>1, NameIn, Named1 DEF Child
  <2> QED BY <1>0, <2>1, <2>2, <2>3, NameIn, Named1 DEF Child
<1>1. Steps(t) /\ ~Involved(t) /\ ~Involved(t)' /\ MoreFits(t)'
  BY <1>0, <1>e, AtChildEffect DEF Becomes, Involved, Making, Removing, Removed, Writing, KindOK,
     MoreFits, Mkdirs
<1>2. SameImage BY DEF AtChild, SameImage, bits, tree
<1>3. Keep(t) BY KeepSame DEF AtChild, bits, tree, table
<1> QED BY <1>1, <1>2, <1>3, AtChildSafe, CalmRules

\* The inode below the directory is locked: the rules between the steps still hold.
LEMMA LockKidRules ==
  ASSUME SafeInv, Rules, NEW t \in Threads, LockKid(t)
  PROVE  Rules'
<1>0. /\ TypeOK /\ KindOK(t) /\ WalkOK(t) /\ (th[t].cur # 0 => th[t].cur \in Inodes)
  BY Own
<1>1. Steps(t) /\ ~Involved(t) /\ ~Involved(t)' /\ MoreFits(t)'
  BY <1>0, LockKidEffect DEF Becomes, Involved, Making, Removing, Removed, Writing, KindOK, MoreFits,
     Mkdirs
<1>2. SameImage BY DEF LockKid, SameImage, bits, tree
<1>3. Keep(t) BY KeepSame DEF LockKid, bits, tree, table
<1> QED BY <1>1, <1>2, <1>3, LockKidSafe, CalmRules

\* A file is counted open: the rules between the steps still hold.
LEMMA RegisterRules ==
  ASSUME SafeInv, Rules, NEW t \in Threads, Register(t)
  PROVE  Rules'
<1>0. /\ TypeOK /\ KindOK(t) /\ WalkOK(t) /\ (th[t].cur # 0 => th[t].cur \in Inodes)
  BY Own
<1>1. Steps(t) /\ ~Involved(t) /\ ~Involved(t)' /\ MoreFits(t)'
  BY <1>0, RegisterEffect DEF Becomes, Involved, Making, Removing, Removed, Writing, KindOK, MoreFits,
     Mkdirs
<1>2. SameImage BY DEF Register, SameImage, bits, tree
<1>3. Keep(t) BY KeepSame DEF Register, bits, tree, table
<1> QED BY <1>1, <1>2, <1>3, RegisterSafe, CalmRules

\* O_TRUNC looks at the file: the rules between the steps still hold.
LEMMA TruncateRules ==
  ASSUME SafeInv, Rules, NEW t \in Threads, Truncate(t)
  PROVE  Rules'
<1>0. /\ TypeOK /\ KindOK(t) /\ WalkOK(t) /\ (th[t].cur # 0 => th[t].cur \in Inodes)
  BY Own
<1>1. Steps(t) /\ ~Involved(t) /\ ~Involved(t)' /\ MoreFits(t)'
  BY <1>0, TruncateEffect DEF Becomes, Involved, Making, Removing, Removed, Writing, KindOK, MoreFits,
     Mkdirs
<1>2. SameImage BY DEF Truncate, SameImage, bits, tree
<1>3. Keep(t) BY KeepSame DEF Truncate, bits, tree, table
<1> QED BY <1>1, <1>2, <1>3, TruncateSafe, CalmRules

\* The file is unlocked: the rules between the steps still hold.
LEMMA UnlockFileRules ==
  ASSUME SafeInv, Rules, NEW t \in Threads, UnlockFile(t)
  PROVE  Rules'
<1>0. /\ TypeOK /\ KindOK(t) /\ WalkOK(t) /\ (th[t].cur # 0 => th[t].cur \in Inodes)
  BY Own
<1>1. Steps(t) /\ ~Involved(t) /\ ~Involved(t)' /\ MoreFits(t)'
  BY <1>0, UnlockFileEffect, IdleType DEF Becomes, Involved, Making, Removing, Removed, Writing,
     KindOK, MoreFits, Mkdirs
<1>2. SameImage BY DEF UnlockFile, SameImage, bits, tree
<1>3. Keep(t) BY KeepSame DEF UnlockFile, bits, tree, table
<1> QED BY <1>1, <1>2, <1>3, UnlockFileSafe, CalmRules

\* A call leaves its locks: the rules between the steps still hold.
LEMMA ExitRules ==
  ASSUME SafeInv, Rules, NEW t \in Threads, Exit(t)
  PROVE  Rules'
<1>0. /\ TypeOK /\ KindOK(t) /\ WalkOK(t) /\ (th[t].cur # 0 => th[t].cur \in Inodes)
  BY Own
<1>1. Steps(t) /\ ~Involved(t) /\ ~Involved(t)' /\ MoreFits(t)'
  BY <1>0, ExitEffect, IdleType DEF Becomes, Involved, Making, Removing, Removed, Writing, KindOK,
     MoreFits, Mkdirs
<1>2. SameImage BY DEF Exit, SameImage, bits, tree
<1>3. Keep(t) BY KeepSame DEF Exit, bits, tree, table
<1> QED BY <1>1, <1>2, <1>3, ExitSafe, CalmRules

\* A call with a path begins: the rules between the steps still hold.
LEMMA CallPathRules ==
  ASSUME SafeInv, Rules, NEW t \in Threads, CallPath(t)
  PROVE  Rules'
<1>0. /\ TypeOK /\ KindOK(t) /\ WalkOK(t) /\ (th[t].cur # 0 => th[t].cur \in Inodes)
  BY Own
<1>1. Steps(t) /\ ~Involved(t) /\ ~Involved(t)' /\ MoreFits(t)'
  BY <1>0, CallPathEffect DEF Becomes, Involved, Making, Removing, Removed, Writing, KindOK, MoreFits,
     Mkdirs
<1>2. SameImage BY DEF CallPath, SameImage, bits, tree
<1>3. Keep(t) BY KeepSame DEF CallPath, bits, tree, table
<1> QED BY <1>1, <1>2, <1>3, CallPathSafe, CalmRules

\* A call on a descriptor begins: the rules between the steps still hold.
LEMMA CallFdRules ==
  ASSUME SafeInv, Rules, NEW t \in Threads, CallFd(t)
  PROVE  Rules'
<1>0. /\ TypeOK /\ KindOK(t) /\ WalkOK(t) /\ (th[t].cur # 0 => th[t].cur \in Inodes)
  BY Own
<1>1. Steps(t) /\ ~Involved(t) /\ ~Involved(t)' /\ MoreFits(t)'
  BY <1>0, CallFdEffect DEF Becomes, Involved, Making, Removing, Removed, Writing, KindOK, MoreFits,
     Mkdirs
<1>2. SameImage BY DEF CallFd, SameImage, bits, tree
<1>3. Keep(t) BY KeepSame DEF CallFd, bits, tree, table
<1> QED BY <1>1, <1>2, <1>3, CallFdSafe, CalmRules

\* Vfs_fsync waits for a commit: the rules between the steps still hold.
LEMMA FsyncRules ==
  ASSUME SafeInv, Rules, NEW t \in Threads, Fsync(t)
  PROVE  Rules'
<1>0. /\ TypeOK /\ KindOK(t) /\ WalkOK(t) /\ (th[t].cur # 0 => th[t].cur \in Inodes)
  BY Own
<1>1. Steps(t) /\ ~Involved(t) /\ ~Involved(t)' /\ MoreFits(t)'
  BY <1>0, FsyncEffect DEF Becomes, Involved, Making, Removing, Removed, Writing, KindOK, MoreFits,
     Mkdirs
<1>2. SameImage BY DEF Fsync, SameImage, bits, tree
<1>3. Keep(t) BY KeepSame DEF Fsync, bits, tree, table
<1> QED BY <1>1, <1>2, <1>3, FsyncSafe, CalmRules

\* Vfs_close drops the file: the rules between the steps still hold.
LEMMA CloseRules ==
  ASSUME SafeInv, Rules, NEW t \in Threads, Close(t)
  PROVE  Rules'
<1>0. /\ TypeOK /\ KindOK(t) /\ WalkOK(t) /\ (th[t].cur # 0 => th[t].cur \in Inodes)
  BY Own
<1>1. Steps(t) /\ ~Involved(t) /\ ~Involved(t)' /\ MoreFits(t)'
  BY <1>0, CloseEffect, IdleType DEF Becomes, Involved, Making, Removing, Removed, Writing, KindOK,
     MoreFits, Mkdirs
<1>2. SameImage BY DEF Close, SameImage, bits, tree
<1>3. Keep(t)
  <2>1. pc[t] = "close" /\ OnFd(t) /\ TableInv BY <1>0 DEF Close, KindOK, OnFd, SafeInv
  <2>2. ASSUME NEW u \in Threads, u # t, Writing(u) PROVE files'[th[u].fd] = files[th[u].fd]
    <3>1. KindOK(u) /\ WalkOK(u) BY Own
    <3>2. OnFd(u) BY <2>2, <3>1 DEF Writing, KindOK, OnFd
    <3>3. op[th[u].fd] = u /\ op[th[t].fd] = t /\ th[u].fd \in Fds
      BY <2>1, <3>1, <3>2 DEF TableInv, WalkOK
    <3> QED BY <1>0, <2>2, <3>3 DEF Close, TypeOK
  <2> QED BY <2>2 DEF Keep, Close, bits, tree
<1> QED BY <1>1, <1>2, <1>3, CloseSafe, CalmRules

\* The open file enters the table: the rules between the steps still hold.
LEMMA InstallRules ==
  ASSUME SafeInv, Rules, NEW t \in Threads, Install(t)
  PROVE  Rules'
<1>0. /\ TypeOK /\ KindOK(t) /\ WalkOK(t) /\ (th[t].cur # 0 => th[t].cur \in Inodes)
  BY Own
<1>1. Steps(t) /\ ~Involved(t) /\ ~Involved(t)' /\ MoreFits(t)'
  BY <1>0, InstallEffect, IdleType DEF Becomes, Involved, Making, Removing, Removed, Writing, KindOK,
     MoreFits, Mkdirs
<1>2. SameImage BY DEF Install, SameImage, bits, tree
<1>3. Keep(t)
  <2>1. pc[t] = "install" /\ TableInv /\ Reserving(t) BY DEF Install, SafeInv, Reserving
  <2>2. ASSUME NEW u \in Threads, u # t, Writing(u) PROVE files'[th[u].fd] = files[th[u].fd]
    <3>1. KindOK(u) /\ WalkOK(u) BY Own
    <3>2. OnFd(u) BY <2>2, <3>1 DEF Writing, KindOK, OnFd
    <3>3. files[th[u].fd] # 0 /\ files[th[t].fd] = 0 /\ th[u].fd \in Fds
      BY <2>1, <3>1, <3>2 DEF TableInv, WalkOK
    <3> QED BY <1>0, <2>2, <3>3 DEF Install, TypeOK
  <2> QED BY <2>2 DEF Keep, Install, bits, tree
<1> QED BY <1>1, <1>2, <1>3, InstallSafe, CalmRules

\* Steps that leave the inodes and the directories alone.
LEMMA SameTree ==
  ASSUME SafeInv, Rules, NEW t \in Threads, Steps(t), inode' = inode, dirent' = dirent, dotdot' = dotdot, files' = files,
         th'[t].cur = th[t].cur, More(t)' <=> More(t), Less(t)' <=> Less(t), pc[t] \notin {"write_new", "write_dir"}, MoreFits(t)'
  PROVE  Keep(t) /\ LinkInv' /\ TreeInv' /\ SizeInv'
<1>0. LinkInv /\ TreeInv /\ SizeInv BY DEF Rules
<1>1. Keep(t) BY KeepSame
<1>2. TreeInv' BY <1>0, TreeSame
<1>3. SizeInv'
  <2>1. \A i \in Inodes : ~Filling(t, i) BY DEF Filling
  <2> QED BY <1>0, <2>1, SizeStep
<1>4. LinkInv'
  <2>0. FileLinks /\ (\A i \in Inodes : DirLinks(i)) /\ Dots BY <1>0, LinkParts
  <2>2. Dirs' = Dirs BY DEF Dirs
  <2>3. \A i \in Inodes : DirLinks(i)' BY <2>0, <2>2, DirLinksSame
  <2>4. FileLinks' /\ Dots' BY <2>0, <2>2 DEF FileLinks, Dots, Root
  <2>5. \A u \in Threads : MoreFits(u)' BY <1>0, <1>1, OthersMore
  <2> QED BY <2>3, <2>4, <2>5, LinkNext
<1> QED BY <1>1, <1>2, <1>3, <1>4

\* What all threads have read and changed, when thread t steps.
LEMMA InoStep ==
  ASSUME SafeInv, InoInv, NEW t \in Threads, Steps(t), Keep(t), KeptOK(t)', ChangedOK(t)'
  PROVE  /\ InoInv'
         /\ \A u \in Threads : u # t => Grown(u)' = Grown(u) /\ Spare(u)' = Spare(u) /\ Taken(u)' = Taken(u)
  BY OthersIno DEF InoInv

\* The claims of others, when thread t steps.
LEMMA ClaimsOf ==
  ASSUME NEW t \in Threads, \A u \in Threads : u # t => Grown(u)' = Grown(u) /\ Spare(u)' = Spare(u) /\ Taken(u)' = Taken(u),
         NEW S \in SUBSET Inodes, \A i \in Inodes \ S : Has(i)' = Has(i)
  PROVE  \A k \in Claims : \/ Claim'[k] = Claim[k]
                           \/ k \in {<<t, "spare">>, <<t, "grown">>, <<t, "taken">>}
                           \/ \E i \in S : k = <<i, "inode">>
  BY DEF Claim, Claims

\* A call finds no such name: the rules between the steps still hold.
LEMMA AtNoneRules ==
  ASSUME SafeInv, Rules, NEW t \in Threads, AtNone(t)
  PROVE  Rules'
<1>0. /\ TypeOK /\ KindOK(t) /\ WalkOK(t) /\ pc[t] = "at" BY Own DEF AtNone
<1>1. Steps(t) /\ th' = th /\ pc'[t] \in {"alloc_inode", "exit"} BY <1>0, AtNoneEffect DEF AtNone
<1>2. SameImage /\ files' = files BY DEF AtNone, SameImage, bits, tree, table
<1>3. ~Involved(t) /\ ~Involved(t)' BY <1>0, <1>1 DEF Involved, Making, Removing, Removed, Writing
<1>4. pc'[t] = "alloc_inode" => Countable(t) BY <1>0 DEF AtNone, Goto, TypeOK
<1>5. MoreFits(t)' BY <1>1, <1>2, <1>3, <1>4 DEF MoreFits, Mkdirs, Countable, Involved, SameImage
<1>6. Keep(t) BY <1>2, KeepSame DEF SameImage
<1> QED BY <1>1, <1>2, <1>3, <1>5, <1>6, AtNoneSafe, CalmRules

\* Unlink and rmdir check what they would remove: the rules between the steps still
\* hold.
LEMMA CheckRules ==
  ASSUME SafeInv, Rules, NEW t \in Threads, Check(t)
  PROVE  Rules'
<1>0. /\ TypeOK /\ KindOK(t) /\ WalkOK(t) /\ InoOK(t) /\ pc[t] = "check" BY Own DEF Check
<1>i. KnownInv /\ LinkInv /\ TreeInv /\ InoInv /\ SizeInv /\ BlockInv BY DEF Rules
<1>1. th[t].cur # 0 BY <1>0, KidAlone DEF Inodes
<1>2. /\ Steps(t) /\ pc'[t] \in {"exit", "dir_remove"} /\ th'[t].cur = th[t].cur /\ th'[t].kind = th[t].kind
      /\ th'[t].got = th[t].got /\ (pc'[t] = "dir_remove" => th'[t].ino = inode[th[t].cur])
  BY <1>0, <1>1, CheckEffect DEF Becomes
<1>3. SameImage /\ files' = files BY DEF Check, SameImage, bits, tree, table
<1>4. /\ ~Making(t) /\ ~Making(t)' /\ ~Writing(t) /\ ~Writing(t)' /\ ~Changing(t) /\ ~Changing(t)' /\ ~Removed(t) /\ ~Removed(t)'
      /\ ~Freed(t) /\ ~Freed(t)' /\ ~Mkdirs(t)' /\ ~Bound(t)
  BY <1>0, <1>2 DEF Making, Writing, Changing, Removed, Freed, Mkdirs, Bound
<1>5. ~More(t) /\ ~More(t)' /\ ~Less(t) /\ ~Less(t)' BY <1>0, <1>2, <1>4 DEF More, Less
<1>6. Keep(t) /\ LinkInv' /\ TreeInv' /\ SizeInv'
  BY <1>0, <1>2, <1>3, <1>4, <1>5, SameTree DEF SameImage, MoreFits
<1>7. KeptOK(t)' /\ ChangedOK(t)' BY <1>2, <1>3, <1>4 DEF KeptOK, ChangedOK, SameImage, Removing
<1>8. /\ InoInv'
      /\ \A u \in Threads : u # t => Grown(u)' = Grown(u) /\ Spare(u)' = Spare(u) /\ Taken(u)' = Taken(u)
  BY <1>i, <1>2, <1>6, <1>7, InoStep
<1>9. BlockInv'
  <2>1. Grown(t)' = Grown(t) /\ Spare(t)' = Spare(t) /\ Taken(t)' = Taken(t)
    BY <1>2, <1>4 DEF Grown, Spare, Taken
  <2>2. \A i \in Inodes : Has(i)' = Has(i) BY <1>2, <1>3, <1>4, HasSame DEF SameImage
  <2> QED BY <1>i, <1>3, <1>8, <2>1, <2>2, ClaimsAll, ClaimsSame DEF SameImage
<1>10. KnownInv' BY <1>i, <1>2, <1>3, <1>4, KnownSame DEF SameImage
<1> QED BY <1>6, <1>8, <1>9, <1>10 DEF Rules

\* A call on a descriptor locks its file: the rules between the steps still hold.
LEMMA LockFileRules ==
  ASSUME SafeInv, Rules, NEW t \in Threads, LockFile(t)
  PROVE  Rules'
<1>0. /\ TypeOK /\ KindOK(t) /\ WalkOK(t) /\ InoOK(t) /\ pc[t] = "lock_file" BY Own DEF LockFile
<1>i. KnownInv /\ LinkInv /\ TreeInv /\ InoInv /\ SizeInv /\ BlockInv BY DEF Rules
<1>1. files[th[t].fd] \in Inodes BY <1>0, OnFile DEF KindOK, OnFd
<1>2. /\ Steps(t) /\ pc'[t] \in {"unlock_file", "take"} /\ th'[t].cur = th[t].cur /\ th'[t].kind = th[t].kind
      /\ th'[t].got = th[t].got /\ th'[t].fd = th[t].fd /\ (pc'[t] = "take" => th[t].kind \in Writes)
  BY <1>0, <1>1, LockFileEffect DEF Becomes
<1>3. SameImage /\ files' = files BY DEF LockFile, SameImage, bits, tree, table
<1>4. pc'[t] = "take" => th'[t].ino = inode[files[th[t].fd]]
  <2>1. pc'[t] = "take" => th'[t].ino = IF entry[files[th[t].fd]].valid THEN entry[files[th[t].fd]].inode ELSE inode[files[th[t].fd]]
    BY <1>0, <1>1, LockFileEffect DEF Becomes
  <2> QED BY <1>1, <2>1 DEF SafeInv, CacheCoherent
<1>5. /\ ~Making(t) /\ ~Making(t)' /\ ~Writing(t) /\ ~Changing(t) /\ ~Removing(t)' /\ ~Removed(t) /\ ~Removed(t)'
      /\ (Changing(t)' => Writing(t)' /\ pc'[t] = "take")
      /\ ~Freed(t) /\ ~Freed(t)' /\ ~Mkdirs(t)' /\ ~Bound(t)
  BY <1>0, <1>2 DEF Making, Writing, Changing, Removing, Removed, Freed, Mkdirs, Bound
<1>6. ~More(t) /\ ~More(t)' /\ ~Less(t) /\ ~Less(t)' BY <1>0, <1>2, <1>5 DEF More, Less
<1>7. Keep(t) /\ LinkInv' /\ TreeInv' /\ SizeInv'
  BY <1>0, <1>2, <1>3, <1>5, <1>6, SameTree DEF SameImage, MoreFits
<1>t. Changing(t)' => Target(t)' = files[th[t].fd] BY <1>2, <1>3, <1>5 DEF Target
<1>8. KeptOK(t)' BY <1>2, <1>5 DEF KeptOK
<1>9. ChangedOK(t)'
  <2> SUFFICES ASSUME Changing(t)' PROVE ChangedOK(t)' BY DEF ChangedOK
  <2>1. th'[t].ino = inode'[Target(t)'] BY <1>3, <1>4, <1>5, <1>t DEF SameImage
  <2>2. Sized(inode[files[th[t].fd]]) BY <1>i, <1>1 DEF SizeInv
  <2>3. Sized(th[t].ino)' BY <1>4, <1>5, <2>2 DEF Sized
  <2>4. Owned(th[t].ino)' = Owned(inode[Target(t)])' BY <2>1 DEF Owned
  <2> QED BY <1>5, <2>1, <2>3, <2>4 DEF ChangedOK
<1>10. /\ InoInv'
       /\ \A u \in Threads : u # t => Grown(u)' = Grown(u) /\ Spare(u)' = Spare(u) /\ Taken(u)' = Taken(u)
  BY <1>i, <1>2, <1>7, <1>8, <1>9, InoStep
<1>11. BlockInv'
  <2>0. Changing(t)' => Owned(th[t].ino)' = Owned(inode[Target(t)])'
    BY <1>3, <1>4, <1>5, <1>t DEF Owned, SameImage
  <2>1. Grown(t)' = Grown(t) /\ Spare(t)' = Spare(t) /\ Taken(t)' = Taken(t)
    BY <1>2, <1>5, <2>0 DEF Grown, Spare, Taken
  <2>2. \A i \in Inodes : Has(i)' = Has(i) BY <1>2, <1>3, <1>5, HasSame DEF SameImage
  <2> QED BY <1>i, <1>3, <1>10, <2>1, <2>2, ClaimsAll, ClaimsSame DEF SameImage
<1>12. KnownInv' BY <1>i, <1>2, <1>3, <1>5, KnownSame DEF SameImage
<1> QED BY <1>7, <1>10, <1>11, <1>12 DEF Rules

-----------------------------------------------------------------------------
(* Steps that leave the tree alone *)

\* Alloc_inode: the rules between the steps still hold.
LEMMA AllocInodeRules ==
  ASSUME SafeInv, Rules, NEW t \in Threads, AllocInode(t)
  PROVE  Rules'
<1>0. /\ TypeOK /\ KindOK(t) /\ InoOK(t) /\ pc[t] = "alloc_inode" BY Own DEF AllocInode
<1>i. KnownInv /\ LinkInv /\ TreeInv /\ InoInv /\ SizeInv /\ BlockInv BY DEF Rules
<1>1. th[t].cur # 0 /\ th[t].cur \in Inodes BY <1>0, InDir
<1>2. /\ Steps(t) /\ pc'[t] \in {"alloc_block", "dir_add", "exit"} /\ (pc'[t] = "dir_add" => th[t].kind # "mkdir")
      /\ th'[t].cur = th[t].cur /\ th'[t].kind = th[t].kind
      /\ th'[t].got = th[t].got /\ (pc'[t] # "exit" => th'[t].ino = inode[th[t].cur])
      /\ (pc'[t] # "exit" => ibits' = ibits \cup {th'[t].kid}) /\ (pc'[t] = "exit" => ibits' = ibits)
  <2>1. CASE ibits = Inodes
    <3>1. pc'[t] = "exit" /\ ibits' = ibits BY <1>0, <2>1 DEF AllocInode, Goto, TypeOK
    <3> QED BY <1>0, <1>1, <3>1, AllocInodeEffect DEF Becomes
  <2>2. CASE ibits # Inodes
    <3>1. pc'[t] # "exit" /\ ibits' = ibits \cup {Min(Inodes \ ibits)}
      BY <1>0, <2>2 DEF AllocInode, Goto, TypeOK
    <3> QED BY <1>0, <1>1, <3>1, AllocInodeEffect DEF Becomes
  <2> QED BY <2>1, <2>2
<1>3. inode' = inode /\ dirent' = dirent /\ dotdot' = dotdot /\ files' = files /\ bbits' = bbits
  BY DEF AllocInode, tree, table
<1>4. /\ ~Making(t) /\ ~Writing(t) /\ ~Writing(t)' /\ ~Changing(t) /\ ~Changing(t)' /\ ~Removed(t) /\ ~Removed(t)'
      /\ ~Removing(t)' /\ ~Freed(t) /\ ~Freed(t)' /\ (Mkdirs(t)' => Mkdirs(t)) /\ ~Bound(t) /\ (pc'[t] # "exit" => Bound(t)')
      /\ (pc'[t] = "exit" => ~Making(t)')
  BY <1>0, <1>2 DEF Making, Writing, Changing, Removing, Removed, Freed, Mkdirs, Bound
<1>5. ~More(t) /\ ~More(t)' /\ ~Less(t) /\ ~Less(t)' BY <1>0, <1>2, <1>4 DEF More, Less
<1>m. MoreFits(t)'
  <2>1. MoreFits(t) BY <1>i, LinkParts
  <2> QED BY <1>2, <1>3, <1>4, <2>1 DEF MoreFits
<1>6. Keep(t) /\ LinkInv' /\ TreeInv' /\ SizeInv' BY <1>0, <1>2, <1>3, <1>5, <1>m, SameTree
<1>7. KeptOK(t)' /\ ChangedOK(t)' BY <1>2, <1>3, <1>4 DEF KeptOK, ChangedOK
<1>8. /\ InoInv'
      /\ \A u \in Threads : u # t => Grown(u)' = Grown(u) /\ Spare(u)' = Spare(u) /\ Taken(u)' = Taken(u)
  BY <1>i, <1>2, <1>6, <1>7, InoStep
<1>9. BlockInv'
  <2>1. Grown(t)' = Grown(t) /\ Spare(t)' = Spare(t) /\ Taken(t)' = Taken(t)
    BY <1>2, <1>4 DEF Grown, Spare, Taken
  <2>2. \A i \in Inodes : Has(i)' = Has(i) BY <1>2, <1>3, <1>4, HasSame
  <2> QED BY <1>i, <1>3, <1>8, <2>1, <2>2, ClaimsAll, ClaimsSame
<1>10. KnownInv'
  <2>1. \A i : Unnamed(i)' <=> Unnamed(i) BY <1>3 DEF Unnamed
  <2> QED BY <1>i, <1>2, <1>4, <2>1, KnownStep
<1> QED BY <1>6, <1>8, <1>9, <1>10 DEF Rules

\* mkdir's block, before it is the directory's.
LEMMA SpareIs ==
  /\ \A t \in Threads : Spare(t) = IF th[t].kind = "mkdir" /\ Making(t) /\ pc[t] \notin {"alloc_block", "undo_inode"}
                                   THEN {th[t].index} ELSE {}
  /\ \A t \in Threads : Spare(t)' = IF th'[t].kind = "mkdir" /\ Making(t)' /\ pc'[t] \notin {"alloc_block", "undo_inode"}
                                    THEN {th'[t].index} ELSE {}
  BY DEF Spare

\* Mkdir takes a block for the new directory: the rules between the steps still hold.
LEMMA AllocBlockRules ==
  ASSUME SafeInv, Rules, NEW t \in Threads, AllocBlock(t)
  PROVE  Rules'
<1>0. /\ TypeOK /\ KindOK(t) /\ InoOK(t) /\ pc[t] = "alloc_block" BY Own DEF AllocBlock
<1>i. KnownInv /\ LinkInv /\ TreeInv /\ InoInv /\ SizeInv /\ BlockInv BY DEF Rules
<1>k. th[t].kind = "mkdir" BY <1>0 DEF KindOK
<1>2. /\ Steps(t) /\ pc'[t] \in {"dir_add", "undo_inode"}
      /\ th'[t].cur = th[t].cur /\ th'[t].kind = th[t].kind /\ th'[t].kid = th[t].kid
      /\ th'[t].got = th[t].got /\ th'[t].ino = th[t].ino
      /\ (pc'[t] = "dir_add" => bbits' = bbits \cup {th'[t].index} /\ th'[t].index \in Blocks \ bbits)
      /\ (pc'[t] # "dir_add" => bbits' = bbits)
  <2>1. CASE bbits = Blocks
    <3>1. pc'[t] = "undo_inode" /\ bbits' = bbits BY <1>0, <2>1 DEF AllocBlock, Goto, TypeOK
    <3> QED BY <1>0, <3>1, AllocBlockEffect DEF Becomes
  <2>2. CASE bbits # Blocks
    <3>1. pc'[t] = "dir_add" /\ bbits' = bbits \cup {Min(Blocks \ bbits)}
      BY <1>0, <2>2 DEF AllocBlock, Goto, TypeOK
    <3>2. Min(Blocks \ bbits) \in Blocks \ bbits BY <1>0, <2>2, FreeIn DEF TypeOK
    <3> QED BY <1>0, <3>1, <3>2, AllocBlockEffect DEF Becomes
  <2> QED BY <2>1, <2>2
<1>3. inode' = inode /\ dirent' = dirent /\ dotdot' = dotdot /\ files' = files /\ ibits' = ibits
  BY DEF AllocBlock, tree, table
<1>4. /\ Making(t) /\ Making(t)' /\ ~Writing(t) /\ ~Writing(t)' /\ ~Changing(t) /\ ~Changing(t)' /\ ~Removed(t) /\ ~Removed(t)'
      /\ ~Removing(t)' /\ ~Freed(t) /\ ~Freed(t)' /\ Mkdirs(t) /\ Bound(t)'
  BY <1>0, <1>k, <1>2 DEF Making, Writing, Changing, Removing, Removed, Freed, Mkdirs, Bound
<1>5. ~More(t) /\ ~More(t)' /\ ~Less(t) /\ ~Less(t)' BY <1>0, <1>2, <1>4 DEF More, Less
<1>m. MoreFits(t)'
  <2>1. MoreFits(t) BY <1>i, LinkParts
  <2> QED BY <1>2, <1>3, <1>4, <2>1 DEF MoreFits
<1>6. Keep(t) /\ LinkInv' /\ TreeInv' /\ SizeInv' BY <1>0, <1>2, <1>3, <1>5, <1>m, SameTree
<1>7. KeptOK(t)' /\ ChangedOK(t)'
  <2>1. KeptOK(t) BY <1>i DEF InoInv
  <2> QED BY <1>0, <1>2, <1>3, <1>4, <2>1 DEF KeptOK, ChangedOK
<1>8. /\ InoInv'
      /\ \A u \in Threads : u # t => Grown(u)' = Grown(u) /\ Spare(u)' = Spare(u) /\ Taken(u)' = Taken(u)
  BY <1>i, <1>2, <1>6, <1>7, InoStep
<1>9. BlockInv'
  <2>1. Grown(t)' = Grown(t) /\ Taken(t)' = Taken(t) BY <1>2, <1>4 DEF Grown, Taken
  <2>2. \A i \in Inodes : Has(i)' = Has(i) BY <1>2, <1>3, <1>4, HasSame
  <2>3. Spare(t) = {} BY <1>0, SpareIs
  <2>4. \A k \in Claims : k # <<t, "spare">> => Claim'[k] = Claim[k]
    <3>1. \A k \in Claims : \/ Claim'[k] = Claim[k]
                            \/ k \in {<<t, "spare">>, <<t, "grown">>, <<t, "taken">>}
      BY <1>8, <2>2, OthersClaims
    <3> QED BY <2>1, <3>1, ClaimIs, ClaimNext
  <2>5. CASE pc'[t] = "dir_add"
    <3>1. Spare(t)' = {th'[t].index} BY <1>k, <1>2, <1>4, <2>5, SpareIs
    <3>c. Claim[<<t, "spare">>] = Spare(t) /\ Claim'[<<t, "spare">>] = Spare(t)' BY ClaimIs, ClaimNext
    <3>2. Claim'[<<t, "spare">>] = Claim[<<t, "spare">>] \cup {th'[t].index} BY <2>3, <3>1, <3>c
    <3>3. {th'[t].index} \in SUBSET Blocks /\ {th'[t].index} \cap bbits = {} /\ <<t, "spare">> \in Claims
      BY <1>2, <2>5, ClaimIs
    <3> QED BY <1>i, <1>2, <2>4, <2>5, <3>2, <3>3, ClaimsGrow
  <2>6. CASE pc'[t] = "undo_inode"
    <3>1. Spare(t)' = {} BY <2>6, SpareIs
    <3>2. Claim'[<<t, "spare">>] = Claim[<<t, "spare">>] BY <2>3, <3>1, ClaimIs, ClaimNext
    <3> QED BY <1>i, <1>2, <2>4, <2>6, <3>2, ClaimsSame
  <2> QED BY <1>2, <2>5, <2>6
<1>10. KnownInv' BY <1>i, <1>2, <1>3, <1>4, KnownSame
<1> QED BY <1>6, <1>8, <1>9, <1>10 DEF Rules

\* Mkdir hands its block back: the rules between the steps still hold.
LEMMA UndoBlockRules ==
  ASSUME SafeInv, Rules, NEW t \in Threads, UndoBlock(t)
  PROVE  Rules'
<1>0. /\ TypeOK /\ KindOK(t) /\ InoOK(t) /\ pc[t] = "undo_block" BY Own DEF UndoBlock
<1>i. KnownInv /\ LinkInv /\ TreeInv /\ InoInv /\ SizeInv /\ BlockInv BY DEF Rules
<1>k. th[t].kind = "mkdir" BY <1>0 DEF KindOK
<1>2. /\ Steps(t) /\ pc'[t] = "undo_inode"
      /\ th'[t].cur = th[t].cur /\ th'[t].kind = th[t].kind /\ th'[t].kid = th[t].kid
      /\ th'[t].got = th[t].got /\ th'[t].ino = th[t].ino /\ bbits' = bbits \ {th[t].index}
  BY <1>0, UndoBlockEffect DEF Becomes, UndoBlock
<1>3. inode' = inode /\ dirent' = dirent /\ dotdot' = dotdot /\ files' = files /\ ibits' = ibits
  BY DEF UndoBlock, tree, table
<1>4. /\ Making(t) /\ Making(t)' /\ ~Writing(t) /\ ~Writing(t)' /\ ~Changing(t) /\ ~Changing(t)' /\ ~Removed(t) /\ ~Removed(t)'
      /\ ~Removing(t)' /\ ~Freed(t) /\ ~Freed(t)' /\ Mkdirs(t) /\ Bound(t)'
  BY <1>0, <1>k, <1>2 DEF Making, Writing, Changing, Removing, Removed, Freed, Mkdirs, Bound
<1>5. ~More(t) /\ ~More(t)' /\ ~Less(t) /\ ~Less(t)' BY <1>0, <1>2, <1>4 DEF More, Less
<1>m. MoreFits(t)'
  <2>1. MoreFits(t) BY <1>i, LinkParts
  <2> QED BY <1>2, <1>3, <1>4, <2>1 DEF MoreFits
<1>6. Keep(t) /\ LinkInv' /\ TreeInv' /\ SizeInv' BY <1>0, <1>2, <1>3, <1>5, <1>m, SameTree
<1>7. KeptOK(t)' /\ ChangedOK(t)'
  <2>1. KeptOK(t) BY <1>i DEF InoInv
  <2> QED BY <1>0, <1>2, <1>3, <1>4, <2>1 DEF KeptOK, ChangedOK
<1>8. /\ InoInv'
      /\ \A u \in Threads : u # t => Grown(u)' = Grown(u) /\ Spare(u)' = Spare(u) /\ Taken(u)' = Taken(u)
  BY <1>i, <1>2, <1>6, <1>7, InoStep
<1>9. BlockInv'
  <2>1. Grown(t)' = Grown(t) /\ Taken(t)' = Taken(t) BY <1>2, <1>4 DEF Grown, Taken
  <2>2. \A i \in Inodes : Has(i)' = Has(i) BY <1>2, <1>3, <1>4, HasSame
  <2>3. Spare(t) = {th[t].index} /\ Spare(t)' = {} BY <1>0, <1>k, <1>2, <1>4, SpareIs
  <2>4. \A k \in Claims : k # <<t, "spare">> => Claim'[k] = Claim[k]
    <3>1. \A k \in Claims : \/ Claim'[k] = Claim[k]
                            \/ k \in {<<t, "spare">>, <<t, "grown">>, <<t, "taken">>}
      BY <1>8, <2>2, OthersClaims
    <3> QED BY <2>1, <3>1, ClaimIs, ClaimNext
  <2>c. Claim[<<t, "spare">>] = Spare(t) /\ Claim'[<<t, "spare">>] = Spare(t)' /\ <<t, "spare">> \in Claims
    BY ClaimIs, ClaimNext
  <2>5. Claim'[<<t, "spare">>] = Claim[<<t, "spare">>] \ {th[t].index} /\ {th[t].index} \subseteq Claim[<<t, "spare">>]
    BY <2>3, <2>c
  <2> QED BY <1>i, <1>2, <2>4, <2>5, <2>c, ClaimsShrink
<1>10. KnownInv' BY <1>i, <1>2, <1>3, <1>4, KnownSame
<1> QED BY <1>6, <1>8, <1>9, <1>10 DEF Rules

\* The inode that was taken is handed back: the rules between the steps still hold.
LEMMA UndoInodeRules ==
  ASSUME SafeInv, Rules, NEW t \in Threads, UndoInode(t)
  PROVE  Rules'
<1>0. /\ TypeOK /\ KindOK(t) /\ InoOK(t) /\ pc[t] = "undo_inode" BY Own DEF UndoInode
<1>i. KnownInv /\ LinkInv /\ TreeInv /\ InoInv /\ SizeInv /\ BlockInv BY DEF Rules
<1>2. /\ Steps(t) /\ pc'[t] = "exit"
      /\ th'[t].cur = th[t].cur /\ th'[t].kind = th[t].kind
      /\ th'[t].got = th[t].got /\ ibits' = ibits \ {th[t].kid}
  BY <1>0, UndoInodeEffect DEF Becomes, UndoInode
<1>3. inode' = inode /\ dirent' = dirent /\ dotdot' = dotdot /\ files' = files /\ bbits' = bbits
  BY DEF UndoInode, tree, table
<1>4. /\ Making(t) /\ ~Making(t)' /\ ~Writing(t) /\ ~Writing(t)' /\ ~Changing(t) /\ ~Changing(t)' /\ ~Removed(t) /\ ~Removed(t)'
      /\ ~Removing(t)' /\ ~Freed(t) /\ ~Freed(t)' /\ ~Mkdirs(t)'
  BY <1>0, <1>2 DEF Making, Writing, Changing, Removing, Removed, Freed, Mkdirs, Bound
<1>5. ~More(t) /\ ~More(t)' /\ ~Less(t) /\ ~Less(t)' BY <1>0, <1>2, <1>4 DEF More, Less
<1>6. Keep(t) /\ LinkInv' /\ TreeInv' /\ SizeInv'
  BY <1>0, <1>2, <1>3, <1>4, <1>5, SameTree DEF MoreFits
<1>7. KeptOK(t)' /\ ChangedOK(t)' BY <1>2, <1>4 DEF KeptOK, ChangedOK
<1>8. /\ InoInv'
      /\ \A u \in Threads : u # t => Grown(u)' = Grown(u) /\ Spare(u)' = Spare(u) /\ Taken(u)' = Taken(u)
  BY <1>i, <1>2, <1>6, <1>7, InoStep
<1>9. BlockInv'
  <2>1. Grown(t)' = Grown(t) /\ Spare(t)' = Spare(t) /\ Taken(t)' = Taken(t)
    BY <1>0, <1>2, <1>4 DEF Grown, Spare, Taken
  <2>2. \A i \in Inodes : Has(i)' = Has(i) BY <1>2, <1>3, <1>4, HasSame
  <2> QED BY <1>i, <1>3, <1>8, <2>1, <2>2, ClaimsAll, ClaimsSame
<1>10. KnownInv'
  <2>1. \A i : Unnamed(i)' <=> Unnamed(i) BY <1>3 DEF Unnamed
  <2> QED BY <1>i, <1>2, <2>1, KnownStep
<1> QED BY <1>6, <1>8, <1>9, <1>10 DEF Rules

\* A directory a call has for itself has room for its entries, when none is being filled in.
LEMMA FitsIs ==
  ASSUME SizeInv, NEW i \in Inodes, IsDir(i), \A u \in Threads : ~Filling(u, i)
  PROVE  Fits(i) /\ Entries(i) <= Slots * inode[i].size - 2
  BY DEF SizeInv, Fits, Filling

\* Free_inode: the rules between the steps still hold.
LEMMA FreeInodeRules ==
  ASSUME SafeInv, Rules, NEW t \in Threads, FreeInode(t)
  PROVE  Rules'
<1>0. /\ TypeOK /\ KindOK(t) /\ InoOK(t) /\ pc[t] = "free_inode" BY Own DEF FreeInode
<1>i. KnownInv /\ LinkInv /\ TreeInv /\ InoInv /\ SizeInv /\ BlockInv BY DEF Rules
<1>k. th[t].kind \in {"unlink", "rmdir"} BY <1>0 DEF KindOK
<1>2. /\ Steps(t) /\ pc'[t] = "write_dir"
      /\ th'[t].cur = th[t].cur /\ th'[t].kind = th[t].kind /\ th'[t].ino = th[t].ino
      /\ th'[t].got = th[t].got /\ ibits' = ibits \ {th[t].kid}
  BY <1>0, FreeInodeEffect DEF Becomes, FreeInode
<1>3. inode' = inode /\ dirent' = dirent /\ dotdot' = dotdot /\ files' = files /\ bbits' = bbits
  BY DEF FreeInode, tree, table
<1>4. /\ ~Making(t) /\ ~Making(t)' /\ ~Writing(t) /\ ~Writing(t)' /\ ~Changing(t) /\ Changing(t)' /\ Removed(t) /\ Removing(t)
      /\ ~Removing(t)' /\ ~Freed(t) /\ ~Freed(t)' /\ ~Mkdirs(t)'
  BY <1>0, <1>k, <1>2 DEF Making, Writing, Changing, Removing, Removed, Freed, Mkdirs
<1>5. ~More(t) /\ ~More(t)' /\ (Less(t)' <=> Less(t)) BY <1>0, <1>k, <1>2, <1>4 DEF More, Less
<1>6. Keep(t) /\ LinkInv' /\ TreeInv' /\ SizeInv'
  BY <1>0, <1>2, <1>3, <1>4, <1>5, SameTree DEF MoreFits
<1>c. th[t].cur \in Inodes /\ IsDir(th[t].cur) /\ (\A u \in Threads : u # t => th[u].cur # th[t].cur)
  BY <1>4, RemovalIs
<1>t. Target(t)' = th[t].cur BY <1>2, <1>4 DEF Target
<1>o. th[t].ino = inode[th[t].cur]
  <2>1. KeptOK(t) BY <1>i DEF InoInv
  <2> QED BY <1>4, <2>1 DEF KeptOK
<1>7. KeptOK(t)' BY <1>2, <1>3, <1>o DEF KeptOK
<1>s. ChangedOK(t)'
  <2>1. Sized(inode[th[t].cur]) BY <1>i, <1>c DEF SizeInv
  <2>2. \A u \in Threads : ~Filling(u, th[t].cur) BY <1>0, <1>c DEF Filling
  <2>3. Entries(th[t].cur) <= Slots * inode[th[t].cur].size - 2 BY <1>i, <1>c, <2>2, FitsIs
  <2>4. Entries(th[t].cur)' = Entries(th[t].cur) BY <1>2, <1>3 DEF Entries
  <2>5. Sized(th[t].ino)' BY <1>2, <1>o, <2>1 DEF Sized
  <2>6. Owned(th[t].ino)' = Owned(inode[Target(t)])' BY <1>2, <1>3, <1>o, <1>t DEF Owned
  <2> QED BY <1>2, <1>3, <1>o, <1>t, <2>3, <2>4, <2>5, <2>6 DEF ChangedOK
<1>8. /\ InoInv'
      /\ \A u \in Threads : u # t => Grown(u)' = Grown(u) /\ Spare(u)' = Spare(u) /\ Taken(u)' = Taken(u)
  BY <1>i, <1>2, <1>6, <1>7, <1>s, InoStep
<1>9. BlockInv'
  <2>0. Owned(th[t].ino)' = Owned(inode[Target(t)])' BY <1>2, <1>3, <1>o, <1>t DEF Owned
  <2>1. Grown(t)' = Grown(t) /\ Spare(t)' = Spare(t) /\ Taken(t)' = Taken(t)
    BY <1>0, <1>2, <1>4, <2>0 DEF Grown, Spare, Taken
  <2>2. \A i \in Inodes : Has(i)' = Has(i) BY <1>2, <1>3, <1>4, HasSame
  <2> QED BY <1>i, <1>3, <1>8, <2>1, <2>2, ClaimsAll, ClaimsSame
<1>10. KnownInv'
  <2>1. \A i : Unnamed(i)' <=> Unnamed(i) BY <1>3 DEF Unnamed
  <2> QED BY <1>i, <1>2, <2>1, KnownStep
<1> QED BY <1>6, <1>8, <1>9, <1>10 DEF Rules

\* Alloc_all gives back what it had taken: the rules between the steps still hold.
LEMMA GiveBackRules ==
  ASSUME SafeInv, Rules, NEW t \in Threads, GiveBack(t)
  PROVE  Rules'
<1>0. /\ TypeOK /\ KindOK(t) /\ InoOK(t) /\ pc[t] = "give_back" BY Own DEF GiveBack
<1>i. KnownInv /\ LinkInv /\ TreeInv /\ InoInv /\ SizeInv /\ BlockInv BY DEF Rules
<1>k. th[t].kind \in Creates \cup {"mkdir"} \cup Writes BY <1>0 DEF KindOK
<1>2. /\ Steps(t) /\ pc'[t] = (IF th[t].kind \in Writes THEN "store" ELSE IF th[t].kind = "mkdir" THEN "undo_block" ELSE "undo_inode")
      /\ th'[t].cur = th[t].cur /\ th'[t].kind = th[t].kind /\ th'[t].ino = th[t].ino /\ th'[t].kid = th[t].kid
      /\ th'[t].got = <<>> /\ bbits' = bbits \ Taken(t) /\ th'[t].fd = th[t].fd /\ th'[t].index = th[t].index
  BY <1>0, GiveBackEffect DEF Becomes, GiveBack
<1>3. inode' = inode /\ dirent' = dirent /\ dotdot' = dotdot /\ files' = files /\ ibits' = ibits
  BY DEF GiveBack, tree, table
<1>4. /\ (Making(t)' <=> Making(t)) /\ (Writing(t)' <=> Writing(t)) /\ (Changing(t) <=> Writing(t)) /\ (Changing(t)' <=> Writing(t)')
      /\ ~Removed(t) /\ ~Removed(t)'
      /\ ~Removing(t)' /\ ~Freed(t) /\ ~Freed(t)' /\ (Mkdirs(t)' => Mkdirs(t)) /\ pc'[t] \notin {"write_new", "write_dir"}
  BY <1>0, <1>k, <1>2 DEF Making, Writing, Changing, Removing, Removed, Freed, Mkdirs
<1>5. ~More(t) /\ ~More(t)' /\ ~Less(t) /\ ~Less(t)' BY <1>0, <1>k, <1>2, <1>4 DEF More, Less
<1>m. MoreFits(t)'
  <2>1. MoreFits(t) BY <1>i, LinkParts
  <2> QED BY <1>2, <1>3, <1>4, <2>1 DEF MoreFits
<1>6. Keep(t) /\ LinkInv' /\ TreeInv' /\ SizeInv' BY <1>0, <1>2, <1>3, <1>m, <1>5, SameTree
<1>t. Target(t)' = Target(t) BY <1>2, <1>3, <1>4 DEF Target
<1>g. Owned(th[t].ino)' = Owned(th[t].ino) /\ Owned(inode[Target(t)])' = Owned(inode[Target(t)])
  BY <1>2, <1>3, <1>t DEF Owned
<1>7. KeptOK(t)' /\ ChangedOK(t)'
  <2>1. KeptOK(t) /\ ChangedOK(t) BY <1>i DEF InoInv
  <2>2. KeptOK(t)' BY <1>0, <1>2, <1>3, <1>4, <2>1 DEF KeptOK
  <2>3. Sized(th[t].ino)' <=> Sized(th[t].ino) BY <1>2 DEF Sized
  <2>4. ChangedOK(t)' BY <1>2, <1>3, <1>4, <1>t, <1>g, <2>1, <2>3 DEF ChangedOK
  <2> QED BY <2>2, <2>4
<1>8. /\ InoInv'
      /\ \A u \in Threads : u # t => Grown(u)' = Grown(u) /\ Spare(u)' = Spare(u) /\ Taken(u)' = Taken(u)
  BY <1>i, <1>2, <1>6, <1>7, InoStep
<1>9. BlockInv'
  <2>1. Grown(t)' = Grown(t) BY <1>4, <1>g DEF Grown
  <2>3. Spare(t)' = Spare(t) BY <1>0, <1>2, <1>4, SpareIs
  <2>2. \A i \in Inodes : Has(i)' = Has(i) BY <1>2, <1>3, <1>4, HasSame
  <2>5. Taken(t)' = {} BY <1>2 DEF Taken
  <2>4. \A k \in Claims : k # <<t, "taken">> => Claim'[k] = Claim[k]
    <3>1. \A k \in Claims : \/ Claim'[k] = Claim[k]
                            \/ k \in {<<t, "spare">>, <<t, "grown">>, <<t, "taken">>}
      BY <1>8, <2>2, OthersClaims
    <3> QED BY <2>1, <2>3, <3>1, ClaimIs, ClaimNext
  <2>c. Claim[<<t, "taken">>] = Taken(t) /\ Claim'[<<t, "taken">>] = Taken(t)' /\ <<t, "taken">> \in Claims
    BY ClaimIs, ClaimNext
  <2>6. Claim'[<<t, "taken">>] = Claim[<<t, "taken">>] \ Taken(t) /\ Taken(t) \subseteq Claim[<<t, "taken">>]
    BY <2>5, <2>c
  <2> QED BY <1>i, <1>2, <2>4, <2>6, <2>c, ClaimsShrink
<1>10. KnownInv' BY <1>i, <1>2, <1>3, <1>4, KnownSame DEF Bound
<1> QED BY <1>6, <1>8, <1>9, <1>10 DEF Rules

\* The blocks of an inode are blocks.
LEMMA OwnedType ==
  ASSUME NEW ino \in InodeType
  PROVE  Owned(ino) \subseteq Blocks
  BY DEF InodeType, Owned, Blocks, Indexes

\* What an inode has, before and after a step.
LEMMA ClaimInode ==
  ASSUME NEW i \in Inodes
  PROVE  <<i, "inode">> \in Claims /\ Claim[<<i, "inode">>] = Has(i) /\ Claim'[<<i, "inode">>] = Has(i)'
<1>1. <<i, "inode">> \in Claims /\ Claim[<<i, "inode">>] = Has(i) BY ClaimIs
<1>2. Claim'[<<i, "inode">>] = Has(i)' BY ClaimNext
<1> QED BY <1>1, <1>2

\* Free_all_blocks: the rules between the steps still hold.
LEMMA FreeBlocksRules ==
  ASSUME SafeInv, Rules, NEW t \in Threads, FreeBlocks(t)
  PROVE  Rules'
<1>0. /\ TypeOK /\ KindOK(t) /\ InoOK(t) /\ pc[t] = "free_blocks" BY Own DEF FreeBlocks
<1>i. KnownInv /\ LinkInv /\ TreeInv /\ InoInv /\ SizeInv /\ BlockInv BY DEF Rules
<1>k. th[t].kind \in Truncates \cup {"unlink", "rmdir"} BY <1>0 DEF KindOK
<1>a. Removing(t) \/ Emptying(t) BY <1>0, <1>k DEF Removing, Removed, Emptying
<1>b. th[t].kid \in Inodes /\ HasX(t, th[t].kid) BY <1>a, KidAlone
<1>h. Has(th[t].kid) = Owned(inode[th[t].kid])
  <2>1. ~Freed(t) BY <1>0 DEF Freed
  <2>2. \A u \in Threads : Freed(u) => th[u].kid # th[t].kid BY <1>b, <2>1, FreedIs
  <2> QED BY <1>b, <2>2, HasIs
<1>c. <<th[t].kid, "inode">> \in Claims /\ Claim[<<th[t].kid, "inode">>] = Has(th[t].kid)
  BY <1>b, ClaimInode
<1>d. Owned(inode[th[t].kid]) \subseteq bbits
  <2>1. inode[th[t].kid] \in InodeType BY <1>0, <1>b DEF TypeOK
  <2>2. Owned(inode[th[t].kid]) \subseteq Blocks BY <2>1, OwnedType
  <2> QED BY <1>i, <1>h, <1>c, <2>2 DEF BlockInv
<1>2. /\ Steps(t) /\ pc'[t] = (IF th[t].kind \in Truncates THEN "write_file" ELSE "clear_inode")
      /\ th'[t].cur = th[t].cur /\ th'[t].kind = th[t].kind /\ th'[t].ino = th[t].ino /\ th'[t].kid = th[t].kid
      /\ th'[t].got = th[t].got /\ bbits' = bbits \ Owned(inode[th[t].kid])
  <2>1. bbits' = bbits \ Owned(inode[th[t].kid]) BY <1>d DEF FreeBlocks
  <2> QED BY <1>0, <1>d, <2>1, FreeBlocksEffect DEF Becomes
<1>3. inode' = inode /\ dirent' = dirent /\ dotdot' = dotdot /\ files' = files /\ ibits' = ibits
  BY DEF FreeBlocks, tree, table
<1>4. /\ ~Making(t) /\ ~Making(t)' /\ ~Writing(t) /\ ~Writing(t)' /\ ~Changing(t) /\ ~Changing(t)'
      /\ (Removed(t)' <=> Removed(t)) /\ (Removing(t)' => Removing(t)) /\ ~Freed(t) /\ Freed(t)' /\ ~Mkdirs(t)' /\ pc'[t] # "write_dir"
  BY <1>0, <1>k, <1>2 DEF Making, Writing, Changing, Removing, Removed, Freed, Mkdirs
<1>5. ~More(t) /\ ~More(t)' /\ (Less(t)' <=> Less(t)) BY <1>0, <1>k, <1>2, <1>4 DEF More, Less
<1>6. Keep(t) /\ LinkInv' /\ TreeInv' /\ SizeInv'
  BY <1>0, <1>2, <1>3, <1>4, <1>5, SameTree DEF MoreFits
<1>7. KeptOK(t)' /\ ChangedOK(t)'
  <2>1. KeptOK(t) BY <1>i DEF InoInv
  <2> QED BY <1>2, <1>3, <1>4, <2>1 DEF KeptOK, ChangedOK
<1>8. /\ InoInv'
      /\ \A u \in Threads : u # t => Grown(u)' = Grown(u) /\ Spare(u)' = Spare(u) /\ Taken(u)' = Taken(u)
  BY <1>i, <1>2, <1>6, <1>7, InoStep
<1>9. BlockInv'
  <2>1. Grown(t)' = Grown(t) /\ Spare(t)' = Spare(t) /\ Taken(t)' = Taken(t)
    BY <1>2, <1>4 DEF Grown, Spare, Taken
  <2>2. \A i \in Inodes : i # th[t].kid => Has(i)' = Has(i) BY <1>2, <1>3, HasSame
  <2>3. Claim'[<<th[t].kid, "inode">>] = {}
    <3>1. PICK i \in Inodes : i = th[t].kid BY <1>b
    <3>2. Has(i)' = {} BY <1>2, <1>4, <3>1, HasNone
    <3> QED BY <3>1, <3>2, ClaimInode
  <2>4. \A k \in Claims : k # <<th[t].kid, "inode">> => Claim'[k] = Claim[k]
    <3>1. \A k \in Claims : \/ Claim'[k] = Claim[k]
                            \/ k \in {<<t, "spare">>, <<t, "grown">>, <<t, "taken">>}
                            \/ \E i \in {th[t].kid} : k = <<i, "inode">>
      <4>1. {th[t].kid} \in SUBSET Inodes /\ \A i \in Inodes \ {th[t].kid} : Has(i)' = Has(i)
        BY <1>b, <2>2
      <4> QED BY <1>8, <4>1, ClaimsOf
    <3> QED BY <2>1, <3>1, ClaimIs, ClaimNext
  <2>6. /\ Claim'[<<th[t].kid, "inode">>] = Claim[<<th[t].kid, "inode">>] \ Owned(inode[th[t].kid])
        /\ Owned(inode[th[t].kid]) \subseteq Claim[<<th[t].kid, "inode">>]
    BY <1>h, <1>c, <2>3
  <2> QED BY <1>i, <1>c, <1>2, <2>4, <2>6, ClaimsShrink
<1>10. KnownInv' BY <1>i, <1>2, <1>3, <1>4, KnownSame DEF Bound
<1> QED BY <1>6, <1>8, <1>9, <1>10 DEF Rules

\* A step that writes one inode, which is not a directory's then.
LEMMA OneInode ==
  ASSUME SafeInv, Rules, NEW t \in Threads, Steps(t), Keep(t), NEW i \in Inodes, dirent' = dirent,
         \A j \in Inodes : j # i => inode'[j] = inode[j] /\ dotdot'[j] = dotdot[j],
         ~IsDir(i)', inode'[i].mode = "file" => inode'[i].links = 1, Sized(inode[i])',
         \/ Unnamed(i) /\ i # Root
         \/ ~IsDir(i) /\ dotdot'[i] = dotdot[i],
         th'[t].cur = th[t].cur, More(t)' <=> More(t), Less(t)' <=> Less(t), MoreFits(t)',
         pc[t] \in {"write_new", "write_dir"} => pc'[t] \in {"write_new", "write_dir"}
  PROVE  LinkInv' /\ TreeInv' /\ SizeInv'
<1>0. LinkInv /\ TreeInv /\ SizeInv BY DEF Rules
<1>1. TreeInv' BY <1>0, TreeSame
<1>2. SizeInv'
  <2>1. \A j \in Inodes : Filling(t, j) => Filling(t, j)' BY DEF Filling
  <2> QED BY <1>0, <2>1, SizeStep
<1>3. LinkInv'
  <2>0. FileLinks /\ (\A j \in Inodes : DirLinks(j)) /\ Dots BY <1>0, LinkParts
  <2>1. \A j \in Inodes : j # i => (j \in Dirs' <=> j \in Dirs) BY DEF Dirs
  <2>2. i \notin Dirs' BY DEF Dirs, IsDir
  <2>3. \A j \in Inodes, n \in Names : dirent'[j][n] \in Dirs' <=> dirent[j][n] \in Dirs
    <3> SUFFICES ASSUME NEW j \in Inodes, NEW n \in Names
                 PROVE dirent[j][n] \in Dirs' <=> dirent[j][n] \in Dirs
      OBVIOUS
    <3>1. CASE Unnamed(i)
      <4>1. dirent[j][n] # i BY <3>1 DEF Unnamed
      <4> QED BY <2>1, <4>1 DEF Dirs
    <3>2. CASE ~IsDir(i)
      <4>1. i \notin Dirs BY <3>2 DEF Dirs, IsDir
      <4> QED BY <2>1, <2>2, <4>1 DEF Dirs
    <3> QED BY <3>1, <3>2
  <2>4. ASSUME NEW j \in Inodes PROVE DirLinks(j)'
    <3>1. CASE j = i BY <3>1 DEF DirLinks
    <3>2. CASE j # i BY <2>0, <2>3, <3>2, DirLinksSame
    <3> QED BY <3>1, <3>2
  <2>5. FileLinks' BY <2>0 DEF FileLinks
  <2>6. Dots'
    <3>1. Root \in Inodes /\ dotdot'[Root] = Root BY <2>0 DEF Dots, Root, Inodes
    <3>2. ASSUME NEW d \in Inodes, NEW n \in Names, dirent'[d][n] \in Dirs'
          PROVE dotdot'[dirent'[d][n]] = d
      <4>1. dirent[d][n] \in Dirs /\ dirent[d][n] # i BY <2>2, <2>3, <3>2
      <4>2. dirent[d][n] \in Inodes /\ dotdot[dirent[d][n]] = d BY <2>0, <4>1 DEF Dots, Dirs
      <4> QED BY <4>1, <4>2
    <3> QED BY <3>1, <3>2 DEF Dots, Root
  <2>7. \A u \in Threads : MoreFits(u)' BY <1>0, OthersMore
  <2> QED BY <2>4, <2>5, <2>6, <2>7, LinkNext
<1> QED BY <1>1, <1>2, <1>3

\* Inodes without a block.
LEMMA NoneOwned ==
  /\ Owned(NoInode) = {} /\ Sized(NoInode) /\ NoInode.mode = "none"
  /\ Owned(NewFile) = {} /\ Sized(NewFile) /\ NewFile.mode = "file" /\ NewFile.links = 1
<1>1. Owned(NoInode) = {} /\ Sized(NoInode) /\ NoInode.mode = "none"
  BY DEF Owned, Sized, NoInode, Indexes
<1>2. \A k \in Indexes : NewFile.ptr[k] = 0 BY NewFileIs DEF NoInode, Indexes
<1>3. NewFile.ind = 0 /\ NewFile.mode = "file" /\ NewFile.links = 1 /\ NewFile.size = 0 BY NewFileIs
<1>4. Owned(NewFile) = {} BY <1>2, <1>3 DEF Owned
<1>5. Sized(NewFile) BY <1>2, <1>3 DEF Sized
<1> QED BY <1>1, <1>3, <1>4, <1>5

\* The emptied inode is written: the rules between the steps still hold.
LEMMA WriteFileRules ==
  ASSUME SafeInv, Rules, NEW t \in Threads, WriteFile(t)
  PROVE  Rules'
<1>0. /\ TypeOK /\ KindOK(t) /\ InoOK(t) /\ pc[t] = "write_file" BY Own DEF WriteFile
<1>i. KnownInv /\ LinkInv /\ TreeInv /\ InoInv /\ SizeInv /\ BlockInv BY DEF Rules
<1>k. th[t].kind \in Truncates BY <1>0 DEF KindOK
<1>a. Emptying(t) /\ Named(t) BY <1>0, <1>k DEF Emptying, Named
<1>b. HasX(t, th[t].kid) /\ th[t].kid \in Inodes /\ ~IsDir(th[t].kid)
  BY <1>a, <1>k, KidAlone, NamedKid
<1>p. PICK i \in Inodes : i = th[t].kid BY <1>b
<1>2. /\ Steps(t) /\ pc'[t] = "register" /\ th' = th
  BY <1>0, WriteFileEffect DEF WriteFile
<1>3. /\ dirent' = dirent /\ dotdot' = dotdot /\ files' = files /\ ibits' = ibits /\ bbits' = bbits
      /\ inode'[i] = NewFile /\ \A j \in Inodes : j # i => inode'[j] = inode[j]
  BY <1>0, <1>p DEF WriteFile, bits, table, TypeOK
<1>4. /\ ~Making(t) /\ ~Making(t)' /\ ~Writing(t) /\ ~Writing(t)' /\ ~Changing(t) /\ ~Changing(t)' /\ ~Removed(t) /\ ~Removed(t)'
      /\ ~Removing(t)' /\ Freed(t) /\ ~Freed(t)' /\ ~Mkdirs(t)' /\ ~Bound(t)
  BY <1>0, <1>k, <1>2 DEF Making, Writing, Changing, Removing, Removed, Freed, Mkdirs, Bound
<1>5. ~More(t) /\ ~More(t)' /\ ~Less(t) /\ ~Less(t)' BY <1>0, <1>k, <1>2, <1>4 DEF More, Less
<1>6. Keep(t) BY <1>b, <1>p, <1>3, KeepAt
<1>s. LinkInv' /\ TreeInv' /\ SizeInv'
  <2>1. ~IsDir(i)' BY <1>3, NoneOwned DEF IsDir
  <2>2. Sized(inode[i])' BY <1>3, NoneOwned DEF Sized
  <2>3. ~IsDir(i) BY <1>b, <1>p
  <2> QED BY <1>0, <1>2, <1>3, <1>4, <1>5, <1>6, <2>1, <2>2, <2>3, NoneOwned, OneInode DEF MoreFits
<1>7. KeptOK(t)' /\ ChangedOK(t)' BY <1>2, <1>4 DEF KeptOK, ChangedOK
<1>8. /\ InoInv'
      /\ \A u \in Threads : u # t => Grown(u)' = Grown(u) /\ Spare(u)' = Spare(u) /\ Taken(u)' = Taken(u)
  BY <1>i, <1>2, <1>6, <1>7, InoStep
<1>9. BlockInv'
  <2>1. Grown(t)' = Grown(t) /\ Spare(t)' = Spare(t) /\ Taken(t)' = Taken(t)
    BY <1>2, <1>4 DEF Grown, Spare, Taken
  <2>2. ASSUME NEW j \in Inodes PROVE Has(j)' = Has(j)
    <3>1. CASE j # i BY <1>p, <1>2, <1>3, <3>1, HasSame
    <3>2. CASE j = i
      <4>1. Has(i) = {} BY <1>p, <1>4 DEF Has, Freed
      <4>2. Has(i)' = {} \/ Has(i)' = Owned(inode[i])' BY DEF Has
      <4>3. Owned(inode[i])' = {} BY <1>3, NoneOwned DEF Owned
      <4> QED BY <3>2, <4>1, <4>2, <4>3
    <3> QED BY <3>1, <3>2
  <2> QED BY <1>i, <1>3, <1>8, <2>1, <2>2, ClaimsAll, ClaimsSame
<1>10. KnownInv' BY <1>i, <1>2, <1>3, <1>4, KnownSame
<1> QED BY <1>s, <1>8, <1>9, <1>10 DEF Rules

\* The removed inode is cleared: the rules between the steps still hold.
LEMMA ClearInodeRules ==
  ASSUME SafeInv, Rules, NEW t \in Threads, ClearInode(t)
  PROVE  Rules'
<1>0. /\ TypeOK /\ KindOK(t) /\ InoOK(t) /\ HeldOK(t) /\ pc[t] = "clear_inode"
  BY Own DEF ClearInode, SafeInv, ThereInv
<1>i. KnownInv /\ LinkInv /\ TreeInv /\ InoInv /\ SizeInv /\ BlockInv BY DEF Rules
<1>k. th[t].kind \in {"unlink", "rmdir"} BY <1>0 DEF KindOK
<1>a. Removing(t) /\ Removed(t) BY <1>0 DEF Removing, Removed
<1>b. /\ HasX(t, th[t].kid) /\ th[t].kid \in Inodes /\ Unnamed(th[t].kid) /\ th[t].kid # Root
      /\ th[t].cur \in Inodes /\ th[t].cur # th[t].kid
  BY <1>0, <1>a, KidAlone DEF HeldOK
<1>p. PICK i \in Inodes : i = th[t].kid BY <1>b
<1>2. /\ Steps(t) /\ pc'[t] = "free_inode" /\ th' = th
  BY <1>0, ClearInodeEffect DEF ClearInode
<1>3. /\ dirent' = dirent /\ files' = files /\ ibits' = ibits /\ bbits' = bbits
      /\ inode'[i] = NoInode /\ \A j \in Inodes : j # i => inode'[j] = inode[j] /\ dotdot'[j] = dotdot[j]
  BY <1>0, <1>p DEF ClearInode, bits, table, TypeOK
<1>4. /\ ~Making(t) /\ ~Making(t)' /\ ~Writing(t) /\ ~Writing(t)' /\ ~Changing(t) /\ ~Changing(t)' /\ Removed(t)'
      /\ Freed(t) /\ ~Freed(t)' /\ ~Mkdirs(t)' /\ Bound(t)'
  BY <1>0, <1>k, <1>2 DEF Making, Writing, Changing, Removing, Removed, Freed, Mkdirs, Bound
<1>5. ~More(t) /\ ~More(t)' /\ (Less(t)' <=> Less(t)) BY <1>0, <1>a, <1>k, <1>2, <1>4 DEF More, Less
<1>6. Keep(t) BY <1>b, <1>p, <1>3, KeepAt
<1>s. LinkInv' /\ TreeInv' /\ SizeInv'
  <2>1. ~IsDir(i)' /\ inode'[i].mode # "file" BY <1>3, NoneOwned DEF IsDir
  <2>2. Sized(inode[i])' BY <1>3, NoneOwned DEF Sized
  <2>3. Unnamed(i) /\ i # Root BY <1>b, <1>p
  <2> QED BY <1>0, <1>2, <1>3, <1>4, <1>5, <1>6, <2>1, <2>2, <2>3, OneInode DEF MoreFits
<1>7. KeptOK(t)' /\ ChangedOK(t)'
  <2>1. KeptOK(t) BY <1>i DEF InoInv
  <2> QED BY <1>a, <1>b, <1>p, <1>2, <1>3, <1>4, <2>1 DEF KeptOK, ChangedOK
<1>8. /\ InoInv'
      /\ \A u \in Threads : u # t => Grown(u)' = Grown(u) /\ Spare(u)' = Spare(u) /\ Taken(u)' = Taken(u)
  BY <1>i, <1>2, <1>6, <1>7, InoStep
<1>9. BlockInv'
  <2>1. Grown(t)' = Grown(t) /\ Spare(t)' = Spare(t) /\ Taken(t)' = Taken(t)
    BY <1>2, <1>4 DEF Grown, Spare, Taken
  <2>2. ASSUME NEW j \in Inodes PROVE Has(j)' = Has(j)
    <3>1. CASE j # i BY <1>p, <1>2, <1>3, <3>1, HasSame
    <3>2. CASE j = i
      <4>1. Has(i) = {} BY <1>p, <1>4 DEF Has, Freed
      <4>2. Has(i)' = {} \/ Has(i)' = Owned(inode[i])' BY DEF Has
      <4>3. Owned(inode[i])' = {} BY <1>3, NoneOwned DEF Owned
      <4> QED BY <3>2, <4>1, <4>2, <4>3
    <3> QED BY <3>1, <3>2
  <2> QED BY <1>i, <1>3, <1>8, <2>1, <2>2, ClaimsAll, ClaimsSame
<1>10. KnownInv' BY <1>i, <1>2, <1>3, <1>4, KnownSame
<1> QED BY <1>s, <1>8, <1>9, <1>10 DEF Rules

\* Write_inode after a chunk: the rules between the steps still hold.
LEMMA StoreRules ==
  ASSUME SafeInv, Rules, NEW t \in Threads, Store(t)
  PROVE  Rules'
<1>0. /\ TypeOK /\ KindOK(t) /\ InoOK(t) /\ pc[t] = "store" BY Own DEF Store
<1>i. KnownInv /\ LinkInv /\ TreeInv /\ InoInv /\ SizeInv /\ BlockInv BY DEF Rules
<1>k. th[t].kind \in Writes BY <1>0 DEF KindOK
<1>a. Writing(t) /\ Changing(t) BY <1>0 DEF Writing, Changing
<1>b. /\ HasX(t, files[th[t].fd]) /\ files[th[t].fd] \in Inodes /\ ~IsDir(files[th[t].fd])
  <2>1. ~IsDir(files[th[t].fd]) BY <1>a, WritingOpen DEF SafeInv, OpenInv
  <2> QED BY <1>a, <2>1, WritingX, WritingFile
<1>p. PICK i \in Inodes : i = files[th[t].fd] BY <1>b
<1>o. /\ th[t].ino.mode = inode[i].mode /\ th[t].ino.links = inode[i].links
      /\ Sized(th[t].ino) /\ Owned(inode[i]) \subseteq Owned(th[t].ino)
  <2>1. ChangedOK(t) BY <1>i DEF InoInv
  <2>2. Target(t) = i BY <1>a, <1>p DEF Target
  <2> QED BY <1>a, <2>1, <2>2 DEF ChangedOK
<1>2. /\ Steps(t) /\ pc'[t] = "unlock_file" /\ th' = th
  BY <1>0, StoreEffect DEF Store
<1>3. /\ dirent' = dirent /\ dotdot' = dotdot /\ files' = files /\ ibits' = ibits /\ bbits' = bbits
      /\ inode'[i] = th[t].ino /\ \A j \in Inodes : j # i => inode'[j] = inode[j]
  BY <1>0, <1>p DEF Store, bits, table, TypeOK
<1>4. /\ ~Making(t) /\ ~Making(t)' /\ ~Writing(t)' /\ ~Changing(t)' /\ ~Removed(t) /\ ~Removed(t)'
      /\ ~Removing(t)' /\ ~Freed(t) /\ ~Freed(t)' /\ ~Mkdirs(t)' /\ ~Bound(t)
  BY <1>0, <1>k, <1>2 DEF Making, Writing, Changing, Removing, Removed, Freed, Mkdirs, Bound
<1>5. ~More(t) /\ ~More(t)' /\ ~Less(t) /\ ~Less(t)' BY <1>0, <1>k, <1>2, <1>4 DEF More, Less
<1>6. Keep(t) BY <1>b, <1>p, <1>3, KeepAt
<1>s. LinkInv' /\ TreeInv' /\ SizeInv'
  <2>3. ~IsDir(i) BY <1>b, <1>p
  <2>1. ~IsDir(i)' BY <1>3, <1>o, <2>3 DEF IsDir
  <2>2. Sized(inode[i])' BY <1>3, <1>o DEF Sized
  <2>4. inode'[i].mode = "file" => inode'[i].links = 1
    <3>1. FileLinks BY <1>i, LinkParts
    <3> QED BY <1>3, <1>o, <3>1 DEF FileLinks
  <2> QED BY <1>0, <1>2, <1>3, <1>4, <1>5, <1>6, <2>1, <2>2, <2>3, <2>4, OneInode DEF MoreFits
<1>7. KeptOK(t)' /\ ChangedOK(t)' BY <1>2, <1>4 DEF KeptOK, ChangedOK
<1>8. /\ InoInv'
      /\ \A u \in Threads : u # t => Grown(u)' = Grown(u) /\ Spare(u)' = Spare(u) /\ Taken(u)' = Taken(u)
  BY <1>i, <1>2, <1>6, <1>7, InoStep
<1>9. BlockInv'
  <2>1. Spare(t)' = Spare(t) /\ Taken(t)' = Taken(t) BY <1>2, <1>4 DEF Spare, Taken
  <2>2. \A j \in Inodes \ {i} : Has(j)' = Has(j) BY <1>2, <1>3, <1>4, HasSame
  <2>3. Has(i) = Owned(inode[i]) /\ Has(i)' = Owned(th[t].ino)
    <3>1. \A u \in Threads : Freed(u) => th[u].kid # i BY <1>b, <1>p, <1>4, FreedIs
    <3>2. \A u \in Threads : Freed(u)' => th'[u].kid # i BY <1>2, <1>4, <3>1 DEF Steps, Freed
    <3>3. Has(i)' = Owned(inode[i])' BY <3>2, HasNext
    <3>4. Owned(inode[i])' = Owned(th[t].ino) BY <1>3 DEF Owned
    <3> QED BY <3>1, <3>3, <3>4, HasIs
  <2>4. Grown(t) = Owned(th[t].ino) \ Owned(inode[i]) /\ Grown(t)' = {}
    BY <1>a, <1>p, <1>4 DEF Grown, Target
  <2>5. /\ <<i, "inode">> \in Claims /\ Claim[<<i, "inode">>] = Has(i) /\ Claim'[<<i, "inode">>] = Has(i)'
        /\ <<t, "grown">> \in Claims /\ Claim[<<t, "grown">>] = Grown(t) /\ Claim'[<<t, "grown">>] = Grown(t)'
    BY ClaimIs, ClaimNext
  <2>6. \A k \in Claims : k # <<i, "inode">> /\ k # <<t, "grown">> => Claim'[k] = Claim[k]
    <3>1. \A k \in Claims : \/ Claim'[k] = Claim[k]
                            \/ k \in {<<t, "spare">>, <<t, "grown">>, <<t, "taken">>}
                            \/ \E j \in {i} : k = <<j, "inode">>
      <4>1. {i} \in SUBSET Inodes OBVIOUS
      <4> QED BY <1>8, <2>2, <4>1, ClaimsOf
    <3> QED BY <2>1, <3>1, ClaimIs, ClaimNext
  <2>7. Claim'[<<t, "grown">>] = {} /\ Claim'[<<i, "inode">>] = Claim[<<i, "inode">>] \cup Claim[<<t, "grown">>] \cup {}
    BY <1>o, <2>3, <2>4, <2>5
  <2>8. {} \in SUBSET Blocks /\ {} \cap bbits = {} /\ bbits' = bbits \cup {} /\ <<t, "grown">> # <<i, "inode">>
    BY <1>3
  <2> QED BY <1>i, <2>5, <2>6, <2>7, <2>8, ClaimsMove
<1>10. KnownInv' BY <1>i, <1>2, <1>3, <1>4, KnownSame
<1> QED BY <1>s, <1>8, <1>9, <1>10 DEF Rules

-----------------------------------------------------------------------------
(* Steps that change a directory *)

\* The number of entries of a directory, and one more or some less.
LEMMA EntriesNat ==
  ASSUME NEW d
  PROVE  Entries(d) \in Nat /\ IsFiniteSet({n \in Names : dirent[d][n] # 0}) /\ IsFiniteSet({n \in Names : dirent'[d][n] # 0})
<1>1. IsFiniteSet({n \in Names : dirent[d][n] # 0}) /\ IsFiniteSet({n \in Names : dirent'[d][n] # 0})
  BY NamesAssumption, FS_Subset
<1> QED BY <1>1, FS_CardinalityType DEF Entries

\* A directory has one entry more.
LEMMA EntriesAdd ==
  ASSUME NEW d \in Inodes, NEW m \in Names, dirent[d][m] = 0, dirent'[d][m] # 0,
         \A n \in Names : n # m => dirent'[d][n] = dirent[d][n]
  PROVE  Entries(d)' = Entries(d) + 1
<1>1. {n \in Names : dirent'[d][n] # 0} = {n \in Names : dirent[d][n] # 0} \cup {m} OBVIOUS
<1>2. m \notin {n \in Names : dirent[d][n] # 0} OBVIOUS
<1>3. Cardinality({n \in Names : dirent[d][n] # 0} \cup {m}) = Cardinality({n \in Names : dirent[d][n] # 0}) + 1
  <2>1. PICK S : S = {n \in Names : dirent[d][n] # 0} OBVIOUS
  <2>2. IsFiniteSet(S) /\ m \notin S BY <1>2, <2>1, EntriesNat
  <2>3. Cardinality(S \cup {m}) = Cardinality(S) + 1 BY <2>2, FS_AddElement
  <2> QED BY <2>1, <2>3
<1> QED BY <1>1, <1>3 DEF Entries

\* A directory has one entry less.
LEMMA EntriesLess ==
  ASSUME NEW d \in Inodes, \A n \in Names : dirent'[d][n] # 0 => dirent[d][n] # 0
  PROVE  Entries(d)' <= Entries(d)
<1>1. {n \in Names : dirent'[d][n] # 0} \subseteq {n \in Names : dirent[d][n] # 0} OBVIOUS
<1>2. Cardinality({n \in Names : dirent'[d][n] # 0}) <= Cardinality({n \in Names : dirent[d][n] # 0})
  BY <1>1, EntriesNat, FS_Subset
<1> QED BY <1>2 DEF Entries

\* A directory a call works in is the root, or is named.
LEMMA CurNamed ==
  ASSUME SafeInv, KnownInv, NEW t \in Threads, Making(t)
  PROVE  th[t].cur = Root \/ \E d \in Inodes, n \in Names : dirent[d][n] = th[t].cur
<1>1. th[t].cur \in ibits BY MakingIs
<1>2. \A u \in Threads : Making(u) => th[u].kid # th[t].cur BY MakingIs
<1>3. \A u \in Threads : Removed(u) => th[u].kid # th[t].cur BY RemovalIs DEF Removing
<1>4. th[t].cur = Root \/ ~Unnamed(th[t].cur) BY <1>1, <1>2, <1>3 DEF KnownInv
<1> QED BY <1>4 DEF Unnamed

\* The directory a call works in names what the call has made.
LEMMA AddRules ==
  ASSUME SafeInv, Rules, NEW t \in Threads, Steps(t), Making(t), pc[t] # "write_new", pc'[t] = "write_new",
         inode' = inode, dotdot' = dotdot, files' = files, ibits' = ibits,
         dirent' = [dirent EXCEPT ![th[t].cur][Name(t)] = th[t].kid],
         th'[t].cur = th[t].cur, th'[t].kid = th[t].kid, th'[t].kind = th[t].kind
  PROVE  Keep(t) /\ KnownInv' /\ LinkInv' /\ TreeInv' /\ SizeInv' /\ Entries(th[t].cur)' = Entries(th[t].cur) + 1
<1>0. TypeOK /\ KnownInv /\ LinkInv /\ TreeInv /\ SizeInv BY DEF Rules, SafeInv
<1>m. /\ th[t].kid \in Inodes /\ inode[th[t].kid] = NoInode /\ th[t].cur \in Inodes /\ Name(t) \in Names
      /\ Child(t) = 0 /\ Unnamed(th[t].kid) /\ HasX(t, th[t].cur) /\ th[t].kid # 0
  BY MakingIs, InDir DEF Inodes
<1>p. PICK c \in Inodes, m \in Names, i \in Inodes : c = th[t].cur /\ m = Name(t) /\ i = th[t].kid
  BY <1>m
<1>1. /\ dirent'[c][m] = i /\ dirent[c][m] = 0 /\ i # 0
      /\ \A d \in Inodes, n \in Names : d # c \/ n # m => dirent'[d][n] = dirent[d][n]
      /\ \A d \in Inodes : d # c => dirent'[d] = dirent[d]
  <2>1. /\ dirent'[th[t].cur][Name(t)] = th[t].kid
        /\ \A d \in Inodes, n \in Names : d # th[t].cur \/ n # Name(t) => dirent'[d][n] = dirent[d][n]
        /\ \A d \in Inodes : d # th[t].cur => dirent'[d] = dirent[d]
    BY <1>0, <1>m, EntrySet
  <2>2. dirent[c][m] = 0 /\ i # 0 BY <1>p, <1>m DEF Child
  <2> QED BY <1>p, <2>1, <2>2
<1>2. Keep(t) BY <1>m, <1>p, <1>1, KeepAt
<1>3. KnownInv'
  <2>1. Bound(t)' BY DEF Bound, Making
  <2>2. \A j : ~Unnamed(j) /\ j # 0 => ~Unnamed(j)' BY <1>1 DEF Unnamed
  <2>3. \A j \in ibits : j # 0 BY <1>0 DEF TypeOK, Inodes
  <2> QED BY <1>0, <2>1, <2>2, <2>3, KnownStep
<1>4. TreeInv'
  <2> SUFFICES ASSUME NEW S \in SUBSET Inodes, Root \in S,
                      \A d \in S, n \in Names : dirent'[d][n] # 0 => dirent'[d][n] \in S
               PROVE  \A d \in Inodes, n \in Names : dirent'[d][n] # 0 => dirent'[d][n] \in S
    BY DEF TreeInv, Root
  <2>1. \A d \in S, n \in Names : dirent[d][n] # 0 => dirent[d][n] \in S
    <3> SUFFICES ASSUME NEW d \in S, NEW n \in Names, dirent[d][n] # 0 PROVE dirent[d][n] \in S
      OBVIOUS
    <3>1. d # c \/ n # m BY <1>1
    <3>2. dirent'[d][n] = dirent[d][n] BY <1>1, <3>1
    <3> QED BY <3>2
  <2>2. \A d \in Inodes, n \in Names : dirent[d][n] # 0 => dirent[d][n] \in S
    BY <1>0, <2>1 DEF TreeInv
  <2>3. c \in S
    <3>1. c = Root \/ \E d \in Inodes, n \in Names : dirent[d][n] = c BY <1>0, <1>p, CurNamed
    <3>2. c # 0 BY DEF Inodes
    <3> QED BY <2>2, <3>1, <3>2
  <2>4. i \in S BY <1>1, <2>3
  <2> QED BY <1>1, <2>2, <2>4
<1>5. SizeInv'
  <2>1. Filling(t, c)' BY <1>p DEF Filling
  <2>2. Sized(inode[c])'
    <3>1. Sized(inode[c]) BY <1>0 DEF SizeInv
    <3> QED BY <3>1 DEF Sized
  <2>3. \A j \in Inodes : j # c => ~Filling(t, j) BY <1>p DEF Filling
  <2> QED BY <1>0, <1>1, <2>1, <2>2, <2>3, SizeStep
<1>6. LinkInv'
  <2>0. FileLinks /\ (\A j \in Inodes : DirLinks(j)) /\ Dots /\ MoreFits(t) BY <1>0, LinkParts
  <2>1. Dirs' = Dirs /\ i \notin Dirs /\ 0 \notin Dirs BY <1>m, <1>p DEF Dirs, NoInode, Inodes
  <2>2. \A d \in Inodes, n \in Names : dirent'[d][n] \in Dirs' <=> dirent[d][n] \in Dirs BY <1>1, <2>1
  <2>3. ~More(t) /\ ~Less(t) /\ ~More(t)' /\ ~Less(t)' BY DEF More, Less, Removed, Making
  <2>4. \A j \in Inodes : DirLinks(j)' BY <2>0, <2>2, <2>3, DirLinksSame
  <2>5. FileLinks' BY <2>0 DEF FileLinks
  <2>6. Dots' BY <1>1, <2>0, <2>1, <2>2 DEF Dots, Root
  <2>7. MoreFits(t)' BY <2>0 DEF MoreFits, Mkdirs
  <2>8. \A u \in Threads : MoreFits(u)' BY <1>0, <1>2, <2>7, OthersMore
  <2> QED BY <2>4, <2>5, <2>6, <2>8, LinkNext
<1>7. Entries(th[t].cur)' = Entries(th[t].cur) + 1
  <2>1. Entries(c)' = Entries(c) + 1 BY <1>1, EntriesAdd
  <2> QED BY <1>p, <2>1 DEF Entries
<1> QED BY <1>2, <1>3, <1>4, <1>5, <1>6, <1>7

\* Dir_add: the rules between the steps still hold.
LEMMA DirAddRules ==
  ASSUME SafeInv, Rules, NEW t \in Threads, DirAdd(t)
  PROVE  Rules'
<1>0. /\ TypeOK /\ KindOK(t) /\ InoOK(t) /\ th[t].ino \in InodeType /\ pc[t] = "dir_add"
  BY Own DEF DirAdd
<1>i. KnownInv /\ LinkInv /\ TreeInv /\ InoInv /\ SizeInv /\ BlockInv BY DEF Rules
<1>k. th[t].kind \in Creates \cup {"mkdir"} BY <1>0 DEF KindOK
<1>a. Making(t) BY <1>0 DEF Making
<1>b. th[t].cur \in Inodes /\ IsDir(th[t].cur) /\ (\A u \in Threads : u # t => th[u].cur # th[t].cur)
  BY <1>a, MakingIs, InDir
<1>o. th[t].ino = inode[th[t].cur]
  <2>1. KeptOK(t) BY <1>i DEF InoInv
  <2> QED BY <1>0, <1>a, <2>1 DEF KeptOK
<1>2. /\ Steps(t) /\ th' = th /\ pc'[t] \in {"take", "write_new"}
      /\ (pc'[t] = "take" => dirent' = dirent)
      /\ (pc'[t] = "write_new" => /\ dirent' = [dirent EXCEPT ![th[t].cur][Name(t)] = th[t].kid]
                                  /\ Entries(th[t].cur) < Slots * th[t].ino.size - 2)
  <2>1. Steps(t) /\ th' = th BY <1>0, DirAddEffect DEF DirAdd
  <2>2. CASE dirent' = dirent /\ Goto(t, "take")
    <3>1. pc'[t] = "take" BY <1>0, <2>2 DEF Goto, TypeOK
    <3> QED BY <2>1, <2>2, <3>1
  <2>3. CASE /\ dirent' = [dirent EXCEPT ![th[t].cur][Name(t)] = th[t].kid]
             /\ Entries(th[t].cur) < Slots * th[t].ino.size - 2 /\ Goto(t, "write_new")
    <3>1. pc'[t] = "write_new" BY <1>0, <2>3 DEF Goto, TypeOK
    <3> QED BY <2>1, <2>3, <3>1
  <2> QED BY <2>2, <2>3 DEF DirAdd
<1>3. inode' = inode /\ dotdot' = dotdot /\ files' = files /\ ibits' = ibits /\ bbits' = bbits
  BY DEF DirAdd, bits, table
<1>4. /\ Making(t)' /\ ~Writing(t) /\ ~Writing(t)' /\ ~Changing(t) /\ (Changing(t)' <=> pc'[t] = "write_new") /\ ~Removed(t) /\ ~Removed(t)'
      /\ ~Removing(t)' /\ ~Freed(t) /\ ~Freed(t)' /\ (Mkdirs(t)' <=> Mkdirs(t))
  BY <1>0, <1>k, <1>2 DEF Making, Writing, Changing, Removing, Removed, Freed, Mkdirs
<1>5. ~More(t) /\ ~More(t)' /\ ~Less(t) /\ ~Less(t)' BY <1>0, <1>k, <1>2, <1>4 DEF More, Less
<1>6. Keep(t) /\ KnownInv' /\ LinkInv' /\ TreeInv' /\ SizeInv'
      /\ (pc'[t] = "write_new" => Entries(th[t].cur)' = Entries(th[t].cur) + 1)
  <2>1. CASE pc'[t] = "take"
    <3>1. MoreFits(t)'
      <4>1. MoreFits(t) BY <1>i, LinkParts
      <4> QED BY <1>2, <1>3, <1>4, <4>1 DEF MoreFits
    <3>2. Keep(t) /\ LinkInv' /\ TreeInv' /\ SizeInv' BY <1>0, <1>2, <1>3, <1>5, <2>1, <3>1, SameTree
    <3>3. KnownInv' BY <1>i, <1>2, <1>3, <1>4, <2>1, KnownSame DEF Bound
    <3> QED BY <2>1, <3>2, <3>3
  <2>2. CASE pc'[t] = "write_new"
    BY <1>0, <1>a, <1>2, <1>3, <2>2, AddRules
  <2> QED BY <1>2, <2>1, <2>2
<1>t. pc'[t] = "write_new" => Target(t)' = th[t].cur BY <1>2, <1>4 DEF Target
<1>7. KeptOK(t)' BY <1>2, <1>3, <1>o DEF KeptOK
<1>s. ChangedOK(t)'
  <2> SUFFICES ASSUME pc'[t] = "write_new" PROVE ChangedOK(t)' BY <1>4 DEF ChangedOK
  <2>1. Sized(inode[th[t].cur]) BY <1>i, <1>b DEF SizeInv
  <2>2. th[t].ino.size \in Nat BY <1>0 DEF InodeType
  <2>3. Entries(th[t].cur) \in Nat /\ Slots * th[t].ino.size \in Int
    <3>1. Entries(th[t].cur) \in Nat BY EntriesNat
    <3>2. Slots \in Int /\ th[t].ino.size \in Int BY <2>2
    <3>3. Slots * th[t].ino.size \in Int BY <3>2
    <3> QED BY <3>1, <3>3
  <2>4. Entries(th[t].cur) + 1 <= Slots * th[t].ino.size - 2 BY <1>2, <2>3
  <2>7. (Entries(th[t].cur) <= Slots * th[t].ino.size - 2)' BY <1>2, <1>6, <2>4
  <2>5. Sized(th[t].ino)' BY <1>2, <1>o, <2>1 DEF Sized
  <2>6. Owned(th[t].ino)' = Owned(inode[Target(t)])' BY <1>2, <1>3, <1>o, <1>t DEF Owned
  <2> QED BY <1>2, <1>3, <1>o, <1>t, <2>5, <2>6, <2>7 DEF ChangedOK
<1>8. /\ InoInv'
      /\ \A u \in Threads : u # t => Grown(u)' = Grown(u) /\ Spare(u)' = Spare(u) /\ Taken(u)' = Taken(u)
  BY <1>i, <1>2, <1>6, <1>7, <1>s, InoStep
<1>9. BlockInv'
  <2>0. pc'[t] = "write_new" => Owned(th[t].ino)' = Owned(inode[Target(t)])'
    BY <1>2, <1>3, <1>o, <1>t DEF Owned
  <2>1. Grown(t)' = Grown(t) /\ Taken(t)' = Taken(t) BY <1>0, <1>2, <1>4, <2>0 DEF Grown, Taken
  <2>3. Spare(t)' = Spare(t) BY <1>0, <1>a, <1>2, <1>4, SpareIs
  <2>2. \A i \in Inodes : Has(i)' = Has(i) BY <1>2, <1>3, <1>4, HasSame
  <2> QED BY <1>i, <1>3, <1>8, <2>1, <2>2, <2>3, ClaimsAll, ClaimsSame
<1> QED BY <1>6, <1>8, <1>9 DEF Rules

\* The subdirectories of a directory, and one more or one less.
LEMMA SubdirsFinite ==
  ASSUME NEW d
  PROVE  Cardinality(Subdirs(d)) \in Nat /\ IsFiniteSet(Subdirs(d)) /\ IsFiniteSet(Subdirs(d)')
<1>1. Subdirs(d) \subseteq Names /\ Subdirs(d)' \subseteq Names BY DEF Subdirs
<1>2. IsFiniteSet(Subdirs(d)) /\ IsFiniteSet(Subdirs(d)') BY <1>1, NamesAssumption, FS_Subset
<1> QED BY <1>2, FS_CardinalityType

\* A directory has one subdirectory more.
LEMMA OneSubdir ==
  ASSUME NEW d, NEW m \in Names, m \notin Subdirs(d), Subdirs(d)' = Subdirs(d) \cup {m}
  PROVE  Cardinality(Subdirs(d)') = Cardinality(Subdirs(d)) + 1
<1>1. PICK S : S = Subdirs(d) OBVIOUS
<1>2. Cardinality(S \cup {m}) = Cardinality(S) + 1 BY <1>1, SubdirsFinite, FS_AddElement
<1> QED BY <1>1, <1>2

\* A directory has one subdirectory less.
LEMMA LessSubdir ==
  ASSUME NEW d, NEW m \in Names, m \in Subdirs(d), Subdirs(d)' = Subdirs(d) \ {m}
  PROVE  Cardinality(Subdirs(d)') + 1 = Cardinality(Subdirs(d))
<1>1. PICK S : S = Subdirs(d)' OBVIOUS
<1>2. m \notin S /\ Subdirs(d) = S \cup {m} BY <1>1
<1>3. Cardinality(S \cup {m}) = Cardinality(S) + 1 BY <1>1, <1>2, SubdirsFinite, FS_AddElement
<1> QED BY <1>1, <1>2, <1>3

\* Dir_remove: the rules between the steps still hold.
LEMMA DirRemoveRules ==
  ASSUME SafeInv, Rules, NEW t \in Threads, DirRemove(t)
  PROVE  Rules'
<1>0. /\ TypeOK /\ KindOK(t) /\ InoOK(t) /\ pc[t] = "dir_remove" BY Own DEF DirRemove
<1>i. KnownInv /\ LinkInv /\ TreeInv /\ InoInv /\ SizeInv /\ BlockInv /\ NameInv BY DEF Rules, SafeInv
<1>k. th[t].kind \in {"unlink", "rmdir"} BY <1>0 DEF KindOK
<1>a. Removing(t) /\ Named(t) BY <1>0 DEF Removing, Named
<1>m. /\ th[t].kid \in Inodes /\ th[t].kid # 0 /\ th[t].cur \in Inodes /\ Name(t) \in Names /\ IsDir(th[t].cur)
      /\ Child(t) = th[t].kid /\ HasX(t, th[t].cur) /\ (IsDir(th[t].kid) <=> th[t].kind = "rmdir")
      /\ (\A n \in Names : dirent[th[t].kid][n] = 0)
      /\ (\A u \in Threads : u # t => th[u].cur # th[t].cur)
  <2>1. th[t].kid \in Inodes /\ Child(t) = th[t].kid /\ (IsDir(th[t].kid) <=> th[t].kind = "rmdir")
    BY <1>a, NamedKid
  <2>2. HasX(t, th[t].cur) /\ th[t].cur \in Inodes /\ Name(t) \in Names BY <1>a, InDir
  <2>3. \A n \in Names : dirent[th[t].kid][n] = 0 BY <1>a, RemovingIs
  <2>4. th[t].kid # 0 /\ IsDir(th[t].cur) /\ (\A u \in Threads : u # t => th[u].cur # th[t].cur)
    BY <1>a, RemovalIs
  <2> QED BY <2>1, <2>2, <2>3, <2>4
<1>p. PICK c \in Inodes, m \in Names, i \in Inodes : c = th[t].cur /\ m = Name(t) /\ i = th[t].kid
  BY <1>m
<1>2. /\ Steps(t) /\ th' = th /\ pc'[t] = "free_blocks" BY <1>0, DirRemoveEffect DEF DirRemove
<1>3. inode' = inode /\ dotdot' = dotdot /\ files' = files /\ ibits' = ibits /\ bbits' = bbits
  BY DEF DirRemove, bits, table
<1>4. /\ ~Making(t) /\ ~Making(t)' /\ ~Writing(t) /\ ~Writing(t)' /\ ~Changing(t) /\ ~Changing(t)' /\ ~Removed(t) /\ Removed(t)'
      /\ ~Freed(t) /\ ~Freed(t)' /\ ~Mkdirs(t)' /\ ~Bound(t) /\ Bound(t)'
  BY <1>0, <1>k, <1>2 DEF Making, Writing, Changing, Removing, Removed, Freed, Mkdirs, Bound
<1>5. ~More(t) /\ ~More(t)' /\ ~Less(t) /\ (Less(t)' <=> th[t].kind = "rmdir")
  BY <1>0, <1>k, <1>2, <1>4 DEF More, Less
<1>d. /\ dirent'[c][m] = 0 /\ dirent[c][m] = i /\ i # 0
      /\ \A d \in Inodes, n \in Names : d # c \/ n # m => dirent'[d][n] = dirent[d][n]
      /\ \A d \in Inodes : d # c => dirent'[d] = dirent[d]
  <2>1. /\ dirent'[th[t].cur][Name(t)] = 0
        /\ \A d \in Inodes, n \in Names : d # th[t].cur \/ n # Name(t) => dirent'[d][n] = dirent[d][n]
        /\ \A d \in Inodes : d # th[t].cur => dirent'[d] = dirent[d]
    BY <1>0, <1>m, EntrySet DEF DirRemove
  <2>2. dirent[c][m] = i /\ i # 0 BY <1>p, <1>m DEF Child
  <2> QED BY <1>p, <2>1, <2>2
<1>u. \A d \in Inodes, n \in Names : d # c \/ n # m => dirent[d][n] # i BY <1>i, <1>d DEF NameInv
<1>6. Keep(t) BY <1>m, <1>p, <1>3, <1>d, KeepAt
<1>n. KnownInv'
  <2>1. \A j \in ibits : ~Unnamed(j) /\ j # i => ~Unnamed(j)'
    <3> SUFFICES ASSUME NEW j \in ibits, ~Unnamed(j), j # i PROVE ~Unnamed(j)' OBVIOUS
    <3>1. PICK d \in Inodes, n \in Names : dirent[d][n] = j BY DEF Unnamed
    <3>2. dirent'[d][n] = j BY <1>d, <3>1
    <3> QED BY <3>2 DEF Unnamed
  <2>2. th'[t].kid = i BY <1>2, <1>p
  <2> QED BY <1>i, <1>2, <1>3, <1>4, <2>1, <2>2, KnownStep
<1>t. TreeInv'
  <2> SUFFICES ASSUME NEW S \in SUBSET Inodes, Root \in S,
                      \A d \in S, n \in Names : dirent'[d][n] # 0 => dirent'[d][n] \in S
               PROVE  \A d \in Inodes, n \in Names : dirent'[d][n] # 0 => dirent'[d][n] \in S
    BY DEF TreeInv, Root
  <2>1. \A d \in S \cup {i}, n \in Names : dirent[d][n] # 0 => dirent[d][n] \in S \cup {i}
    <3> SUFFICES ASSUME NEW d \in S \cup {i}, NEW n \in Names, dirent[d][n] # 0
                 PROVE dirent[d][n] \in S \cup {i}
      OBVIOUS
    <3>1. d # i BY <1>m, <1>p
    <3>2. CASE d = c /\ n = m BY <1>d, <3>2
    <3>3. CASE d # c \/ n # m
      <4>1. dirent'[d][n] = dirent[d][n] BY <1>d, <3>3
      <4> QED BY <3>1, <4>1
    <3> QED BY <3>2, <3>3
  <2>2. S \cup {i} \in SUBSET Inodes /\ Root \in S \cup {i} OBVIOUS
  <2>3. \A d \in Inodes, n \in Names : dirent[d][n] # 0 => dirent[d][n] \in S \cup {i}
    BY <1>i, <2>1, <2>2 DEF TreeInv
  <2> SUFFICES ASSUME NEW d \in Inodes, NEW n \in Names, dirent'[d][n] # 0 PROVE dirent'[d][n] \in S
    OBVIOUS
  <2>4. d # c \/ n # m BY <1>d
  <2>5. dirent'[d][n] = dirent[d][n] /\ dirent[d][n] # i BY <1>d, <1>u, <2>4
  <2> QED BY <2>3, <2>5
<1>s. SizeInv'
  <2>1. Sized(inode[c])'
    <3>1. Sized(inode[c]) BY <1>i DEF SizeInv
    <3> QED BY <1>3, <3>1 DEF Sized
  <2>2. \A u \in Threads : ~Filling(u, c) BY <1>0, <1>m, <1>p DEF Filling
  <2>3. Entries(c) <= Slots * inode[c].size - 2 BY <1>i, <1>m, <1>p, <2>2, FitsIs
  <2>4. Entries(c)' <= Entries(c)
    <3>1. \A n \in Names : dirent'[c][n] # 0 => dirent[c][n] # 0 BY <1>d
    <3> QED BY <3>1, EntriesLess
  <2>5. Entries(c)' \in Nat /\ Entries(c) \in Nat
    <3>1. Entries(c)' \in Nat BY EntriesNat, FS_CardinalityType DEF Entries
    <3> QED BY <3>1, EntriesNat
  <2>6. Fits(c)'
    <3>1. inode[c].size \in Int BY <1>0 DEF TypeOK, InodeType
    <3>2. Slots * inode[c].size \in Int BY <3>1
    <3> QED BY <1>3, <2>3, <2>4, <2>5, <3>2 DEF Fits
  <2>7. \A j \in Inodes : ~Filling(t, j) BY <1>0 DEF Filling
  <2> QED BY <1>i, <1>2, <1>3, <1>d, <2>1, <2>6, <2>7, SizeStep
<1>l. LinkInv'
  <2>0. FileLinks /\ (\A j \in Inodes : DirLinks(j)) /\ Dots BY <1>i, LinkParts
  <2>1. Dirs' = Dirs /\ 0 \notin Dirs BY <1>3 DEF Dirs, Inodes
  <2>2. \A d \in Inodes, n \in Names : d # c \/ n # m => (dirent'[d][n] \in Dirs' <=> dirent[d][n] \in Dirs)
    BY <1>d, <2>1
  <2>3. ASSUME NEW j \in Inodes, j # c PROVE DirLinks(j)'
    BY <1>p, <1>2, <1>3, <2>0, <2>2, <2>3, DirLinksSame
  <2>4. DirLinks(c)'
    <3>1. CASE th[t].kind # "rmdir"
      <4>1. i \notin Dirs BY <1>m, <1>p, <3>1 DEF IsDir, Dirs
      <4>2. \A n \in Names : dirent'[c][n] \in Dirs' <=> dirent[c][n] \in Dirs
        BY <1>d, <2>1, <2>2, <4>1
      <4> QED BY <1>p, <1>2, <1>3, <1>5, <2>0, <3>1, <4>2, DirLinksSame
    <3>2. CASE th[t].kind = "rmdir"
      <4>1. i \in Dirs BY <1>m, <1>p, <3>2 DEF IsDir, Dirs
      <4>2. m \in Subdirs(c) BY <1>d, <4>1 DEF Subdirs
      <4>3. Subdirs(c)' = Subdirs(c) \ {m} BY <1>d, <2>1, <2>2 DEF Subdirs
      <4>4. Cardinality(Subdirs(c)') + 1 = Cardinality(Subdirs(c)) BY <4>2, <4>3, LessSubdir
      <4>5. OneMore(c) = Bit(More(t)) /\ OneLess(c) = Bit(Less(t)) BY <1>m, <1>p, OneIs
      <4>6. OneMore(c)' = Bit(More(t)') /\ OneLess(c)' = Bit(Less(t)') BY <1>m, <1>p, <1>2, OneNext
      <4>7. OneMore(c) = 0 /\ OneLess(c) = 0 /\ OneMore(c)' = 0 /\ OneLess(c)' = 1
        BY <1>5, <3>2, <4>5, <4>6 DEF Bit
      <4>8. inode[c].links = 2 + Cardinality(Subdirs(c))
        <5>1. inode[c].links + 0 = 2 + Cardinality(Subdirs(c)) + 0
          BY <1>m, <1>p, <2>0, <4>7 DEF DirLinks
        <5>2. inode[c].links \in Int BY <1>0 DEF TypeOK, InodeType
        <5> QED BY <5>1, <5>2, SubdirsFinite
      <4>9. Cardinality(Subdirs(c)') \in Nat BY SubdirsFinite, FS_CardinalityType
      <4>10. inode'[c].links + OneMore(c)' = 2 + Cardinality(Subdirs(c)') + OneLess(c)'
        BY <1>3, <4>4, <4>7, <4>8, <4>9
      <4> QED BY <4>10 DEF DirLinks
    <3> QED BY <3>1, <3>2
  <2>5. FileLinks' BY <1>3, <2>0 DEF FileLinks
  <2>6. Dots'
    <3>1. dotdot'[Root] = Root BY <1>3, <2>0 DEF Dots
    <3>2. ASSUME NEW d \in Inodes, NEW n \in Names, dirent'[d][n] \in Dirs'
          PROVE dotdot'[dirent'[d][n]] = d
      <4>1. d # c \/ n # m BY <1>d, <2>1, <3>2
      <4>2. dirent'[d][n] = dirent[d][n] BY <1>d, <4>1
      <4> QED BY <1>3, <2>0, <2>1, <3>2, <4>2 DEF Dots
    <3> QED BY <3>1, <3>2 DEF Dots, Root
  <2>7. \A u \in Threads : MoreFits(u)'
    <3>1. MoreFits(t)' BY <1>4 DEF MoreFits
    <3> QED BY <1>i, <1>2, <1>6, <3>1, OthersMore
  <2>8. \A j \in Inodes : DirLinks(j)' BY <2>3, <2>4
  <2> QED BY <2>5, <2>6, <2>7, <2>8, LinkNext
<1>7. KeptOK(t)' /\ ChangedOK(t)'
  <2>1. KeptOK(t) BY <1>i DEF InoInv
  <2> QED BY <1>a, <1>2, <1>3, <1>4, <2>1 DEF KeptOK, ChangedOK
<1>8. /\ InoInv'
      /\ \A u \in Threads : u # t => Grown(u)' = Grown(u) /\ Spare(u)' = Spare(u) /\ Taken(u)' = Taken(u)
  BY <1>i, <1>2, <1>6, <1>7, InoStep
<1>9. BlockInv'
  <2>1. Grown(t)' = Grown(t) /\ Spare(t)' = Spare(t) /\ Taken(t)' = Taken(t)
    BY <1>2, <1>4 DEF Grown, Spare, Taken
  <2>2. \A j \in Inodes : Has(j)' = Has(j) BY <1>2, <1>3, <1>4, HasSame
  <2> QED BY <1>i, <1>3, <1>8, <2>1, <2>2, ClaimsAll, ClaimsSame
<1> QED BY <1>n, <1>t, <1>s, <1>l, <1>8, <1>9 DEF Rules

\* What a thread makes is no one's: other threads keep what they have.
LEMMA KeepMade ==
  ASSUME SafeInv, NEW t \in Threads, Making(t), NEW i \in Inodes, i = th[t].kid, files' = files, dirent' = dirent,
         \A j \in Inodes : j # i => inode'[j] = inode[j]
  PROVE  /\ Keep(t)
         /\ \A u \in Threads : Freed(u) => th[u].kid # i
<1>1. \A u \in Threads : th[u].cur # i BY MakingIs
<1>2. \A u \in Threads : Writing(u) => files[th[u].fd] \in Inodes /\ files[th[u].fd] # i
  <2> SUFFICES ASSUME NEW u \in Threads, Writing(u)
               PROVE files[th[u].fd] \in Inodes /\ files[th[u].fd] # i
    OBVIOUS
  <2>1. th[u].fd \in Opened /\ files[th[u].fd] \in Inodes BY WritingOpen, WritingFile
  <2>2. Unopened(i) BY MakingIs
  <2> QED BY <2>1, <2>2 DEF Unopened
<1>3. Keep(t) BY <1>1, <1>2 DEF Keep
<1>4. ASSUME NEW u \in Threads, Freed(u) PROVE th[u].kid # i
  <2>0. KindOK(u) BY Own
  <2>1. u # t BY <1>4 DEF Freed, Making
  <2>2. CASE Removing(u) BY <2>1, <2>2, MakingIs
  <2>3. CASE Emptying(u)
    <3>1. Others(u, th[u].kid) BY <2>3, NamedKid DEF Named
    <3> QED BY <2>1, <3>1 DEF Others
  <2> QED BY <1>4, <2>0, <2>2, <2>3 DEF Freed, Removing, Removed, Emptying, KindOK
<1> QED BY <1>3, <1>4

\* A new directory has one block, and no entry.
LEMMA NewDirFits ==
  ASSUME NEW b \in Blocks
  PROVE  Owned(NewDir(b)) = {b} /\ Sized(NewDir(b)) /\ NewDir(b).mode = "dir" /\ NewDir(b).links = 2 /\ NewDir(b).size = 1
<1>1. /\ NewDir(b).mode = "dir" /\ NewDir(b).links = 2 /\ NewDir(b).size = 1 /\ NewDir(b).ind = 0 /\ NewDir(b).ptr[0] = b
      /\ \A k \in Indexes : k # 0 => NewDir(b).ptr[k] = 0
  BY NewTypes
<1>2. b # 0 /\ 0 \in Indexes BY DEF Blocks, Indexes
<1>3. Owned(NewDir(b)) = {b}
  <2>1. {NewDir(b).ptr[k] : k \in Indexes} \cup {0} = {0, b} BY <1>1, <1>2
  <2> QED BY <1>1, <1>2, <2>1 DEF Owned
<1>4. Sized(NewDir(b)) BY <1>1, <1>2 DEF Sized, Indexes
<1> QED BY <1>1, <1>3, <1>4

\* The new inode is written: the rules between the steps still hold.
LEMMA WriteNewRules ==
  ASSUME SafeInv, Rules, NEW t \in Threads, WriteNew(t)
  PROVE  Rules'
<1>0. /\ TypeOK /\ KindOK(t) /\ InoOK(t) /\ KidOK(t) /\ IndexOK(t) /\ pc[t] = "write_new"
  BY Own DEF WriteNew
<1>i. KnownInv /\ LinkInv /\ TreeInv /\ InoInv /\ SizeInv /\ BlockInv /\ NameInv BY DEF Rules, SafeInv
<1>k. th[t].kind \in Creates \cup {"mkdir"} BY <1>0 DEF KindOK
<1>a. Making(t) /\ Changing(t) /\ ~Writing(t) BY <1>0 DEF Making, Changing, Writing
<1>h. ~th[t].held BY <1>0, <1>k DEF KidOK, Removed, Named, Emptying
<1>m. /\ th[t].kid \in Inodes /\ inode[th[t].kid] = NoInode /\ th[t].cur \in Inodes /\ Name(t) \in Names
      /\ Child(t) = th[t].kid /\ th[t].kid # 0 /\ th[t].kid # th[t].cur /\ th[t].kid # Root
      /\ (\A n \in Names : dirent[th[t].kid][n] = 0) /\ (\A u \in Threads : th[u].cur # th[t].kid)
      /\ (\A u \in Threads : u # t => th[u].cur # th[t].cur) /\ IsDir(th[t].cur)
  BY <1>0, <1>a, MakingIs, InDir DEF Inodes
<1>p. PICK c \in Inodes, m \in Names, i \in Inodes : c = th[t].cur /\ m = Name(t) /\ i = th[t].kid
  BY <1>m
<1>2. Steps(t) /\ th' = th /\ pc'[t] = "write_dir" BY <1>0, WriteNewEffect DEF WriteNew
<1>3. files' = files /\ ibits' = ibits /\ bbits' = bbits BY DEF WriteNew, bits, table
<1>d. dirent' = dirent
  <2>1. CASE th[t].kind = "mkdir"
    <3>1. dirent' = [dirent EXCEPT ![th[t].kid] = Empty] BY <2>1 DEF WriteNew
    <3>2. dirent[th[t].kid] = Empty BY <1>0, <1>m DEF TypeOK, Empty
    <3> QED BY <1>0, <1>m, <3>1, <3>2 DEF TypeOK
  <2> QED BY <2>1 DEF WriteNew
<1>e. \A j \in Inodes : j # i => inode'[j] = inode[j] /\ dotdot'[j] = dotdot[j]
  BY <1>0, <1>p DEF WriteNew, TypeOK
<1>4. /\ ~Making(t)' /\ ~Writing(t)' /\ Changing(t)' /\ ~Removing(t)' /\ ~Removed(t) /\ ~Removed(t)'
      /\ ~Freed(t) /\ ~Freed(t)' /\ (Mkdirs(t)' <=> Mkdirs(t))
  BY <1>0, <1>k, <1>2 DEF Making, Writing, Changing, Removing, Removed, Freed, Mkdirs
<1>5. ~More(t) /\ (More(t)' <=> th[t].kind = "mkdir") /\ ~Less(t) /\ ~Less(t)'
  BY <1>0, <1>k, <1>2, <1>4 DEF More, Less
<1>6. Keep(t) /\ (\A u \in Threads : Freed(u) => th[u].kid # i)
  BY <1>a, <1>p, <1>3, <1>d, <1>e, KeepMade
<1>c. inode'[c] = inode[c] BY <1>m, <1>p, <1>e
<1>f. MoreFits(t)'
  <2>1. MoreFits(t) BY <1>i, LinkParts
  <2> QED BY <1>p, <1>c, <1>2, <1>4, <2>1 DEF MoreFits
<1>n. KnownInv'
  <2>1. \A j : Unnamed(j)' <=> Unnamed(j) BY <1>d DEF Unnamed
  <2>2. ~Unnamed(i) BY <1>m, <1>p DEF Unnamed, Child
  <2> QED BY <1>i, <1>p, <1>2, <1>3, <2>1, <2>2, KnownStep
<1>7. KeptOK(t)' BY <1>h, <1>2, <1>4 DEF KeptOK
<1>s. ChangedOK(t)'
  <2>0. ChangedOK(t) BY <1>i DEF InoInv
  <2>1. Target(t) = c /\ Target(t)' = c BY <1>a, <1>p, <1>2, <1>4 DEF Target
  <2>2. Sized(th[t].ino)' <=> Sized(th[t].ino) BY <1>2 DEF Sized
  <2>3. Owned(th[t].ino)' = Owned(th[t].ino) /\ Owned(inode[Target(t)])' = Owned(inode[Target(t)])
    BY <1>c, <1>2, <2>1 DEF Owned
  <2>4. Entries(th[t].cur)' = Entries(th[t].cur) BY <1>2, <1>d DEF Entries
  <2> QED BY <1>a, <1>c, <1>2, <1>4, <2>0, <2>1, <2>2, <2>3, <2>4 DEF ChangedOK
<1>8. /\ InoInv'
      /\ \A u \in Threads : u # t => Grown(u)' = Grown(u) /\ Spare(u)' = Spare(u) /\ Taken(u)' = Taken(u)
  BY <1>i, <1>2, <1>6, <1>7, <1>s, InoStep
<1>g. Grown(t)' = Grown(t) /\ Taken(t)' = Taken(t) /\ (\A j \in Inodes \ {i} : Has(j)' = Has(j))
  <2>1. Target(t) = c /\ Target(t)' = c BY <1>a, <1>p, <1>2, <1>4 DEF Target
  <2>2. Owned(th[t].ino)' = Owned(th[t].ino) /\ Owned(inode[Target(t)])' = Owned(inode[Target(t)])
    BY <1>c, <1>2, <2>1 DEF Owned
  <2>3. Grown(t)' = Grown(t) /\ Taken(t)' = Taken(t) BY <1>a, <1>2, <1>4, <2>2 DEF Grown, Taken
  <2>4. \A j \in Inodes \ {i} : Has(j)' = Has(j) BY <1>2, <1>4, <1>e, HasSame
  <2> QED BY <2>3, <2>4
<1>o. Has(i) = {} /\ Has(i)' = Owned(inode[i])'
  <2>1. Has(i) = Owned(inode[i]) BY <1>6, HasIs
  <2>2. Owned(inode[i]) = {} BY <1>m, <1>p, NoneOwned
  <2>3. \A u \in Threads : Freed(u)' => th'[u].kid # i BY <1>2, <1>4, <1>6 DEF Steps, Freed
  <2> QED BY <2>1, <2>2, <2>3, HasNext
<1>9. CASE th[t].kind \in Creates
  <2>1. inode'[i] = NewFile /\ dotdot' = dotdot BY <1>0, <1>p, <1>9 DEF WriteNew, TypeOK
  <2>2. ~IsDir(i)' /\ inode'[i].links = 1 BY <2>1, NoneOwned DEF IsDir
  <2>3. Sized(inode[i])' BY <2>1, NoneOwned DEF Sized
  <2>4. ~IsDir(i) BY <1>m, <1>p, NoneOwned DEF IsDir
  <2>5. LinkInv' /\ TreeInv' /\ SizeInv'
    BY <1>2, <1>5, <1>6, <1>9, <1>d, <1>e, <1>f, <2>1, <2>2, <2>3, <2>4, OneInode
  <2>6. Has(i)' = {}
    <3>1. Owned(inode[i])' = {} BY <2>1, NoneOwned DEF Owned
    <3> QED BY <1>o, <3>1
  <2>7. Spare(t)' = Spare(t) BY <1>2, <1>9, SpareIs
  <2>8. \A j \in Inodes : Has(j)' = Has(j) BY <1>g, <1>o, <2>6
  <2>9. BlockInv' BY <1>i, <1>3, <1>8, <1>g, <2>7, <2>8, ClaimsAll, ClaimsSame
  <2> QED BY <1>n, <1>8, <2>5, <2>9 DEF Rules
<1>10. CASE th[t].kind = "mkdir"
  <2>b. th[t].index \in Blocks BY <1>0, <1>a, <1>10 DEF IndexOK
  <2>p. PICK b \in Blocks : b = th[t].index BY <2>b
  <2>1. inode'[i] = NewDir(b) /\ dotdot'[i] = c
    <3>1. inode' = [inode EXCEPT ![th[t].kid] = NewDir(th[t].index)] /\ dotdot' = [dotdot EXCEPT ![th[t].kid] = th[t].cur]
      BY <1>10 DEF WriteNew
    <3> QED BY <1>0, <1>p, <2>p, <3>1 DEF TypeOK
  <2>2. IsDir(i)' /\ inode'[i].links = 2 /\ inode'[i].size = 1 /\ inode'[i].mode # "file"
    BY <2>1, NewDirFits DEF IsDir
  <2>3. TreeInv' BY <1>i, <1>d, TreeSame
  <2>e. \A n \in Names : dirent'[i][n] = 0 BY <1>m, <1>p, <1>d
  <2>4. SizeInv'
    <3>1. Sized(inode[i])' BY <2>1, NewDirFits DEF Sized
    <3>2. Entries(i)' = 0
      <4>1. {n \in Names : dirent'[i][n] # 0} = {} BY <2>e
      <4> QED BY <4>1, FS_EmptySet DEF Entries
    <3>3. Fits(i)'
      <4>1. Slots * 1 = Slots OBVIOUS
      <4> QED BY <2>2, <3>2, <4>1 DEF Fits
    <3>4. \A j \in Inodes : Filling(t, j) => Filling(t, j)' BY <1>2 DEF Filling
    <3> QED BY <1>i, <1>2, <1>d, <1>e, <3>1, <3>3, <3>4, SizeStep
  <2>5. LinkInv'
    <3>0. FileLinks /\ (\A j \in Inodes : DirLinks(j)) /\ Dots BY <1>i, LinkParts
    <3>1. Dirs' = Dirs \cup {i} /\ i \notin Dirs /\ 0 \notin Dirs'
      <4>1. i \notin Dirs BY <1>m, <1>p, NoneOwned DEF Dirs
      <4>2. \A j \in Inodes : j \in Dirs' <=> (j \in Dirs \/ j = i) BY <1>e, <2>2 DEF Dirs, IsDir
      <4>3. Dirs' \subseteq Inodes /\ Dirs \subseteq Inodes /\ 0 \notin Inodes BY DEF Dirs, Inodes
      <4> QED BY <4>1, <4>2, <4>3
    <3>2. dirent[c][m] = i BY <1>m, <1>p DEF Child
    <3>3. \A d \in Inodes, n \in Names : d # c \/ n # m => dirent[d][n] # i
      <4>1. i # 0 BY DEF Inodes
      <4> QED BY <1>i, <3>2, <4>1 DEF NameInv
    <3>4. FileLinks' BY <1>e, <2>2, <3>0 DEF FileLinks
    <3>5. Dots'
      <4>1. Root \in Inodes /\ Root # i BY <1>m, <1>p DEF Root, Inodes
      <4>2. dotdot'[Root] = Root BY <1>e, <3>0, <4>1 DEF Dots
      <4>3. ASSUME NEW d \in Inodes, NEW n \in Names, dirent'[d][n] \in Dirs'
            PROVE dotdot'[dirent'[d][n]] = d
        <5>1. CASE dirent[d][n] = i
          <6>1. d = c BY <3>3, <5>1
          <6> QED BY <1>d, <2>1, <5>1, <6>1
        <5>2. CASE dirent[d][n] # i
          <6>1. dirent[d][n] \in Dirs BY <1>d, <3>1, <4>3, <5>2
          <6>2. dotdot[dirent[d][n]] = d /\ dirent[d][n] \in Inodes BY <3>0, <6>1 DEF Dots, Dirs
          <6> QED BY <1>d, <1>e, <5>2, <6>2
        <5> QED BY <5>1, <5>2
      <4> QED BY <4>2, <4>3 DEF Dots, Root
    <3>6. \A u \in Threads : MoreFits(u)' BY <1>i, <1>2, <1>6, <1>f, OthersMore
    <3>7. ASSUME NEW j \in Inodes, j # c, j # i PROVE DirLinks(j)'
      <4>1. \A n \in Names : dirent'[j][n] \in Dirs' <=> dirent[j][n] \in Dirs
        BY <1>d, <3>1, <3>3, <3>7
      <4> QED BY <1>p, <1>2, <1>e, <3>0, <3>7, <4>1, DirLinksSame
    <3>8. DirLinks(i)'
      <4>1. Subdirs(i)' = {} BY <2>e, <3>1 DEF Subdirs
      <4>2. Cardinality(Subdirs(i)') = 0 BY <4>1, FS_EmptySet
      <4>3. \A u \in Threads : th'[u].cur # i BY <1>m, <1>p, <1>2
      <4>4. OneMore(i)' = 0 /\ OneLess(i)' = 0 BY <4>3 DEF OneMore, OneLess
      <4> QED BY <2>2, <4>2, <4>4 DEF DirLinks
    <3>9. DirLinks(c)'
      <4>1. m \notin Subdirs(c) BY <3>1, <3>2 DEF Subdirs
      <4>2. Subdirs(c)' = Subdirs(c) \cup {m} BY <1>d, <3>1, <3>2, <3>3 DEF Subdirs
      <4>3. Cardinality(Subdirs(c)') = Cardinality(Subdirs(c)) + 1 BY <4>1, <4>2, OneSubdir
      <4>4. OneMore(c) = Bit(More(t)) /\ OneLess(c) = Bit(Less(t)) BY <1>m, <1>p, OneIs
      <4>5. OneMore(c)' = Bit(More(t)') /\ OneLess(c)' = Bit(Less(t)') BY <1>m, <1>p, <1>2, OneNext
      <4>6. OneMore(c) = 0 /\ OneLess(c) = 0 /\ OneMore(c)' = 1 /\ OneLess(c)' = 0
        BY <1>5, <1>10, <4>4, <4>5 DEF Bit
      <4>7. inode[c].links + 0 = 2 + Cardinality(Subdirs(c)) + 0
        BY <1>m, <1>p, <3>0, <4>6 DEF DirLinks
      <4>8. inode[c].links \in Int BY <1>0 DEF TypeOK, InodeType
      <4>9. Cardinality(Subdirs(c)) \in Nat BY SubdirsFinite
      <4>10. inode'[c].links + OneMore(c)' = 2 + Cardinality(Subdirs(c)') + OneLess(c)'
        BY <1>c, <4>3, <4>6, <4>7, <4>8, <4>9
      <4> QED BY <4>10 DEF DirLinks
    <3>10. \A j \in Inodes : DirLinks(j)' BY <3>7, <3>8, <3>9
    <3> QED BY <3>4, <3>5, <3>6, <3>10, LinkNext
  <2>6. BlockInv'
    <3>1. Has(i)' = {b}
      <4>1. Owned(inode[i])' = {b} BY <2>1, NewDirFits DEF Owned
      <4> QED BY <1>o, <4>1
    <3>2. Spare(t) = {b} /\ Spare(t)' = {} BY <1>0, <1>a, <1>4, <1>10, <2>p, SpareIs
    <3>3. <<i, "inode">> \in Claims /\ Claim[<<i, "inode">>] = Has(i) /\ Claim'[<<i, "inode">>] = Has(i)'
      BY ClaimInode
    <3>4. <<t, "spare">> \in Claims /\ Claim[<<t, "spare">>] = Spare(t) /\ Claim'[<<t, "spare">>] = Spare(t)'
      BY ClaimIs, ClaimNext
    <3>5. \A k \in Claims : k # <<i, "inode">> /\ k # <<t, "spare">> => Claim'[k] = Claim[k]
      <4>1. \A k \in Claims : \/ Claim'[k] = Claim[k]
                              \/ k \in {<<t, "spare">>, <<t, "grown">>, <<t, "taken">>}
                              \/ \E j \in {i} : k = <<j, "inode">>
        <5>1. {i} \in SUBSET Inodes OBVIOUS
        <5> QED BY <1>8, <1>g, <5>1, ClaimsOf
      <4> QED BY <1>g, <4>1, ClaimIs, ClaimNext
    <3>6. Claim'[<<t, "spare">>] = {} /\ Claim'[<<i, "inode">>] = Claim[<<i, "inode">>] \cup Claim[<<t, "spare">>] \cup {}
      BY <1>o, <3>1, <3>2, <3>3, <3>4
    <3>7. {} \in SUBSET Blocks /\ {} \cap bbits = {} /\ bbits' = bbits \cup {} /\ <<t, "spare">> # <<i, "inode">>
      BY <1>3
    <3> QED BY <1>i, <3>3, <3>4, <3>5, <3>6, <3>7, ClaimsMove
  <2> QED BY <1>n, <1>8, <2>3, <2>4, <2>5, <2>6 DEF Rules
<1> QED BY <1>k, <1>9, <1>10

\* The directory's inode is written: the rules between the steps still hold.
LEMMA WriteDirRules ==
  ASSUME SafeInv, Rules, NEW t \in Threads, WriteDir(t)
  PROVE  Rules'
<1>0. /\ TypeOK /\ KindOK(t) /\ InoOK(t) /\ th[t].ino \in InodeType /\ pc[t] = "write_dir"
  BY Own DEF WriteDir
<1>i. KnownInv /\ LinkInv /\ TreeInv /\ InoInv /\ SizeInv /\ BlockInv BY DEF Rules
<1>k. th[t].kind \in Creates \cup Changes BY <1>0 DEF KindOK
<1>a. Changing(t) /\ ~Writing(t) BY <1>0 DEF Changing, Writing
<1>m. /\ th[t].cur \in Inodes /\ HasX(t, th[t].cur) /\ IsDir(th[t].cur)
      /\ (\A u \in Threads : u # t => th[u].cur # th[t].cur)
  <2>1. HeldOK(t) BY DEF SafeInv, ThereInv
  <2> QED BY <1>0, <2>1, InDir DEF HeldOK
<1>p. PICK c \in Inodes : c = th[t].cur BY <1>m
<1>t. Target(t) = c BY <1>a, <1>p DEF Target
<1>o. /\ th[t].ino.mode = inode[c].mode /\ th[t].ino.links = inode[c].links /\ Sized(th[t].ino)
      /\ Owned(inode[c]) \subseteq Owned(th[t].ino) /\ Entries(c) <= Slots * th[t].ino.size - 2
  <2>1. ChangedOK(t) BY <1>i DEF InoInv
  <2> QED BY <1>a, <1>p, <1>t, <2>1 DEF ChangedOK
<1>2. /\ Steps(t) /\ th'[t].cur = th[t].cur /\ th'[t].kind = th[t].kind /\ th'[t].got = th[t].got /\ pc'[t] \in {"lock_kid", "exit"}
  BY <1>0, WriteDirEffect DEF Becomes
<1>3. files' = files /\ ibits' = ibits /\ bbits' = bbits /\ dirent' = dirent /\ dotdot' = dotdot
  BY DEF WriteDir, bits, table
<1>4. /\ ~Making(t) /\ ~Making(t)' /\ ~Writing(t)' /\ ~Changing(t)' /\ ~Removing(t)' /\ ~Removed(t) /\ ~Removed(t)'
      /\ ~Freed(t) /\ ~Freed(t)' /\ ~Mkdirs(t)' /\ ~Bound(t) /\ (th[t].kind = "mkdir" => Mkdirs(t))
  BY <1>0, <1>k, <1>2 DEF Making, Writing, Changing, Removing, Removed, Freed, Mkdirs, Bound
<1>5. (More(t) <=> th[t].kind = "mkdir") /\ ~More(t)' /\ (Less(t) <=> th[t].kind = "rmdir") /\ ~Less(t)'
  BY <1>0, <1>k, <1>2, <1>4 DEF More, Less
<1>l. inode[c].links + Bit(More(t)) = 2 + Cardinality(Subdirs(c)) + Bit(Less(t)) /\ inode[c].links \in 0..MaxLinks /\ Cardinality(Subdirs(c)) \in Nat
  <2>1. DirLinks(c) BY <1>i, LinkParts
  <2>2. OneMore(c) = Bit(More(t)) /\ OneLess(c) = Bit(Less(t)) BY <1>m, <1>p, OneIs
  <2>3. inode[c].links \in 0..MaxLinks BY <1>0 DEF TypeOK, InodeType
  <2> QED BY <1>m, <1>p, <2>1, <2>2, <2>3, SubdirsFinite DEF DirLinks
<1>e. /\ inode'[c].links = 2 + Cardinality(Subdirs(c)) /\ inode'[c].mode = inode[c].mode /\ inode'[c].size = th[t].ino.size
      /\ inode'[c].ptr = th[t].ino.ptr /\ inode'[c].ind = th[t].ino.ind
      /\ \A j \in Inodes : j # c => inode'[j] = inode[j]
  <2> DEFINE d == CASE th[t].kind = "mkdir" -> 1 [] th[t].kind = "rmdir" -> -1 [] OTHER -> 0
  <2>1. inode' = [inode EXCEPT ![th[t].cur] = [th[t].ino EXCEPT !.links = Count(th[t].ino.links + d)]]
    BY DEF WriteDir
  <2>2. th[t].ino.links + d = 2 + Cardinality(Subdirs(c)) /\ (th[t].kind = "mkdir" => inode[c].links # MaxLinks)
    <3>0. th[t].kind = "mkdir" => inode[c].links # MaxLinks
      <4>1. MoreFits(t) BY <1>i, LinkParts
      <4> QED BY <1>4, <1>p, <4>1 DEF MoreFits
    <3>1. CASE th[t].kind = "mkdir"
      <4>1. Bit(More(t)) = 1 /\ Bit(Less(t)) = 0 BY <1>5, <3>1 DEF Bit
      <4>2. d = 1 BY <3>1
      <4> QED BY <1>l, <1>o, <3>0, <4>1, <4>2
    <3>2. CASE th[t].kind = "rmdir"
      <4>1. Bit(More(t)) = 0 /\ Bit(Less(t)) = 1 BY <1>5, <3>2 DEF Bit
      <4>2. d = -1 BY <3>2
      <4> QED BY <1>l, <1>o, <3>0, <4>1, <4>2
    <3>3. CASE th[t].kind \notin {"mkdir", "rmdir"}
      <4>1. Bit(More(t)) = 0 /\ Bit(Less(t)) = 0 BY <1>5, <3>3 DEF Bit
      <4>2. d = 0 BY <3>3
      <4> QED BY <1>l, <1>o, <3>0, <4>1, <4>2
    <3> QED BY <3>1, <3>2, <3>3
  <2>3. th[t].ino.links + d <= MaxLinks
    <3>1. CASE th[t].kind = "mkdir" BY <1>l, <1>o, <2>2, <3>1
    <3>2. CASE th[t].kind # "mkdir"
      <4>1. d \in {-1, 0} BY <3>2
      <4>2. th[t].ino.links \in 0..MaxLinks BY <1>l, <1>o
      <4> HIDE DEF d
      <4> QED BY <4>1, <4>2
    <3> QED BY <3>1, <3>2
  <2> HIDE DEF d
  <2>4. Count(th[t].ino.links + d) = 2 + Cardinality(Subdirs(c)) BY <1>l, <2>2, <2>3 DEF Count
  <2>5. inode'[c] = [th[t].ino EXCEPT !.links = 2 + Cardinality(Subdirs(c))]
    BY <1>0, <1>p, <2>1, <2>4 DEF TypeOK
  <2>6. \A j \in Inodes : j # c => inode'[j] = inode[j] BY <1>0, <1>p, <2>1 DEF TypeOK
  <2> QED BY <1>0, <1>o, <2>5, <2>6 DEF InodeType
<1>6. Keep(t) BY <1>m, <1>p, <1>3, <1>e, KeepAt
<1>n. KnownInv' BY <1>i, <1>2, <1>3, <1>4, KnownSame
<1>v. TreeInv' BY <1>i, <1>3, TreeSame
<1>s. SizeInv'
  <2>1. Sized(inode[c])' BY <1>e, <1>o DEF Sized
  <2>2. Entries(c)' = Entries(c) BY <1>3 DEF Entries
  <2>3. Fits(c)' BY <1>o, <1>e, <2>2 DEF Fits
  <2>4. \A j \in Inodes : j # c => ~Filling(t, j) BY <1>p DEF Filling
  <2> QED BY <1>i, <1>2, <1>3, <1>e, <2>1, <2>3, <2>4, SizeStep
<1>w. LinkInv'
  <2>0. FileLinks /\ (\A j \in Inodes : DirLinks(j)) /\ Dots BY <1>i, LinkParts
  <2>1. Dirs' = Dirs BY <1>e DEF Dirs
  <2>2. FileLinks'
    <3>1. inode'[c].mode # "file" BY <1>m, <1>p, <1>e DEF IsDir
    <3> QED BY <1>e, <2>0, <3>1 DEF FileLinks
  <2>3. Dots' BY <1>3, <2>0, <2>1 DEF Dots, Root
  <2>4. \A u \in Threads : MoreFits(u)'
    <3>1. MoreFits(t)' BY <1>4 DEF MoreFits
    <3> QED BY <1>i, <1>2, <1>6, <3>1, OthersMore
  <2>5. ASSUME NEW j \in Inodes, j # c PROVE DirLinks(j)'
    BY <1>p, <1>2, <1>3, <1>e, <2>0, <2>1, <2>5, DirLinksSame
  <2>6. DirLinks(c)'
    <3>1. Subdirs(c)' = Subdirs(c) BY <1>3, <2>1 DEF Subdirs
    <3>2. OneMore(c)' = Bit(More(t)') /\ OneLess(c)' = Bit(Less(t)')
      <4>1. th'[t].cur = c /\ \A u \in Threads : u # t => th'[u].cur # c BY <1>m, <1>p, <1>2 DEF Steps
      <4> QED BY <4>1, OneNext
    <3>3. OneMore(c)' = 0 /\ OneLess(c)' = 0 BY <1>5, <3>2 DEF Bit
    <3> QED BY <1>e, <1>l, <3>1, <3>3 DEF DirLinks
  <2>7. \A j \in Inodes : DirLinks(j)' BY <2>5, <2>6
  <2> QED BY <2>2, <2>3, <2>4, <2>7, LinkNext
<1>7. KeptOK(t)' /\ ChangedOK(t)' BY <1>2, <1>4 DEF KeptOK, ChangedOK
<1>8. /\ InoInv'
      /\ \A u \in Threads : u # t => Grown(u)' = Grown(u) /\ Spare(u)' = Spare(u) /\ Taken(u)' = Taken(u)
  BY <1>i, <1>2, <1>6, <1>7, InoStep
<1>9. BlockInv'
  <2>1. Spare(t)' = Spare(t) /\ Taken(t)' = Taken(t) BY <1>2, <1>4 DEF Spare, Taken
  <2>2. \A j \in Inodes \ {c} : Has(j)' = Has(j) BY <1>2, <1>4, <1>e, HasSame
  <2>3. Has(c) = Owned(inode[c]) /\ Has(c)' = Owned(th[t].ino)
    <3>1. \A u \in Threads : Freed(u) => th[u].kid # c BY <1>m, <1>p, <1>4, FreedIs
    <3>2. \A u \in Threads : Freed(u)' => th'[u].kid # c BY <1>2, <1>4, <3>1 DEF Steps, Freed
    <3>3. Has(c)' = Owned(inode[c])' BY <3>2, HasNext
    <3>4. Owned(inode[c])' = Owned(th[t].ino) BY <1>e DEF Owned
    <3> QED BY <3>1, <3>3, <3>4, HasIs
  <2>4. Grown(t) = Owned(th[t].ino) \ Owned(inode[c]) /\ Grown(t)' = {} BY <1>a, <1>t, <1>4 DEF Grown
  <2>5. /\ <<c, "inode">> \in Claims /\ Claim[<<c, "inode">>] = Has(c) /\ Claim'[<<c, "inode">>] = Has(c)'
        /\ <<t, "grown">> \in Claims /\ Claim[<<t, "grown">>] = Grown(t) /\ Claim'[<<t, "grown">>] = Grown(t)'
    BY ClaimIs, ClaimNext
  <2>6. \A k \in Claims : k # <<c, "inode">> /\ k # <<t, "grown">> => Claim'[k] = Claim[k]
    <3>1. \A k \in Claims : \/ Claim'[k] = Claim[k]
                            \/ k \in {<<t, "spare">>, <<t, "grown">>, <<t, "taken">>}
                            \/ \E j \in {c} : k = <<j, "inode">>
      <4>1. {c} \in SUBSET Inodes OBVIOUS
      <4> QED BY <1>8, <2>2, <4>1, ClaimsOf
    <3> QED BY <2>1, <3>1, ClaimIs, ClaimNext
  <2>7. Claim'[<<t, "grown">>] = {} /\ Claim'[<<c, "inode">>] = Claim[<<c, "inode">>] \cup Claim[<<t, "grown">>] \cup {}
    BY <1>o, <2>3, <2>4, <2>5
  <2>8. {} \in SUBSET Blocks /\ {} \cap bbits = {} /\ bbits' = bbits \cup {} /\ <<t, "grown">> # <<c, "inode">>
    BY <1>3
  <2> QED BY <1>i, <2>5, <2>6, <2>7, <2>8, ClaimsMove
<1> QED BY <1>n, <1>v, <1>s, <1>w, <1>8, <1>9 DEF Rules

\* What a block does to an inode that gets it.
LEMMA WithIs ==
  ASSUME NEW ino \in InodeType, NEW i \in Indexes, NEW got \in Seq(Blocks), Needed(ino, i) # 0, Len(got) = Needed(ino, i)
  PROVE  /\ With(ino, i, got).mode = ino.mode /\ With(ino, i, got).links = ino.links
         /\ With(ino, i, got).size = (IF i + 1 > ino.size THEN i + 1 ELSE ino.size)
         /\ Owned(With(ino, i, got)) = Owned(ino) \cup {got[k] : k \in DOMAIN got}
         /\ Sized(ino) /\ (ino.mode = "dir" => i = ino.size) => Sized(With(ino, i, got))
<1>0. /\ ino.ptr \in [Indexes -> 0..NBlocks] /\ ino.size \in Nat /\ i \in Nat /\ i <= MaxIndex
  BY DEF InodeType, Indexes
<1>1. ino.ptr[i] = 0 /\ (Len(got) = 1 \/ (Len(got) = 2 /\ ino.ind = 0)) BY <1>0 DEF Needed
<1>2. \A k \in DOMAIN got : got[k] \in Blocks /\ got[k] # 0 BY DEF Blocks
<1>3. DOMAIN got = 1..Len(got) /\ Len(got) \in DOMAIN got BY <1>1
<1> DEFINE new == With(ino, i, got)
<1>4. /\ new.mode = ino.mode /\ new.links = ino.links /\ new.size = (IF i + 1 > ino.size THEN i + 1 ELSE ino.size)
      /\ new.ptr = [ino.ptr EXCEPT ![i] = got[Len(got)]] /\ new.ind = IF Len(got) = 2 THEN got[1] ELSE ino.ind
  BY DEF With, InodeType
<1> HIDE DEF new
<1>5. new.ptr[i] = got[Len(got)] /\ (\A k \in Indexes : k # i => new.ptr[k] = ino.ptr[k])
  BY <1>0, <1>4
<1>6. Owned(new) = Owned(ino) \cup {got[k] : k \in DOMAIN got}
  <2>1. CASE Len(got) = 1
    <3>1. {got[k] : k \in DOMAIN got} = {got[1]} /\ got[1] # 0 BY <1>2, <1>3, <2>1
    <3>2. new.ptr[i] = got[1] /\ new.ind = ino.ind BY <1>4, <1>5, <2>1
    <3>3. ASSUME NEW x PROVE x \in Owned(new) <=> x \in Owned(ino) \cup {got[1]}
      <4>1. CASE x \in {0, got[1]} BY <1>1, <1>5, <3>1, <3>2, <4>1 DEF Owned
      <4>2. CASE x \notin {0, got[1]}
        <5>1. \A k \in Indexes : new.ptr[k] = x <=> ino.ptr[k] = x BY <1>1, <1>5, <3>2, <4>2
        <5> QED BY <3>2, <4>2, <5>1 DEF Owned
      <4> QED BY <4>1, <4>2
    <3> QED BY <3>1, <3>3
  <2>2. CASE Len(got) = 2
    <3>1. {got[k] : k \in DOMAIN got} = {got[1], got[2]} /\ got[1] # 0 /\ got[2] # 0
      BY <1>2, <1>3, <2>2
    <3>2. new.ptr[i] = got[2] /\ new.ind = got[1] /\ ino.ind = 0 BY <1>1, <1>4, <1>5, <2>2
    <3>3. ASSUME NEW x PROVE x \in Owned(new) <=> x \in Owned(ino) \cup {got[1], got[2]}
      <4>1. CASE x \in {0, got[1], got[2]} BY <1>1, <1>5, <3>1, <3>2, <4>1 DEF Owned
      <4>2. CASE x \notin {0, got[1], got[2]}
        <5>1. \A k \in Indexes : new.ptr[k] = x <=> ino.ptr[k] = x BY <1>1, <1>5, <3>2, <4>2
        <5> QED BY <3>2, <4>2, <5>1 DEF Owned
      <4> QED BY <4>1, <4>2
    <3> QED BY <3>1, <3>3
  <2> QED BY <1>1, <2>1, <2>2
<1>7. ASSUME Sized(ino), ino.mode = "dir" => i = ino.size PROVE Sized(new)
  <2>1. new.ptr[i] # 0 BY <1>2, <1>3, <1>5
  <2>2. ASSUME NEW k \in Indexes, k >= new.size PROVE new.ptr[k] = 0
    <3>1. k # i /\ k >= ino.size BY <1>0, <1>4, <2>2 DEF Indexes
    <3> QED BY <1>5, <1>7, <3>1 DEF Sized
  <2>3. ASSUME new.mode = "dir", NEW k \in Indexes, k < new.size PROVE new.ptr[k] # 0
    <3>1. k = i \/ k < ino.size BY <1>0, <1>4, <1>7, <2>3 DEF Indexes
    <3> QED BY <1>4, <1>5, <1>7, <2>1, <2>3, <3>1 DEF Sized
  <2> QED BY <2>2, <2>3 DEF Sized
<1> QED BY <1>4, <1>6, <1>7 DEF new

\* A file that grows without a new block owns what it owned.
LEMMA SizingIs ==
  ASSUME NEW ino \in InodeType, NEW i \in Indexes, ino.mode # "dir"
  PROVE  /\ Sizing(ino, i).mode = ino.mode /\ Sizing(ino, i).links = ino.links
         /\ Owned(Sizing(ino, i)) = Owned(ino)
         /\ Sized(ino) => Sized(Sizing(ino, i))
<1> DEFINE new == Sizing(ino, i)
<1>1. /\ new.mode = ino.mode /\ new.links = ino.links /\ new.size = (IF i + 1 > ino.size THEN i + 1 ELSE ino.size)
      /\ new.ptr = ino.ptr /\ new.ind = ino.ind
  BY DEF Sizing, InodeType
<1> HIDE DEF new
<1>2. Owned(new) = Owned(ino) BY <1>1 DEF Owned
<1>3. ASSUME Sized(ino) PROVE Sized(new)
  <2>1. ino.size \in Nat BY DEF InodeType
  <2> QED BY <1>1, <1>3, <2>1 DEF Sized, Indexes
<1> QED BY <1>1, <1>2, <1>3 DEF new

\* What a call that takes blocks has in its hands.
LEMMA TakeHas ==
  ASSUME SafeInv, Rules, NEW t \in Threads, pc[t] = "take"
  PROVE  /\ Target(t) \in Inodes /\ th[t].ino \in InodeType
         /\ th[t].ino.mode = inode[Target(t)].mode /\ th[t].ino.links = inode[Target(t)].links /\ Sized(th[t].ino)
         /\ Owned(inode[Target(t)]) \subseteq Owned(th[t].ino)
         /\ Grown(t) = Owned(th[t].ino) \ Owned(inode[Target(t)])
         /\ Has(Target(t)) = Owned(inode[Target(t)])
         /\ (Making(t) <=> th[t].kind \notin Writes) /\ (Writing(t) <=> th[t].kind \in Writes)
         /\ IF th[t].kind \in Writes THEN Target(t) = files[th[t].fd] /\ th[t].ino.mode # "dir"
            ELSE /\ Target(t) = th[t].cur /\ th[t].ino.mode = "dir" /\ th[t].ino = inode[th[t].cur]
                 /\ Entries(th[t].cur) <= Slots * th[t].ino.size - 2
<1>0. TypeOK /\ KindOK(t) /\ th[t].ino \in InodeType BY Own
<1>i. InoInv /\ SizeInv BY DEF Rules
<1>1. (Making(t) <=> th[t].kind \notin Writes) /\ (Writing(t) <=> th[t].kind \in Writes)
  BY DEF Making, Writing
<1>2. ~Freed(t) BY DEF Freed
<1>3. CASE th[t].kind \in Writes
  <2>1. Writing(t) /\ Changing(t) /\ Target(t) = files[th[t].fd] BY <1>1, <1>3 DEF Changing, Target
  <2>2. Target(t) \in Inodes /\ HasX(t, Target(t)) BY <2>1, TargetIs
  <2>3. ~IsDir(Target(t)) BY <2>1, WritingOpen
  <2>4. ChangedOK(t) BY <1>i DEF InoInv
  <2>5. /\ th[t].ino.mode = inode[Target(t)].mode /\ th[t].ino.links = inode[Target(t)].links /\ Sized(th[t].ino)
        /\ Owned(inode[Target(t)]) \subseteq Owned(th[t].ino)
    BY <2>1, <2>4 DEF ChangedOK
  <2>6. Grown(t) = Owned(th[t].ino) \ Owned(inode[Target(t)]) BY <2>1 DEF Grown
  <2>7. Has(Target(t)) = Owned(inode[Target(t)])
    <3>1. \A u \in Threads : Freed(u) => th[u].kid # Target(t) BY <1>2, <2>2, FreedIs
    <3> QED BY <2>2, <3>1, HasIs
  <2> QED BY <1>0, <1>1, <1>3, <2>1, <2>2, <2>3, <2>5, <2>6, <2>7 DEF IsDir
<1>4. CASE th[t].kind \notin Writes
  <2>1. Making(t) /\ ~Writing(t) /\ ~Changing(t) /\ Target(t) = th[t].cur
    BY <1>1, <1>4 DEF Changing, Target
  <2>2. /\ Target(t) \in Inodes /\ HasX(t, Target(t)) /\ IsDir(th[t].cur) /\ th[t].cur \in Inodes
        /\ (\A u \in Threads : u # t => th[u].cur # th[t].cur)
    BY <2>1, MakingIs, InDir
  <2>3. th[t].ino = inode[th[t].cur]
    <3>1. KeptOK(t) BY <1>i DEF InoInv
    <3> QED BY <2>1, <3>1 DEF KeptOK
  <2>4. Sized(th[t].ino) BY <1>i, <2>2, <2>3 DEF SizeInv
  <2>5. Grown(t) = {} BY <2>1 DEF Grown
  <2>6. Entries(th[t].cur) <= Slots * inode[th[t].cur].size - 2
    <3>1. \A u \in Threads : ~Filling(u, th[t].cur) BY <2>2 DEF Filling
    <3> QED BY <1>i, <2>2, <3>1, FitsIs
  <2>7. Has(Target(t)) = Owned(inode[Target(t)])
    <3>1. \A u \in Threads : Freed(u) => th[u].kid # Target(t) BY <1>2, <2>2, FreedIs
    <3> QED BY <2>2, <3>1, HasIs
  <2> QED BY <1>0, <1>1, <1>4, <2>1, <2>2, <2>3, <2>4, <2>5, <2>6, <2>7 DEF IsDir
<1> QED BY <1>3, <1>4

\* A block is taken, or is not to be had, and more are needed.
LEMMA TakeOn ==
  ASSUME SafeInv, Rules, NEW t \in Threads, Steps(t), pc[t] = "take", pc'[t] \in {"take", "give_back"},
         inode' = inode, dirent' = dirent, dotdot' = dotdot, files' = files, ibits' = ibits,
         th'[t].cur = th[t].cur, th'[t].kid = th[t].kid, th'[t].kind = th[t].kind, th'[t].fd = th[t].fd,
         th'[t].ino = th[t].ino, th'[t].index = th[t].index
  PROVE  /\ KnownInv' /\ LinkInv' /\ TreeInv' /\ SizeInv' /\ InoInv'
         /\ \A u \in Threads : u # t => Grown(u)' = Grown(u) /\ Spare(u)' = Spare(u) /\ Taken(u)' = Taken(u)
         /\ Grown(t)' = Grown(t) /\ Spare(t)' = Spare(t) /\ \A i \in Inodes : Has(i)' = Has(i)
<1>0. TypeOK /\ KindOK(t) BY Own
<1>i. KnownInv /\ LinkInv /\ TreeInv /\ InoInv /\ SizeInv BY DEF Rules
<1>4. /\ (Making(t)' <=> Making(t)) /\ (Writing(t)' <=> Writing(t)) /\ (Changing(t) <=> Writing(t)) /\ (Changing(t)' <=> Writing(t)')
      /\ ~Removed(t) /\ ~Removed(t)'
      /\ ~Removing(t)' /\ ~Freed(t) /\ ~Freed(t)' /\ (Mkdirs(t)' => Mkdirs(t)) /\ pc'[t] \notin {"write_new", "write_dir"}
  BY DEF Making, Writing, Changing, Removing, Removed, Freed, Mkdirs
<1>5. ~More(t) /\ ~More(t)' /\ ~Less(t) /\ ~Less(t)' BY <1>4 DEF More, Less
<1>m. MoreFits(t)'
  <2>1. MoreFits(t) BY <1>i, LinkParts
  <2> QED BY <1>4, <2>1 DEF MoreFits
<1>6. Keep(t) /\ LinkInv' /\ TreeInv' /\ SizeInv' BY <1>0, <1>m, <1>5, SameTree
<1>t. Target(t)' = Target(t) BY <1>4 DEF Target
<1>g. Owned(th[t].ino)' = Owned(th[t].ino) /\ Owned(inode[Target(t)])' = Owned(inode[Target(t)])
  BY <1>t DEF Owned
<1>7. KeptOK(t)' /\ ChangedOK(t)'
  <2>1. KeptOK(t) /\ ChangedOK(t) BY <1>i DEF InoInv
  <2>2. KeptOK(t)' BY <1>4, <2>1 DEF KeptOK
  <2>3. Sized(th[t].ino)' <=> Sized(th[t].ino) BY DEF Sized
  <2>4. ChangedOK(t)' BY <1>4, <1>t, <1>g, <2>1, <2>3 DEF ChangedOK
  <2> QED BY <2>2, <2>4
<1>8. /\ InoInv'
      /\ \A u \in Threads : u # t => Grown(u)' = Grown(u) /\ Spare(u)' = Spare(u) /\ Taken(u)' = Taken(u)
  BY <1>i, <1>6, <1>7, InoStep
<1>9. Grown(t)' = Grown(t) /\ Spare(t)' = Spare(t) BY <1>4, <1>g DEF Grown, Spare
<1>10. \A i \in Inodes : Has(i)' = Has(i) BY <1>4, HasSame
<1>11. KnownInv' BY <1>i, <1>4, KnownSame DEF Bound
<1> QED BY <1>6, <1>8, <1>9, <1>10, <1>11

\* The file block is there, and the call goes on.
LEMMA TakeDone ==
  ASSUME SafeInv, Rules, NEW t \in Threads, Steps(t), pc[t] = "take", pc'[t] \in Onward(t), NEW new,
         Bumped(t, <<>>, new), dirent' = Added(t), inode' = inode, dotdot' = dotdot, files' = files, ibits' = ibits,
         new.mode = th[t].ino.mode, new.links = th[t].ino.links, Sized(new), Owned(th[t].ino) \subseteq Owned(new),
         th[t].kind \notin Writes => new.size = th[t].ino.size + 1
  PROVE  /\ KnownInv' /\ LinkInv' /\ TreeInv' /\ SizeInv' /\ InoInv'
         /\ \A u \in Threads : u # t => Grown(u)' = Grown(u) /\ Spare(u)' = Spare(u) /\ Taken(u)' = Taken(u)
         /\ Grown(t)' = Owned(new) \ Owned(inode[Target(t)])
         /\ Spare(t)' = Spare(t) /\ Taken(t)' = {} /\ \A i \in Inodes : Has(i)' = Has(i)
<1>0. TypeOK /\ KindOK(t) BY Own
<1>i. KnownInv /\ LinkInv /\ TreeInv /\ InoInv /\ SizeInv BY DEF Rules
<1>1. /\ th'[t].cur = th[t].cur /\ th'[t].kid = th[t].kid /\ th'[t].kind = th[t].kind /\ th'[t].fd = th[t].fd
      /\ th'[t].got = <<>> /\ th'[t].ino = new /\ (th[t].kind \notin Writes => th'[t].index = th[t].index)
  BY DEF Bumped, Becomes
<1>2. /\ th[t].kind \in Writes => pc'[t] \in {"take", "store"} /\ dirent' = dirent
      /\ th[t].kind \notin Writes => /\ pc'[t] = "write_new"
                                     /\ dirent' = [dirent EXCEPT ![th[t].cur][Name(t)] = th[t].kid]
  BY OnwardLabels DEF Added
<1>o. /\ Target(t) \in Inodes
      /\ th[t].ino.mode = inode[Target(t)].mode /\ th[t].ino.links = inode[Target(t)].links
      /\ Owned(inode[Target(t)]) \subseteq Owned(th[t].ino)
      /\ (Making(t) <=> th[t].kind \notin Writes) /\ (Writing(t) <=> th[t].kind \in Writes)
      /\ IF th[t].kind \in Writes THEN Target(t) = files[th[t].fd]
         ELSE Target(t) = th[t].cur /\ Entries(th[t].cur) <= Slots * th[t].ino.size - 2
  BY TakeHas
<1>4. /\ (Making(t)' <=> Making(t)) /\ (Writing(t)' <=> Writing(t)) /\ Changing(t)' /\ ~Removed(t) /\ ~Removed(t)'
      /\ ~Removing(t)' /\ ~Freed(t) /\ ~Freed(t)' /\ (th[t].kind \in Writes => ~Mkdirs(t)' /\ ~Bound(t))
  BY <1>1, <1>2, <1>o DEF Making, Writing, Changing, Removing, Removed, Freed, Mkdirs, Bound
<1>6. Keep(t) /\ KnownInv' /\ LinkInv' /\ TreeInv' /\ SizeInv'
      /\ (th[t].kind \notin Writes => Entries(th[t].cur)' = Entries(th[t].cur) + 1)
  <2>1. CASE th[t].kind \in Writes
    <3>1. ~More(t) /\ ~More(t)' /\ ~Less(t) /\ ~Less(t)' BY <1>1, <2>1 DEF More, Less
    <3>2. Keep(t) /\ LinkInv' /\ TreeInv' /\ SizeInv'
      BY <1>1, <1>2, <1>4, <2>1, <3>1, SameTree DEF MoreFits
    <3>3. KnownInv' BY <1>i, <1>2, <1>4, <2>1, KnownSame
    <3> QED BY <2>1, <3>2, <3>3
  <2>2. CASE th[t].kind \notin Writes
    BY <1>1, <1>2, <1>o, <2>2, AddRules
  <2> QED BY <2>1, <2>2
<1>t. Target(t)' = Target(t) BY <1>1, <1>4 DEF Target
<1>g. Owned(th[t].ino)' = Owned(new) /\ Owned(inode[Target(t)])' = Owned(inode[Target(t)])
  BY <1>1, <1>t DEF Owned
<1>7. KeptOK(t)'
  <2>1. pc'[t] = "write_new" \/ ~Making(t)' BY <1>2, <1>4, <1>o
  <2>2. pc'[t] # "write_dir" BY <1>2
  <2> QED BY <1>4, <2>1, <2>2 DEF KeptOK
<1>s. ChangedOK(t)'
  <2>1. Sized(th[t].ino)' BY <1>1 DEF Sized
  <2>2. th[t].kind \notin Writes => (Entries(th[t].cur) <= Slots * th[t].ino.size - 2)'
    <3> SUFFICES ASSUME th[t].kind \notin Writes
                 PROVE (Entries(th[t].cur) <= Slots * th[t].ino.size - 2)'
      OBVIOUS
    <3>1. th[t].ino.size \in Int
      <4>1. th[t].ino \in InodeType BY Own
      <4> QED BY <4>1 DEF InodeType
    <3>2. Slots * (th[t].ino.size + 1) = Slots * th[t].ino.size + Slots /\ Slots * th[t].ino.size \in Int
      BY <3>1
    <3>3. Entries(th[t].cur) \in Nat BY EntriesNat
    <3>5. Entries(th[t].cur) <= Slots * th[t].ino.size - 2 BY <1>o
    <3>6. PICK e \in Nat, p \in Int : e = Entries(th[t].cur) /\ p = Slots * th[t].ino.size
      BY <3>2, <3>3
    <3>7. e <= p - 2 BY <3>5, <3>6
    <3>8. e + 1 <= p + Slots - 2 BY <3>7
    <3>4. Entries(th[t].cur) + 1 <= Slots * (th[t].ino.size + 1) - 2
      <4>1. PICK q \in Int : q = Slots * (th[t].ino.size + 1) BY <3>1
      <4>2. q = p + Slots BY <3>2, <3>6, <4>1
      <4>3. e + 1 <= q - 2 BY <3>8, <4>2
      <4> QED BY <3>6, <4>1, <4>3
    <3> QED BY <1>1, <1>6, <3>4
  <2>3. th'[t].ino.mode = inode'[Target(t)'].mode /\ th'[t].ino.links = inode'[Target(t)'].links
    BY <1>1, <1>o, <1>t
  <2>4. Owned(inode[Target(t)])' \subseteq Owned(th[t].ino)' BY <1>g, <1>o
  <2> QED BY <1>4, <1>o, <2>1, <2>2, <2>3, <2>4 DEF ChangedOK
<1>8. /\ InoInv'
      /\ \A u \in Threads : u # t => Grown(u)' = Grown(u) /\ Spare(u)' = Spare(u) /\ Taken(u)' = Taken(u)
  BY <1>i, <1>6, <1>7, <1>s, InoStep
<1>9. Grown(t)' = Owned(new) \ Owned(inode[Target(t)]) BY <1>4, <1>g DEF Grown
<1>11. Spare(t)' = Spare(t) BY <1>1, <1>2, <1>4, <1>o, SpareIs
<1>12. Taken(t)' = {} BY <1>1 DEF Taken
<1>10. \A i \in Inodes : Has(i)' = Has(i) BY <1>1, <1>4, HasSame
<1> QED BY <1>6, <1>8, <1>9, <1>10, <1>11, <1>12

\* What a sequence has, and one more.
LEMMA RangeAppend ==
  ASSUME NEW s \in Seq(Blocks), NEW e \in Blocks
  PROVE  {Append(s, e)[k] : k \in DOMAIN Append(s, e)} = {s[k] : k \in DOMAIN s} \cup {e}
<1>1. /\ DOMAIN s = 1..Len(s) /\ DOMAIN Append(s, e) = 1..(Len(s) + 1) /\ Len(s) \in Nat
      /\ Append(s, e)[Len(s) + 1] = e /\ \A k \in 1..Len(s) : Append(s, e)[k] = s[k]
  OBVIOUS
<1>2. \A x : x \in {Append(s, e)[k] : k \in 1..(Len(s) + 1)} <=> x \in {s[k] : k \in 1..Len(s)} \cup {e}
  <2> SUFFICES ASSUME NEW x
               PROVE  (\E k \in 1..(Len(s) + 1) : x = Append(s, e)[k]) <=> (x = e \/ \E k \in 1..Len(s) : x = s[k])
    OBVIOUS
  <2>1. \A k \in 1..(Len(s) + 1) : k = Len(s) + 1 \/ k \in 1..Len(s) BY <1>1
  <2>2. \A k \in 1..Len(s) : k \in 1..(Len(s) + 1) BY <1>1
  <2>3. Len(s) + 1 \in 1..(Len(s) + 1) BY <1>1
  <2> QED BY <1>1, <2>1, <2>2, <2>3
<1> QED BY <1>1, <1>2

\* Alloc_all takes one more block: the rules between the steps still hold.
LEMMA TakeRules ==
  ASSUME SafeInv, Rules, NEW t \in Threads, Take(t)
  PROVE  Rules'
<1>0. /\ TypeOK /\ KindOK(t) /\ IndexOK(t) /\ th[t].got \in Seq(Blocks) /\ pc[t] = "take" /\ th[t].index \in Nat
      /\ Needed(th[t].ino, Index(t)) # 0
  BY Own DEF Take
<1>i. BlockInv BY DEF Rules
<1>2. Steps(t) BY <1>0, TakeEffect
<1>3. inode' = inode /\ dotdot' = dotdot /\ files' = files /\ ibits' = ibits BY DEF Take, bits, table
<1>o. /\ Target(t) \in Inodes /\ th[t].ino \in InodeType /\ Sized(th[t].ino)
      /\ Owned(inode[Target(t)]) \subseteq Owned(th[t].ino)
      /\ Grown(t) = Owned(th[t].ino) \ Owned(inode[Target(t)])
      /\ Has(Target(t)) = Owned(inode[Target(t)])
      /\ th[t].ino.mode = "dir" => th[t].kind \notin Writes
  BY <1>0, TakeHas
<1>c. /\ <<t, "taken">> \in Claims /\ Claim[<<t, "taken">>] = Taken(t) /\ Claim'[<<t, "taken">>] = Taken(t)'
      /\ <<t, "grown">> \in Claims /\ Claim[<<t, "grown">>] = Grown(t) /\ Claim'[<<t, "grown">>] = Grown(t)'
      /\ <<t, "spare">> \in Claims /\ Claim[<<t, "spare">>] = Spare(t) /\ Claim'[<<t, "spare">>] = Spare(t)'
  BY ClaimIs, ClaimNext
<1>4. CASE NoBlock(t) /\ pc'[t] = "give_back" /\ th' = th /\ bbits' = bbits /\ dirent' = dirent
  <2>1. /\ KnownInv' /\ LinkInv' /\ TreeInv' /\ SizeInv' /\ InoInv'
        /\ \A u \in Threads : u # t => Grown(u)' = Grown(u) /\ Spare(u)' = Spare(u) /\ Taken(u)' = Taken(u)
        /\ Grown(t)' = Grown(t) /\ Spare(t)' = Spare(t) /\ \A i \in Inodes : Has(i)' = Has(i)
    BY <1>0, <1>2, <1>3, <1>4, TakeOn
  <2>2. Taken(t)' = Taken(t) BY <1>4 DEF Taken
  <2>3. BlockInv' BY <1>i, <1>4, <2>1, <2>2, ClaimsAll, ClaimsSame
  <2> QED BY <2>1, <2>3 DEF Rules
<1>5. ASSUME NEW b \in Blocks \ bbits, b = Min(Blocks \ bbits), bbits' = bbits \cup {b}, pc' = pc, dirent' = dirent,
             Becomes(th[t], th'[t], th[t].depth, th[t].cur, th[t].kid, th[t].held, th[t].index,
                     th[t].ino,
                     Append(th[t].got, b), th[t].over)
      PROVE  Rules'
  <2>1. /\ th'[t].cur = th[t].cur /\ th'[t].kid = th[t].kid /\ th'[t].kind = th[t].kind /\ th'[t].fd = th[t].fd
        /\ th'[t].ino = th[t].ino /\ th'[t].index = th[t].index /\ th'[t].got = Append(th[t].got, b)
    BY <1>5 DEF Becomes
  <2>2. /\ KnownInv' /\ LinkInv' /\ TreeInv' /\ SizeInv' /\ InoInv'
        /\ \A u \in Threads : u # t => Grown(u)' = Grown(u) /\ Spare(u)' = Spare(u) /\ Taken(u)' = Taken(u)
        /\ Grown(t)' = Grown(t) /\ Spare(t)' = Spare(t) /\ \A i \in Inodes : Has(i)' = Has(i)
    BY <1>0, <1>2, <1>3, <1>5, <2>1, TakeOn
  <2>3. Taken(t)' = Taken(t) \cup {b}
    <3>1. b \in Blocks OBVIOUS
    <3>s. PICK s \in Seq(Blocks) : s = th[t].got BY <1>0
    <3>a. {Append(s, b)[k] : k \in DOMAIN Append(s, b)} = {s[k] : k \in DOMAIN s} \cup {b}
      BY <3>1, <3>s, RangeAppend, Zenon
    <3>2. {Append(th[t].got, b)[k] : k \in DOMAIN Append(th[t].got, b)} = {th[t].got[k] : k \in DOMAIN th[t].got} \cup {b}
      BY <3>s, <3>a
    <3> QED BY <2>1, <3>2 DEF Taken
  <2>4. \A k \in Claims : k # <<t, "taken">> => Claim'[k] = Claim[k]
    <3>1. \A k \in Claims : \/ Claim'[k] = Claim[k]
                            \/ k \in {<<t, "spare">>, <<t, "grown">>, <<t, "taken">>}
      BY <2>2, OthersClaims
    <3> QED BY <1>c, <2>2, <3>1
  <2>5. Claim'[<<t, "taken">>] = Claim[<<t, "taken">>] \cup {b} BY <1>c, <2>3
  <2>6. {b} \in SUBSET Blocks /\ {b} \cap bbits = {} OBVIOUS
  <2>7. BlockInv' BY <1>i, <1>c, <1>5, <2>4, <2>5, <2>6, ClaimsGrow
  <2> QED BY <2>2, <2>7 DEF Rules
<1>6. ASSUME NEW b \in Blocks \ bbits, b = Min(Blocks \ bbits), bbits' = bbits \cup {b}, ~NoBlock(t), dirent' = Added(t), pc'[t] \in Onward(t),
             Len(Append(th[t].got, b)) = Needed(th[t].ino, Index(t)),
             Bumped(t, <<>>, With(th[t].ino, Index(t), Append(th[t].got, b)))
      PROVE  Rules'
  <2>1. PICK got \in Seq(Blocks) : got = Append(th[t].got, b) BY <1>0, AppendIn
  <2>2. Index(t) \in Indexes /\ (th[t].ino.mode = "dir" => Index(t) = th[t].ino.size)
    <3>1. Index(t) \in Nat BY <1>0, <1>o DEF Index, InodeType
    <3>2. Index(t) <= MaxIndex BY <1>6, <3>1 DEF NoBlock
    <3>3. th[t].ino.mode = "dir" => Index(t) = th[t].ino.size BY <1>o DEF Index
    <3> QED BY <3>1, <3>2, <3>3 DEF Indexes
  <2>3. PICK new : new = With(th[t].ino, Index(t), got) OBVIOUS
  <2>4. /\ new.mode = th[t].ino.mode /\ new.links = th[t].ino.links
        /\ new.size = (IF Index(t) + 1 > th[t].ino.size THEN Index(t) + 1 ELSE th[t].ino.size)
        /\ Owned(new) = Owned(th[t].ino) \cup {got[k] : k \in DOMAIN got} /\ Sized(new)
    <3>1. PICK i \in Indexes : i = Index(t) BY <2>2
    <3>2. Needed(th[t].ino, i) # 0 /\ Len(got) = Needed(th[t].ino, i) /\ new = With(th[t].ino, i, got)
      BY <1>0, <1>6, <2>1, <2>3, <3>1
    <3> QED BY <1>o, <2>2, <3>1, <3>2, WithIs
  <2>5. {got[k] : k \in DOMAIN got} = Taken(t) \cup {b}
    <3>1. b \in Blocks OBVIOUS
    <3>s. PICK s \in Seq(Blocks) : s = th[t].got BY <1>0
    <3>a. {Append(s, b)[k] : k \in DOMAIN Append(s, b)} = {s[k] : k \in DOMAIN s} \cup {b}
      BY <3>1, <3>s, RangeAppend, Zenon
    <3>2. {Append(th[t].got, b)[k] : k \in DOMAIN Append(th[t].got, b)} = {th[t].got[k] : k \in DOMAIN th[t].got} \cup {b}
      BY <3>s, <3>a
    <3> QED BY <2>1, <3>2 DEF Taken
  <2>6. th[t].kind \notin Writes => new.size = th[t].ino.size + 1
    <3>1. th[t].ino.size \in Nat BY <1>o DEF InodeType
    <3>2. th[t].kind \notin Writes => Index(t) = th[t].ino.size BY DEF Index
    <3> QED BY <2>4, <3>1, <3>2
  <2>7. Bumped(t, <<>>, new) BY <1>6, <2>1, <2>3
  <2>8. /\ KnownInv' /\ LinkInv' /\ TreeInv' /\ SizeInv' /\ InoInv'
        /\ \A u \in Threads : u # t => Grown(u)' = Grown(u) /\ Spare(u)' = Spare(u) /\ Taken(u)' = Taken(u)
        /\ Grown(t)' = Owned(new) \ Owned(inode[Target(t)])
        /\ Spare(t)' = Spare(t) /\ Taken(t)' = {} /\ \A i \in Inodes : Has(i)' = Has(i)
    BY <1>0, <1>2, <1>3, <1>6, <2>4, <2>6, <2>7, TakeDone
  <2>9. (Taken(t) \cup {b}) \cap Owned(inode[Target(t)]) = {}
    <3>1. <<Target(t), "inode">> \in Claims /\ Claim[<<Target(t), "inode">>] = Has(Target(t))
      BY <1>o, ClaimIs
    <3>2. Claim[<<Target(t), "inode">>] \cap Claim[<<t, "taken">>] = {}
      <4>1. <<Target(t), "inode">> # <<t, "taken">> OBVIOUS
      <4> QED BY <1>i, <1>c, <3>1, <4>1 DEF BlockInv
    <3>3. b \notin Claim[<<Target(t), "inode">>] BY <1>i, <3>1 DEF BlockInv
    <3> QED BY <1>o, <1>c, <3>1, <3>2, <3>3
  <2>10. Grown(t)' = Grown(t) \cup Taken(t) \cup {b} BY <1>o, <2>4, <2>5, <2>8, <2>9
  <2>11. \A k \in Claims : k # <<t, "taken">> /\ k # <<t, "grown">> => Claim'[k] = Claim[k]
    <3>1. \A k \in Claims : \/ Claim'[k] = Claim[k]
                            \/ k \in {<<t, "spare">>, <<t, "grown">>, <<t, "taken">>}
      BY <2>8, OthersClaims
    <3> QED BY <1>c, <2>8, <3>1
  <2>12. Claim'[<<t, "taken">>] = {} /\ Claim'[<<t, "grown">>] = Claim[<<t, "grown">>] \cup Claim[<<t, "taken">>] \cup {b}
    BY <1>c, <2>8, <2>10
  <2>13. {b} \in SUBSET Blocks /\ {b} \cap bbits = {} /\ <<t, "taken">> # <<t, "grown">> OBVIOUS
  <2>14. BlockInv' BY <1>i, <1>c, <1>6, <2>11, <2>12, <2>13, ClaimsMove
  <2> QED BY <2>8, <2>14 DEF Rules
<1> QED BY <1>0, <1>4, <1>5, <1>6, TakeEffect

\* The block is there already: the rules between the steps still hold.
LEMMA OverwriteRules ==
  ASSUME SafeInv, Rules, NEW t \in Threads, Overwrite(t)
  PROVE  Rules'
<1>0. /\ TypeOK /\ KindOK(t) /\ InoOK(t) /\ IndexOK(t) /\ th[t].got \in Seq(Blocks) /\ pc[t] = "take" /\ th[t].index \in Nat
      /\ Needed(th[t].ino, Index(t)) = 0
  BY Own DEF Overwrite
<1>i. BlockInv BY DEF Rules
<1>2. /\ Steps(t) /\ pc'[t] \in Onward(t)
      /\ Bumped(t, th[t].got, Sizing(th[t].ino, Index(t))) /\ dirent' = Added(t)
  BY <1>0, OverwriteEffect
<1>3. inode' = inode /\ dotdot' = dotdot /\ files' = files /\ ibits' = ibits /\ bbits' = bbits
  BY DEF Overwrite, bits, table
<1>g. th[t].got = <<>>
  <2>1. th[t].got = <<>> \/ Len(th[t].got) < 0 BY <1>0 DEF InoOK
  <2> QED BY <1>0, <2>1
<1>o. /\ Target(t) \in Inodes /\ th[t].ino \in InodeType /\ Sized(th[t].ino)
      /\ Grown(t) = Owned(th[t].ino) \ Owned(inode[Target(t)])
      /\ (th[t].kind \in Writes => th[t].ino.mode # "dir")
  BY <1>0, TakeHas
<1>n. Index(t) <= MaxIndex /\ th[t].ino.ptr[Index(t)] # 0
  <2>1. Index(t) \in Nat BY <1>0, <1>o DEF Index, InodeType
  <2>2. MaxIndex \in Nat OBVIOUS
  <2> QED BY <1>0, <2>1, <2>2 DEF Needed
<1>w. th[t].kind \in Writes
  <2> SUFFICES ASSUME th[t].kind \notin Writes PROVE FALSE OBVIOUS
  <2>1. Index(t) = th[t].ino.size /\ th[t].ino.size \in Nat BY <1>o DEF Index, InodeType
  <2>2. th[t].ino.size \in Indexes BY <1>n, <2>1 DEF Indexes
  <2>3. th[t].ino.ptr[th[t].ino.size] = 0 BY <1>o, <2>1, <2>2 DEF Sized
  <2> QED BY <1>n, <2>1, <2>3
<1>x. Index(t) \in Indexes BY <1>0, <1>w DEF Index, IndexOK
<1>p. PICK new : new = Sizing(th[t].ino, Index(t)) OBVIOUS
<1>4. /\ new.mode = th[t].ino.mode /\ new.links = th[t].ino.links /\ Owned(new) = Owned(th[t].ino) /\ Sized(new)
  BY <1>o, <1>w, <1>x, <1>p, SizingIs
<1>5. Bumped(t, <<>>, new) BY <1>2, <1>g, <1>p
<1>6. /\ KnownInv' /\ LinkInv' /\ TreeInv' /\ SizeInv' /\ InoInv'
      /\ \A u \in Threads : u # t => Grown(u)' = Grown(u) /\ Spare(u)' = Spare(u) /\ Taken(u)' = Taken(u)
      /\ Grown(t)' = Owned(new) \ Owned(inode[Target(t)])
      /\ Spare(t)' = Spare(t) /\ Taken(t)' = {} /\ \A i \in Inodes : Has(i)' = Has(i)
  BY <1>0, <1>2, <1>3, <1>w, <1>4, <1>5, TakeDone
<1>7. Taken(t) = {} BY <1>g DEF Taken
<1>8. Grown(t)' = Grown(t) BY <1>o, <1>4, <1>6
<1>9. BlockInv' BY <1>i, <1>3, <1>6, <1>7, <1>8, ClaimsAll, ClaimsSame
<1> QED BY <1>6, <1>9 DEF Rules

-----------------------------------------------------------------------------
(* Every step *)

\* A commit wakes the calls that wait for it, and changes nothing else.
LEMMA WakeRules ==
  ASSUME Rules, UNCHANGED <<ibits, bbits, inode, dirent, dotdot, files, th>>,
         \A t \in Threads : pc'[t] = pc[t] \/ (pc[t] = "sync" /\ pc'[t] = "idle")
  PROVE  Rules'
<1>1. \A t \in Threads : /\ Making(t)' <=> Making(t)
                         /\ Removed(t)' <=> Removed(t)
                         /\ Writing(t)' <=> Writing(t)
                         /\ More(t)' <=> More(t)
                         /\ pc'[t] \in {"write_new", "write_dir"} <=> pc[t] \in {"write_new", "write_dir"}
                         /\ pc'[t] \in {"write_file", "clear_inode"} <=> pc[t] \in {"write_file", "clear_inode"}
                         /\ pc'[t] \in {"alloc_block", "undo_inode"} <=> pc[t] \in {"alloc_block", "undo_inode"}
                         /\ pc'[t] \in {"alloc_inode", "write_dir"} <=> pc[t] \in {"alloc_inode", "write_dir"}
                         /\ pc'[t] = "write_dir" <=> pc[t] = "write_dir"
                         /\ pc'[t] = "write_new" <=> pc[t] = "write_new"
                         /\ pc'[t] = "dir_remove" <=> pc[t] = "dir_remove"
  BY DEF Making, Removed, Writing, More
<1>2. \A t \in Threads : /\ Less(t)' <=> Less(t)
                         /\ Removing(t)' <=> Removing(t)
                         /\ Changing(t)' <=> Changing(t)
                         /\ Target(t)' = Target(t)
  BY <1>1 DEF Less, Removing, Changing, Target
<1>3. \A t \in Threads : Grown(t)' = Grown(t) /\ Spare(t)' = Spare(t) /\ Taken(t)' = Taken(t)
  BY <1>1, <1>2 DEF Grown, Spare, Taken
<1>4. \A i \in Inodes : Has(i)' = Has(i) BY <1>1 DEF Has
<1>5. KnownInv' BY <1>1 DEF Rules, KnownInv, Unnamed
<1>6. \A i \in Inodes : OneMore(i)' = OneMore(i) /\ OneLess(i)' = OneLess(i)
  BY <1>1, <1>2 DEF OneMore, OneLess
<1>7. LinkInv'
  <2>1. LinkInv BY DEF Rules
  <2>2. Dirs' = Dirs /\ \A i \in Inodes : Subdirs(i)' = Subdirs(i) BY DEF Dirs, Subdirs
  <2>3. \A i \in Dirs : i \in Inodes BY DEF Dirs
  <2>4. \A i \in Dirs' : (inode[i].links + OneMore(i) = 2 + Cardinality(Subdirs(i)) + OneLess(i))'
    BY <1>6, <2>1, <2>2, <2>3 DEF LinkInv
  <2> QED BY <1>1, <2>1, <2>2, <2>4 DEF LinkInv
<1>8. TreeInv' BY DEF Rules, TreeInv
<1>9. InoInv'
  <2>1. InoInv BY DEF Rules
  <2>2. \A t \in Threads : KeptOK(t)' BY <1>1, <1>2, <2>1 DEF InoInv, KeptOK
  <2>3. \A t \in Threads : ChangedOK(t)' BY <1>1, <1>2, <2>1 DEF InoInv, ChangedOK, Entries
  <2> QED BY <2>2, <2>3 DEF InoInv
<1>10. SizeInv' BY <1>1 DEF Rules, SizeInv, IsDir, Entries
<1>11. BlockInv' BY <1>3, <1>4, ClaimsAll, ClaimsSame DEF Rules
<1> QED BY <1>5, <1>7, <1>8, <1>9, <1>10, <1>11 DEF Rules

\* A commit wakes the calls that wait for it: RunInv is kept.
LEMMA WakeRun ==
  ASSUME RunInv, UNCHANGED <<running, th>>,
         \A t \in Threads : pc'[t] = pc[t] \/ (pc[t] = "sync" /\ pc'[t] = "idle")
  PROVE  RunInv'
<1>1. \A t \in Threads : pc'[t] # "begin" <=> pc[t] # "begin" OBVIOUS
<1> QED BY <1>1 DEF RunInv

\* The steps of one thread, but for a failure to read.
LEMMA ThreadRun ==
  ASSUME SafeInv, RunInv, NEW t \in Threads, CallPath(t) \/ CallFd(t) \/ Fsync(t) \/ Continue(t)
  PROVE  RunInv'
<1>1. CASE CallPath(t) \/ CallFd(t) \/ Fsync(t) BY <1>1, CallPathRun, CallFdRun, FsyncRun
<1>2. CASE Begin(t) \/ LockKid(t) \/ Register(t) \/ Exit(t) \/ Install(t)
  BY <1>2, BeginRun, LockKidRun, RegisterRun, ExitRun, InstallRun
<1>3. CASE Walk(t)
  BY <1>3, WalkRootRun, WalkLockRun, WalkNextRun, AtOpenRun, AtChildRun, AtNoneRun DEF Walk
<1>4. CASE Make(t)
  BY <1>4, AllocInodeRun, AllocBlockRun, DirAddRun, UndoBlockRun, UndoInodeRun, WriteNewRun,
     WriteDirRun DEF Make
<1>5. CASE Remove(t)
  BY <1>5, CheckRun, DirRemoveRun, TruncateRun, FreeBlocksRun, WriteFileRun, ClearInodeRun,
     FreeInodeRun DEF Remove
<1>6. CASE Fill(t)
  BY <1>6, TakeRun, GiveBackRun, OverwriteRun, LockFileRun, StoreRun, UnlockFileRun, CloseRun DEF Fill
<1> QED BY <1>1, <1>2, <1>3, <1>4, <1>5, <1>6 DEF Continue

\* The steps of one thread, but for a failure to read.
LEMMA ThreadRules ==
  ASSUME SafeInv, Rules, NEW t \in Threads, CallPath(t) \/ CallFd(t) \/ Fsync(t) \/ Continue(t)
  PROVE  Rules'
<1>1. CASE CallPath(t) \/ CallFd(t) \/ Fsync(t) BY <1>1, CallPathRules, CallFdRules, FsyncRules
<1>2. CASE Begin(t) \/ LockKid(t) \/ Register(t) \/ Exit(t) \/ Install(t)
  BY <1>2, BeginRules, LockKidRules, RegisterRules, ExitRules, InstallRules
<1>3. CASE Walk(t)
  BY <1>3, WalkRootRules, WalkLockRules, WalkNextRules, AtOpenRules, AtChildRules, AtNoneRules
     DEF Walk
<1>4. CASE Make(t)
  BY <1>4, AllocInodeRules, AllocBlockRules, DirAddRules, UndoBlockRules, UndoInodeRules,
     WriteNewRules, WriteDirRules DEF Make
<1>5. CASE Remove(t)
  BY <1>5, CheckRules, DirRemoveRules, TruncateRules, FreeBlocksRules, WriteFileRules,
     ClearInodeRules, FreeInodeRules DEF Remove
<1>6. CASE Fill(t)
  BY <1>6, TakeRules, GiveBackRules, OverwriteRules, LockFileRules, StoreRules, UnlockFileRules,
     CloseRules DEF Fill
<1> QED BY <1>1, <1>2, <1>3, <1>4, <1>5, <1>6 DEF Continue

\* The image mkfs leaves.
LEMMA InitRules ==
  ASSUME Init
  PROVE  RunInv /\ UsedInv /\ Rules
<1>0. Root \in Inodes /\ 1 \in Blocks /\ 1 \in Nat /\ 0 \notin Inodes BY DEF Root, Inodes, Blocks
<1>1. \A t \in Threads : pc[t] = "idle" /\ th[t] = Idle BY DEF Init
<1>2. \A t \in Threads : /\ ~Making(t) /\ ~Removed(t) /\ ~Removing(t) /\ ~Writing(t) /\ ~Changing(t)
                         /\ ~More(t) /\ ~Less(t)
                         /\ th[t].got = <<>> /\ th[t].kind = "stat" /\ pc[t] = "idle"
  BY <1>1, IdleType DEF Making, Removed, Removing, Writing, Changing, More, Less
<1>3. /\ inode[Root] = NewDir(1) /\ \A i \in Inodes : i # Root => inode[i] = NoInode
      /\ \A i \in Inodes, n \in Names : dirent[i][n] = 0
  BY <1>0 DEF Init, Empty
<1>n. NewDir(1).mode = "dir" /\ NewDir(1).links = 2 /\ NewDir(1).size = 1 /\ Owned(NewDir(1)) = {1} /\ Sized(NewDir(1))
  BY <1>0, NewDirFits
<1>4. RunInv
  <2>1. running = {} BY DEF Init
  <2>2. \A t \in Threads : th[t].kind \notin InOperation BY <1>2
  <2> QED BY <2>1, <2>2 DEF RunInv
<1>5. UsedInv BY <1>3, <1>n DEF Init, UsedInv
<1>6. KnownInv BY DEF Init, KnownInv
<1>7. LinkInv
  <2>1. \A i \in Inodes : inode[i].mode # "file" BY <1>3, <1>n, NoneOwned
  <2>2. Dirs = {Root} BY <1>0, <1>3, <1>n, NoneOwned DEF Dirs
  <2>3. \A i \in Inodes : Subdirs(i) = {} BY <1>0, <1>3, <2>2 DEF Subdirs
  <2>4. OneMore(Root) = 0 /\ OneLess(Root) = 0 BY <1>2 DEF OneMore, OneLess
  <2>5. Cardinality({}) = 0 BY FS_EmptySet
  <2>6. inode[Root].links + OneMore(Root) = 2 + Cardinality(Subdirs(Root)) + OneLess(Root)
    BY <1>0, <1>3, <1>n, <2>3, <2>4, <2>5
  <2>7. dotdot[Root] = Root BY <1>0 DEF Init
  <2>8. \A d \in Inodes, n \in Names : dirent[d][n] \notin Dirs BY <1>0, <1>3, <2>2
  <2> QED BY <1>2, <2>1, <2>2, <2>6, <2>7, <2>8 DEF LinkInv
<1>8. TreeInv BY <1>3 DEF TreeInv
<1>9. InoInv BY <1>2 DEF InoInv, KeptOK, ChangedOK
<1>10. SizeInv
  <2>1. \A i \in Inodes : Sized(inode[i]) BY <1>3, <1>n, NoneOwned
  <2>2. ASSUME NEW i \in Inodes, IsDir(i) PROVE Entries(i) <= Slots * inode[i].size - 2
    <3>1. i = Root BY <1>3, <2>2, NoneOwned DEF IsDir
    <3>2. {n \in Names : dirent[i][n] # 0} = {} BY <1>3
    <3>3. Entries(i) = 0 BY <3>2, FS_EmptySet DEF Entries
    <3>4. inode[i].size = 1 BY <1>3, <1>n, <3>1
    <3> QED BY <3>3, <3>4
  <2> QED BY <2>1, <2>2 DEF SizeInv
<1>11. BlockInv
  <2>1. \A i \in Inodes : Has(i) = IF i = Root THEN {1} ELSE {}
    <3>1. \A i \in Inodes : Has(i) = Owned(inode[i]) BY <1>1 DEF Has
    <3> QED BY <1>3, <1>n, <3>1, NoneOwned
  <2>2. \A t \in Threads : Spare(t) = {} /\ Grown(t) = {} BY <1>2 DEF Spare, Grown
  <2>3. \A t \in Threads : Taken(t) = {} BY <1>2 DEF Taken
  <2>4. PICK r : r = <<Root, "inode">> OBVIOUS
  <2>5. r \in Claims /\ Claim[r] = {1} BY <1>0, <2>1, <2>4, ClaimIs
  <2>6. \A k \in Claims : k # r => Claim[k] = {}
    <3>1. ASSUME NEW k \in Claims, k # r, NEW i \in Inodes, k = <<i, "inode">> PROVE Claim[k] = {}
      BY <2>1, <2>4, <3>1, ClaimIs
    <3>2. ASSUME NEW k \in Claims, NEW t \in Threads, k \in {<<t, "spare">>, <<t, "grown">>, <<t, "taken">>}
          PROVE Claim[k] = {}
      BY <2>2, <2>3, <3>2, ClaimIs
    <3> QED BY <3>1, <3>2, ClaimIs
  <2>7. bbits = {1} BY DEF Init
  <2> QED BY <2>5, <2>6, <2>7 DEF BlockInv
<1> QED BY <1>4, <1>5, <1>6, <1>7, <1>8, <1>9, <1>10, <1>11 DEF Rules

-----------------------------------------------------------------------------
(* At rest *)

\* No operation runs: no thread has anything on the disk in its hands.
LEMMA Still ==
  ASSUME SafeInv, RunInv, running = {}, NEW t \in Threads
  PROVE  /\ ~Making(t) /\ ~Removed(t) /\ ~Writing(t) /\ ~Changing(t) /\ ~More(t) /\ ~Less(t)
         /\ pc[t] \notin {"write_new", "write_dir", "write_file", "clear_inode", "free_inode"}
         /\ th[t].got = <<>>
<1>0. KindOK(t) /\ InoOK(t) BY Own
<1>1. th[t].kind \notin InOperation \/ pc[t] = "begin" BY DEF RunInv
<1>2. pc[t] \notin {"alloc_inode", "alloc_block", "dir_add", "take", "give_back", "undo_block", "undo_inode", "write_new",
                    "write_dir", "dir_remove", "free_blocks", "write_file", "clear_inode", "free_inode", "store"}
  BY <1>0, <1>1 DEF KindOK
<1>3. th[t].got = <<>> BY <1>0, <1>2 DEF InoOK
<1> QED BY <1>2, <1>3 DEF Making, Removed, Writing, Changing, More, Less

\* At rest, the inodes given out are the ones in use.
LEMMA RestInodes ==
  ASSUME SafeInv, RunInv, UsedInv, running = {}
  PROVE  InodesRule
<1>0. TypeOK /\ NameInv BY DEF SafeInv
<1>1. \A i \in ibits : i \in InUse
  <2>1. \A t \in Threads : ~Making(t) /\ pc[t] # "free_inode" BY Still
  <2> QED BY <1>0, <2>1 DEF UsedInv, InUse, TypeOK
<1>2. \A i \in Inodes : i \notin ibits => i \notin InUse /\ inode[i] = NoInode
  BY <1>0, NoneOwned DEF NameInv, InUse
<1>3. \A i \in InUse : i \in Inodes BY DEF InUse
<1> QED BY <1>0, <1>1, <1>2, <1>3 DEF InodesRule, TypeOK

\* Everything but the root is named, once.
LEMMA RestNamed ==
  ASSUME SafeInv, RunInv, KnownInv, running = {}, NEW i \in ibits, i # Root
  PROVE  \E d \in Dirs, n \in Names : dirent[d][n] = i /\ Naming(i) = {<<d, n>>}
<1>0. TypeOK /\ NameInv /\ i \in Inodes /\ i # 0
  <2>1. TypeOK /\ NameInv BY DEF SafeInv
  <2> QED BY <2>1 DEF TypeOK, Inodes
<1>1. \A t \in Threads : ~Making(t) /\ ~Removed(t) BY Still
<1>2. PICK d \in Inodes, n \in Names : dirent[d][n] = i BY <1>1 DEF KnownInv, Unnamed
<1>3. d \in Dirs BY <1>0, <1>2 DEF NameInv, Dirs
<1>4. \A e \in Dirs, m \in Names : dirent[e][m] = i => e = d /\ m = n BY <1>0, <1>2 DEF NameInv, Dirs
<1>5. \A x \in Dirs \X Names : x = <<x[1], x[2]>> /\ x[1] \in Dirs /\ x[2] \in Names OBVIOUS
<1>6. Naming(i) = {<<d, n>>}
  <2>1. \A x \in Naming(i) : x = <<d, n>> BY <1>4, <1>5 DEF Naming
  <2>2. <<d, n>> \in Naming(i) BY <1>2, <1>3 DEF Naming
  <2> QED BY <2>1, <2>2
<1> QED BY <1>2, <1>3, <1>6

\* At rest, every link is counted, and everything but the root is named once.
LEMMA RestLinks ==
  ASSUME SafeInv, RunInv, UsedInv, KnownInv, LinkInv, running = {}
  PROVE  LinksRule
<1>0. TypeOK /\ ibits = InUse BY RestInodes DEF SafeInv, InodesRule
<1>1. \A i \in Inodes : OneMore(i) = 0 /\ OneLess(i) = 0 BY Still DEF OneMore, OneLess
<1> SUFFICES ASSUME NEW i \in InUse
             PROVE  /\ i # Root => Cardinality(Naming(i)) = 1
                    /\ inode[i].mode = "file" => inode[i].links = 1
                    /\ inode[i].mode = "dir" =>
                          /\ inode[i].links = 2 + Cardinality({n \in Names : dirent[i][n] \in Dirs})
                          /\ dotdot[i] = (IF i = Root THEN Root ELSE (CHOOSE e \in Naming(i) : TRUE)[1])
  BY DEF LinksRule
<1>2. i \in Inodes /\ i \in ibits BY <1>0 DEF InUse
<1>3. ASSUME i # Root
      PROVE  Cardinality(Naming(i)) = 1 /\ (inode[i].mode = "dir" => dotdot[i] = (CHOOSE e \in Naming(i) : TRUE)[1])
  <2>1. PICK d \in Dirs, n \in Names : dirent[d][n] = i /\ Naming(i) = {<<d, n>>}
    BY <1>2, <1>3, RestNamed
  <2>2. Cardinality(Naming(i)) = 1 BY <2>1, FS_Singleton
  <2>3. (CHOOSE e \in Naming(i) : TRUE) = <<d, n>> BY <2>1
  <2>4. d \in Inodes BY DEF Dirs
  <2>5. i \in Dirs => dotdot[i] = d BY <2>1, <2>4 DEF LinkInv
  <2>6. (CHOOSE e \in Naming(i) : TRUE)[1] = d
    <3>1. <<d, n>>[1] = d OBVIOUS
    <3> QED BY <2>3, <3>1, Zenon
  <2>7. inode[i].mode = "dir" => dotdot[i] = d BY <1>2, <2>5 DEF Dirs
  <2> QED BY <2>2, <2>6, <2>7
<1>4. ASSUME inode[i].mode = "dir"
      PROVE  inode[i].links = 2 + Cardinality({n \in Names : dirent[i][n] \in Dirs})
  <2>1. i \in Dirs BY <1>2, <1>4 DEF Dirs
  <2>2. inode[i].links + OneMore(i) = 2 + Cardinality(Subdirs(i)) + OneLess(i) BY <2>1 DEF LinkInv
  <2>3. Cardinality(Subdirs(i)) \in Nat BY SubdirsFinite
  <2>4. inode[i].links \in Nat BY <1>0, <1>2 DEF TypeOK, InodeType
  <2>5. inode[i].links = 2 + Cardinality(Subdirs(i)) BY <1>1, <1>2, <2>2, <2>3, <2>4
  <2> QED BY <2>5 DEF Subdirs
<1>5. i = Root => dotdot[i] = Root BY DEF LinkInv
<1>6. inode[i].mode = "file" => inode[i].links = 1 BY <1>2 DEF LinkInv
<1> QED BY <1>3, <1>4, <1>5, <1>6

\* At rest, everything in use is found from the root.
LEMMA RestTree ==
  ASSUME SafeInv, RunInv, UsedInv, KnownInv, TreeInv, running = {}
  PROVE  TreeRule
<1>0. TypeOK /\ NameInv /\ ibits = InUse /\ Root \in ibits
  BY RestInodes DEF SafeInv, InodesRule, NameInv
<1>1. \A d \in Inodes, n \in Names : dirent[d][n] # 0 => d \in Dirs /\ dirent[d][n] \in ibits
  BY <1>0 DEF NameInv, Dirs
<1>2. Followed(InUse) BY <1>0, <1>1 DEF Followed, InUse
<1>3. ASSUME NEW S \in SUBSET InUse, Root \in S, Followed(S) PROVE S = InUse
  <2>1. S \in SUBSET Inodes BY DEF InUse
  <2>2. \A d \in S, n \in Names : dirent[d][n] # 0 => dirent[d][n] \in S
    BY <1>1, <1>3, <2>1 DEF Followed
  <2>3. \A d \in Inodes, n \in Names : dirent[d][n] # 0 => dirent[d][n] \in S
    BY <1>3, <2>1, <2>2 DEF TreeInv
  <2>4. ASSUME NEW i \in InUse PROVE i \in S
    <3>1. CASE i = Root BY <1>3, <3>1
    <3>2. CASE i # Root
      <4>1. PICK d \in Dirs, n \in Names : dirent[d][n] = i BY <1>0, <3>2, RestNamed
      <4>2. d \in Inodes /\ i # 0 BY DEF Dirs, InUse, Inodes
      <4> QED BY <2>3, <4>1, <4>2
    <3> QED BY <3>1, <3>2
  <2> QED BY <2>4
<1> QED BY <1>0, <1>2, <1>3 DEF TreeRule

\* At rest, every block given out belongs to one inode.
LEMMA RestBlocks ==
  ASSUME SafeInv, RunInv, UsedInv, BlockInv, running = {}
  PROVE  BlocksRule
<1>0. TypeOK /\ InodesRule BY RestInodes DEF SafeInv
<1>1. \A i \in Inodes : Has(i) = Owned(inode[i]) BY Still DEF Has
<1>2. \A t \in Threads : Spare(t) = {} /\ Grown(t) = {} BY Still DEF Spare, Grown
<1>3. \A t \in Threads : Taken(t) = {} BY Still DEF Taken
<1>4. \A i \in Inodes : <<i, "inode">> \in Claims /\ Claim[<<i, "inode">>] = Owned(inode[i])
  BY <1>1, ClaimIs
<1>5. ASSUME NEW k \in Claims, Claim[k] # {} PROVE \E i \in Inodes : k = <<i, "inode">>
  <2>1. ASSUME NEW t \in Threads, k \in {<<t, "spare">>, <<t, "grown">>, <<t, "taken">>}
        PROVE Claim[k] = {}
    BY <1>2, <1>3, <2>1, ClaimIs
  <2> QED BY <1>5, <2>1, ClaimIs
<1>6. \A i \in Inodes : i \notin InUse => Owned(inode[i]) = {} BY <1>0, NoneOwned DEF InodesRule
<1>7. \A i \in InUse : i \in Inodes /\ Owned(inode[i]) \subseteq Blocks
  <2>1. \A i \in InUse : i \in Inodes /\ inode[i] \in InodeType BY <1>0 DEF InUse, TypeOK
  <2> QED BY <2>1, OwnedType
<1>8. ASSUME NEW b \in bbits PROVE \E i \in InUse : b \in Owned(inode[i])
  <2>1. b \in Blocks BY <1>0 DEF TypeOK
  <2>2. PICK k \in Claims : b \in Claim[k] BY <2>1 DEF BlockInv
  <2>3. PICK i \in Inodes : k = <<i, "inode">> BY <1>5, <2>2
  <2> QED BY <1>4, <1>6, <2>2, <2>3
<1>9. ASSUME NEW i \in InUse, NEW b \in Owned(inode[i]) PROVE b \in bbits
  <2>1. <<i, "inode">> \in Claims /\ b \in Claim[<<i, "inode">>] /\ b \in Blocks BY <1>4, <1>7
  <2> QED BY <2>1 DEF BlockInv
<1>10. bbits = UNION {Owned(inode[i]) : i \in InUse} BY <1>8, <1>9
<1>11. ASSUME NEW i \in InUse, NEW j \in InUse, i # j PROVE Owned(inode[i]) \cap Owned(inode[j]) = {}
  <2>1. <<i, "inode">> \in Claims /\ Claim[<<i, "inode">>] = Owned(inode[i]) BY <1>4, <1>7
  <2>2. <<j, "inode">> \in Claims /\ Claim[<<j, "inode">>] = Owned(inode[j]) BY <1>4, <1>7
  <2>3. <<i, "inode">> # <<j, "inode">> BY <1>11
  <2>4. Claim[<<i, "inode">>] \cap Claim[<<j, "inode">>] = {} BY <2>1, <2>2, <2>3 DEF BlockInv
  <2> QED BY <2>1, <2>2, <2>4
<1> QED BY <1>10, <1>11 DEF BlocksRule

\* At rest, sizes and pointers agree.
LEMMA RestSizes ==
  ASSUME SafeInv, RunInv, SizeInv, running = {}
  PROVE  SizeRule
<1>1. \A t \in Threads : pc[t] \notin {"write_new", "write_dir"} BY Still
<1>2. \A i \in InUse : i \in Inodes /\ (i \in Dirs => IsDir(i) /\ inode[i].mode = "dir")
  BY DEF InUse, Dirs, IsDir
<1> QED BY <1>1, <1>2 DEF SizeInv, SizeRule, Sized

-----------------------------------------------------------------------------
(* The theorems *)

\* When every block can be read, the rules of layout.h hold between the steps of
\* the calls, but for what a call that is running has in its hands.
THEOREM Ruled ==
  ASSUME ~IoErrors
  PROVE  Spec => [](SafeInv /\ RuleInv)
<1>1. Init => RunInv /\ Rules BY InitRules
<1>2. SafeInv /\ RunInv /\ Rules /\ [Next]_vars => RunInv' /\ Rules'
  <2> SUFFICES ASSUME SafeInv, RunInv, Rules, [Next]_vars PROVE RunInv' /\ Rules' OBVIOUS
  <2>1. CASE \E t \in Threads : CallPath(t) \/ CallFd(t) \/ Fsync(t) \/ Continue(t)
    BY <2>1, ThreadRun, ThreadRules
  <2>2. CASE Commit BY <2>2, WakeRun, WakeRules DEF Commit, bits, tree, table
  <2>3. CASE Done \/ UNCHANGED vars
    BY <2>3, WakeRun, WakeRules DEF Done, vars, bits, tree, table, gate
  <2>4. \A t \in Threads : ~IoError(t) BY DEF IoError
  <2> QED BY <2>1, <2>2, <2>3, <2>4 DEF Next
<1>3. UsedInv /\ RunInv /\ Rules => RuleInv BY DEF RuleInv, Rules
<1> QED BY <1>1, <1>2, <1>3, Safe, Used, PTL DEF Spec

\* layout.h: whenever no operation is running, every rule holds.
THEOREM RestIsConsistent ==
  ASSUME ~IoErrors
  PROVE  Spec => []ConsistentAtRest
<1>1. SafeInv /\ RuleInv => ConsistentAtRest
  BY RestInodes, RestLinks, RestTree, RestBlocks, RestSizes DEF RuleInv, ConsistentAtRest, Consistent
<1> QED BY <1>1, Ruled, PTL

\* All that holds in every state.
THEOREM Invariant == Spec => []Inv
<1>1. CASE IoErrors
  <2>1. SafeInv => Inv BY <1>1 DEF Inv
  <2> QED BY <2>1, Safe, PTL
<1>2. CASE ~IoErrors
  <2>1. SafeInv /\ RuleInv => Inv BY DEF Inv
  <2> QED BY <1>2, <2>1, Ruled, PTL
<1> QED BY <1>1, <1>2
=============================================================================
