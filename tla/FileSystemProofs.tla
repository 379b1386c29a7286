-------------------------- MODULE FileSystemProofs --------------------------
(***************************************************************************)
(* Proofs about module FileSystem, second part: what a step does to what   *)
(* directories name, to what calls have locked or are making, and to the   *)
(* copies of inodes (for each action A, AData), the types (AType), and     *)
(* with that the invariant SafeInv (ASafe) and the theorems. Nothing here  *)
(* assumes that every block can be read.                                   *)
(***************************************************************************)
EXTENDS FileSystemLocksProofs

USE SizesAssumption
USE DEF Creates, Truncates, Opens, Changes, Writes, InOperation, ByPath

-----------------------------------------------------------------------------
(* What the threads have, when another one steps *)

\* An exclusive lock excludes.
LEMMA Exclusion ==
  ASSUME SafeInv, NEW t \in Threads, NEW u \in Threads, NEW i \in Inodes, HasX(t, i), HasX(u, i) \/ HasS(u, i)
  PROVE  t = u
<1>1. entry[i].x = t /\ (entry[i].x # NoThread => entry[i].s = {}) BY DEF SafeInv, LockInv
<1>2. entry[i].x = u \/ u \in entry[i].s BY DEF SafeInv, LockInv
<1> QED BY <1>1, <1>2, ThreadsAssumption

\* The directory a thread is in is locked.
LEMMA CurHeld ==
  ASSUME NEW t \in Threads, NEW i, th[t].cur = i
  PROVE  HasX(t, i) \/ HasS(t, i)
  BY DEF HasX, HasS

\* A call that changes a directory has it for itself.
LEMMA InDir ==
  ASSUME SafeInv, NEW t \in Threads,
         pc[t] \in {"alloc_inode", "write_dir"} \/ Making(t) \/ Removing(t)
         \/ (pc[t] = "at" /\ th[t].kind \in Creates \cup Changes)
  PROVE  /\ th[t].cur \in Inodes /\ th[t].cur # 0 /\ HasX(t, th[t].cur) /\ Name(t) \in Names /\ ~OnFd(t)
         /\ th[t].kind \in Creates \cup Changes
         /\ \A u \in Threads : u # t => th[u].cur # th[t].cur
<1>0. TypeOK /\ KindOK(t) /\ WalkOK(t) /\ (th[t].cur # 0 => th[t].cur \in Inodes) BY Own
<1>1. th[t].kind \in Creates \cup Changes BY <1>0 DEF KindOK, Making, Removing, Removed
<1>2. ~OnFd(t) BY <1>1 DEF OnFd
<1>3. pc[t] \notin Outside \cup {"lock", "walk", "exit"} BY DEF Outside, Making, Removing, Removed
<1>4. th[t].cur # 0 /\ th[t].depth = Goal(t) BY <1>0, <1>2, <1>3 DEF WalkOK
<1>5. Name(t) \in Names
  <2>1. th[t].kind \in ByPath /\ pc[t] \notin {"idle", "sync", "install"} BY <1>1, <1>3 DEF Outside
  <2> QED BY <1>0, <2>1, NameIn
<1>6. HasX(t, th[t].cur) BY <1>1, <1>3, <1>4 DEF HasX, CurX
<1>7. ASSUME NEW u \in Threads, u # t PROVE th[u].cur # th[t].cur
  BY <1>0, <1>4, <1>6, <1>7, CurHeld, Exclusion
<1> QED BY <1>0, <1>1, <1>2, <1>4, <1>5, <1>6, <1>7

\* What a call removes or empties, it has for itself.
LEMMA KidAlone ==
  ASSUME SafeInv, NEW t \in Threads,
         Removing(t) \/ Emptying(t) \/ pc[t] \in {"check", "truncate"}
         \/ (pc[t] = "register" /\ th[t].ino # NoInode)
  PROVE  /\ th[t].kid \in Inodes /\ th[t].kid # 0 /\ th[t].held /\ HasX(t, th[t].kid)
         /\ th[t].cur \in Inodes /\ th[t].kid # th[t].cur
         /\ \A u \in Threads : u # t => th[u].cur # th[t].kid
<1>0. /\ TypeOK /\ KindOK(t) /\ WalkOK(t) /\ KidOK(t) /\ InoOK(t) /\ (th[t].kid # 0 => th[t].kid \in Inodes)
      /\ (th[t].cur # 0 => th[t].cur \in Inodes)
  BY Own
<1>1. ~OnFd(t) /\ (th[t].kind # "create" \/ th[t].ino # NoInode)
  BY <1>0 DEF KindOK, Removing, Removed, Emptying, OnFd
<1>2. pc[t] \notin Outside \cup {"lock", "walk", "exit", "at", "alloc_inode"}
  BY DEF Outside, Emptying, Removing, Removed
<1>3. th[t].held
  <2>1. Removed(t) \/ (Named(t) /\ pc[t] # "lock_kid") BY DEF Removing, Removed, Named, Emptying
  <2> QED BY <1>0, <2>1 DEF KidOK
<1>4. th[t].kid # 0 /\ th[t].cur # 0 BY <1>0, <1>1, <1>2 DEF KidOK, WalkOK
<1>5. HasX(t, th[t].kid) BY <1>1, <1>3 DEF HasX, KidX
<1>6. ASSUME NEW u \in Threads, u # t PROVE th[u].cur # th[t].kid
  BY <1>0, <1>4, <1>5, <1>6, CurHeld, Exclusion
<1> QED BY <1>0, <1>3, <1>4, <1>5, <1>6 DEF KidOK

\* What no thread has open, or is about to open.
Unopened(i) == /\ \A fd \in Opened : files[fd] # i
               /\ \A u \in Threads : Opening(u) => th[u].index # i

\* The other threads, when thread t steps, what they have and what they are making.
LEMMA OthersThere ==
  ASSUME SafeInv, NEW t \in Threads, Steps(t), NEW u \in Threads, u # t,
         th[u].cur # 0 => th[u].cur \in ibits' /\ (IsDir(th[u].cur)' <=> IsDir(th[u].cur))
                          /\ dirent'[th[u].cur] = dirent[th[u].cur],
         Named(u) \/ (pc[u] = "write_dir" /\ ~th[u].held) => (IsDir(th[u].kid)' <=> IsDir(th[u].kid)),
         Making(u) \/ Removed(u) => /\ th[u].kid \in ibits'
                                    /\ inode'[th[u].kid] = inode[th[u].kid],
         (Making(u) /\ pc[u] # "write_new") \/ Removed(u) =>
            \A d \in Inodes, n \in Names : dirent'[d][n] # dirent[d][n] => dirent'[d][n] # th[u].kid,
         Removing(u) => dirent'[th[u].kid] = dirent[th[u].kid],
         Making(u) => /\ ~entry'[th[u].kid].valid /\ th'[t].cur # th[u].kid
                      /\ Making(t)' => th'[t].kid # th[u].kid
                      /\ Removing(t)' => th'[t].kid # th[u].kid,
         Making(u) \/ Removing(u) => /\ Opening(t)' => th'[t].index # th[u].kid
                                     /\ \A fd \in Opened' : files'[fd] # th[u].kid
  PROVE  MakeOK(u)' /\ HeldOK(u)'
<1>0. /\ MakeOK(u) /\ HeldOK(u) /\ KidOK(u) /\ (th[u].cur # 0 => th[u].cur \in Inodes)
  BY Own DEF SafeInv, ThereInv
<1>1. pc'[u] = pc[u] /\ th'[u] = th[u] BY DEF Steps
<1>2. /\ Making(u)' <=> Making(u)
      /\ Removing(u)' <=> Removing(u)
      /\ Removed(u)' <=> Removed(u)
      /\ Named(u)' <=> Named(u)
  BY <1>1 DEF Making, Removing, Removed, Named, Emptying
<1>3. \A v \in Threads : v # t => /\ Making(v)' <=> Making(v)
                                  /\ Removing(v)' <=> Removing(v)
                                  /\ Opening(v)' <=> Opening(v)
                                  /\ th'[v] = th[v]
  BY DEF Steps, Making, Removing, Removed, Opening
<1>4. th[u].cur # 0 => Child(u)' = Child(u) BY <1>1 DEF Child, Name
<1>5. pc[u] \in {"alloc_inode", "write_dir"} \/ Making(u) \/ Named(u) \/ Removed(u) => th[u].cur # 0
  <2>1. KindOK(u) /\ WalkOK(u) BY Own
  <2>2. pc[u] \in {"alloc_inode", "write_dir"} \/ Making(u) \/ Named(u) \/ Removed(u) => ~OnFd(u) /\ pc[u] \notin Outside \cup {"lock"}
    BY <2>1 DEF KindOK, Making, Named, Removed, Emptying, OnFd, Outside
  <2> QED BY <2>1, <2>2 DEF WalkOK
<1>6. (Making(u) /\ pc[u] # "write_new") \/ Removed(u) => (Unnamed(th[u].kid) => Unnamed(th[u].kid)')
  BY <1>1 DEF Unnamed
<1>7. MakeOK(u)'
  <2>1. pc[u] = "alloc_inode" \/ (Making(u) /\ pc[u] # "write_new") => Child(u)' = 0
    BY <1>0, <1>4, <1>5 DEF MakeOK
  <2>2. ASSUME Making(u)
        PROVE  /\ th[u].kid \in ibits' /\ th[u].kid # Root /\ inode'[th[u].kid] = NoInode
               /\ ~entry'[th[u].kid].valid
    BY <1>0, <2>2 DEF MakeOK
  <2>3. ASSUME Making(u)
        PROVE IF pc[u] = "write_new" THEN Child(u)' = th[u].kid ELSE Unnamed(th[u].kid)'
    BY <1>0, <1>4, <1>5, <1>6, <2>3 DEF MakeOK
  <2>4. ASSUME Making(u), NEW v \in Threads
        PROVE  /\ v # u /\ Making(v)' => th'[v].kid # th[u].kid
               /\ th'[v].cur # th[u].kid
               /\ Removing(v)' => th'[v].kid # th[u].kid
               /\ Opening(v)' => th'[v].index # th[u].kid
    <3>1. CASE v = t BY <2>4, <3>1
    <3>2. CASE v # t BY <1>0, <1>3, <2>4, <3>2 DEF MakeOK
    <3> QED BY <3>1, <3>2
  <2> QED BY <1>1, <1>2, <2>1, <2>2, <2>3, <2>4 DEF MakeOK
<1>8. HeldOK(u)'
  <2>1. th[u].cur # 0 => th[u].cur \in ibits' OBVIOUS
  <2>2. pc[u] \in {"alloc_inode", "write_dir"} \/ Making(u) \/ Named(u) \/ Removed(u) => IsDir(th[u].cur)'
    BY <1>0, <1>1, <1>5 DEF HeldOK
  <2>3. pc[u] = "lock" /\ th[u].cur # 0 => dirent'[th[u].cur][th[u].path[th[u].depth]] = th[u].kid
    BY <1>0 DEF HeldOK
  <2>4. Named(u) => Child(u)' = th[u].kid /\ (IsDir(th[u].kid)' <=> th[u].kind = "rmdir")
    BY <1>0, <1>4, <1>5 DEF HeldOK
  <2>5. pc[u] = "write_dir" /\ ~th[u].held => Child(u)' = th[u].kid /\ (IsDir(th[u].kid)' <=> th[u].kind = "mkdir")
    BY <1>0, <1>4, <1>5 DEF HeldOK
  <2>6. Removed(u) => Unnamed(th[u].kid)' /\ th[u].kid \in ibits' \ {Root} BY <1>0, <1>6 DEF HeldOK
  <2>7. pc[u] = "free_inode" => inode'[th[u].kid] = NoInode BY <1>0 DEF HeldOK, Removed
  <2>8. ASSUME Removing(u)
        PROVE  /\ \A n \in Names : dirent'[th[u].kid][n] = 0
               /\ \A fd \in Opened' : files'[fd] # th[u].kid
               /\ \A v \in Threads : Opening(v)' => th'[v].index # th[u].kid
    <3>1. ASSUME NEW v \in Threads, Opening(v)' PROVE th'[v].index # th[u].kid
      <4>1. CASE v = t BY <2>8, <3>1, <4>1
      <4>2. CASE v # t BY <1>0, <1>3, <2>8, <3>1, <4>2 DEF HeldOK
      <4> QED BY <4>1, <4>2
    <3> QED BY <1>0, <2>8, <3>1 DEF HeldOK
  <2> QED BY <1>1, <1>2, <2>1, <2>2, <2>3, <2>4, <2>5, <2>6, <2>7, <2>8 DEF HeldOK, IsDir
<1> QED BY <1>7, <1>8

-----------------------------------------------------------------------------
(* Steps that leave the disk alone *)

\* What a step does not touch, the place of its thread in the tree.
Stays(t) == /\ th'[t].kind = th[t].kind /\ th'[t].path = th[t].path /\ th'[t].fd = th[t].fd
            /\ th'[t].cur = th[t].cur /\ th'[t].kid = th[t].kid

\* A step leaves the inodes and the entries of directories alone.
SameDisk == ibits' = ibits /\ inode' = inode /\ dirent' = dirent

\* What t may not have as its own.
Others(t, i) == \A u \in Threads : u # t /\ Making(u) => th[u].kid # i
Vacant(i) == \A u \in Threads : Making(u) \/ Removing(u) => th[u].kid # i

\* What a thread steps to, when it leaves the disk alone.
Moves(t) ==
  /\ pc'[t] \notin {"write_new", "write_dir", "free_inode"}
  /\ th'[t].cur # 0 => \/ th'[t].cur = th[t].cur
                       \/ th'[t].cur \in ibits /\ Others(t, th'[t].cur)
  /\ pc'[t] = "alloc_inode" => IsDir(th'[t].cur) /\ dirent[th'[t].cur][Name(t)'] = 0
  /\ pc'[t] = "lock" /\ th'[t].cur # 0 => dirent[th'[t].cur][th'[t].path[th'[t].depth]] = th'[t].kid
  /\ Making(t)' => Making(t) /\ pc[t] # "write_new" /\ Stays(t)
  /\ Named(t)' => \/ Named(t) /\ Stays(t)
                  \/ /\ IsDir(th'[t].cur) /\ dirent[th'[t].cur][Name(t)'] = th'[t].kid
                     /\ IsDir(th'[t].kid) <=> th'[t].kind = "rmdir"
  /\ Removed(t)' => Removed(t) /\ Stays(t)
  /\ Removing(t)' => \/ Removing(t) /\ Stays(t)
                     \/ /\ Unopened(th'[t].kid) /\ Others(t, th'[t].kid)
                        /\ \A n \in Names : dirent[th'[t].kid][n] = 0
  /\ Opening(t)' => \/ Opening(t) /\ th'[t].index = th[t].index
                    \/ /\ th'[t].index \in ibits /\ ~IsDir(th'[t].index) /\ Vacant(th'[t].index)
                       /\ ~(Making(t)' \/ Removing(t)')

\* Open files after a step are open before, or were about to be.
Keeps(t) == \A fd \in Opened' : \/ fd \in Opened /\ files'[fd] = files[fd]
                                \/ Opening(t) /\ files'[fd] = th[t].index

\* What is open stays open when the table and the closing calls do not change.
LEMMA KeptOpen ==
  ASSUME SafeInv, NEW t \in Threads, Keeps(t), NEW i, Unopened(i)
  PROVE  \A fd \in Opened' : files'[fd] # i
  BY DEF Keeps, Unopened

\* What is made and what is removed is not open.
LEMMA Private ==
  ASSUME SafeInv, NEW u \in Threads, Making(u) \/ Removing(u)
  PROVE  Unopened(th[u].kid)
<1>1. MakeOK(u) /\ HeldOK(u) BY DEF SafeInv, ThereInv
<1> QED BY <1>1 DEF MakeOK, HeldOK, Unopened

\* What the other threads hold stays there.
LEMMA SameThere ==
  ASSUME SafeInv, NEW t \in Threads, Steps(t), SameDisk, Fades, Moves(t), Keeps(t)
  PROVE  ThereInv'
<1>0. /\ ibits' = ibits /\ inode' = inode /\ dirent' = dirent BY DEF SameDisk
<1>i. \A i : IsDir(i)' <=> IsDir(i) BY <1>0 DEF IsDir
<1>t. \A u \in Threads : MakeOK(u) /\ HeldOK(u) BY DEF SafeInv, ThereInv
<1>k. \A u \in Threads : Making(u) => th[u].kid \in Inodes
  BY <1>t DEF MakeOK, SafeInv, TypeOK
<1>v. \A i \in Inodes : ~entry[i].valid => ~entry'[i].valid BY DEF Fades
<1>1. ASSUME NEW u \in Threads, u # t PROVE MakeOK(u)' /\ HeldOK(u)'
  <2>0. MakeOK(u) /\ HeldOK(u) /\ th'[u] = th[u] BY <1>1, <1>t DEF Steps
  <2>d. (IsDir(th[u].cur)' <=> IsDir(th[u].cur)) /\ (IsDir(th[u].kid)' <=> IsDir(th[u].kid))
    BY <1>0, <2>0 DEF IsDir
  <2>1. th[u].cur # 0 => th[u].cur \in ibits' /\ (IsDir(th[u].cur)' <=> IsDir(th[u].cur))
                          /\ dirent'[th[u].cur] = dirent[th[u].cur] BY <1>0, <2>d, <2>0 DEF HeldOK
  <2>2. Named(u) \/ (pc[u] = "write_dir" /\ ~th[u].held) => (IsDir(th[u].kid)' <=> IsDir(th[u].kid))
    BY <2>d
  <2>3. Making(u) \/ Removed(u) => /\ th[u].kid \in ibits'
                                   /\ inode'[th[u].kid] = inode[th[u].kid]
                                     BY <1>0, <2>0 DEF HeldOK, MakeOK
  <2>4. (Making(u) /\ pc[u] # "write_new") \/ Removed(u) =>
            \A d \in Inodes, n \in Names : dirent'[d][n] # dirent[d][n] => dirent'[d][n] # th[u].kid
              BY <1>0
  <2>5. Removing(u) => dirent'[th[u].kid] = dirent[th[u].kid] BY <1>0
  <2>6. ASSUME Making(u)
        PROVE  /\ ~entry'[th[u].kid].valid
               /\ Making(t)' => th'[t].kid # th[u].kid
               /\ Removing(t)' => th'[t].kid # th[u].kid
    <3>1. ~entry'[th[u].kid].valid BY <1>k, <1>v, <2>0, <2>6 DEF MakeOK
    <3>2. Making(t)' => th'[t].kid # th[u].kid BY <1>1, <2>0, <2>6 DEF MakeOK, Moves, Stays
    <3>3. Removing(t)' => th'[t].kid # th[u].kid BY <1>1, <2>0, <2>6 DEF MakeOK, Moves, Stays, Others
    <3> QED BY <3>1, <3>2, <3>3
  <2>7. ASSUME Making(u) PROVE th'[t].cur # th[u].kid
    <3>1. th[u].kid # 0 BY <1>k, <2>7 DEF Inodes
    <3>2. th[t].cur # th[u].kid BY <2>0, <2>7 DEF MakeOK
    <3> QED BY <1>1, <2>7, <3>1, <3>2 DEF Moves, Others
  <2>8. ASSUME Making(u) \/ Removing(u)
        PROVE  /\ Opening(t)' => th'[t].index # th[u].kid
               /\ \A fd \in Opened' : files'[fd] # th[u].kid
    <3>1. Unopened(th[u].kid) BY <2>8, Private
    <3>2. Opening(t)' => th'[t].index # th[u].kid BY <2>8, <3>1 DEF Unopened, Moves, Vacant
    <3> QED BY <3>1, <3>2, KeptOpen
  <2> QED BY <1>1, <2>1, <2>2, <2>3, <2>4, <2>5, <2>6, <2>7, <2>8, OthersThere
<1>2. \A u \in Threads : u # t => /\ Making(u)' <=> Making(u)
                                  /\ Removing(u)' <=> Removing(u)
                                  /\ Opening(u)' <=> Opening(u)
                                  /\ th'[u] = th[u]
  BY DEF Steps, Making, Removing, Removed, Opening
<1>3. Child(t)' = dirent[th'[t].cur][Name(t)'] BY <1>0 DEF Child
<1>4. Stays(t) => Name(t)' = Name(t) BY DEF Stays, Name
<1>5. MakeOK(t)'
  <2>1. pc'[t] = "alloc_inode" \/ (Making(t)' /\ pc'[t] # "write_new") => Child(t)' = 0
    <3>1. CASE pc'[t] = "alloc_inode" BY <1>3, <3>1 DEF Moves
    <3>2. CASE Making(t)'
      <4>1. Making(t) /\ pc[t] # "write_new" /\ Stays(t) BY <3>2 DEF Moves
      <4>2. Child(t) = 0 BY <1>t, <4>1 DEF MakeOK
      <4> QED BY <1>3, <1>4, <4>1, <4>2 DEF Child, Stays
    <3> QED BY <3>1, <3>2
  <2>2. ASSUME Making(t)'
        PROVE  /\ th'[t].kid \in ibits' /\ th'[t].kid # Root /\ inode'[th'[t].kid] = NoInode
               /\ ~entry'[th'[t].kid].valid
               /\ IF pc'[t] = "write_new" THEN Child(t)' = th'[t].kid ELSE Unnamed(th[t].kid)'
               /\ \A u \in Threads : /\ u # t /\ Making(u)' => th'[u].kid # th'[t].kid
                                     /\ th'[u].cur # th'[t].kid
                                     /\ Removing(u)' => th'[u].kid # th'[t].kid
                                     /\ Opening(u)' => th'[u].index # th'[t].kid
               /\ \A fd \in Opened' : files'[fd] # th'[t].kid
    <3>1. Making(t) /\ pc[t] # "write_new" /\ Stays(t) /\ pc'[t] # "write_new" BY <2>2 DEF Moves
    <3>2. /\ th[t].kid \in ibits /\ th[t].kid # Root /\ inode[th[t].kid] = NoInode
          /\ ~entry[th[t].kid].valid /\ Unnamed(th[t].kid) BY <1>t, <3>1 DEF MakeOK
    <3>3. th'[t].kid = th[t].kid /\ th'[t].cur = th[t].cur BY <3>1 DEF Stays
    <3>4. ~entry'[th[t].kid].valid BY <1>k, <1>v, <3>1, <3>2
    <3>5. \A fd \in Opened' : files'[fd] # th[t].kid BY <3>1, Private, KeptOpen
    <3>6. Unnamed(th[t].kid)' BY <1>0, <3>2, <3>3 DEF Unnamed
    <3>7. ASSUME NEW u \in Threads, u # t
          PROVE  /\ Making(u)' => th'[u].kid # th[t].kid
                 /\ th'[u].cur # th[t].kid
                 /\ Removing(u)' => th'[u].kid # th[t].kid
                 /\ Opening(u)' => th'[u].index # th[t].kid
      BY <1>2, <1>t, <3>1, <3>7 DEF MakeOK
    <3>8. th[t].cur # th[t].kid BY <1>t, <3>1 DEF MakeOK
    <3>9. ~Removing(t)' BY <2>2 DEF Making, Removing, Removed
    <3>10. Opening(t)' => th'[t].index # th[t].kid BY <2>2, <3>1, Private DEF Moves, Unopened
    <3> QED BY <1>0, <3>1, <3>2, <3>3, <3>4, <3>5, <3>6, <3>7, <3>8, <3>9, <3>10
  <2> QED BY <2>1, <2>2 DEF MakeOK
<1>6. HeldOK(t)'
  <2>0. HeldOK(t) BY <1>t
  <2>1. th'[t].cur # 0 => th'[t].cur \in ibits' BY <1>0, <2>0 DEF HeldOK, Moves
  <2>2. pc'[t] \in {"alloc_inode", "write_dir"} \/ Making(t)' \/ Named(t)' \/ Removed(t)' => IsDir(th'[t].cur)
    BY <2>0 DEF HeldOK, Moves, Stays
  <2>3. pc'[t] = "lock" /\ th'[t].cur # 0 => dirent'[th'[t].cur][th'[t].path[th'[t].depth]] = th'[t].kid
    BY <1>0 DEF Moves
  <2>4. Named(t)' => Child(t)' = th'[t].kid /\ (IsDir(th'[t].kid) <=> th'[t].kind = "rmdir")
    <3>1. CASE Named(t) /\ Stays(t) BY <1>3, <1>4, <2>0, <3>1 DEF HeldOK, Stays, Child
    <3> QED BY <1>3, <3>1 DEF Moves
  <2>5. pc'[t] # "write_dir" /\ pc'[t] # "free_inode" BY DEF Moves
  <2>6. Removed(t)' => Unnamed(th[t].kid)' /\ th'[t].kid \in ibits' \ {Root}
    <3>1. Removed(t)' => Unnamed(th'[t].kid) /\ th'[t].kid \in ibits' \ {Root}
      BY <1>0, <2>0 DEF HeldOK, Moves, Stays
    <3> QED BY <1>0, <3>1 DEF Unnamed
  <2>7. ASSUME Removing(t)'
        PROVE  /\ \A n \in Names : dirent'[th'[t].kid][n] = 0
               /\ \A fd \in Opened' : files'[fd] # th'[t].kid
               /\ \A u \in Threads : Opening(u)' => th'[u].index # th'[t].kid
    <3>1. /\ \A n \in Names : dirent'[th'[t].kid][n] = 0
          /\ Unopened(th'[t].kid)
      BY <1>0, <2>0, <2>7, Private DEF HeldOK, Moves, Stays
    <3>2. Opening(t)' => th'[t].index # th'[t].kid BY <2>7, <3>1 DEF Moves, Unopened
    <3>3. \A fd \in Opened' : files'[fd] # th'[t].kid BY <3>1, KeptOpen
    <3>4. \A u \in Threads : u # t /\ Opening(u)' => th'[u].index # th'[t].kid
      BY <1>2, <3>1 DEF Unopened
    <3> QED BY <3>1, <3>2, <3>3, <3>4
  <2>8. /\ IsDir(th[t].cur)' <=> IsDir(th'[t].cur)
        /\ IsDir(th[t].kid)' <=> IsDir(th'[t].kid)
    BY <1>0 DEF IsDir
  <2> QED BY <2>8, <2>1, <2>2, <2>3, <2>4, <2>5, <2>6, <2>7 DEF HeldOK
<1> QED BY <1>1, <1>5, <1>6 DEF ThereInv

\* What a step does to the files that are written and to the copies of what is removed.
Copies(t) ==
  /\ \A u \in Threads : Writing(u) => files'[th[u].fd] = files[th[u].fd]
  /\ Writing(t)' => \/ Writing(t) /\ th'[t].fd = th[t].fd /\ th'[t].ino.mode = th[t].ino.mode
                    \/ /\ files'[th'[t].fd] \in Inodes /\ ~entry'[files'[th'[t].fd]].valid
                       /\ th'[t].ino.mode = inode[files'[th'[t].fd]].mode
  /\ Removing(t)' \/ Emptying(t)' => \/ (Removing(t) \/ Emptying(t)) /\ th'[t].kid = th[t].kid
                                     \/ ~entry'[th'[t].kid].valid

\* A file that is written is open, and its inode is one.
LEMMA WritingFile ==
  ASSUME SafeInv, NEW t \in Threads, Writing(t) \/ pc[t] = "unlock_file"
  PROVE  files[th[t].fd] \in Inodes /\ th[t].fd \in Fds /\ op[th[t].fd] = t
<1>1. KindOK(t) BY Own
<1>2. OnFd(t) BY <1>1 DEF KindOK, Writing, OnFd
<1> QED BY <1>2, OnFile

\* What is removed or emptied is an inode.
LEMMA KidIn ==
  ASSUME SafeInv, NEW t \in Threads, Removing(t) \/ Emptying(t)
  PROVE  th[t].kid \in Inodes
  BY KidAlone

\* A step that changes neither tree nor table keeps the rest of SafeInv.
LEMMA SameRest ==
  ASSUME SafeInv, NEW t \in Threads, Steps(t), SameDisk, Fades, Moves(t), Keeps(t), Copies(t)
  PROVE  NameInv' /\ OpenInv' /\ CopyInv' /\ CacheCoherent'
<1>0. /\ ibits' = ibits /\ inode' = inode /\ dirent' = dirent BY DEF SameDisk
<1>i. \A i : (inode'[i].mode = "dir") <=> IsDir(i) BY <1>0 DEF IsDir
<1>s. TypeOK /\ NameInv /\ OpenInv /\ CopyInv /\ CacheCoherent BY DEF SafeInv
<1>1. NameInv' BY <1>0, <1>s DEF NameInv
<1>2. OpenInv'
  <2>1. ASSUME NEW fd \in Opened' PROVE files'[fd] \in ibits /\ ~IsDir(files'[fd])
    BY <1>s DEF Keeps, OpenInv
  <2>2. ASSUME NEW u \in Threads, Opening(u)' PROVE th'[u].index \in ibits /\ ~IsDir(th'[u].index)
    <3>1. CASE u = t BY <1>s, <2>2, <3>1 DEF Moves, OpenInv
    <3>2. CASE u # t
      <4>1. Opening(u) /\ th'[u] = th[u] BY <2>2, <3>2 DEF Steps, Opening
      <4> QED BY <1>s, <4>1 DEF OpenInv
    <3> QED BY <3>1, <3>2
  <2> QED BY <1>0, <1>i, <2>1, <2>2 DEF OpenInv, IsDir
<1>3. CopyInv'
  <2>1. \A i \in Inodes : entry'[i].valid => i \in ibits' /\ ~(inode'[i].mode = "dir")
    BY <1>0, <1>i, <1>s DEF Fades, CopyInv
  <2>2. ASSUME NEW u \in Threads, Writing(u)'
        PROVE  ~entry'[files'[th'[u].fd]].valid /\ th'[u].ino.mode = inode'[files'[th'[u].fd]].mode
    <3>1. CASE u = t /\ ~(Writing(t) /\ th'[t].fd = th[t].fd /\ th'[t].ino.mode = th[t].ino.mode)
      BY <1>0, <2>2, <3>1 DEF Copies
    <3>2. CASE u # t \/ (Writing(t) /\ th'[t].fd = th[t].fd /\ th'[t].ino.mode = th[t].ino.mode)
      <4>1. Writing(u) /\ th'[u].fd = th[u].fd /\ th'[u].ino.mode = th[u].ino.mode
        BY <2>2, <3>2 DEF Steps, Writing
      <4>2. files'[th[u].fd] = files[th[u].fd] /\ files[th[u].fd] \in Inodes
        BY <4>1, WritingFile DEF Copies
      <4>3. ~entry[files[th[u].fd]].valid /\ th[u].ino.mode = inode[files[th[u].fd]].mode
        BY <1>s, <4>1 DEF CopyInv
      <4> QED BY <1>0, <4>1, <4>2, <4>3 DEF Fades
    <3> QED BY <3>1, <3>2
  <2>3. ASSUME NEW u \in Threads, Removing(u)' \/ Emptying(u)' PROVE ~entry'[th'[u].kid].valid
    <3>1. CASE u # t \/ ((Removing(t) \/ Emptying(t)) /\ th'[t].kid = th[t].kid)
      <4>1. (Removing(u) \/ Emptying(u)) /\ th'[u].kid = th[u].kid
        BY <2>3, <3>1 DEF Steps, Removing, Removed, Emptying
      <4>2. ~entry[th[u].kid].valid /\ th[u].kid \in Inodes BY <1>s, <4>1, KidIn DEF CopyInv
      <4> QED BY <4>1, <4>2 DEF Fades
    <3> QED BY <2>3, <3>1 DEF Copies
  <2> QED BY <2>1, <2>2, <2>3 DEF CopyInv, IsDir
<1>4. CacheCoherent' BY <1>0, <1>s DEF CacheCoherent, Fades
<1> QED BY <1>1, <1>2, <1>3, <1>4

-----------------------------------------------------------------------------
(* Quiet steps, and what is open *)

\* A quiet step that leaves the entries of the lock manager as they are.
LEMMA QuietSame ==
  ASSUME SafeInv, NEW t \in Threads, Quiet(t), entry' = entry
  PROVE  LockInv' /\ EntriesCounted' /\ Opened' = Opened /\ Fades
<1>1. Fades BY DEF Fades, SafeInv, TypeOK
<1> QED BY <1>1, QuietLocks

\* A quiet step that changes the copy of an inode the thread has locked.
LEMMA QuietCopy ==
  ASSUME SafeInv, NEW t \in Threads, Quiet(t), NEW i \in Inodes, entry[i].refs # 0, NEW v, NEW ino,
         Only(entry, entry', i),
         Looks(entry'[i], entry[i].refs, entry[i].x, entry[i].s, entry[i].open_count, v, ino)
  PROVE  LockInv' /\ EntriesCounted' /\ Opened' = Opened /\ entry' \in [Inodes -> EntryType]
<1>1. \A j \in Inodes : /\ entry'[j].refs = entry[j].refs /\ entry'[j].x = entry[j].x
                        /\ entry'[j].s = entry[j].s /\ entry'[j].open_count = entry[j].open_count
                        /\ entry[j].refs = 0 => entry'[j] = entry[j]
  BY DEF Only, Looks
<1> QED BY <1>1, QuietLocks DEF Only

\* What a thread has locked below its directory has an entry.
LEMMA HeldCounted ==
  ASSUME SafeInv, NEW t \in Threads, th[t].held, th[t].kid \in Inodes
  PROVE  entry[th[t].kid].refs # 0
<1>1. TypeOK /\ EntriesCounted BY DEF SafeInv
<1> DEFINE i == th[t].kid
<1>2. Lower(t, i) /\ i \in Inodes BY DEF Lower
<1> HIDE DEF i
<1>3. Uses(t, i) >= 1 BY <1>2 DEF Uses, Bit
<1>4. entry[i].refs \in Nat /\ Uses(t, i) \in Nat /\ entry[i].refs >= Uses(t, i)
  BY <1>1, <1>2, UserCounts
<1>5. entry[i].refs # 0 BY <1>3, <1>4
<1> QED BY <1>5 DEF i

\* Begin_op lets a call in: the locks and the counts of users still agree.
LEMMA BeginLocks ==
  ASSUME SafeInv, NEW t \in Threads, Begin(t)
  PROVE  LockInv' /\ EntriesCounted' /\ Opened' = Opened /\ Fades
  BY BeginQuiet, QuietSame DEF Begin

\* A call finds no such name: the locks and the counts of users still agree.
LEMMA AtNoneLocks ==
  ASSUME SafeInv, NEW t \in Threads, AtNone(t)
  PROVE  LockInv' /\ EntriesCounted' /\ Opened' = Opened /\ Fades
  BY AtNoneQuiet, QuietSame DEF AtNone

\* Alloc_inode: the locks and the counts of users still agree.
LEMMA AllocInodeLocks ==
  ASSUME SafeInv, NEW t \in Threads, AllocInode(t)
  PROVE  LockInv' /\ EntriesCounted' /\ Opened' = Opened /\ Fades
  BY AllocInodeQuiet, QuietSame DEF AllocInode

\* Mkdir takes a block for the new directory: the locks and the counts of users still
\* agree.
LEMMA AllocBlockLocks ==
  ASSUME SafeInv, NEW t \in Threads, AllocBlock(t)
  PROVE  LockInv' /\ EntriesCounted' /\ Opened' = Opened /\ Fades
  BY AllocBlockQuiet, QuietSame DEF AllocBlock

\* Dir_add: the locks and the counts of users still agree.
LEMMA DirAddLocks ==
  ASSUME SafeInv, NEW t \in Threads, DirAdd(t)
  PROVE  LockInv' /\ EntriesCounted' /\ Opened' = Opened /\ Fades
  BY DirAddQuiet, QuietSame DEF DirAdd

\* Mkdir hands its block back: the locks and the counts of users still agree.
LEMMA UndoBlockLocks ==
  ASSUME SafeInv, NEW t \in Threads, UndoBlock(t)
  PROVE  LockInv' /\ EntriesCounted' /\ Opened' = Opened /\ Fades
  BY UndoBlockQuiet, QuietSame DEF UndoBlock

\* The inode that was taken is handed back: the locks and the counts of users still
\* agree.
LEMMA UndoInodeLocks ==
  ASSUME SafeInv, NEW t \in Threads, UndoInode(t)
  PROVE  LockInv' /\ EntriesCounted' /\ Opened' = Opened /\ Fades
  BY UndoInodeQuiet, QuietSame DEF UndoInode

\* The new inode is written: the locks and the counts of users still agree.
LEMMA WriteNewLocks ==
  ASSUME SafeInv, NEW t \in Threads, WriteNew(t)
  PROVE  LockInv' /\ EntriesCounted' /\ Opened' = Opened /\ Fades
  BY WriteNewQuiet, QuietSame DEF WriteNew

\* Dir_remove: the locks and the counts of users still agree.
LEMMA DirRemoveLocks ==
  ASSUME SafeInv, NEW t \in Threads, DirRemove(t)
  PROVE  LockInv' /\ EntriesCounted' /\ Opened' = Opened /\ Fades
  BY DirRemoveQuiet, QuietSame DEF DirRemove

\* Free_all_blocks: the locks and the counts of users still agree.
LEMMA FreeBlocksLocks ==
  ASSUME SafeInv, NEW t \in Threads, FreeBlocks(t)
  PROVE  LockInv' /\ EntriesCounted' /\ Opened' = Opened /\ Fades
  BY FreeBlocksQuiet, QuietSame DEF FreeBlocks

\* The emptied inode is written: the locks and the counts of users still agree.
LEMMA WriteFileLocks ==
  ASSUME SafeInv, NEW t \in Threads, WriteFile(t)
  PROVE  LockInv' /\ EntriesCounted' /\ Opened' = Opened /\ Fades
  BY WriteFileQuiet, QuietSame DEF WriteFile

\* The removed inode is cleared: the locks and the counts of users still agree.
LEMMA ClearInodeLocks ==
  ASSUME SafeInv, NEW t \in Threads, ClearInode(t)
  PROVE  LockInv' /\ EntriesCounted' /\ Opened' = Opened /\ Fades
  BY ClearInodeQuiet, QuietSame DEF ClearInode

\* Free_inode: the locks and the counts of users still agree.
LEMMA FreeInodeLocks ==
  ASSUME SafeInv, NEW t \in Threads, FreeInode(t)
  PROVE  LockInv' /\ EntriesCounted' /\ Opened' = Opened /\ Fades
  BY FreeInodeQuiet, QuietSame DEF FreeInode

\* Alloc_all takes one more block: the locks and the counts of users still agree.
LEMMA TakeLocks ==
  ASSUME SafeInv, NEW t \in Threads, Take(t)
  PROVE  LockInv' /\ EntriesCounted' /\ Opened' = Opened /\ Fades
  BY TakeQuiet, QuietSame DEF Take

\* Alloc_all gives back what it had taken: the locks and the counts of users still
\* agree.
LEMMA GiveBackLocks ==
  ASSUME SafeInv, NEW t \in Threads, GiveBack(t)
  PROVE  LockInv' /\ EntriesCounted' /\ Opened' = Opened /\ Fades
  BY GiveBackQuiet, QuietSame DEF GiveBack

\* The block is there already: the locks and the counts of users still agree.
LEMMA OverwriteLocks ==
  ASSUME SafeInv, NEW t \in Threads, Overwrite(t)
  PROVE  LockInv' /\ EntriesCounted' /\ Opened' = Opened /\ Fades
  BY OverwriteQuiet, QuietSame DEF Overwrite

\* Vfs_fsync waits for a commit: the locks and the counts of users still agree.
LEMMA FsyncLocks ==
  ASSUME SafeInv, NEW t \in Threads, Fsync(t)
  PROVE  LockInv' /\ EntriesCounted' /\ Opened' = Opened /\ Fades
  BY FsyncQuiet, QuietSame DEF Fsync

\* A block cannot be read and the step throws: the locks and the counts of users still
\* agree.
LEMMA IoErrorLocks ==
  ASSUME SafeInv, NEW t \in Threads, IoError(t)
  PROVE  LockInv' /\ EntriesCounted' /\ Opened' = Opened /\ Fades
  BY IoErrorQuiet, QuietSame DEF IoError

\* Unlink and rmdir check what they would remove: the locks and the counts of users
\* still agree.
LEMMA CheckLocks ==
  ASSUME SafeInv, NEW t \in Threads, Check(t)
  PROVE  /\ LockInv' /\ EntriesCounted' /\ Opened' = Opened /\ Fades
         /\ ~Busy(t) => ~entry'[th[t].kid].valid
<1>1. th[t].kid \in Inodes /\ th[t].held BY KidAlone DEF Check
<1>2. entry[th[t].kid].refs # 0 /\ Quiet(t) /\ entry \in [Inodes -> EntryType]
  BY <1>1, HeldCounted, CheckQuiet DEF SafeInv, TypeOK
<1>3. CASE entry' = entry /\ Busy(t) BY <1>2, <1>3, QuietSame
<1>4. CASE entry' = Forget(entry, th[t].kid)
  <2>1. /\ Only(entry, entry', th[t].kid)
        /\ Looks(entry'[th[t].kid], entry[th[t].kid].refs, entry[th[t].kid].x, entry[th[t].kid].s,
                 entry[th[t].kid].open_count, FALSE, NoInode)
    BY <1>1, <1>2, <1>4, ForgetIs
  <2>2. LockInv' /\ EntriesCounted' /\ Opened' = Opened /\ entry' \in [Inodes -> EntryType]
    BY <1>1, <1>2, <2>1, QuietCopy
  <2>3. Fades /\ ~entry'[th[t].kid].valid BY <1>1, <2>1, <2>2 DEF Fades, Only, Looks
  <2> QED BY <2>2, <2>3
<1> QED BY <1>3, <1>4 DEF Check

\* O_TRUNC looks at the file: the locks and the counts of users still agree.
LEMMA TruncateLocks ==
  ASSUME SafeInv, NEW t \in Threads, Truncate(t)
  PROVE  /\ LockInv' /\ EntriesCounted' /\ Opened' = Opened /\ Fades
         /\ ~entry'[th[t].kid].valid
<1>1. th[t].kid \in Inodes /\ th[t].held BY KidAlone DEF Truncate
<1>2. entry[th[t].kid].refs # 0 /\ Quiet(t) /\ entry \in [Inodes -> EntryType]
  BY <1>1, HeldCounted, TruncateQuiet DEF SafeInv, TypeOK
<1>3. CASE entry' = entry /\ FALSE BY <1>2, <1>3, QuietSame
<1>4. CASE entry' = Forget(entry, th[t].kid)
  <2>1. /\ Only(entry, entry', th[t].kid)
        /\ Looks(entry'[th[t].kid], entry[th[t].kid].refs, entry[th[t].kid].x, entry[th[t].kid].s,
                 entry[th[t].kid].open_count, FALSE, NoInode)
    BY <1>1, <1>2, <1>4, ForgetIs
  <2>2. LockInv' /\ EntriesCounted' /\ Opened' = Opened /\ entry' \in [Inodes -> EntryType]
    BY <1>1, <1>2, <2>1, QuietCopy
  <2>3. Fades /\ ~entry'[th[t].kid].valid BY <1>1, <2>1, <2>2 DEF Fades, Only, Looks
  <2> QED BY <2>2, <2>3
<1> QED BY <1>3, <1>4 DEF Truncate

\* Write_inode after a chunk: the locks and the counts of users still agree.
LEMMA StoreLocks ==
  ASSUME SafeInv, NEW t \in Threads, Store(t)
  PROVE  /\ LockInv' /\ EntriesCounted' /\ Opened' = Opened
         /\ Only(entry, entry', files[th[t].fd])
         /\ entry'[files[th[t].fd]].valid /\ entry'[files[th[t].fd]].inode = th[t].ino
<1>0. Writing(t) /\ KindOK(t) /\ th[t].ino \in InodeType /\ pc[t] = "store" BY Own DEF Store, Writing
<1>f. OnFd(t) BY <1>0 DEF KindOK, OnFd
<1>p. PICK i \in Inodes : i = files[th[t].fd] BY <1>f, OnFile
<1>1. i \in Inodes /\ entry[i].refs # 0 /\ entry \in [Inodes -> EntryType] /\ Quiet(t)
  BY <1>f, <1>p, OnFile, StoreQuiet DEF SafeInv, TypeOK
<1>2. entry' = [entry EXCEPT ![i].valid = TRUE, ![i].inode = th[t].ino] BY <1>p DEF Store
<1>3. /\ Only(entry, entry', i)
      /\ Looks(entry'[i], entry[i].refs, entry[i].x, entry[i].s, entry[i].open_count, TRUE, th[t].ino)
  BY <1>0, <1>1, <1>2, CopyIs
<1>4. LockInv' /\ EntriesCounted' /\ Opened' = Opened BY <1>1, <1>3, QuietCopy
<1> QED BY <1>p, <1>3, <1>4 DEF Looks

-----------------------------------------------------------------------------
(* Steps of the walk, and others that leave the disk alone *)

\* What the directories name, who has what, and what the copies are worth.
Data == NameInv /\ ThereInv /\ OpenInv /\ CopyInv /\ CacheCoherent

\* A step that leaves the tree alone keeps what is said of it.
LEMMA SameData ==
  ASSUME SafeInv, NEW t \in Threads, Steps(t), SameDisk, Fades, Moves(t), Keeps(t), Copies(t)
  PROVE  Data'
  BY SameThere, SameRest DEF Data

\* Begin_op lets a call in: the tree, what the calls hold of it, and the copies stay
\* sound.
LEMMA BeginData ==
  ASSUME SafeInv, NEW t \in Threads, Begin(t)
  PROVE  Data'
<1>0. /\ TypeOK /\ th[t] \in Locals /\ KindOK(t) /\ WalkOK(t) /\ KidOK(t) /\ IndexOK(t) /\ InoOK(t)
      /\ (th[t].cur # 0 => th[t].cur \in Inodes) /\ (th[t].kid # 0 => th[t].kid \in Inodes)
  BY Own
<1>1. SameDisk /\ files' = files /\ Steps(t)
  BY <1>0, BeginEffect DEF Begin, SameDisk, bits, tree, table
<1>2. Fades /\ Opened' = Opened BY BeginLocks
<1>3. Moves(t)
  <2>1. pc'[t] \notin {"write_new", "write_dir", "free_inode"} BY <1>0, BeginEffect DEF KindOK
  <2>2. th'[t].cur # 0 => th'[t].cur = th[t].cur BY <1>0, BeginEffect, IdleType DEF Becomes, KindOK
  <2>3. pc'[t] = "alloc_inode" => IsDir(th'[t].cur) /\ dirent[th'[t].cur][Name(t)'] = 0
    BY <1>0, BeginEffect DEF Becomes, KindOK, Child, Name
  <2>4. pc'[t] = "lock" /\ th'[t].cur # 0 => dirent[th'[t].cur][th'[t].path[th'[t].depth]] = th'[t].kid
    BY <1>0, BeginEffect DEF Becomes, KindOK, WalkOK, Outside
  <2>5. Making(t)' => Making(t) /\ pc[t] # "write_new" /\ Stays(t)
    BY <1>0, BeginEffect DEF Becomes, KindOK, Making, Stays
  <2>6. Named(t)' => \/ Named(t) /\ Stays(t)
                    \/ /\ IsDir(th'[t].cur) /\ dirent[th'[t].cur][Name(t)'] = th'[t].kid
                       /\ IsDir(th'[t].kid) <=> th'[t].kind = "rmdir"
    BY <1>0, BeginEffect DEF Becomes, KindOK, Named, Emptying, Stays, Child, Name
  <2>7. Removed(t)' => Removed(t) /\ Stays(t) BY <1>0, BeginEffect DEF Becomes, KindOK, Removed, Stays
  <2>8. Removing(t)' => Removing(t) /\ Stays(t)
    BY <1>0, BeginEffect DEF Becomes, KindOK, Removing, Removed, Stays
  <2>9. Opening(t)' => Opening(t) /\ th'[t].index = th[t].index
    BY <1>0, BeginEffect, IdleType DEF Becomes, KindOK, IndexOK, Opening
  <2> QED BY <2>1, <2>2, <2>3, <2>4, <2>5, <2>6, <2>7, <2>8, <2>9 DEF Moves
<1>4. Keeps(t) BY <1>1, <1>2 DEF Keeps
<1>5. Copies(t)
  <2>1. Writing(t)' => Writing(t) /\ th'[t].fd = th[t].fd /\ th'[t].ino.mode = th[t].ino.mode
    BY <1>0, BeginEffect DEF Becomes, KindOK, Writing
  <2>2. Removing(t)' \/ Emptying(t)' => \/ (Removing(t) \/ Emptying(t)) /\ th'[t].kid = th[t].kid
                                       \/ ~entry'[th'[t].kid].valid
    BY <1>0, BeginEffect, BeginLocks DEF Becomes, KindOK, Removing, Removed, Emptying
  <2> QED BY <1>1, <2>1, <2>2 DEF Copies
<1> QED BY <1>1, <1>2, <1>3, <1>4, <1>5, SameData

\* A walk starts at the root: the tree, what the calls hold of it, and the copies stay
\* sound.
LEMMA WalkRootData ==
  ASSUME SafeInv, NEW t \in Threads, WalkRoot(t)
  PROVE  Data'
<1>0. /\ TypeOK /\ th[t] \in Locals /\ KindOK(t) /\ WalkOK(t) /\ KidOK(t) /\ IndexOK(t) /\ InoOK(t)
      /\ (th[t].cur # 0 => th[t].cur \in Inodes) /\ (th[t].kid # 0 => th[t].kid \in Inodes)
  BY Own
<1>1. SameDisk /\ files' = files /\ Steps(t)
  BY <1>0, WalkRootEffect DEF WalkRoot, SameDisk, bits, tree, table
<1>2. Fades /\ Opened' = Opened BY WalkRootLocks
<1>3. Moves(t)
  <2>1. pc'[t] \notin {"write_new", "write_dir", "free_inode"} BY <1>0, WalkRootEffect DEF KindOK
  <2>2. th'[t].cur # 0 => th'[t].cur = th[t].cur BY <1>0, WalkRootEffect, IdleType DEF Becomes, KindOK
  <2>3. pc'[t] = "alloc_inode" => IsDir(th'[t].cur) /\ dirent[th'[t].cur][Name(t)'] = 0
    BY <1>0, WalkRootEffect DEF Becomes, KindOK, Child, Name
  <2>4. pc'[t] = "lock" /\ th'[t].cur # 0 => dirent[th'[t].cur][th'[t].path[th'[t].depth]] = th'[t].kid
    BY <1>0, WalkRootEffect DEF Becomes, KindOK, WalkOK, Outside
  <2>5. Making(t)' => Making(t) /\ pc[t] # "write_new" /\ Stays(t)
    BY <1>0, WalkRootEffect DEF Becomes, KindOK, Making, Stays
  <2>6. Named(t)' => \/ Named(t) /\ Stays(t)
                    \/ /\ IsDir(th'[t].cur) /\ dirent[th'[t].cur][Name(t)'] = th'[t].kid
                       /\ IsDir(th'[t].kid) <=> th'[t].kind = "rmdir"
    BY <1>0, WalkRootEffect DEF Becomes, KindOK, Named, Emptying, Stays, Child, Name
  <2>7. Removed(t)' => Removed(t) /\ Stays(t)
    BY <1>0, WalkRootEffect DEF Becomes, KindOK, Removed, Stays
  <2>8. Removing(t)' => Removing(t) /\ Stays(t)
    BY <1>0, WalkRootEffect DEF Becomes, KindOK, Removing, Removed, Stays
  <2>9. Opening(t)' => Opening(t) /\ th'[t].index = th[t].index
    BY <1>0, WalkRootEffect, IdleType DEF Becomes, KindOK, IndexOK, Opening
  <2> QED BY <2>1, <2>2, <2>3, <2>4, <2>5, <2>6, <2>7, <2>8, <2>9 DEF Moves
<1>4. Keeps(t) BY <1>1, <1>2 DEF Keeps
<1>5. Copies(t)
  <2>1. Writing(t)' => Writing(t) /\ th'[t].fd = th[t].fd /\ th'[t].ino.mode = th[t].ino.mode
    BY <1>0, WalkRootEffect DEF Becomes, KindOK, Writing
  <2>2. Removing(t)' \/ Emptying(t)' => \/ (Removing(t) \/ Emptying(t)) /\ th'[t].kid = th[t].kid
                                       \/ ~entry'[th'[t].kid].valid
    BY <1>0, WalkRootEffect, WalkRootLocks DEF Becomes, KindOK, Removing, Removed, Emptying
  <2> QED BY <1>1, <2>1, <2>2 DEF Copies
<1> QED BY <1>1, <1>2, <1>3, <1>4, <1>5, SameData

\* A walk looks a component up: the tree, what the calls hold of it, and the copies
\* stay sound.
LEMMA WalkNextData ==
  ASSUME SafeInv, NEW t \in Threads, WalkNext(t)
  PROVE  Data'
<1>0. /\ TypeOK /\ th[t] \in Locals /\ KindOK(t) /\ WalkOK(t) /\ KidOK(t) /\ IndexOK(t) /\ InoOK(t)
      /\ (th[t].cur # 0 => th[t].cur \in Inodes) /\ (th[t].kid # 0 => th[t].kid \in Inodes)
  BY Own
<1>e. th[t].cur # 0 /\ th[t].path[th[t].depth + 1] \in Names
  <2>1. pc[t] = "walk" /\ th[t].kind \in ByPath BY <1>0 DEF WalkNext, KindOK
  <2>2. th[t].cur # 0 /\ th[t].depth < Goal(t) BY <1>0, <2>1 DEF WalkOK, OnFd, Outside
  <2> QED BY <1>0, <2>1, <2>2, NameIn
<1>1. SameDisk /\ files' = files /\ Steps(t)
  BY <1>0, <1>e, WalkNextEffect DEF WalkNext, SameDisk, bits, tree, table
<1>2. Fades /\ Opened' = Opened BY WalkNextLocks
<1>3. Moves(t)
  <2>1. pc'[t] \notin {"write_new", "write_dir", "free_inode"}
    BY <1>0, <1>e, WalkNextEffect DEF KindOK
  <2>2. th'[t].cur # 0 => th'[t].cur = th[t].cur
    BY <1>0, <1>e, WalkNextEffect, IdleType DEF Becomes, KindOK
  <2>3. pc'[t] = "alloc_inode" => IsDir(th'[t].cur) /\ dirent[th'[t].cur][Name(t)'] = 0
    BY <1>0, <1>e, WalkNextEffect DEF Becomes, KindOK, Child, Name
  <2>4. pc'[t] = "lock" /\ th'[t].cur # 0 => dirent[th'[t].cur][th'[t].path[th'[t].depth]] = th'[t].kid
    BY <1>0, <1>e, WalkNextEffect DEF Becomes, KindOK, WalkOK, Outside
  <2>5. Making(t)' => Making(t) /\ pc[t] # "write_new" /\ Stays(t)
    BY <1>0, <1>e, WalkNextEffect DEF Becomes, KindOK, Making, Stays
  <2>6. Named(t)' => \/ Named(t) /\ Stays(t)
                    \/ /\ IsDir(th'[t].cur) /\ dirent[th'[t].cur][Name(t)'] = th'[t].kid
                       /\ IsDir(th'[t].kid) <=> th'[t].kind = "rmdir"
    BY <1>0, <1>e, WalkNextEffect DEF Becomes, KindOK, Named, Emptying, Stays, Child, Name
  <2>7. Removed(t)' => Removed(t) /\ Stays(t)
    BY <1>0, <1>e, WalkNextEffect DEF Becomes, KindOK, Removed, Stays
  <2>8. Removing(t)' => Removing(t) /\ Stays(t)
    BY <1>0, <1>e, WalkNextEffect DEF Becomes, KindOK, Removing, Removed, Stays
  <2>9. Opening(t)' => Opening(t) /\ th'[t].index = th[t].index
    BY <1>0, <1>e, WalkNextEffect, IdleType DEF Becomes, KindOK, IndexOK, Opening
  <2> QED BY <2>1, <2>2, <2>3, <2>4, <2>5, <2>6, <2>7, <2>8, <2>9 DEF Moves
<1>4. Keeps(t) BY <1>1, <1>2 DEF Keeps
<1>5. Copies(t)
  <2>1. Writing(t)' => Writing(t) /\ th'[t].fd = th[t].fd /\ th'[t].ino.mode = th[t].ino.mode
    BY <1>0, <1>e, WalkNextEffect DEF Becomes, KindOK, Writing
  <2>2. Removing(t)' \/ Emptying(t)' => \/ (Removing(t) \/ Emptying(t)) /\ th'[t].kid = th[t].kid
                                       \/ ~entry'[th'[t].kid].valid
    BY <1>0, <1>e, WalkNextEffect, WalkNextLocks DEF Becomes, KindOK, Removing, Removed, Emptying
  <2> QED BY <1>1, <2>1, <2>2 DEF Copies
<1> QED BY <1>1, <1>2, <1>3, <1>4, <1>5, SameData

\* A call has found its last component: the tree, what the calls hold of it, and the
\* copies stay sound.
LEMMA AtChildData ==
  ASSUME SafeInv, NEW t \in Threads, AtChild(t)
  PROVE  Data'
<1>0. /\ TypeOK /\ th[t] \in Locals /\ KindOK(t) /\ WalkOK(t) /\ KidOK(t) /\ IndexOK(t) /\ InoOK(t)
      /\ (th[t].cur # 0 => th[t].cur \in Inodes) /\ (th[t].kid # 0 => th[t].kid \in Inodes)
  BY Own
<1>e. th[t].cur # 0 /\ Name(t) \in Names /\ IsDir(th[t].cur)
      /\ (Suits(t) => (IsDir(Child(t)) <=> th[t].kind = "rmdir"))
  <2>1. pc[t] = "at" /\ th[t].kind \in ByPath BY <1>0 DEF AtChild, KindOK
  <2>2. th[t].cur # 0 BY <1>0, <2>1 DEF WalkOK, OnFd, Outside
  <2> QED BY <1>0, <2>1, <2>2, NameIn DEF AtChild, Suits
<1>1. SameDisk /\ files' = files /\ Steps(t)
  BY <1>0, <1>e, AtChildEffect DEF AtChild, SameDisk, bits, tree, table
<1>2. Fades /\ Opened' = Opened BY AtChildLocks
<1>3. Moves(t)
  <2>1. pc'[t] \notin {"write_new", "write_dir", "free_inode"} BY <1>0, <1>e, AtChildEffect DEF KindOK
  <2>2. th'[t].cur # 0 => th'[t].cur = th[t].cur
    BY <1>0, <1>e, AtChildEffect, IdleType DEF Becomes, KindOK
  <2>3. pc'[t] = "alloc_inode" => IsDir(th'[t].cur) /\ dirent[th'[t].cur][Name(t)'] = 0
    BY <1>0, <1>e, AtChildEffect DEF Becomes, KindOK, Child, Name
  <2>4. pc'[t] = "lock" /\ th'[t].cur # 0 => dirent[th'[t].cur][th'[t].path[th'[t].depth]] = th'[t].kid
    BY <1>0, <1>e, AtChildEffect DEF Becomes, KindOK, WalkOK, Outside
  <2>5. Making(t)' => Making(t) /\ pc[t] # "write_new" /\ Stays(t)
    BY <1>0, <1>e, AtChildEffect DEF Becomes, KindOK, Making, Stays
  <2>6. Named(t)' => \/ Named(t) /\ Stays(t)
                    \/ /\ IsDir(th'[t].cur) /\ dirent[th'[t].cur][Name(t)'] = th'[t].kid
                       /\ IsDir(th'[t].kid) <=> th'[t].kind = "rmdir"
    BY <1>0, <1>e, AtChildEffect DEF Becomes, KindOK, Named, Emptying, Stays, Child, Name
  <2>7. Removed(t)' => Removed(t) /\ Stays(t)
    BY <1>0, <1>e, AtChildEffect DEF Becomes, KindOK, Removed, Stays
  <2>8. Removing(t)' => Removing(t) /\ Stays(t)
    BY <1>0, <1>e, AtChildEffect DEF Becomes, KindOK, Removing, Removed, Stays
  <2>9. Opening(t)' => Opening(t) /\ th'[t].index = th[t].index
    BY <1>0, <1>e, AtChildEffect, IdleType DEF Becomes, KindOK, IndexOK, Opening
  <2> QED BY <2>1, <2>2, <2>3, <2>4, <2>5, <2>6, <2>7, <2>8, <2>9 DEF Moves
<1>4. Keeps(t) BY <1>1, <1>2 DEF Keeps
<1>5. Copies(t)
  <2>1. Writing(t)' => Writing(t) /\ th'[t].fd = th[t].fd /\ th'[t].ino.mode = th[t].ino.mode
    BY <1>0, <1>e, AtChildEffect DEF Becomes, KindOK, Writing
  <2>2. Removing(t)' \/ Emptying(t)' => \/ (Removing(t) \/ Emptying(t)) /\ th'[t].kid = th[t].kid
                                       \/ ~entry'[th'[t].kid].valid
    BY <1>0, <1>e, AtChildEffect, AtChildLocks DEF Becomes, KindOK, Removing, Removed, Emptying
  <2> QED BY <1>1, <2>1, <2>2 DEF Copies
<1> QED BY <1>1, <1>2, <1>3, <1>4, <1>5, SameData

\* A call finds no such name: the tree, what the calls hold of it, and the copies stay
\* sound.
LEMMA AtNoneData ==
  ASSUME SafeInv, NEW t \in Threads, AtNone(t)
  PROVE  Data'
<1>0. /\ TypeOK /\ th[t] \in Locals /\ KindOK(t) /\ WalkOK(t) /\ KidOK(t) /\ IndexOK(t) /\ InoOK(t)
      /\ (th[t].cur # 0 => th[t].cur \in Inodes) /\ (th[t].kid # 0 => th[t].kid \in Inodes)
  BY Own
<1>e. IsDir(th[t].cur) => Child(t) = 0 BY DEF AtNone
<1>1. SameDisk /\ files' = files /\ Steps(t)
  BY <1>0, <1>e, AtNoneEffect DEF AtNone, SameDisk, bits, tree, table
<1>2. Fades /\ Opened' = Opened BY AtNoneLocks
<1>3. Moves(t)
  <2>1. pc'[t] \notin {"write_new", "write_dir", "free_inode"} BY <1>0, <1>e, AtNoneEffect DEF KindOK
  <2>2. th'[t].cur # 0 => th'[t].cur = th[t].cur
    BY <1>0, <1>e, AtNoneEffect, IdleType DEF Becomes, KindOK
  <2>3. pc'[t] = "alloc_inode" => IsDir(th'[t].cur) /\ dirent[th'[t].cur][Name(t)'] = 0
    BY <1>0, <1>e, AtNoneEffect DEF Becomes, KindOK, Child, Name
  <2>4. pc'[t] = "lock" /\ th'[t].cur # 0 => dirent[th'[t].cur][th'[t].path[th'[t].depth]] = th'[t].kid
    BY <1>0, <1>e, AtNoneEffect DEF Becomes, KindOK, WalkOK, Outside
  <2>5. Making(t)' => Making(t) /\ pc[t] # "write_new" /\ Stays(t)
    BY <1>0, <1>e, AtNoneEffect DEF Becomes, KindOK, Making, Stays
  <2>6. Named(t)' => \/ Named(t) /\ Stays(t)
                    \/ /\ IsDir(th'[t].cur) /\ dirent[th'[t].cur][Name(t)'] = th'[t].kid
                       /\ IsDir(th'[t].kid) <=> th'[t].kind = "rmdir"
    BY <1>0, <1>e, AtNoneEffect DEF Becomes, KindOK, Named, Emptying, Stays, Child, Name
  <2>7. Removed(t)' => Removed(t) /\ Stays(t)
    BY <1>0, <1>e, AtNoneEffect DEF Becomes, KindOK, Removed, Stays
  <2>8. Removing(t)' => Removing(t) /\ Stays(t)
    BY <1>0, <1>e, AtNoneEffect DEF Becomes, KindOK, Removing, Removed, Stays
  <2>9. Opening(t)' => Opening(t) /\ th'[t].index = th[t].index
    BY <1>0, <1>e, AtNoneEffect, IdleType DEF Becomes, KindOK, IndexOK, Opening
  <2> QED BY <2>1, <2>2, <2>3, <2>4, <2>5, <2>6, <2>7, <2>8, <2>9 DEF Moves
<1>4. Keeps(t) BY <1>1, <1>2 DEF Keeps
<1>5. Copies(t)
  <2>1. Writing(t)' => Writing(t) /\ th'[t].fd = th[t].fd /\ th'[t].ino.mode = th[t].ino.mode
    BY <1>0, <1>e, AtNoneEffect DEF Becomes, KindOK, Writing
  <2>2. Removing(t)' \/ Emptying(t)' => \/ (Removing(t) \/ Emptying(t)) /\ th'[t].kid = th[t].kid
                                       \/ ~entry'[th'[t].kid].valid
    BY <1>0, <1>e, AtNoneEffect, AtNoneLocks DEF Becomes, KindOK, Removing, Removed, Emptying
  <2> QED BY <1>1, <2>1, <2>2 DEF Copies
<1> QED BY <1>1, <1>2, <1>3, <1>4, <1>5, SameData

\* The inode below the directory is locked: the tree, what the calls hold of it, and
\* the copies stay sound.
LEMMA LockKidData ==
  ASSUME SafeInv, NEW t \in Threads, LockKid(t)
  PROVE  Data'
<1>0. /\ TypeOK /\ th[t] \in Locals /\ KindOK(t) /\ WalkOK(t) /\ KidOK(t) /\ IndexOK(t) /\ InoOK(t)
      /\ (th[t].cur # 0 => th[t].cur \in Inodes) /\ (th[t].kid # 0 => th[t].kid \in Inodes)
  BY Own
<1>1. SameDisk /\ files' = files /\ Steps(t)
  BY <1>0, LockKidEffect DEF LockKid, SameDisk, bits, tree, table
<1>2. Fades /\ Opened' = Opened BY LockKidLocks
<1>3. Moves(t)
  <2>1. pc'[t] \notin {"write_new", "write_dir", "free_inode"}
    BY <1>0, LockKidEffect DEF KindOK, InoOK
  <2>2. th'[t].cur # 0 => th'[t].cur = th[t].cur
    BY <1>0, LockKidEffect, IdleType DEF Becomes, KindOK, InoOK
  <2>3. pc'[t] = "alloc_inode" => IsDir(th'[t].cur) /\ dirent[th'[t].cur][Name(t)'] = 0
    BY <1>0, LockKidEffect DEF Becomes, KindOK, Child, Name, InoOK
  <2>4. pc'[t] = "lock" /\ th'[t].cur # 0 => dirent[th'[t].cur][th'[t].path[th'[t].depth]] = th'[t].kid
    BY <1>0, LockKidEffect DEF Becomes, KindOK, WalkOK, Outside, InoOK
  <2>5. Making(t)' => Making(t) /\ pc[t] # "write_new" /\ Stays(t)
    BY <1>0, LockKidEffect DEF Becomes, KindOK, Making, Stays, InoOK
  <2>6. Named(t)' => \/ Named(t) /\ Stays(t)
                    \/ /\ IsDir(th'[t].cur) /\ dirent[th'[t].cur][Name(t)'] = th'[t].kid
                       /\ IsDir(th'[t].kid) <=> th'[t].kind = "rmdir"
    BY <1>0, LockKidEffect DEF Becomes, KindOK, Named, Emptying, Stays, Child, Name, InoOK
  <2>7. Removed(t)' => Removed(t) /\ Stays(t)
    BY <1>0, LockKidEffect DEF Becomes, KindOK, Removed, Stays, InoOK
  <2>8. Removing(t)' => Removing(t) /\ Stays(t)
    BY <1>0, LockKidEffect DEF Becomes, KindOK, Removing, Removed, Stays, InoOK
  <2>9. Opening(t)' => Opening(t) /\ th'[t].index = th[t].index
    BY <1>0, LockKidEffect, IdleType DEF Becomes, KindOK, IndexOK, Opening, InoOK
  <2> QED BY <2>1, <2>2, <2>3, <2>4, <2>5, <2>6, <2>7, <2>8, <2>9 DEF Moves
<1>4. Keeps(t) BY <1>1, <1>2 DEF Keeps
<1>5. Copies(t)
  <2>1. Writing(t)' => Writing(t) /\ th'[t].fd = th[t].fd /\ th'[t].ino.mode = th[t].ino.mode
    BY <1>0, LockKidEffect DEF Becomes, KindOK, Writing, InoOK
  <2>2. Removing(t)' \/ Emptying(t)' => \/ (Removing(t) \/ Emptying(t)) /\ th'[t].kid = th[t].kid
                                       \/ ~entry'[th'[t].kid].valid
    BY <1>0, LockKidEffect, LockKidLocks DEF Becomes, KindOK, Removing, Removed, Emptying, InoOK
  <2> QED BY <1>1, <2>1, <2>2 DEF Copies
<1> QED BY <1>1, <1>2, <1>3, <1>4, <1>5, SameData

\* Mkdir takes a block for the new directory: the tree, what the calls hold of it, and
\* the copies stay sound.
LEMMA AllocBlockData ==
  ASSUME SafeInv, NEW t \in Threads, AllocBlock(t)
  PROVE  Data'
<1>0. /\ TypeOK /\ th[t] \in Locals /\ KindOK(t) /\ WalkOK(t) /\ KidOK(t) /\ IndexOK(t) /\ InoOK(t)
      /\ (th[t].cur # 0 => th[t].cur \in Inodes) /\ (th[t].kid # 0 => th[t].kid \in Inodes)
  BY Own
<1>1. SameDisk /\ files' = files /\ Steps(t)
  BY <1>0, AllocBlockEffect DEF AllocBlock, SameDisk, bits, tree, table
<1>2. Fades /\ Opened' = Opened BY AllocBlockLocks
<1>3. Moves(t)
  <2>1. pc'[t] \notin {"write_new", "write_dir", "free_inode"} BY <1>0, AllocBlockEffect DEF KindOK
  <2>2. th'[t].cur # 0 => th'[t].cur = th[t].cur
    BY <1>0, AllocBlockEffect, IdleType DEF Becomes, KindOK
  <2>3. pc'[t] = "alloc_inode" => IsDir(th'[t].cur) /\ dirent[th'[t].cur][Name(t)'] = 0
    BY <1>0, AllocBlockEffect DEF Becomes, KindOK, Child, Name
  <2>4. pc'[t] = "lock" /\ th'[t].cur # 0 => dirent[th'[t].cur][th'[t].path[th'[t].depth]] = th'[t].kid
    BY <1>0, AllocBlockEffect DEF Becomes, KindOK, WalkOK, Outside
  <2>5. Making(t)' => Making(t) /\ pc[t] # "write_new" /\ Stays(t)
    BY <1>0, AllocBlockEffect DEF Becomes, KindOK, Making, Stays
  <2>6. Named(t)' => \/ Named(t) /\ Stays(t)
                    \/ /\ IsDir(th'[t].cur) /\ dirent[th'[t].cur][Name(t)'] = th'[t].kid
                       /\ IsDir(th'[t].kid) <=> th'[t].kind = "rmdir"
    BY <1>0, AllocBlockEffect DEF Becomes, KindOK, Named, Emptying, Stays, Child, Name
  <2>7. Removed(t)' => Removed(t) /\ Stays(t)
    BY <1>0, AllocBlockEffect DEF Becomes, KindOK, Removed, Stays
  <2>8. Removing(t)' => Removing(t) /\ Stays(t)
    BY <1>0, AllocBlockEffect DEF Becomes, KindOK, Removing, Removed, Stays
  <2>9. Opening(t)' => Opening(t) /\ th'[t].index = th[t].index
    BY <1>0, AllocBlockEffect, IdleType DEF Becomes, KindOK, IndexOK, Opening
  <2> QED BY <2>1, <2>2, <2>3, <2>4, <2>5, <2>6, <2>7, <2>8, <2>9 DEF Moves
<1>4. Keeps(t) BY <1>1, <1>2 DEF Keeps
<1>5. Copies(t)
  <2>1. Writing(t)' => Writing(t) /\ th'[t].fd = th[t].fd /\ th'[t].ino.mode = th[t].ino.mode
    BY <1>0, AllocBlockEffect DEF Becomes, KindOK, Writing
  <2>2. Removing(t)' \/ Emptying(t)' => \/ (Removing(t) \/ Emptying(t)) /\ th'[t].kid = th[t].kid
                                       \/ ~entry'[th'[t].kid].valid
    BY <1>0, AllocBlockEffect, AllocBlockLocks DEF Becomes, KindOK, Removing, Removed, Emptying
  <2> QED BY <1>1, <2>1, <2>2 DEF Copies
<1> QED BY <1>1, <1>2, <1>3, <1>4, <1>5, SameData

\* Mkdir hands its block back: the tree, what the calls hold of it, and the copies
\* stay sound.
LEMMA UndoBlockData ==
  ASSUME SafeInv, NEW t \in Threads, UndoBlock(t)
  PROVE  Data'
<1>0. /\ TypeOK /\ th[t] \in Locals /\ KindOK(t) /\ WalkOK(t) /\ KidOK(t) /\ IndexOK(t) /\ InoOK(t)
      /\ (th[t].cur # 0 => th[t].cur \in Inodes) /\ (th[t].kid # 0 => th[t].kid \in Inodes)
  BY Own
<1>1. SameDisk /\ files' = files /\ Steps(t)
  BY <1>0, UndoBlockEffect DEF UndoBlock, SameDisk, bits, tree, table
<1>2. Fades /\ Opened' = Opened BY UndoBlockLocks
<1>3. Moves(t)
  <2>1. pc'[t] \notin {"write_new", "write_dir", "free_inode"} BY <1>0, UndoBlockEffect DEF KindOK
  <2>2. th'[t].cur # 0 => th'[t].cur = th[t].cur
    BY <1>0, UndoBlockEffect, IdleType DEF Becomes, KindOK
  <2>3. pc'[t] = "alloc_inode" => IsDir(th'[t].cur) /\ dirent[th'[t].cur][Name(t)'] = 0
    BY <1>0, UndoBlockEffect DEF Becomes, KindOK, Child, Name
  <2>4. pc'[t] = "lock" /\ th'[t].cur # 0 => dirent[th'[t].cur][th'[t].path[th'[t].depth]] = th'[t].kid
    BY <1>0, UndoBlockEffect DEF Becomes, KindOK, WalkOK, Outside
  <2>5. Making(t)' => Making(t) /\ pc[t] # "write_new" /\ Stays(t)
    BY <1>0, UndoBlockEffect DEF Becomes, KindOK, Making, Stays
  <2>6. Named(t)' => \/ Named(t) /\ Stays(t)
                    \/ /\ IsDir(th'[t].cur) /\ dirent[th'[t].cur][Name(t)'] = th'[t].kid
                       /\ IsDir(th'[t].kid) <=> th'[t].kind = "rmdir"
    BY <1>0, UndoBlockEffect DEF Becomes, KindOK, Named, Emptying, Stays, Child, Name
  <2>7. Removed(t)' => Removed(t) /\ Stays(t)
    BY <1>0, UndoBlockEffect DEF Becomes, KindOK, Removed, Stays
  <2>8. Removing(t)' => Removing(t) /\ Stays(t)
    BY <1>0, UndoBlockEffect DEF Becomes, KindOK, Removing, Removed, Stays
  <2>9. Opening(t)' => Opening(t) /\ th'[t].index = th[t].index
    BY <1>0, UndoBlockEffect, IdleType DEF Becomes, KindOK, IndexOK, Opening
  <2> QED BY <2>1, <2>2, <2>3, <2>4, <2>5, <2>6, <2>7, <2>8, <2>9 DEF Moves
<1>4. Keeps(t) BY <1>1, <1>2 DEF Keeps
<1>5. Copies(t)
  <2>1. Writing(t)' => Writing(t) /\ th'[t].fd = th[t].fd /\ th'[t].ino.mode = th[t].ino.mode
    BY <1>0, UndoBlockEffect DEF Becomes, KindOK, Writing
  <2>2. Removing(t)' \/ Emptying(t)' => \/ (Removing(t) \/ Emptying(t)) /\ th'[t].kid = th[t].kid
                                       \/ ~entry'[th'[t].kid].valid
    BY <1>0, UndoBlockEffect, UndoBlockLocks DEF Becomes, KindOK, Removing, Removed, Emptying
  <2> QED BY <1>1, <2>1, <2>2 DEF Copies
<1> QED BY <1>1, <1>2, <1>3, <1>4, <1>5, SameData

\* O_TRUNC looks at the file: the tree, what the calls hold of it, and the copies stay
\* sound.
LEMMA TruncateData ==
  ASSUME SafeInv, NEW t \in Threads, Truncate(t)
  PROVE  Data'
<1>0. /\ TypeOK /\ th[t] \in Locals /\ KindOK(t) /\ WalkOK(t) /\ KidOK(t) /\ IndexOK(t) /\ InoOK(t)
      /\ (th[t].cur # 0 => th[t].cur \in Inodes) /\ (th[t].kid # 0 => th[t].kid \in Inodes)
  BY Own
<1>1. SameDisk /\ files' = files /\ Steps(t)
  BY <1>0, TruncateEffect DEF Truncate, SameDisk, bits, tree, table
<1>2. Fades /\ Opened' = Opened BY TruncateLocks
<1>3. Moves(t)
  <2>1. pc'[t] \notin {"write_new", "write_dir", "free_inode"} BY <1>0, TruncateEffect DEF KindOK
  <2>2. th'[t].cur # 0 => th'[t].cur = th[t].cur BY <1>0, TruncateEffect, IdleType DEF Becomes, KindOK
  <2>3. pc'[t] = "alloc_inode" => IsDir(th'[t].cur) /\ dirent[th'[t].cur][Name(t)'] = 0
    BY <1>0, TruncateEffect DEF Becomes, KindOK, Child, Name
  <2>4. pc'[t] = "lock" /\ th'[t].cur # 0 => dirent[th'[t].cur][th'[t].path[th'[t].depth]] = th'[t].kid
    BY <1>0, TruncateEffect DEF Becomes, KindOK, WalkOK, Outside
  <2>5. Making(t)' => Making(t) /\ pc[t] # "write_new" /\ Stays(t)
    BY <1>0, TruncateEffect DEF Becomes, KindOK, Making, Stays
  <2>6. Named(t)' => \/ Named(t) /\ Stays(t)
                    \/ /\ IsDir(th'[t].cur) /\ dirent[th'[t].cur][Name(t)'] = th'[t].kid
                       /\ IsDir(th'[t].kid) <=> th'[t].kind = "rmdir"
    BY <1>0, TruncateEffect DEF Becomes, KindOK, Named, Emptying, Stays, Child, Name
  <2>7. Removed(t)' => Removed(t) /\ Stays(t)
    BY <1>0, TruncateEffect DEF Becomes, KindOK, Removed, Stays
  <2>8. Removing(t)' => Removing(t) /\ Stays(t)
    BY <1>0, TruncateEffect DEF Becomes, KindOK, Removing, Removed, Stays
  <2>9. Opening(t)' => Opening(t) /\ th'[t].index = th[t].index
    BY <1>0, TruncateEffect, IdleType DEF Becomes, KindOK, IndexOK, Opening
  <2> QED BY <2>1, <2>2, <2>3, <2>4, <2>5, <2>6, <2>7, <2>8, <2>9 DEF Moves
<1>4. Keeps(t) BY <1>1, <1>2 DEF Keeps
<1>5. Copies(t)
  <2>1. Writing(t)' => Writing(t) /\ th'[t].fd = th[t].fd /\ th'[t].ino.mode = th[t].ino.mode
    BY <1>0, TruncateEffect DEF Becomes, KindOK, Writing
  <2>2. Removing(t)' \/ Emptying(t)' => \/ (Removing(t) \/ Emptying(t)) /\ th'[t].kid = th[t].kid
                                       \/ ~entry'[th'[t].kid].valid
    BY <1>0, TruncateEffect, TruncateLocks DEF Becomes, KindOK, Removing, Removed, Emptying
  <2> QED BY <1>1, <2>1, <2>2 DEF Copies
<1> QED BY <1>1, <1>2, <1>3, <1>4, <1>5, SameData

\* Free_all_blocks: the tree, what the calls hold of it, and the copies stay sound.
LEMMA FreeBlocksData ==
  ASSUME SafeInv, NEW t \in Threads, FreeBlocks(t)
  PROVE  Data'
<1>0. /\ TypeOK /\ th[t] \in Locals /\ KindOK(t) /\ WalkOK(t) /\ KidOK(t) /\ IndexOK(t) /\ InoOK(t)
      /\ (th[t].cur # 0 => th[t].cur \in Inodes) /\ (th[t].kid # 0 => th[t].kid \in Inodes)
  BY Own
<1>1. SameDisk /\ files' = files /\ Steps(t)
  BY <1>0, FreeBlocksEffect DEF FreeBlocks, SameDisk, bits, tree, table
<1>2. Fades /\ Opened' = Opened BY FreeBlocksLocks
<1>3. Moves(t)
  <2>1. pc'[t] \notin {"write_new", "write_dir", "free_inode"} BY <1>0, FreeBlocksEffect DEF KindOK
  <2>2. th'[t].cur # 0 => th'[t].cur = th[t].cur
    BY <1>0, FreeBlocksEffect, IdleType DEF Becomes, KindOK
  <2>3. pc'[t] = "alloc_inode" => IsDir(th'[t].cur) /\ dirent[th'[t].cur][Name(t)'] = 0
    BY <1>0, FreeBlocksEffect DEF Becomes, KindOK, Child, Name
  <2>4. pc'[t] = "lock" /\ th'[t].cur # 0 => dirent[th'[t].cur][th'[t].path[th'[t].depth]] = th'[t].kid
    BY <1>0, FreeBlocksEffect DEF Becomes, KindOK, WalkOK, Outside
  <2>5. Making(t)' => Making(t) /\ pc[t] # "write_new" /\ Stays(t)
    BY <1>0, FreeBlocksEffect DEF Becomes, KindOK, Making, Stays
  <2>6. Named(t)' => \/ Named(t) /\ Stays(t)
                    \/ /\ IsDir(th'[t].cur) /\ dirent[th'[t].cur][Name(t)'] = th'[t].kid
                       /\ IsDir(th'[t].kid) <=> th'[t].kind = "rmdir"
    BY <1>0, FreeBlocksEffect DEF Becomes, KindOK, Named, Emptying, Stays, Child, Name
  <2>7. Removed(t)' => Removed(t) /\ Stays(t)
    BY <1>0, FreeBlocksEffect DEF Becomes, KindOK, Removed, Stays
  <2>8. Removing(t)' => Removing(t) /\ Stays(t)
    BY <1>0, FreeBlocksEffect DEF Becomes, KindOK, Removing, Removed, Stays
  <2>9. Opening(t)' => Opening(t) /\ th'[t].index = th[t].index
    BY <1>0, FreeBlocksEffect, IdleType DEF Becomes, KindOK, IndexOK, Opening
  <2> QED BY <2>1, <2>2, <2>3, <2>4, <2>5, <2>6, <2>7, <2>8, <2>9 DEF Moves
<1>4. Keeps(t) BY <1>1, <1>2 DEF Keeps
<1>5. Copies(t)
  <2>1. Writing(t)' => Writing(t) /\ th'[t].fd = th[t].fd /\ th'[t].ino.mode = th[t].ino.mode
    BY <1>0, FreeBlocksEffect DEF Becomes, KindOK, Writing
  <2>2. Removing(t)' \/ Emptying(t)' => \/ (Removing(t) \/ Emptying(t)) /\ th'[t].kid = th[t].kid
                                       \/ ~entry'[th'[t].kid].valid
    BY <1>0, FreeBlocksEffect, FreeBlocksLocks DEF Becomes, KindOK, Removing, Removed, Emptying
  <2> QED BY <1>1, <2>1, <2>2 DEF Copies
<1> QED BY <1>1, <1>2, <1>3, <1>4, <1>5, SameData

\* Alloc_all gives back what it had taken: the tree, what the calls hold of it, and
\* the copies stay sound.
LEMMA GiveBackData ==
  ASSUME SafeInv, NEW t \in Threads, GiveBack(t)
  PROVE  Data'
<1>0. /\ TypeOK /\ th[t] \in Locals /\ KindOK(t) /\ WalkOK(t) /\ KidOK(t) /\ IndexOK(t) /\ InoOK(t)
      /\ (th[t].cur # 0 => th[t].cur \in Inodes) /\ (th[t].kid # 0 => th[t].kid \in Inodes)
  BY Own
<1>1. SameDisk /\ files' = files /\ Steps(t)
  BY <1>0, GiveBackEffect DEF GiveBack, SameDisk, bits, tree, table
<1>2. Fades /\ Opened' = Opened BY GiveBackLocks
<1>3. Moves(t)
  <2>1. pc'[t] \notin {"write_new", "write_dir", "free_inode"} BY <1>0, GiveBackEffect DEF KindOK
  <2>2. th'[t].cur # 0 => th'[t].cur = th[t].cur BY <1>0, GiveBackEffect, IdleType DEF Becomes, KindOK
  <2>3. pc'[t] = "alloc_inode" => IsDir(th'[t].cur) /\ dirent[th'[t].cur][Name(t)'] = 0
    BY <1>0, GiveBackEffect DEF Becomes, KindOK, Child, Name
  <2>4. pc'[t] = "lock" /\ th'[t].cur # 0 => dirent[th'[t].cur][th'[t].path[th'[t].depth]] = th'[t].kid
    BY <1>0, GiveBackEffect DEF Becomes, KindOK, WalkOK, Outside
  <2>5. Making(t)' => Making(t) /\ pc[t] # "write_new" /\ Stays(t)
    BY <1>0, GiveBackEffect DEF Becomes, KindOK, Making, Stays
  <2>6. Named(t)' => \/ Named(t) /\ Stays(t)
                    \/ /\ IsDir(th'[t].cur) /\ dirent[th'[t].cur][Name(t)'] = th'[t].kid
                       /\ IsDir(th'[t].kid) <=> th'[t].kind = "rmdir"
    BY <1>0, GiveBackEffect DEF Becomes, KindOK, Named, Emptying, Stays, Child, Name
  <2>7. Removed(t)' => Removed(t) /\ Stays(t)
    BY <1>0, GiveBackEffect DEF Becomes, KindOK, Removed, Stays
  <2>8. Removing(t)' => Removing(t) /\ Stays(t)
    BY <1>0, GiveBackEffect DEF Becomes, KindOK, Removing, Removed, Stays
  <2>9. Opening(t)' => Opening(t) /\ th'[t].index = th[t].index
    BY <1>0, GiveBackEffect, IdleType DEF Becomes, KindOK, IndexOK, Opening
  <2> QED BY <2>1, <2>2, <2>3, <2>4, <2>5, <2>6, <2>7, <2>8, <2>9 DEF Moves
<1>4. Keeps(t) BY <1>1, <1>2 DEF Keeps
<1>5. Copies(t)
  <2>1. Writing(t)' => Writing(t) /\ th'[t].fd = th[t].fd /\ th'[t].ino.mode = th[t].ino.mode
    BY <1>0, GiveBackEffect DEF Becomes, KindOK, Writing
  <2>2. Removing(t)' \/ Emptying(t)' => \/ (Removing(t) \/ Emptying(t)) /\ th'[t].kid = th[t].kid
                                       \/ ~entry'[th'[t].kid].valid
    BY <1>0, GiveBackEffect, GiveBackLocks DEF Becomes, KindOK, Removing, Removed, Emptying
  <2> QED BY <1>1, <2>1, <2>2 DEF Copies
<1> QED BY <1>1, <1>2, <1>3, <1>4, <1>5, SameData

\* Vfs_fsync waits for a commit: the tree, what the calls hold of it, and the copies
\* stay sound.
LEMMA FsyncData ==
  ASSUME SafeInv, NEW t \in Threads, Fsync(t)
  PROVE  Data'
<1>0. /\ TypeOK /\ th[t] \in Locals /\ KindOK(t) /\ WalkOK(t) /\ KidOK(t) /\ IndexOK(t) /\ InoOK(t)
      /\ (th[t].cur # 0 => th[t].cur \in Inodes) /\ (th[t].kid # 0 => th[t].kid \in Inodes)
  BY Own
<1>1. SameDisk /\ files' = files /\ Steps(t)
  BY <1>0, FsyncEffect DEF Fsync, SameDisk, bits, tree, table
<1>2. Fades /\ Opened' = Opened BY FsyncLocks
<1>3. Moves(t)
  <2>1. pc'[t] \notin {"write_new", "write_dir", "free_inode"} BY <1>0, FsyncEffect DEF KindOK
  <2>2. th'[t].cur # 0 => th'[t].cur = th[t].cur BY <1>0, FsyncEffect, IdleType DEF Becomes, KindOK
  <2>3. pc'[t] = "alloc_inode" => IsDir(th'[t].cur) /\ dirent[th'[t].cur][Name(t)'] = 0
    BY <1>0, FsyncEffect DEF Becomes, KindOK, Child, Name
  <2>4. pc'[t] = "lock" /\ th'[t].cur # 0 => dirent[th'[t].cur][th'[t].path[th'[t].depth]] = th'[t].kid
    BY <1>0, FsyncEffect DEF Becomes, KindOK, WalkOK, Outside
  <2>5. Making(t)' => Making(t) /\ pc[t] # "write_new" /\ Stays(t)
    BY <1>0, FsyncEffect DEF Becomes, KindOK, Making, Stays
  <2>6. Named(t)' => \/ Named(t) /\ Stays(t)
                    \/ /\ IsDir(th'[t].cur) /\ dirent[th'[t].cur][Name(t)'] = th'[t].kid
                       /\ IsDir(th'[t].kid) <=> th'[t].kind = "rmdir"
    BY <1>0, FsyncEffect DEF Becomes, KindOK, Named, Emptying, Stays, Child, Name
  <2>7. Removed(t)' => Removed(t) /\ Stays(t) BY <1>0, FsyncEffect DEF Becomes, KindOK, Removed, Stays
  <2>8. Removing(t)' => Removing(t) /\ Stays(t)
    BY <1>0, FsyncEffect DEF Becomes, KindOK, Removing, Removed, Stays
  <2>9. Opening(t)' => Opening(t) /\ th'[t].index = th[t].index
    BY <1>0, FsyncEffect, IdleType DEF Becomes, KindOK, IndexOK, Opening
  <2> QED BY <2>1, <2>2, <2>3, <2>4, <2>5, <2>6, <2>7, <2>8, <2>9 DEF Moves
<1>4. Keeps(t) BY <1>1, <1>2 DEF Keeps
<1>5. Copies(t)
  <2>1. Writing(t)' => Writing(t) /\ th'[t].fd = th[t].fd /\ th'[t].ino.mode = th[t].ino.mode
    BY <1>0, FsyncEffect DEF Becomes, KindOK, Writing
  <2>2. Removing(t)' \/ Emptying(t)' => \/ (Removing(t) \/ Emptying(t)) /\ th'[t].kid = th[t].kid
                                       \/ ~entry'[th'[t].kid].valid
    BY <1>0, FsyncEffect, FsyncLocks DEF Becomes, KindOK, Removing, Removed, Emptying
  <2> QED BY <1>1, <2>1, <2>2 DEF Copies
<1> QED BY <1>1, <1>2, <1>3, <1>4, <1>5, SameData

\* A call leaves its locks: the tree, what the calls hold of it, and the copies stay
\* sound.
LEMMA ExitData ==
  ASSUME SafeInv, NEW t \in Threads, Exit(t)
  PROVE  Data'
<1>0. /\ TypeOK /\ th[t] \in Locals /\ KindOK(t) /\ WalkOK(t) /\ KidOK(t) /\ IndexOK(t) /\ InoOK(t)
      /\ (th[t].cur # 0 => th[t].cur \in Inodes) /\ (th[t].kid # 0 => th[t].kid \in Inodes)
  BY Own
<1>1. SameDisk /\ files' = files /\ Steps(t) BY <1>0, ExitEffect DEF Exit, SameDisk, bits, tree, table
<1>2. Fades /\ Opened' = Opened BY ExitLocks
<1>3. Moves(t)
  <2>1. pc'[t] \notin {"write_new", "write_dir", "free_inode"} BY <1>0, ExitEffect DEF KindOK
  <2>2. th'[t].cur # 0 => th'[t].cur = th[t].cur BY <1>0, ExitEffect, IdleType DEF Becomes, KindOK
  <2>3. pc'[t] = "alloc_inode" => IsDir(th'[t].cur) /\ dirent[th'[t].cur][Name(t)'] = 0
    BY <1>0, ExitEffect DEF Becomes, KindOK, Child, Name
  <2>4. pc'[t] = "lock" /\ th'[t].cur # 0 => dirent[th'[t].cur][th'[t].path[th'[t].depth]] = th'[t].kid
    BY <1>0, ExitEffect DEF Becomes, KindOK, WalkOK, Outside
  <2>5. Making(t)' => Making(t) /\ pc[t] # "write_new" /\ Stays(t)
    BY <1>0, ExitEffect DEF Becomes, KindOK, Making, Stays
  <2>6. Named(t)' => \/ Named(t) /\ Stays(t)
                    \/ /\ IsDir(th'[t].cur) /\ dirent[th'[t].cur][Name(t)'] = th'[t].kid
                       /\ IsDir(th'[t].kid) <=> th'[t].kind = "rmdir"
    BY <1>0, ExitEffect DEF Becomes, KindOK, Named, Emptying, Stays, Child, Name
  <2>7. Removed(t)' => Removed(t) /\ Stays(t) BY <1>0, ExitEffect DEF Becomes, KindOK, Removed, Stays
  <2>8. Removing(t)' => Removing(t) /\ Stays(t)
    BY <1>0, ExitEffect DEF Becomes, KindOK, Removing, Removed, Stays
  <2>9. Opening(t)' => Opening(t) /\ th'[t].index = th[t].index
    BY <1>0, ExitEffect, IdleType DEF Becomes, KindOK, IndexOK, Opening
  <2> QED BY <2>1, <2>2, <2>3, <2>4, <2>5, <2>6, <2>7, <2>8, <2>9 DEF Moves
<1>4. Keeps(t) BY <1>1, <1>2 DEF Keeps
<1>5. Copies(t)
  <2>1. Writing(t)' => Writing(t) /\ th'[t].fd = th[t].fd /\ th'[t].ino.mode = th[t].ino.mode
    BY <1>0, ExitEffect DEF Becomes, KindOK, Writing
  <2>2. Removing(t)' \/ Emptying(t)' => \/ (Removing(t) \/ Emptying(t)) /\ th'[t].kid = th[t].kid
                                       \/ ~entry'[th'[t].kid].valid
    BY <1>0, ExitEffect, ExitLocks DEF Becomes, KindOK, Removing, Removed, Emptying
  <2> QED BY <1>1, <2>1, <2>2 DEF Copies
<1> QED BY <1>1, <1>2, <1>3, <1>4, <1>5, SameData

\* A call with a path begins: the tree, what the calls hold of it, and the copies stay
\* sound.
LEMMA CallPathData ==
  ASSUME SafeInv, NEW t \in Threads, CallPath(t)
  PROVE  Data'
<1>0. /\ TypeOK /\ th[t] \in Locals /\ KindOK(t) /\ WalkOK(t) /\ KidOK(t) /\ IndexOK(t) /\ InoOK(t)
      /\ (th[t].cur # 0 => th[t].cur \in Inodes) /\ (th[t].kid # 0 => th[t].kid \in Inodes)
  BY Own
<1>1. SameDisk /\ files' = files /\ Steps(t)
  BY <1>0, CallPathEffect DEF CallPath, SameDisk, bits, tree, table
<1>2. Fades /\ Opened' = Opened BY CallPathLocks
<1>3. Moves(t)
  <2>1. pc'[t] \notin {"write_new", "write_dir", "free_inode"} BY <1>0, CallPathEffect DEF KindOK
  <2>2. th'[t].cur # 0 => th'[t].cur = th[t].cur BY <1>0, CallPathEffect, IdleType DEF Becomes, KindOK
  <2>3. pc'[t] = "alloc_inode" => IsDir(th'[t].cur) /\ dirent[th'[t].cur][Name(t)'] = 0
    BY <1>0, CallPathEffect DEF Becomes, KindOK, Child, Name
  <2>4. pc'[t] = "lock" /\ th'[t].cur # 0 => dirent[th'[t].cur][th'[t].path[th'[t].depth]] = th'[t].kid
    BY <1>0, CallPathEffect DEF Becomes, KindOK, WalkOK, Outside
  <2>5. Making(t)' => Making(t) /\ pc[t] # "write_new" /\ Stays(t)
    BY <1>0, CallPathEffect DEF Becomes, KindOK, Making, Stays
  <2>6. Named(t)' => \/ Named(t) /\ Stays(t)
                    \/ /\ IsDir(th'[t].cur) /\ dirent[th'[t].cur][Name(t)'] = th'[t].kid
                       /\ IsDir(th'[t].kid) <=> th'[t].kind = "rmdir"
    BY <1>0, CallPathEffect DEF Becomes, KindOK, Named, Emptying, Stays, Child, Name
  <2>7. Removed(t)' => Removed(t) /\ Stays(t)
    BY <1>0, CallPathEffect DEF Becomes, KindOK, Removed, Stays
  <2>8. Removing(t)' => Removing(t) /\ Stays(t)
    BY <1>0, CallPathEffect DEF Becomes, KindOK, Removing, Removed, Stays
  <2>9. Opening(t)' => Opening(t) /\ th'[t].index = th[t].index
    BY <1>0, CallPathEffect, IdleType DEF Becomes, KindOK, IndexOK, Opening
  <2> QED BY <2>1, <2>2, <2>3, <2>4, <2>5, <2>6, <2>7, <2>8, <2>9 DEF Moves
<1>4. Keeps(t) BY <1>1, <1>2 DEF Keeps
<1>5. Copies(t)
  <2>1. Writing(t)' => Writing(t) /\ th'[t].fd = th[t].fd /\ th'[t].ino.mode = th[t].ino.mode
    BY <1>0, CallPathEffect DEF Becomes, KindOK, Writing
  <2>2. Removing(t)' \/ Emptying(t)' => \/ (Removing(t) \/ Emptying(t)) /\ th'[t].kid = th[t].kid
                                       \/ ~entry'[th'[t].kid].valid
    BY <1>0, CallPathEffect, CallPathLocks DEF Becomes, KindOK, Removing, Removed, Emptying
  <2> QED BY <1>1, <2>1, <2>2 DEF Copies
<1> QED BY <1>1, <1>2, <1>3, <1>4, <1>5, SameData

\* A block cannot be read and the step throws: the tree, what the calls hold of it,
\* and the copies stay sound.
LEMMA IoErrorData ==
  ASSUME SafeInv, NEW t \in Threads, IoError(t)
  PROVE  Data'
<1>0. /\ TypeOK /\ th[t] \in Locals /\ KindOK(t) /\ WalkOK(t) /\ KidOK(t) /\ IndexOK(t) /\ InoOK(t)
      /\ (th[t].cur # 0 => th[t].cur \in Inodes) /\ (th[t].kid # 0 => th[t].kid \in Inodes)
  BY Own
<1>e. pc[t] \in Reads /\ th[t].held \in BOOLEAN BY <1>0, LocalsFields DEF IoError
<1>1. SameDisk /\ files' = files /\ Steps(t)
  BY <1>0, <1>e, IoErrorEffect DEF IoError, SameDisk, bits, tree, table
<1>2. Fades /\ Opened' = Opened BY IoErrorLocks
<1>3. Moves(t)
  <2>1. pc'[t] \notin {"write_new", "write_dir", "free_inode"}
    BY <1>0, <1>e, IoErrorEffect DEF KindOK, Reads
  <2>2. th'[t].cur # 0 => th'[t].cur = th[t].cur
    BY <1>0, <1>e, IoErrorEffect, IdleType DEF Becomes, KindOK, Reads
  <2>3. pc'[t] = "alloc_inode" => IsDir(th'[t].cur) /\ dirent[th'[t].cur][Name(t)'] = 0
    BY <1>0, <1>e, IoErrorEffect DEF Becomes, KindOK, Child, Name, Reads
  <2>4. pc'[t] = "lock" /\ th'[t].cur # 0 => dirent[th'[t].cur][th'[t].path[th'[t].depth]] = th'[t].kid
    BY <1>0, <1>e, IoErrorEffect DEF Becomes, KindOK, WalkOK, Outside, Reads
  <2>5. Making(t)' => Making(t) /\ pc[t] # "write_new" /\ Stays(t)
    BY <1>0, <1>e, IoErrorEffect DEF Becomes, KindOK, Making, Stays, Reads
  <2>6. Named(t)' => \/ Named(t) /\ Stays(t)
                    \/ /\ IsDir(th'[t].cur) /\ dirent[th'[t].cur][Name(t)'] = th'[t].kid
                       /\ IsDir(th'[t].kid) <=> th'[t].kind = "rmdir"
    BY <1>0, <1>e, IoErrorEffect DEF Becomes, KindOK, Named, Emptying, Stays, Child, Name, Reads
  <2>7. Removed(t)' => Removed(t) /\ Stays(t)
    BY <1>0, <1>e, IoErrorEffect DEF Becomes, KindOK, Removed, Stays, Reads
  <2>8. Removing(t)' => Removing(t) /\ Stays(t)
    BY <1>0, <1>e, IoErrorEffect DEF Becomes, KindOK, Removing, Removed, Stays, Reads
  <2>9. Opening(t)' => Opening(t) /\ th'[t].index = th[t].index
    BY <1>0, <1>e, IoErrorEffect, IdleType DEF Becomes, KindOK, IndexOK, Opening, Reads
  <2> QED BY <2>1, <2>2, <2>3, <2>4, <2>5, <2>6, <2>7, <2>8, <2>9 DEF Moves
<1>4. Keeps(t) BY <1>1, <1>2 DEF Keeps
<1>5. Copies(t)
  <2>1. Writing(t)' => Writing(t) /\ th'[t].fd = th[t].fd /\ th'[t].ino.mode = th[t].ino.mode
    BY <1>0, <1>e, IoErrorEffect DEF Becomes, KindOK, Writing, Reads
  <2>2. Removing(t)' \/ Emptying(t)' => \/ (Removing(t) \/ Emptying(t)) /\ th'[t].kid = th[t].kid
                                       \/ ~entry'[th'[t].kid].valid
    BY <1>0, <1>e, IoErrorEffect, IoErrorLocks DEF Becomes, KindOK, Removing, Removed, Emptying, Reads
  <2> QED BY <1>1, <2>1, <2>2 DEF Copies
<1> QED BY <1>1, <1>2, <1>3, <1>4, <1>5, SameData

\* A thread that steps out of the tree.
LEMMA Leaves ==
  ASSUME NEW t \in Threads, th'[t].cur = 0, pc'[t] \in {"idle", "begin", "lock_file", "close", "unlock_file"}
  PROVE  Moves(t) /\ ~Writing(t)' /\ ~Removing(t)' /\ ~Emptying(t)'
<1>1. ~Making(t)' /\ ~Removing(t)' /\ ~Removed(t)' /\ ~Emptying(t)' /\ ~Named(t)' /\ ~Opening(t)' /\ ~Writing(t)'
  BY DEF Making, Removing, Removed, Emptying, Named, Opening, Writing
<1> QED BY <1>1 DEF Moves

\* The file is unlocked: the tree, what the calls hold of it, and the copies stay
\* sound.
LEMMA UnlockFileData ==
  ASSUME SafeInv, NEW t \in Threads, UnlockFile(t)
  PROVE  Data'
<1>0. TypeOK /\ KindOK(t) /\ WalkOK(t) BY Own
<1>1. SameDisk /\ files' = files /\ Steps(t)
  BY <1>0, UnlockFileEffect DEF UnlockFile, SameDisk, bits, tree
<1>2. Fades /\ Opened' = Opened BY UnlockFileLocks
<1>3. th'[t].cur = 0 /\ pc'[t] \in {"idle", "begin"}
  BY <1>0, UnlockFileEffect, IdleType DEF KindOK, WalkOK, OnFd, Becomes
<1>4. Keeps(t) /\ Copies(t) BY <1>1, <1>2, <1>3, Leaves DEF Keeps, Copies
<1> QED BY <1>1, <1>2, <1>3, <1>4, Leaves, SameData

\* A call on a descriptor begins: the tree, what the calls hold of it, and the copies
\* stay sound.
LEMMA CallFdData ==
  ASSUME SafeInv, NEW t \in Threads, CallFd(t)
  PROVE  Data'
<1>0. TypeOK BY Own
<1>1. SameDisk /\ files' = files /\ Steps(t) BY <1>0, CallFdEffect DEF CallFd, SameDisk, bits, tree
<1>2. Fades /\ Opened' \subseteq Opened BY CallFdLocks
<1>3. th'[t].cur = 0 /\ pc'[t] \in {"begin", "lock_file", "close"} BY <1>0, CallFdEffect
<1>4. Keeps(t) /\ Copies(t) BY <1>1, <1>2, <1>3, Leaves DEF Keeps, Copies
<1> QED BY <1>1, <1>2, <1>3, <1>4, Leaves, SameData

\* Vfs_close drops the file: the tree, what the calls hold of it, and the copies stay
\* sound.
LEMMA CloseData ==
  ASSUME SafeInv, NEW t \in Threads, Close(t)
  PROVE  Data'
<1>0. TypeOK /\ KindOK(t) BY Own
<1>1. SameDisk /\ Steps(t) /\ pc[t] = "close" /\ th'[t].cur = 0 /\ pc'[t] = "idle" /\ files' = [files EXCEPT ![th[t].fd] = 0]
  BY <1>0, CloseEffect, IdleType DEF Close, SameDisk, bits, tree
<1>2. Fades /\ Opened' = Opened BY CloseLocks
<1>3. OnFd(t) BY <1>0, <1>1 DEF KindOK, OnFd
<1>4. op[th[t].fd] = t /\ files \in [Fds -> 0..NInodes] BY <1>0, <1>3, OnFile DEF TypeOK
<1>5. ASSUME NEW u \in Threads, Writing(u) PROVE files'[th[u].fd] = files[th[u].fd]
  <2>1. u # t BY <1>1, <1>5 DEF Writing
  <2>2. op[th[u].fd] = u /\ th[u].fd \in Fds BY <1>5, WritingFile
  <2> QED BY <1>1, <1>4, <2>1, <2>2
<1>6. \A fd \in Opened : fd \in Fds /\ fd # th[t].fd BY <1>1 DEF Opened
<1>7. Keeps(t) BY <1>1, <1>2, <1>4, <1>6 DEF Keeps
<1>8. Copies(t) BY <1>1, <1>5, Leaves DEF Copies
<1> QED BY <1>1, <1>2, <1>7, <1>8, Leaves, SameData

\* The open file enters the table: the tree, what the calls hold of it, and the copies
\* stay sound.
LEMMA InstallData ==
  ASSUME SafeInv, NEW t \in Threads, Install(t)
  PROVE  Data'
<1>0. TypeOK /\ KindOK(t) /\ IndexOK(t) BY Own
<1>1. /\ SameDisk /\ Steps(t) /\ pc[t] = "install" /\ th'[t].cur = 0 /\ pc'[t] = "idle"
      /\ files' = [files EXCEPT ![th[t].fd] = th[t].index] /\ op[th[t].fd] = NoThread
  BY <1>0, InstallEffect, IdleType DEF Install, SameDisk, bits, tree
<1>2. /\ Fades /\ Opened' = Opened \cup {th[t].fd} /\ files'[th[t].fd] = th[t].index
      /\ \A g \in Opened : files'[g] = files[g]
  BY InstallLocks
<1>3. Opening(t) BY <1>0, <1>1 DEF Opening, IndexOK
<1>5. ASSUME NEW u \in Threads, Writing(u) PROVE files'[th[u].fd] = files[th[u].fd]
  <2>2. op[th[u].fd] = u /\ th[u].fd \in Fds BY <1>5, WritingFile
  <2>3. files \in [Fds -> 0..NInodes] /\ NoThread \notin Threads BY <1>0, ThreadsAssumption DEF TypeOK
  <2> QED BY <1>1, <2>2, <2>3
<1>7. Keeps(t) BY <1>2, <1>3 DEF Keeps
<1>8. Copies(t) BY <1>1, <1>5, Leaves DEF Copies
<1> QED BY <1>1, <1>2, <1>7, <1>8, Leaves, SameData

\* A call on a descriptor locks its file: the tree, what the calls hold of it, and the
\* copies stay sound.
LEMMA LockFileData ==
  ASSUME SafeInv, NEW t \in Threads, LockFile(t)
  PROVE  Data'
<1>0. TypeOK /\ KindOK(t) /\ CacheCoherent BY Own DEF SafeInv
<1>e. /\ pc[t] = "lock_file" /\ OnFd(t) /\ th[t].kind \in Writes \cup {"read"}
      /\ th[t].fd \in Fds /\ files[th[t].fd] \in Inodes /\ th[t].cur = 0 /\ th[t].kid = 0
  <2>0. pc[t] = "lock_file" BY DEF LockFile
  <2>1. OnFd(t) /\ th[t].kind \in Writes \cup {"read"} BY <1>0, <2>0 DEF KindOK, OnFd
  <2> QED BY <2>0, <2>1, OnFile
<1>p. PICK i \in Inodes : i = files[th[t].fd] BY <1>e
<1>1. SameDisk /\ files' = files /\ Steps(t)
  BY <1>0, <1>e, LockFileEffect DEF LockFile, SameDisk, bits, tree, table
<1>2. Fades /\ Opened' = Opened BY LockFileLocks
<1>3. /\ th'[t].cur = 0 /\ th'[t].fd = th[t].fd /\ th'[t].kind = th[t].kind /\ pc'[t] \in {"unlock_file", "take"}
      /\ pc'[t] = "take" => /\ th[t].kind \in Writes /\ entry' = Forget(Locked(entry, t, i), i)
                            /\ th'[t].ino = inode[i]
  <2> DEFINE ino == IF entry[i].valid THEN entry[i].inode ELSE inode[i]
  <2>1. ino = inode[i] BY <1>0 DEF CacheCoherent
  <2>2. \/ pc'[t] = "unlock_file"
        \/ /\ pc'[t] = "take" /\ th[t].kind \in Writes /\ entry' = Forget(Locked(entry, t, i), i)
           /\ th'[t].ino = ino
    BY <1>0, <1>e, <1>p, LockFileEffect DEF Becomes
  <2>3. th'[t].cur = 0 /\ th'[t].fd = th[t].fd /\ th'[t].kind = th[t].kind
    BY <1>0, <1>e, LockFileEffect DEF Becomes
  <2> QED BY <2>1, <2>2, <2>3
<1>4. CASE pc'[t] = "unlock_file"
  <2>1. Keeps(t) /\ Copies(t) BY <1>1, <1>2, <1>3, <1>4, Leaves DEF Keeps, Copies
  <2> QED BY <1>1, <1>2, <1>3, <1>4, <2>1, Leaves, SameData
<1>5. CASE pc'[t] = "take"
  <2>1. ~entry'[i].valid
    <3>1. Locked(entry, t, i) \in [Inodes -> EntryType] BY <1>0, <1>p, LockedIs DEF TypeOK, Only
    <3> QED BY <1>3, <1>5, <1>p, <3>1, ForgetIs DEF Looks
  <2>2. ~Making(t)' /\ ~Removing(t)' /\ ~Removed(t)' /\ ~Emptying(t)' /\ ~Named(t)' /\ ~Opening(t)'
    BY <1>3, <1>5 DEF Making, Removing, Removed, Emptying, Named, Opening
  <2>3. Moves(t) BY <1>3, <1>5, <2>2 DEF Moves
  <2>4. Keeps(t) BY <1>1, <1>2 DEF Keeps
  <2>5. th'[t].ino.mode = inode[i].mode /\ files'[th'[t].fd] = i BY <1>1, <1>3, <1>5, <1>p
  <2>6. Copies(t) BY <1>1, <2>1, <2>2, <2>5 DEF Copies
  <2> QED BY <1>1, <1>2, <2>3, <2>4, <2>6, SameData
<1> QED BY <1>3, <1>4, <1>5

\* What a directory of t names, nobody else is making.
LEMMA NotMade ==
  ASSUME SafeInv, NEW t \in Threads, th[t].cur \in Inodes, NEW n \in Names, dirent[th[t].cur][n] # 0
  PROVE  Others(t, dirent[th[t].cur][n])
<1> SUFFICES ASSUME NEW u \in Threads, u # t, Making(u), th[u].kid = dirent[th[t].cur][n] PROVE FALSE
  BY DEF Others
<1>1. MakeOK(u) BY DEF SafeInv, ThereInv
<1>2. pc[u] = "write_new" /\ Child(u) = th[u].kid BY <1>1 DEF MakeOK, Unnamed
<1>3. th[u].cur \in Inodes /\ Name(u) \in Names /\ th[t].cur # th[u].cur BY InDir
<1>4. dirent[th[u].cur][Name(u)] = dirent[th[t].cur][n] BY <1>2 DEF Child
<1>5. NameInv BY DEF SafeInv
<1> QED BY <1>3, <1>4, <1>5 DEF NameInv

\* A walk locks what it has found: the tree, what the calls hold of it, and the copies
\* stay sound.
LEMMA WalkLockData ==
  ASSUME SafeInv, NEW t \in Threads, WalkLock(t)
  PROVE  Data'
<1>0. /\ TypeOK /\ KindOK(t) /\ WalkOK(t) /\ KidOK(t) /\ (th[t].cur # 0 => th[t].cur \in Inodes) /\ (th[t].kid # 0 => th[t].kid \in Inodes)
  BY Own
<1>1. SameDisk /\ files' = files /\ Steps(t)
  BY <1>0, WalkLockEffect DEF WalkLock, SameDisk, bits, tree, table
<1>2. Fades /\ Opened' = Opened BY WalkLockLocks
<1>3. th'[t].cur = th[t].kid /\ pc[t] = "lock" /\ pc'[t] \in {"at", "walk"}
  BY <1>0, WalkLockEffect DEF Becomes
<1>4. th[t].kid \in ibits /\ Others(t, th[t].kid)
  <2>1. CASE th[t].depth = 0
    <3>1. th[t].kid = Root BY <1>0, <1>3, <2>1 DEF WalkOK
    <3>2. Root \in ibits BY DEF SafeInv, NameInv
    <3>3. \A u \in Threads : Making(u) => th[u].kid # Root BY DEF SafeInv, ThereInv, MakeOK
    <3> QED BY <3>1, <3>2, <3>3 DEF Others
  <2>2. CASE th[t].depth # 0
    <3>1. th[t].cur \in Inodes /\ th[t].cur # 0 BY <1>0, <1>3, <2>2 DEF WalkOK
    <3>2. th[t].path[th[t].depth] \in Names BY <1>0, <1>3, <2>2, NameIn DEF KindOK
    <3>3. dirent[th[t].cur][th[t].path[th[t].depth]] = th[t].kid
      BY <1>3, <3>1 DEF SafeInv, ThereInv, HeldOK
    <3>4. th[t].kid # 0 BY <1>0, <1>3 DEF KidOK, Outside, OnFd, KindOK
    <3> QED BY <3>1, <3>2, <3>3, <3>4, Named1, NotMade
  <2> QED BY <2>1, <2>2
<1>5. ~Making(t)' /\ ~Removing(t)' /\ ~Removed(t)' /\ ~Emptying(t)' /\ ~Named(t)' /\ ~Opening(t)' /\ ~Writing(t)'
  BY <1>3 DEF Making, Removing, Removed, Emptying, Named, Opening, Writing
<1>6. Moves(t) BY <1>3, <1>4, <1>5 DEF Moves
<1>7. Keeps(t) /\ Copies(t) BY <1>1, <1>2, <1>5 DEF Keeps, Copies
<1> QED BY <1>1, <1>2, <1>6, <1>7, SameData

\* Open has reached the file's name: the tree, what the calls hold of it, and the
\* copies stay sound.
LEMMA AtOpenData ==
  ASSUME SafeInv, NEW t \in Threads, AtOpen(t)
  PROVE  Data'
<1>0. TypeOK /\ KindOK(t) /\ WalkOK(t) /\ IndexOK(t) /\ (th[t].cur # 0 => th[t].cur \in Inodes) BY Own
<1>1. SameDisk /\ files' = files /\ Steps(t)
  BY <1>0, AtOpenEffect DEF AtOpen, SameDisk, bits, tree, table
<1>2. Fades /\ Opened' = Opened BY AtOpenLocks
<1>3. /\ th'[t].cur = th[t].cur /\ pc[t] = "at" /\ pc'[t] = "exit" /\ th'[t].kind = th[t].kind
      /\ th'[t].index = th[t].index \/ (th'[t].index = th[t].cur /\ ~IsDir(th[t].cur))
  BY <1>0, AtOpenEffect DEF Becomes
<1>4. th[t].cur \in Inodes /\ th[t].cur # 0 BY <1>0, <1>3 DEF WalkOK, KindOK, OnFd, Outside
<1>5. ~Making(t)' /\ ~Removing(t)' /\ ~Removed(t)' /\ ~Emptying(t)' /\ ~Named(t)' /\ ~Writing(t)' /\ ~Removing(t)
  BY <1>3 DEF Making, Removing, Removed, Emptying, Named, Writing
<1>6. Vacant(th[t].cur)
  <2>1. ASSUME NEW u \in Threads, Making(u) PROVE th[u].kid # th[t].cur
    BY <2>1 DEF SafeInv, ThereInv, MakeOK
  <2>2. ASSUME NEW u \in Threads, Removing(u) PROVE th[u].kid # th[t].cur
    BY <1>5, <2>2, KidAlone
  <2> QED BY <2>1, <2>2 DEF Vacant
<1>7. th[t].cur \in ibits BY <1>4 DEF SafeInv, ThereInv, HeldOK
<1>8. Opening(t)' => th'[t].index # th[t].index BY <1>0, <1>3 DEF Opening, IndexOK
<1>9. Moves(t) BY <1>3, <1>5, <1>6, <1>7, <1>8 DEF Moves
<1>10. Keeps(t) /\ Copies(t) BY <1>1, <1>2, <1>5 DEF Keeps, Copies
<1> QED BY <1>1, <1>2, <1>9, <1>10, SameData

\* What is locked, or is to be, below a directory is there; nobody else makes it.
LEMMA NamedKid ==
  ASSUME SafeInv, NEW t \in Threads, Named(t)
  PROVE  /\ th[t].cur \in Inodes /\ th[t].kid \in Inodes /\ Name(t) \in Names /\ th[t].kid \in ibits \ {Root}
         /\ Child(t) = th[t].kid /\ (IsDir(th[t].kid) <=> th[t].kind = "rmdir") /\ IsDir(th[t].cur)
         /\ Others(t, th[t].kid)
<1>0. /\ TypeOK /\ KindOK(t) /\ WalkOK(t) /\ KidOK(t) /\ (th[t].cur # 0 => th[t].cur \in Inodes) /\ (th[t].kid # 0 => th[t].kid \in Inodes)
      /\ HeldOK(t)
  BY Own DEF SafeInv, ThereInv
<1>1. th[t].kind \in Creates \cup Truncates \cup Changes BY <1>0 DEF Named, Emptying, KindOK
<1>2. pc[t] \notin Outside \cup {"lock", "walk", "at", "alloc_inode", "exit"}
  BY DEF Named, Emptying, Outside
<1>3. th[t].cur # 0 /\ th[t].kid # 0 BY <1>0, <1>1, <1>2 DEF WalkOK, KidOK, OnFd
<1>4. Name(t) \in Names
  <2>1. th[t].kind \in ByPath /\ pc[t] \notin {"idle", "sync", "install"} BY <1>1, <1>2 DEF Outside
  <2> QED BY <1>0, <2>1, NameIn
<1>5. Child(t) = th[t].kid /\ (IsDir(th[t].kid) <=> th[t].kind = "rmdir") /\ IsDir(th[t].cur)
  BY <1>0 DEF HeldOK
<1>6. dirent[th[t].cur][Name(t)] = th[t].kid BY <1>5 DEF Child
<1> QED BY <1>0, <1>3, <1>4, <1>5, <1>6, Named1, NotMade

\* A file is counted open: the tree, what the calls hold of it, and the copies stay
\* sound.
LEMMA RegisterData ==
  ASSUME SafeInv, NEW t \in Threads, Register(t)
  PROVE  Data'
<1>0. TypeOK /\ KindOK(t) /\ KidOK(t) /\ pc[t] = "register" BY Own DEF Register
<1>1. SameDisk /\ files' = files /\ Steps(t)
  BY <1>0, RegisterEffect DEF Register, SameDisk, bits, tree, table
<1>2. Fades /\ Opened' = Opened BY RegisterLocks
<1>3. th'[t].cur = th[t].cur /\ pc'[t] = "exit" /\ th'[t].kind = th[t].kind /\ th'[t].index = th[t].kid
  BY <1>0, RegisterEffect DEF Becomes
<1>4. Named(t) /\ th[t].kind # "rmdir" BY <1>0 DEF Named, KindOK
<1>n. th[t].kid \in Inodes /\ th[t].kid \in ibits /\ ~IsDir(th[t].kid) /\ Others(t, th[t].kid)
  BY <1>4, NamedKid
<1>5. ~Making(t)' /\ ~Removing(t)' /\ ~Removed(t)' /\ ~Emptying(t)' /\ ~Named(t)' /\ ~Writing(t)' /\ ~Removing(t) /\ ~Making(t)
  BY <1>0, <1>3 DEF Making, Removing, Removed, Emptying, Named, Writing
<1>6. Vacant(th[t].kid)
  <2>1. ASSUME NEW u \in Threads, Making(u) PROVE th[u].kid # th[t].kid BY <1>5, <1>n, <2>1 DEF Others
  <2>2. ASSUME NEW u \in Threads, Removing(u) PROVE th[u].kid # th[t].kid
    <3>1. HasX(u, th[u].kid) /\ th[u].kid \in Inodes /\ u # t BY <1>5, <2>2, KidAlone
    <3>2. th[t].held BY <1>0, <1>4 DEF KidOK
    <3>3. HasX(t, th[t].kid) \/ HasS(t, th[t].kid) BY <3>2 DEF HasX, HasS
    <3> QED BY <3>1, <3>3, Exclusion
  <2> QED BY <2>1, <2>2 DEF Vacant
<1>9. Moves(t) BY <1>3, <1>n, <1>5, <1>6 DEF Moves
<1>10. Keeps(t) /\ Copies(t) BY <1>1, <1>2, <1>5 DEF Keeps, Copies
<1> QED BY <1>1, <1>2, <1>9, <1>10, SameData

\* Unlink and rmdir check what they would remove: the tree, what the calls hold of it,
\* and the copies stay sound.
LEMMA CheckData ==
  ASSUME SafeInv, NEW t \in Threads, Check(t)
  PROVE  Data'
<1>0. TypeOK /\ KindOK(t) /\ KidOK(t) /\ IndexOK(t) /\ pc[t] = "check" /\ EntriesCounted /\ OpenInv /\ NameInv
  BY Own DEF Check, SafeInv
<1>4. Named(t) /\ th[t].kind \in {"unlink", "rmdir"} BY <1>0 DEF Named, KindOK
<1>n. /\ th[t].kid \in Inodes /\ (IsDir(th[t].kid) <=> th[t].kind = "rmdir") /\ Others(t, th[t].kid)
      /\ th[t].cur \in Inodes /\ th[t].cur # 0
  BY <1>4, NamedKid DEF Inodes
<1>1. SameDisk /\ files' = files /\ Steps(t)
  BY <1>0, <1>n, CheckEffect DEF Check, SameDisk, bits, tree, table
<1>2. Fades /\ Opened' = Opened /\ (~Busy(t) => ~entry'[th[t].kid].valid) BY CheckLocks
<1>3. /\ th'[t].cur = th[t].cur /\ th'[t].kid = th[t].kid /\ Stays(t) /\ th'[t].index = th[t].index
      /\ pc'[t] = "exit" \/ (pc'[t] = "dir_remove" /\ ~Busy(t) /\ (th[t].kind = "rmdir" => Entries(th[t].kid) = 0))
  BY <1>0, <1>n, CheckEffect DEF Becomes, Stays
<1>5. ~Making(t)' /\ ~Removed(t)' /\ ~Emptying(t)' /\ (Named(t)' => Named(t)) /\ ~Writing(t)' /\ (Removing(t)' => pc'[t] = "dir_remove")
  BY <1>0, <1>3 DEF Making, Removing, Removed, Emptying, Named, Writing
<1>o. ~Opening(t)' BY <1>3, <1>4 DEF Stays, Opening
<1>6. ASSUME ~Busy(t) PROVE Unopened(th[t].kid)
  <2>1. CASE th[t].kind = "rmdir" BY <1>0, <1>n, <2>1 DEF OpenInv, Unopened
  <2>2. CASE th[t].kind = "unlink"
    <3> DEFINE i == th[t].kid
    <3>1. i \in Inodes /\ ~(entry[i].open_count > 0) BY <1>6, <1>n, <2>2 DEF Busy
    <3> HIDE DEF i
    <3>2. ASSUME NEW fd \in Opened PROVE files[fd] # i
      <4>1. entry[i].open_count \in Nat BY <1>0, <3>1, EntryFields DEF TypeOK
      <4>2. files[fd] = i => entry[i].open_count >= 1 BY <1>0, <3>1, UserCounts
      <4> QED BY <3>1, <4>1, <4>2
    <3>3. ASSUME NEW u \in Threads PROVE ~Opener(u, i)
      <4>1. entry[i].open_count \in Nat BY <1>0, <3>1, EntryFields DEF TypeOK
      <4>2. entry[i].open_count >= Bit(Opener(u, i)) BY <1>0, <3>1, UserCounts
      <4> QED BY <3>1, <4>1, <4>2 DEF Bit
    <3> QED BY <3>2, <3>3 DEF Unopened, Opener, i
  <2> QED BY <1>4, <2>1, <2>2
<1>7. ASSUME pc'[t] = "dir_remove" PROVE \A n \in Names : dirent[th[t].kid][n] = 0
  <2>1. CASE th[t].kind = "unlink" BY <1>0, <1>n, <2>1 DEF NameInv, IsDir
  <2>2. CASE th[t].kind = "rmdir"
    <3> DEFINE S == {n \in Names : dirent[th[t].kid][n] # 0}
    <3>1. Cardinality(S) = 0 BY <1>3, <1>7, <2>2 DEF Entries
    <3>2. IsFiniteSet(S) BY NamesAssumption, FS_Subset
    <3>3. S = {} BY <3>1, <3>2, FS_EmptySet
    <3> QED BY <3>3
  <2> QED BY <1>4, <2>1, <2>2
<1>9. Moves(t) BY <1>3, <1>4, <1>n, <1>5, <1>o, <1>6, <1>7 DEF Moves
<1>10. Keeps(t) /\ Copies(t) BY <1>1, <1>2, <1>3, <1>5 DEF Keeps, Copies
<1> QED BY <1>1, <1>2, <1>9, <1>10, SameData

-----------------------------------------------------------------------------
(* Steps that change the disk *)

\* A file that is written is open.
LEMMA WritingOpen ==
  ASSUME SafeInv, NEW t \in Threads, Writing(t) \/ pc[t] = "unlock_file"
  PROVE  th[t].fd \in Opened /\ ~Unopened(files[th[t].fd]) /\ files[th[t].fd] \in ibits /\ ~IsDir(files[th[t].fd])
<1>1. files[th[t].fd] \in Inodes /\ th[t].fd \in Fds /\ op[th[t].fd] = t BY WritingFile
<1>2. files[th[t].fd] # 0 BY <1>1 DEF Inodes
<1>3. ASSUME NEW u \in Threads, pc[u] = "close", th[u].fd = th[t].fd PROVE FALSE
  <2>1. OnFd(u) BY <1>3, Own DEF KindOK, OnFd
  <2>2. op[th[u].fd] = u BY <2>1, OnFile
  <2> QED BY <1>1, <1>3, <2>2 DEF Writing
<1>4. th[t].fd \in Opened BY <1>1, <1>2, <1>3 DEF Opened
<1> QED BY <1>4 DEF Unopened, SafeInv, OpenInv

\* A file that is written is locked for it.
LEMMA WritingX ==
  ASSUME SafeInv, NEW t \in Threads, Writing(t)
  PROVE  HasX(t, files[th[t].fd])
<1>1. KindOK(t) BY Own
<1>2. th[t].kind # "read" BY <1>1 DEF KindOK, Writing
<1> QED BY <1>2 DEF HasX, HasFile

\* What a step does to the inodes that are open and to those there is a copy of.
LEMMA DiskRest ==
  ASSUME SafeInv, NEW t \in Threads, Steps(t), files' = files, Opened' = Opened, Fades,
         \A i \in Inodes : inode'[i] # inode[i] \/ (i \in ibits /\ i \notin ibits') => ~entry[i].valid,
         \A i \in ibits : ~Unopened(i) => i \in ibits' /\ (inode'[i].mode = "dir" <=> IsDir(i)),
         \A u \in Threads : Writing(u) => inode'[files[th[u].fd]].mode = inode[files[th[u].fd]].mode,
         Opening(t)' => Opening(t) /\ th'[t].index = th[t].index,
         Writing(t)' => Writing(t) /\ th'[t].fd = th[t].fd /\ th'[t].ino.mode = th[t].ino.mode,
         Removing(t)' \/ Emptying(t)' => (Removing(t) \/ Emptying(t)) /\ th'[t].kid = th[t].kid
  PROVE  OpenInv' /\ CopyInv' /\ CacheCoherent'
<1>s. TypeOK /\ OpenInv /\ CopyInv /\ CacheCoherent BY DEF SafeInv
<1>2. OpenInv'
  <2>1. ASSUME NEW fd \in Opened PROVE files[fd] \in ibits' /\ ~(inode'[files[fd]].mode = "dir")
    <3>1. files[fd] \in ibits /\ ~IsDir(files[fd]) /\ ~Unopened(files[fd])
      BY <1>s DEF OpenInv, Unopened
    <3> QED BY <3>1
  <2>2. ASSUME NEW u \in Threads, Opening(u)'
        PROVE th'[u].index \in ibits' /\ ~(inode'[th'[u].index].mode = "dir")
    <3>1. Opening(u) /\ th'[u].index = th[u].index
      <4>1. CASE u = t BY <2>2, <4>1
      <4>2. CASE u # t BY <2>2, <4>2 DEF Steps, Opening
      <4> QED BY <4>1, <4>2
    <3>2. th[u].index \in ibits /\ ~IsDir(th[u].index) /\ ~Unopened(th[u].index)
      BY <1>s, <3>1 DEF OpenInv, Unopened
    <3> QED BY <3>1, <3>2
  <2> QED BY <2>1, <2>2 DEF OpenInv, IsDir
<1>3. CopyInv'
  <2>1. ASSUME NEW i \in Inodes, entry'[i].valid PROVE i \in ibits' /\ ~(inode'[i].mode = "dir")
    <3>1. entry[i].valid BY <2>1 DEF Fades
    <3> QED BY <1>s, <3>1 DEF CopyInv, IsDir
  <2>2. ASSUME NEW u \in Threads, Writing(u)'
        PROVE  ~entry'[files'[th'[u].fd]].valid /\ th'[u].ino.mode = inode'[files'[th'[u].fd]].mode
    <3>1. Writing(u) /\ th'[u].fd = th[u].fd /\ th'[u].ino.mode = th[u].ino.mode
      <4>1. CASE u = t BY <2>2, <4>1
      <4>2. CASE u # t BY <2>2, <4>2 DEF Steps, Writing
      <4> QED BY <4>1, <4>2
    <3>2. files[th[u].fd] \in Inodes BY <3>1, WritingFile
    <3>3. ~entry[files[th[u].fd]].valid /\ th[u].ino.mode = inode[files[th[u].fd]].mode
      BY <1>s, <3>1 DEF CopyInv
    <3> QED BY <3>1, <3>2, <3>3 DEF Fades
  <2>3. ASSUME NEW u \in Threads, Removing(u)' \/ Emptying(u)' PROVE ~entry'[th'[u].kid].valid
    <3>1. (Removing(u) \/ Emptying(u)) /\ th'[u].kid = th[u].kid
      <4>1. CASE u = t BY <2>3, <4>1
      <4>2. CASE u # t BY <2>3, <4>2 DEF Steps, Removing, Removed, Emptying
      <4> QED BY <4>1, <4>2
    <3>2. ~entry[th[u].kid].valid /\ th[u].kid \in Inodes BY <1>s, <3>1, KidIn DEF CopyInv
    <3> QED BY <3>1, <3>2 DEF Fades
  <2> QED BY <2>1, <2>2, <2>3 DEF CopyInv, IsDir
<1>4. CacheCoherent'
  <2>1. ASSUME NEW i \in Inodes, entry'[i].valid PROVE entry'[i].inode = inode'[i]
    <3>1. entry[i].valid /\ entry'[i].inode = entry[i].inode BY <2>1 DEF Fades
    <3> QED BY <1>s, <3>1 DEF CacheCoherent
  <2> QED BY <2>1 DEF CacheCoherent
<1> QED BY <1>2, <1>3, <1>4

\* An inode that is removed is there, and its own.
LEMMA RemovingIs ==
  ASSUME SafeInv, NEW t \in Threads, Removing(t)
  PROVE  /\ th[t].kid \in ibits \ {Root} /\ Unopened(th[t].kid) /\ ~entry[th[t].kid].valid
         /\ \A n \in Names : dirent[th[t].kid][n] = 0
         /\ \A u \in Threads : u # t /\ (Removing(u) \/ Emptying(u)) => th[u].kid # th[t].kid
         /\ \A u \in Threads : Making(u) => th[u].kid # th[t].kid
<1>0. HeldOK(t) BY DEF SafeInv, ThereInv
<1>1. th[t].kid \in ibits \ {Root}
  <2>1. CASE pc[t] = "dir_remove" BY <2>1, NamedKid DEF Named
  <2> QED BY <1>0, <2>1 DEF HeldOK, Removing
<1>2. ASSUME NEW u \in Threads, u # t, Removing(u) \/ Emptying(u) PROVE th[u].kid # th[t].kid
  BY <1>2, KidAlone, Exclusion
<1>3. ASSUME NEW u \in Threads, Making(u) PROVE th[u].kid # th[t].kid
  BY <1>3 DEF SafeInv, ThereInv, MakeOK
<1>4. ~entry[th[t].kid].valid BY DEF SafeInv, CopyInv
<1> QED BY <1>0, <1>1, <1>2, <1>3, <1>4, Private DEF HeldOK

\* An inode that is made is there, and its own.
LEMMA MakingIs ==
  ASSUME SafeInv, NEW t \in Threads, Making(t)
  PROVE  /\ th[t].kid \in ibits \ {Root} /\ th[t].kid \in Inodes /\ inode[th[t].kid] = NoInode
         /\ Unopened(th[t].kid) /\ ~entry[th[t].kid].valid
         /\ \A n \in Names : dirent[th[t].kid][n] = 0
         /\ \A u \in Threads : u # t /\ (Making(u) \/ Removing(u)) => th[u].kid # th[t].kid
         /\ \A u \in Threads : th[u].cur # th[t].kid
         /\ th[t].cur \in ibits /\ th[t].cur \in Inodes /\ IsDir(th[t].cur) /\ Name(t) \in Names
         /\ pc[t] # "write_new" => Unnamed(th[t].kid) /\ Child(t) = 0
         /\ pc[t] = "write_new" => Child(t) = th[t].kid
<1>0. MakeOK(t) /\ HeldOK(t) /\ TypeOK /\ NameInv BY DEF SafeInv, ThereInv
<1>1. /\ th[t].kid \in ibits \ {Root} /\ th[t].kid \in Inodes /\ inode[th[t].kid] = NoInode
      /\ ~entry[th[t].kid].valid
  BY <1>0 DEF MakeOK, TypeOK
<1>2. \A n \in Names : dirent[th[t].kid][n] = 0 BY <1>0, <1>1, NoInodeType DEF NameInv
<1>3. /\ \A u \in Threads : u # t /\ (Making(u) \/ Removing(u)) => th[u].kid # th[t].kid
      /\ \A u \in Threads : th[u].cur # th[t].kid
  BY <1>0 DEF MakeOK
<1>4. th[t].cur \in ibits /\ th[t].cur \in Inodes /\ IsDir(th[t].cur) /\ Name(t) \in Names
  BY <1>0, InDir DEF HeldOK
<1>5. /\ pc[t] # "write_new" => Unnamed(th[t].kid) /\ Child(t) = 0
      /\ pc[t] = "write_new" => Child(t) = th[t].kid
  BY <1>0 DEF MakeOK
<1> QED BY <1>1, <1>2, <1>3, <1>4, <1>5, Private

\* A thread that only ends, or never gets to, what this is about.
LEMMA OwnNone ==
  ASSUME NEW t \in Threads, th'[t].cur # 0 => th'[t].cur \in ibits', pc'[t] = "exit"
  PROVE  MakeOK(t)' /\ HeldOK(t)'
<1>1. ~Making(t)' /\ ~Removing(t)' /\ ~Removed(t)' /\ ~Named(t)'
  BY DEF Making, Removing, Removed, Emptying, Named
<1>2. MakeOK(t)' BY <1>1 DEF MakeOK
<1>3. HeldOK(t)' BY <1>1 DEF HeldOK
<1> QED BY <1>2, <1>3

\* Alloc_inode: the tree, what the calls hold of it, and the copies stay sound.
LEMMA AllocInodeData ==
  ASSUME SafeInv, NEW t \in Threads, AllocInode(t)
  PROVE  Data'
<1>0. TypeOK /\ KindOK(t) /\ pc[t] = "alloc_inode" /\ NameInv /\ CopyInv /\ OpenInv
  BY Own DEF AllocInode, SafeInv
<1>d. th[t].cur \in Inodes /\ th[t].cur # 0 /\ th[t].kind \in Creates \cup Changes BY <1>0, InDir
<1>t. \A u \in Threads : MakeOK(u) /\ HeldOK(u) BY DEF SafeInv, ThereInv
<1>l. Fades /\ Opened' = Opened /\ Steps(t) /\ files' = files /\ entry' = entry
  BY <1>0, <1>d, AllocInodeLocks, AllocInodeEffect DEF AllocInode, table
<1>e. /\ inode' = inode /\ dirent' = dirent /\ th'[t].cur = th[t].cur /\ th'[t].kind = th[t].kind
      /\ th'[t].path = th[t].path
  BY <1>0, <1>d, AllocInodeEffect DEF AllocInode, tree, Becomes
<1>1. CASE ibits = Inodes
  <2>1. ibits' = ibits /\ pc'[t] = "exit" /\ th' = th BY <1>1, <1>0 DEF AllocInode, Goto, TypeOK
  <2>2. ~Making(t)' /\ ~Removing(t)' /\ ~Removed(t)' /\ ~Named(t)' /\ ~Emptying(t)' /\ ~Writing(t)'
    BY <2>1 DEF Making, Removing, Removed, Emptying, Named, Writing
  <2>3. ~Opening(t)' BY <1>0, <2>1, Own DEF Opening, IndexOK
  <2>4. Moves(t) BY <2>1, <2>2, <2>3 DEF Moves
  <2>5. Keeps(t) /\ Copies(t) /\ SameDisk BY <1>l, <1>e, <2>1, <2>2 DEF Keeps, Copies, SameDisk
  <2> QED BY <1>l, <2>4, <2>5, SameData
<1>2. CASE ibits # Inodes
  <2>p. PICK i \in Inodes \ ibits : i = Min(Inodes \ ibits) BY <1>0, <1>2, FreeIn DEF TypeOK
  <2>1. ibits' = ibits \cup {i} /\ th'[t].kid = i /\ pc'[t] \in {"alloc_block", "dir_add"}
    <3>1. ibits' = ibits \cup {i} /\ pc'[t] \in {"alloc_block", "dir_add"}
      BY <1>0, <1>2, <2>p DEF AllocInode, Goto, TypeOK
    <3>2. th'[t].kid = i BY <1>0, <1>d, <2>p, <3>1, AllocInodeEffect DEF Becomes
    <3> QED BY <3>1, <3>2
  <2>2. /\ inode[i] = NoInode /\ ~entry[i].valid /\ i # Root /\ Unnamed(i)
    <3>1. i # 0 BY DEF Inodes
    <3>2. inode[i] = NoInode /\ i # Root BY <1>0 DEF NameInv
    <3>3. ~entry[i].valid BY <1>0 DEF CopyInv
    <3>4. Unnamed(i) BY <1>0, <3>1 DEF NameInv, Unnamed
    <3> QED BY <3>2, <3>3, <3>4
  <2>3. ASSUME NEW u \in Threads
        PROVE  /\ th[u].cur # i /\ (Making(u) \/ Removing(u) => th[u].kid # i)
               /\ Opening(u) => th[u].index # i
    <3>1. th[u].cur # 0 => th[u].cur \in ibits BY <1>t DEF HeldOK
    <3>2. th[u].cur # i BY <3>1 DEF Inodes
    <3> QED BY <3>2, <1>0, MakingIs, RemovingIs DEF OpenInv
  <2>4. \A fd \in Opened : files[fd] # i BY <1>0 DEF OpenInv
  <2>5. /\ Making(t)' /\ ~Removing(t)' /\ ~Removed(t)' /\ ~Named(t)' /\ ~Emptying(t)' /\ ~Writing(t)' /\ ~Opening(t)'
    BY <2>1 DEF Making, Removing, Removed, Emptying, Named, Writing, Opening
  <2>6. NameInv' BY <1>0, <1>e, <2>1, <2>2 DEF NameInv
  <2>7. ASSUME NEW u \in Threads, u # t PROVE MakeOK(u)' /\ HeldOK(u)'
    <3>0. MakeOK(u) /\ HeldOK(u) /\ th'[u] = th[u] BY <1>t, <1>l, <2>7 DEF Steps
    <3>d. (IsDir(th[u].cur)' <=> IsDir(th[u].cur)) /\ (IsDir(th[u].kid)' <=> IsDir(th[u].kid))
      BY <1>e, <3>0 DEF IsDir
    <3>1. th[u].cur # 0 => th[u].cur \in ibits' BY <2>1, <3>0 DEF HeldOK
    <3>2. Making(u) \/ Removed(u) => th[u].kid \in ibits' BY <2>1, <3>0 DEF HeldOK, MakeOK
    <3>3. Making(u) => ~entry'[th[u].kid].valid /\ th'[t].cur # th[u].kid /\ th'[t].kid # th[u].kid
      BY <1>l, <1>e, <2>1, <2>3, <3>0 DEF MakeOK
    <3>4. Making(u) \/ Removing(u) => \A fd \in Opened' : files'[fd] # th[u].kid
      BY <1>l, Private DEF Unopened
    <3> QED BY <1>l, <1>e, <2>5, <2>7, <3>d, <3>1, <3>2, <3>3, <3>4, OthersThere
  <2>8. MakeOK(t)'
    <3>1. Child(t)' = 0
      <4>1. Child(t)' = Child(t) BY <1>e DEF Child, Name
      <4> QED BY <1>0, <1>t, <4>1 DEF MakeOK
    <3>2. \A u \in Threads : u # t => th'[u] = th[u] /\ (Making(u)' <=> Making(u)) /\ (Removing(u)' <=> Removing(u)) /\ (Opening(u)' <=> Opening(u))
      BY <1>l DEF Steps, Making, Removing, Removed, Opening
    <3>3. ASSUME NEW u \in Threads
          PROVE  /\ u # t /\ Making(u)' => th'[u].kid # i
                 /\ th'[u].cur # i
                 /\ Removing(u)' => th'[u].kid # i
                 /\ Opening(u)' => th'[u].index # i
      <4>1. CASE u = t BY <4>1, <1>e, <2>3, <2>5
      <4>2. CASE u # t BY <4>2, <2>3, <3>2
      <4> QED BY <4>1, <4>2
    <3>4. Unnamed(th[t].kid)' BY <1>e, <2>1, <2>2 DEF Unnamed
    <3>5. pc'[t] # "write_new" BY <2>1
    <3> QED BY <1>l, <1>e, <2>1, <2>2, <2>4, <3>1, <3>3, <3>4, <3>5 DEF MakeOK
  <2>9. HeldOK(t)'
    <3>1. th[t].cur \in ibits /\ IsDir(th[t].cur) BY <1>0, <1>d, <1>t DEF HeldOK
    <3>2. IsDir(th[t].cur)' BY <1>e, <3>1 DEF IsDir
    <3> QED BY <1>e, <2>1, <2>5, <3>1, <3>2 DEF HeldOK
  <2>10. OpenInv' /\ CopyInv' /\ CacheCoherent'
    <3>1. \A j \in Inodes : inode'[j] # inode[j] \/ (j \in ibits /\ j \notin ibits') => ~entry[j].valid
      BY <1>e, <2>1
    <3>2. \A j \in ibits : ~Unopened(j) => j \in ibits' /\ (inode'[j].mode = "dir" <=> IsDir(j))
      BY <1>e, <2>1 DEF IsDir
    <3>3. \A u \in Threads : Writing(u) => inode'[files[th[u].fd]].mode = inode[files[th[u].fd]].mode
      BY <1>e
    <3> QED BY <1>l, <2>5, <3>1, <3>2, <3>3, DiskRest
  <2> QED BY <2>6, <2>7, <2>8, <2>9, <2>10 DEF Data, ThereInv
<1> QED BY <1>1, <1>2

\* The inode that was taken is handed back: the tree, what the calls hold of it, and
\* the copies stay sound.
LEMMA UndoInodeData ==
  ASSUME SafeInv, NEW t \in Threads, UndoInode(t)
  PROVE  Data'
<1>0. TypeOK /\ KindOK(t) /\ IndexOK(t) /\ pc[t] = "undo_inode" /\ Making(t) /\ NameInv
  BY Own DEF UndoInode, SafeInv, Making
<1>m. /\ th[t].kid \in ibits \ {Root} /\ th[t].kid \in Inodes /\ inode[th[t].kid] = NoInode
      /\ Unopened(th[t].kid) /\ ~entry[th[t].kid].valid
      /\ \A u \in Threads : u # t /\ (Making(u) \/ Removing(u)) => th[u].kid # th[t].kid
      /\ \A u \in Threads : th[u].cur # th[t].kid
      /\ Unnamed(th[t].kid) /\ th[t].cur \in ibits
  BY <1>0, MakingIs
<1>t. \A u \in Threads : MakeOK(u) /\ HeldOK(u) BY DEF SafeInv, ThereInv
<1>l. Fades /\ Opened' = Opened /\ Steps(t) /\ files' = files /\ entry' = entry
  BY <1>0, UndoInodeLocks, UndoInodeEffect DEF UndoInode, table
<1>e. /\ inode' = inode /\ dirent' = dirent /\ ibits' = ibits \ {th[t].kid} /\ th'[t].cur = th[t].cur /\ th'[t].kind = th[t].kind
      /\ pc'[t] = "exit" /\ th'[t].index = 0
  BY <1>0, UndoInodeEffect DEF UndoInode, tree, Becomes
<1>1. NameInv' BY <1>0, <1>e, <1>m DEF NameInv, Unnamed
<1>2. ~Making(t)' /\ ~Removing(t)' /\ ~Emptying(t)' /\ ~Writing(t)' /\ ~Opening(t)'
  BY <1>e DEF Making, Removing, Removed, Emptying, Writing, Opening
<1>3. ASSUME NEW u \in Threads, u # t PROVE MakeOK(u)' /\ HeldOK(u)'
  <2>0. MakeOK(u) /\ HeldOK(u) /\ th'[u] = th[u] BY <1>t, <1>l, <1>3 DEF Steps
  <2>d. (IsDir(th[u].cur)' <=> IsDir(th[u].cur)) /\ (IsDir(th[u].kid)' <=> IsDir(th[u].kid))
    BY <1>e, <2>0 DEF IsDir
  <2>1. th[u].cur # 0 => th[u].cur \in ibits' BY <1>e, <1>m, <2>0 DEF HeldOK
  <2>2. Making(u) \/ Removed(u) => th[u].kid \in ibits'
    BY <1>3, <1>e, <1>m, <2>0 DEF HeldOK, MakeOK, Removing
  <2>3. Making(u) => ~entry'[th[u].kid].valid /\ th'[t].cur # th[u].kid BY <1>l, <1>e, <2>0 DEF MakeOK
  <2>4. Making(u) \/ Removing(u) => \A fd \in Opened' : files'[fd] # th[u].kid
    BY <1>l, Private DEF Unopened
  <2> QED BY <1>l, <1>e, <1>2, <1>3, <2>d, <2>1, <2>2, <2>3, <2>4, OthersThere
<1>4. MakeOK(t)' /\ HeldOK(t)' BY <1>e, <1>m, OwnNone
<1>5. OpenInv' /\ CopyInv' /\ CacheCoherent'
  <2>1. \A j \in Inodes : inode'[j] # inode[j] \/ (j \in ibits /\ j \notin ibits') => ~entry[j].valid
    BY <1>e, <1>m
  <2>2. \A j \in ibits : ~Unopened(j) => j \in ibits' /\ (inode'[j].mode = "dir" <=> IsDir(j))
    BY <1>e, <1>m DEF IsDir
  <2>3. \A u \in Threads : Writing(u) => inode'[files[th[u].fd]].mode = inode[files[th[u].fd]].mode
    BY <1>e
  <2> QED BY <1>l, <1>2, <2>1, <2>2, <2>3, DiskRest
<1> QED BY <1>1, <1>3, <1>4, <1>5 DEF Data, ThereInv

\* The entries of directories, when one of t's directory is set.
LEMMA EntrySet ==
  ASSUME TypeOK, NEW c \in Inodes, NEW m \in Names, NEW k,
         dirent' = [dirent EXCEPT ![c][m] = k]
  PROVE  /\ dirent'[c][m] = k
         /\ \A d \in Inodes, n \in Names : d # c \/ n # m => dirent'[d][n] = dirent[d][n]
         /\ \A d \in Inodes : d # c => dirent'[d] = dirent[d]
  BY DEF TypeOK

\* The entry of what is being made is written.
LEMMA AddedData ==
  ASSUME SafeInv, NEW t \in Threads, Making(t), pc[t] # "write_new", Steps(t), Fades, entry' = entry, Opened' = Opened, files' = files,
         ibits' = ibits, inode' = inode, dirent' = [dirent EXCEPT ![th[t].cur][Name(t)] = th[t].kid],
         Stays(t), pc'[t] = "write_new"
  PROVE  Data'
<1>0. TypeOK /\ NameInv BY DEF SafeInv
<1>m. /\ th[t].kid \in ibits \ {Root} /\ th[t].kid \in Inodes /\ inode[th[t].kid] = NoInode
      /\ Unopened(th[t].kid) /\ ~entry[th[t].kid].valid
      /\ \A u \in Threads : u # t /\ (Making(u) \/ Removing(u)) => th[u].kid # th[t].kid
      /\ \A u \in Threads : th[u].cur # th[t].kid
      /\ Unnamed(th[t].kid) /\ th[t].cur \in ibits /\ th[t].cur \in Inodes /\ IsDir(th[t].cur) /\ Name(t) \in Names
  BY MakingIs
<1>c. th[t].cur # 0 /\ \A u \in Threads : u # t => th[u].cur # th[t].cur BY InDir
<1>t. \A u \in Threads : MakeOK(u) /\ HeldOK(u) BY DEF SafeInv, ThereInv
<1>e. /\ dirent'[th[t].cur][Name(t)] = th[t].kid
      /\ \A d \in Inodes, n \in Names : d # th[t].cur \/ n # Name(t) => dirent'[d][n] = dirent[d][n]
      /\ \A d \in Inodes : d # th[t].cur => dirent'[d] = dirent[d]
  BY <1>0, <1>m, EntrySet
<1>1. NameInv'
  <2>1. ASSUME NEW d \in Inodes, NEW n \in Names, dirent'[d][n] # 0
        PROVE  inode'[d].mode = "dir" /\ dirent'[d][n] \in ibits' \ {Root, d}
    <3>1. CASE d = th[t].cur /\ n = Name(t) BY <1>e, <1>m, <3>1 DEF IsDir
    <3>2. CASE ~(d = th[t].cur /\ n = Name(t)) BY <1>0, <1>e, <2>1, <3>2 DEF NameInv
    <3> QED BY <3>1, <3>2
  <2>2. ASSUME NEW d \in Inodes, NEW g \in Inodes, NEW n \in Names, NEW m \in Names,
               dirent'[d][n] # 0 /\ dirent'[d][n] = dirent'[g][m]
        PROVE  d = g /\ n = m
    <3>1. CASE d = th[t].cur /\ n = Name(t) BY <1>e, <1>m, <2>2, <3>1 DEF Unnamed
    <3>2. CASE ~(d = th[t].cur /\ n = Name(t)) /\ g = th[t].cur /\ m = Name(t)
      BY <1>e, <1>m, <2>2, <3>2 DEF Unnamed
    <3>3. CASE ~(d = th[t].cur /\ n = Name(t)) /\ ~(g = th[t].cur /\ m = Name(t))
      BY <1>0, <1>e, <2>2, <3>3 DEF NameInv
    <3> QED BY <3>1, <3>2, <3>3
  <2> QED BY <1>0, <2>1, <2>2 DEF NameInv
<1>2. Making(t)' /\ ~Removing(t)' /\ ~Emptying(t)' /\ ~Writing(t)' /\ ~Opening(t)' /\ ~Named(t)' /\ ~Removed(t)'
  BY DEF Making, Removing, Removed, Emptying, Writing, Opening, Named
<1>s. th'[t].kid = th[t].kid /\ th'[t].cur = th[t].cur /\ Name(t)' = Name(t) BY DEF Stays, Name
<1>3. ASSUME NEW u \in Threads, u # t PROVE MakeOK(u)' /\ HeldOK(u)'
  <2>0. MakeOK(u) /\ HeldOK(u) /\ th'[u] = th[u] /\ (th[u].cur # 0 => th[u].cur \in Inodes)
    BY <1>t, <1>3, Own DEF Steps
  <2>d. (IsDir(th[u].cur)' <=> IsDir(th[u].cur)) /\ (IsDir(th[u].kid)' <=> IsDir(th[u].kid))
    BY <2>0 DEF IsDir
  <2>1. th[u].cur # 0 => th[u].cur \in ibits' /\ dirent'[th[u].cur] = dirent[th[u].cur]
    BY <1>3, <1>c, <1>e, <2>0 DEF HeldOK
  <2>2. Making(u) \/ Removed(u) => th[u].kid \in ibits' BY <2>0 DEF HeldOK, MakeOK
  <2>3. Making(u) => ~entry'[th[u].kid].valid /\ th'[t].cur # th[u].kid /\ th'[t].kid # th[u].kid
    BY <1>s, <1>3, <1>m, <2>0 DEF MakeOK
  <2>4. Making(u) \/ Removing(u) => \A fd \in Opened' : files'[fd] # th[u].kid BY Private DEF Unopened
  <2>5. Removing(u) => dirent'[th[u].kid] = dirent[th[u].kid] BY <1>3, <1>e, KidAlone
  <2>6. (Making(u) /\ pc[u] # "write_new") \/ Removed(u) =>
            \A d \in Inodes, n \in Names : dirent'[d][n] # dirent[d][n] => dirent'[d][n] # th[u].kid
    BY <1>3, <1>e, <1>m DEF Removing
  <2> QED BY <1>2, <1>3, <2>d, <2>1, <2>2, <2>3, <2>4, <2>5, <2>6, OthersThere
<1>4. MakeOK(t)'
  <2>1. Child(t)' = th[t].kid BY <1>e, <1>s DEF Child
  <2>2. \A u \in Threads : u # t => th'[u] = th[u] /\ (Making(u)' <=> Making(u)) /\ (Removing(u)' <=> Removing(u)) /\ (Opening(u)' <=> Opening(u))
    BY DEF Steps, Making, Removing, Removed, Opening
  <2>3. ASSUME NEW u \in Threads
        PROVE  /\ u # t /\ Making(u)' => th'[u].kid # th[t].kid
               /\ th'[u].cur # th[t].kid
               /\ Removing(u)' => th'[u].kid # th[t].kid
               /\ Opening(u)' => th'[u].index # th[t].kid
    <3>1. CASE u = t BY <3>1, <1>s, <1>m, <1>2
    <3>2. CASE u # t BY <3>2, <1>m, <2>2 DEF Unopened
    <3> QED BY <3>1, <3>2
  <2> QED BY <1>m, <1>s, <2>1, <2>3 DEF MakeOK, Unopened
<1>5. HeldOK(t)'
  <2>1. IsDir(th[t].cur)' BY <1>m, <1>s DEF IsDir
  <2> QED BY <1>m, <1>s, <1>2, <2>1 DEF HeldOK
<1>6. OpenInv' /\ CopyInv' /\ CacheCoherent'
  <2>1. \A j \in Inodes : inode'[j] # inode[j] \/ (j \in ibits /\ j \notin ibits') => ~entry[j].valid
    OBVIOUS
  <2>2. \A j \in ibits : ~Unopened(j) => j \in ibits' /\ (inode'[j].mode = "dir" <=> IsDir(j))
    BY DEF IsDir
  <2>3. \A u \in Threads : Writing(u) => inode'[files[th[u].fd]].mode = inode[files[th[u].fd]].mode
    OBVIOUS
  <2> QED BY <1>2, <2>1, <2>2, <2>3, DiskRest
<1> QED BY <1>1, <1>3, <1>4, <1>5, <1>6 DEF Data, ThereInv

\* Dir_add: the tree, what the calls hold of it, and the copies stay sound.
LEMMA DirAddData ==
  ASSUME SafeInv, NEW t \in Threads, DirAdd(t)
  PROVE  Data'
<1>0. TypeOK /\ KindOK(t) /\ IndexOK(t) /\ pc[t] = "dir_add" /\ Making(t) BY Own DEF DirAdd, Making
<1>l. Fades /\ Opened' = Opened /\ Steps(t) /\ files' = files /\ entry' = entry /\ ibits' = ibits /\ inode' = inode /\ th' = th
  BY <1>0, DirAddLocks, DirAddEffect DEF DirAdd, table, bits
<1>s. Stays(t) BY <1>l DEF Stays
<1>1. CASE dirent' = [dirent EXCEPT ![th[t].cur][Name(t)] = th[t].kid] /\ Goto(t, "write_new")
  <2>1. pc'[t] = "write_new" BY <1>0, <1>1 DEF Goto, TypeOK
  <2> QED BY <1>0, <1>l, <1>s, <1>1, <2>1, AddedData
<1>2. CASE dirent' = dirent /\ Goto(t, "take")
  <2>1. pc'[t] = "take" BY <1>0, <1>2 DEF Goto, TypeOK
  <2>2. /\ ~Removing(t)' /\ ~Removed(t)' /\ ~Named(t)' /\ ~Emptying(t)' /\ ~Writing(t)' /\ ~Opening(t)'
    BY <1>0, <1>l, <2>1 DEF Removing, Removed, Emptying, Named, Writing, Opening, KindOK
  <2>3. Moves(t) BY <1>0, <1>l, <1>s, <2>1, <2>2 DEF Moves
  <2>4. Keeps(t) /\ Copies(t) /\ SameDisk BY <1>l, <1>2, <2>2 DEF Keeps, Copies, SameDisk
  <2> QED BY <1>l, <2>3, <2>4, SameData
<1> QED BY <1>1, <1>2 DEF DirAdd

\* Alloc_all takes one more block: the tree, what the calls hold of it, and the copies
\* stay sound.
LEMMA TakeData ==
  ASSUME SafeInv, NEW t \in Threads, Take(t)
  PROVE  Data'
<1>0. TypeOK /\ KindOK(t) /\ IndexOK(t) /\ pc[t] = "take" /\ th[t].ino \in InodeType /\ th[t].got \in Seq(Blocks)
      /\ (Making(t) <=> th[t].kind \notin Writes) /\ (Writing(t) <=> th[t].kind \in Writes)
  BY Own DEF Take, Making, Writing
<1>l. Fades /\ Opened' = Opened /\ Steps(t) /\ files' = files /\ entry' = entry /\ ibits' = ibits /\ inode' = inode
  BY <1>0, TakeLocks, TakeEffect DEF Take, table, bits
<1>a. CASE dirent' = dirent /\ Stays(t) /\ th'[t].ino.mode = th[t].ino.mode
           /\ pc'[t] \in {"take", "give_back"} \cup (IF th[t].kind \in Writes THEN {"store"} ELSE {})
  <2>1. th'[t].kind = th[t].kind /\ th'[t].fd = th[t].fd BY <1>a DEF Stays
  <2>2. /\ ~Removing(t)' /\ ~Removed(t)' /\ ~Named(t)' /\ ~Emptying(t)' /\ (Writing(t)' => Writing(t)) /\ ~Opening(t)'
        /\ Making(t)' => Making(t)
    BY <1>0, <1>a, <2>1 DEF Removing, Removed, Emptying, Named, Writing, Opening, Making
  <2>3. Moves(t) BY <1>0, <1>a, <2>2 DEF Moves, Stays
  <2>4. Keeps(t) /\ Copies(t) /\ SameDisk BY <1>l, <1>a, <2>1, <2>2 DEF Keeps, Copies, SameDisk
  <2> QED BY <1>l, <2>3, <2>4, SameData
<1>1. CASE pc'[t] = "give_back" /\ th' = th /\ dirent' = dirent BY <1>a, <1>1 DEF Stays
<1>2. CASE /\ pc' = pc /\ dirent' = dirent
           /\ Becomes(th[t], th'[t], th[t].depth, th[t].cur, th[t].kid, th[t].held, th[t].index,
                      th[t].ino,
                          Append(th[t].got, Min(Blocks \ bbits)), th[t].over)
  <2>1. Stays(t) /\ th'[t].ino = th[t].ino BY <1>2 DEF Stays, Becomes
  <2> QED BY <1>0, <1>a, <1>2, <2>1
<1>3. CASE /\ ~NoBlock(t) /\ Min(Blocks \ bbits) \in Blocks \ bbits
           /\ dirent' = Added(t)
           /\ pc'[t] \in Onward(t)
           /\ Bumped(t, <<>>, With(th[t].ino, Index(t), Append(th[t].got, Min(Blocks \ bbits))))
  <2>1. Stays(t) /\ th'[t].ino = With(th[t].ino, Index(t), Append(th[t].got, Min(Blocks \ bbits)))
    BY <1>3 DEF Stays, Bumped, Becomes
  <2>2. th'[t].ino.mode = th[t].ino.mode
    <3>1. Index(t) \in Indexes BY <1>0, <1>3, IndexType DEF NoBlock, Indexes
    <3>2. Append(th[t].got, Min(Blocks \ bbits)) \in Seq(Blocks) /\ Append(th[t].got, Min(Blocks \ bbits)) # <<>>
      BY <1>0, <1>3, AppendIn
    <3> DEFINE g == Append(th[t].got, Min(Blocks \ bbits))
    <3>3. g \in Seq(Blocks) /\ g # <<>> BY <3>2
    <3> HIDE DEF g
    <3>4. With(th[t].ino, Index(t), g).mode = th[t].ino.mode BY <1>0, <3>1, <3>3, ModeKept
    <3>5. th'[t].ino = With(th[t].ino, Index(t), g) BY <2>1 DEF g
    <3> QED BY <3>4, <3>5
  <2>3. CASE th[t].kind \in Writes
    <3>1. dirent' = dirent /\ pc'[t] \in {"take", "store"} BY <1>3, <2>3 DEF Added, Onward
    <3> QED BY <1>a, <2>1, <2>2, <2>3, <3>1
  <2>4. CASE th[t].kind \notin Writes
    <3>1. dirent' = [dirent EXCEPT ![th[t].cur][Name(t)] = th[t].kid] /\ pc'[t] = "write_new"
      BY <1>3, <2>4 DEF Added, Onward
    <3> QED BY <1>0, <1>l, <2>1, <2>4, <3>1, AddedData
  <2> QED BY <2>3, <2>4
<1> QED BY <1>0, <1>1, <1>2, <1>3, TakeEffect

\* The block is there already: the tree, what the calls hold of it, and the copies
\* stay sound.
LEMMA OverwriteData ==
  ASSUME SafeInv, NEW t \in Threads, Overwrite(t)
  PROVE  Data'
<1>0. TypeOK /\ KindOK(t) /\ IndexOK(t) /\ pc[t] = "take" /\ th[t].ino \in InodeType
      /\ (Making(t) <=> th[t].kind \notin Writes) /\ (Writing(t) <=> th[t].kind \in Writes)
  BY Own DEF Overwrite, Making, Writing
<1>l. Fades /\ Opened' = Opened /\ Steps(t) /\ files' = files /\ entry' = entry /\ ibits' = ibits /\ inode' = inode
  BY <1>0, OverwriteLocks, OverwriteEffect DEF Overwrite, table, bits
<1>1. Stays(t) /\ th'[t].ino = Sizing(th[t].ino, Index(t))
  BY <1>0, OverwriteEffect DEF Stays, Bumped, Becomes
<1>2. th'[t].ino.mode = th[t].ino.mode BY <1>0, <1>1, IndexType, ModeKept
<1>e. dirent' = Added(t) /\ pc'[t] \in Onward(t) BY <1>0, OverwriteEffect
<1>3. CASE th[t].kind \in Writes
  <2>0. dirent' = dirent /\ pc'[t] \in {"take", "store"} BY <1>3, <1>e DEF Added, Onward
  <2>1. th'[t].kind = th[t].kind /\ th'[t].fd = th[t].fd BY <1>1 DEF Stays
  <2>2. /\ ~Removing(t)' /\ ~Removed(t)' /\ ~Named(t)' /\ ~Emptying(t)' /\ (Writing(t)' => Writing(t)) /\ ~Opening(t)'
        /\ ~Making(t)'
    BY <1>0, <1>3, <2>0, <2>1 DEF Removing, Removed, Emptying, Named, Writing, Opening, Making
  <2>3. Moves(t) BY <1>0, <1>1, <2>0, <2>2 DEF Moves, Stays
  <2>4. Keeps(t) /\ Copies(t) /\ SameDisk BY <1>l, <1>2, <2>0, <2>1, <2>2 DEF Keeps, Copies, SameDisk
  <2> QED BY <1>l, <2>3, <2>4, SameData
<1>4. CASE th[t].kind \notin Writes
  <2>1. dirent' = [dirent EXCEPT ![th[t].cur][Name(t)] = th[t].kid] /\ pc'[t] = "write_new"
    BY <1>e, <1>4 DEF Added, Onward
  <2> QED BY <1>0, <1>l, <1>1, <1>4, <2>1, AddedData
<1> QED BY <1>3, <1>4

\* What a thread removes, it has locked, in a directory it has locked.
LEMMA RemovalIs ==
  ASSUME SafeInv, NEW t \in Threads, Removing(t)
  PROVE  /\ th[t].cur \in ibits /\ th[t].cur \in Inodes /\ th[t].cur # 0 /\ IsDir(th[t].cur) /\ Name(t) \in Names
         /\ th[t].kid \in Inodes /\ th[t].kid # 0 /\ th[t].kid # th[t].cur /\ th[t].held
         /\ \A u \in Threads : u # t => th[u].cur # th[t].cur
         /\ \A u \in Threads : th[u].cur # th[t].kid
<1>1. HeldOK(t) BY DEF SafeInv, ThereInv
<1>2. /\ th[t].cur \in Inodes /\ th[t].cur # 0 /\ Name(t) \in Names
      /\ \A u \in Threads : u # t => th[u].cur # th[t].cur
  BY InDir
<1>3. th[t].kid \in Inodes /\ th[t].kid # 0 /\ th[t].kid # th[t].cur /\ th[t].held
      /\ \A u \in Threads : u # t => th[u].cur # th[t].kid
  BY KidAlone
<1> QED BY <1>1, <1>2, <1>3 DEF HeldOK, Removing, Named

\* Dir_remove: the tree, what the calls hold of it, and the copies stay sound.
LEMMA DirRemoveData ==
  ASSUME SafeInv, NEW t \in Threads, DirRemove(t)
  PROVE  Data'
<1>0. TypeOK /\ KindOK(t) /\ pc[t] = "dir_remove" /\ Removing(t) /\ Named(t) /\ NameInv
  BY Own DEF DirRemove, SafeInv, Removing, Named
<1>m. /\ th[t].cur \in ibits /\ th[t].cur \in Inodes /\ th[t].cur # 0 /\ IsDir(th[t].cur) /\ Name(t) \in Names
      /\ th[t].kid \in Inodes /\ th[t].kid # 0 /\ th[t].kid # th[t].cur /\ th[t].held
      /\ \A u \in Threads : u # t => th[u].cur # th[t].cur
  BY <1>0, RemovalIs
<1>n. /\ th[t].kid \in ibits \ {Root} /\ Unopened(th[t].kid)
      /\ \A n \in Names : dirent[th[t].kid][n] = 0
      /\ \A u \in Threads : Making(u) => th[u].kid # th[t].kid
      /\ dirent[th[t].cur][Name(t)] = th[t].kid
  BY <1>0, RemovingIs, NamedKid DEF Child
<1>t. \A u \in Threads : MakeOK(u) /\ HeldOK(u) BY DEF SafeInv, ThereInv
<1>l. Fades /\ Opened' = Opened /\ Steps(t) /\ files' = files /\ entry' = entry /\ ibits' = ibits /\ inode' = inode
  BY <1>0, DirRemoveLocks, DirRemoveEffect DEF DirRemove, table, bits
<1>f. pc'[t] = "free_blocks" /\ th' = th /\ dirent' = [dirent EXCEPT ![th[t].cur][Name(t)] = 0]
  BY <1>0, DirRemoveEffect DEF DirRemove
<1>e. /\ dirent'[th[t].cur][Name(t)] = 0
      /\ \A d \in Inodes, n \in Names : d # th[t].cur \/ n # Name(t) => dirent'[d][n] = dirent[d][n]
      /\ \A d \in Inodes : d # th[t].cur => dirent'[d] = dirent[d]
  BY <1>0, <1>f, <1>m, EntrySet
<1>1. NameInv'
  <2>1. ASSUME NEW d \in Inodes, NEW n \in Names, dirent'[d][n] # 0
        PROVE  inode'[d].mode = "dir" /\ dirent'[d][n] \in ibits' \ {Root, d}
    BY <1>0, <1>e, <1>l, <2>1 DEF NameInv
  <2>2. ASSUME NEW d \in Inodes, NEW g \in Inodes, NEW n \in Names, NEW m \in Names,
               dirent'[d][n] # 0 /\ dirent'[d][n] = dirent'[g][m]
        PROVE  d = g /\ n = m
    <3>1. dirent'[d][n] = dirent[d][n] /\ dirent'[g][m] = dirent[g][m] BY <1>e, <2>2
    <3>2. dirent[d][n] # 0 /\ dirent[d][n] = dirent[g][m] BY <2>2, <3>1
    <3> QED BY <1>0, <3>2 DEF NameInv
  <2> QED BY <1>0, <1>l, <2>1, <2>2 DEF NameInv
<1>2. ~Making(t)' /\ Removing(t)' /\ ~Emptying(t)' /\ ~Writing(t)' /\ ~Opening(t)' /\ ~Named(t)' /\ Removed(t)'
  BY <1>0, <1>f DEF Making, Removing, Removed, Emptying, Writing, Opening, Named, KindOK
<1>3. ASSUME NEW u \in Threads, u # t PROVE MakeOK(u)' /\ HeldOK(u)'
  <2>0. MakeOK(u) /\ HeldOK(u) /\ th'[u] = th[u] /\ (th[u].cur # 0 => th[u].cur \in Inodes)
    BY <1>t, <1>l, <1>3, Own DEF Steps
  <2>d. (IsDir(th[u].cur)' <=> IsDir(th[u].cur)) /\ (IsDir(th[u].kid)' <=> IsDir(th[u].kid))
    BY <2>0, <1>l DEF IsDir
  <2>1. th[u].cur # 0 => th[u].cur \in ibits' /\ dirent'[th[u].cur] = dirent[th[u].cur]
    BY <1>3, <1>l, <1>m, <1>e, <2>0 DEF HeldOK
  <2>2. Making(u) \/ Removed(u) => th[u].kid \in ibits' BY <2>0, <1>l DEF HeldOK, MakeOK
  <2>3. Making(u) => ~entry'[th[u].kid].valid /\ th'[t].cur # th[u].kid /\ th'[t].kid # th[u].kid
    BY <1>f, <1>l, <1>3, <1>n, <2>0 DEF MakeOK
  <2>4. Making(u) \/ Removing(u) => \A fd \in Opened' : files'[fd] # th[u].kid
    BY Private, <1>l DEF Unopened
  <2>5. Removing(u) => dirent'[th[u].kid] = dirent[th[u].kid] BY <1>3, <1>e, KidAlone
  <2>6. (Making(u) /\ pc[u] # "write_new") \/ Removed(u) =>
            \A d \in Inodes, n \in Names : dirent'[d][n] # dirent[d][n] => dirent'[d][n] # th[u].kid
    <3>1. (Making(u) /\ pc[u] # "write_new") \/ Removed(u) => th[u].kid # 0
      BY MakingIs, KidAlone DEF Removing, Inodes
    <3> QED BY <1>e, <3>1
  <2> QED BY <1>l, <1>2, <1>3, <2>d, <2>1, <2>2, <2>3, <2>4, <2>5, <2>6, OthersThere
<1>4. MakeOK(t)' BY <1>2, <1>f DEF MakeOK
<1>5. HeldOK(t)'
  <2>1. IsDir(th[t].cur)' BY <1>m, <1>f, <1>l DEF IsDir
  <2>2. ASSUME NEW d \in Inodes, NEW n \in Names PROVE dirent'[d][n] # th[t].kid
    BY <1>0, <1>e, <1>n, <1>m DEF NameInv
  <2>3. Unnamed(th[t].kid)' BY <1>f, <2>2 DEF Unnamed
  <2>4. \A n \in Names : dirent'[th[t].kid][n] = 0 BY <1>e, <1>m, <1>n
  <2>5. \A u \in Threads : Opening(u)' => th'[u].index # th[t].kid
    <3>1. \A u \in Threads : u # t => (Opening(u)' <=> Opening(u)) BY <1>l DEF Steps, Opening
    <3> QED BY <1>2, <1>f, <1>n, <3>1 DEF Unopened
  <2>6. \A fd \in Opened' : files'[fd] # th[t].kid BY <1>l, <1>n DEF Unopened
  <2> QED BY <1>m, <1>n, <1>f, <1>l, <1>2, <2>1, <2>3, <2>4, <2>5, <2>6 DEF HeldOK
<1>6. OpenInv' /\ CopyInv' /\ CacheCoherent'
  <2>1. \A j \in Inodes : inode'[j] # inode[j] \/ (j \in ibits /\ j \notin ibits') => ~entry[j].valid
    BY <1>l
  <2>2. \A j \in ibits : ~Unopened(j) => j \in ibits' /\ (inode'[j].mode = "dir" <=> IsDir(j))
    BY <1>l DEF IsDir
  <2>3. \A u \in Threads : Writing(u) => inode'[files[th[u].fd]].mode = inode[files[th[u].fd]].mode
    BY <1>l
  <2> QED BY <1>0, <1>f, <1>l, <1>2, <2>1, <2>2, <2>3, DiskRest
<1> QED BY <1>1, <1>3, <1>4, <1>5, <1>6 DEF Data, ThereInv

\* The removed inode is cleared: the tree, what the calls hold of it, and the copies
\* stay sound.
LEMMA ClearInodeData ==
  ASSUME SafeInv, NEW t \in Threads, ClearInode(t)
  PROVE  Data'
<1>0. TypeOK /\ KindOK(t) /\ pc[t] = "clear_inode" /\ Removing(t) /\ Removed(t) /\ NameInv
  BY Own DEF ClearInode, SafeInv, Removing, Removed
<1>m. /\ th[t].cur \in ibits /\ th[t].cur \in Inodes /\ th[t].cur # 0 /\ IsDir(th[t].cur) /\ Name(t) \in Names
      /\ th[t].kid \in Inodes /\ th[t].kid # 0 /\ th[t].kid # th[t].cur /\ th[t].held
      /\ \A u \in Threads : th[u].cur # th[t].kid
  BY <1>0, RemovalIs
<1>n. /\ th[t].kid \in ibits \ {Root} /\ Unopened(th[t].kid) /\ ~entry[th[t].kid].valid
      /\ \A n \in Names : dirent[th[t].kid][n] = 0
      /\ \A u \in Threads : u # t /\ (Removing(u) \/ Emptying(u)) => th[u].kid # th[t].kid
      /\ \A u \in Threads : Making(u) => th[u].kid # th[t].kid
  BY <1>0, RemovingIs
<1>t. \A u \in Threads : MakeOK(u) /\ HeldOK(u) BY DEF SafeInv, ThereInv
<1>u. Unnamed(th[t].kid) BY <1>0, <1>t DEF HeldOK
<1>l. Fades /\ Opened' = Opened /\ Steps(t) /\ files' = files /\ entry' = entry /\ ibits' = ibits /\ dirent' = dirent
  BY <1>0, ClearInodeLocks, ClearInodeEffect DEF ClearInode, table, bits
<1>f. pc'[t] = "free_inode" /\ th' = th /\ inode' = [inode EXCEPT ![th[t].kid] = NoInode]
  BY <1>0, ClearInodeEffect DEF ClearInode
<1>e. inode'[th[t].kid] = NoInode /\ \A i \in Inodes : i # th[t].kid => inode'[i] = inode[i]
  BY <1>0, <1>f, <1>m DEF TypeOK
<1>1. NameInv'
  <2>1. Root \in Inodes BY <1>0 DEF NameInv, TypeOK
  <2> QED BY <1>0, <1>e, <1>l, <1>n, <2>1 DEF NameInv
<1>2. ~Making(t)' /\ Removing(t)' /\ ~Emptying(t)' /\ ~Writing(t)' /\ ~Opening(t)' /\ ~Named(t)' /\ Removed(t)'
  BY <1>0, <1>f DEF Making, Removing, Removed, Emptying, Writing, Opening, Named, KindOK
<1>3. ASSUME NEW u \in Threads, u # t PROVE MakeOK(u)' /\ HeldOK(u)'
  <2>0. MakeOK(u) /\ HeldOK(u) /\ th'[u] = th[u] /\ (th[u].cur # 0 => th[u].cur \in Inodes) /\ (th[u].kid # 0 => th[u].kid \in Inodes)
    BY <1>t, <1>l, <1>3, Own DEF Steps
  <2>1. th[u].cur # 0 => th[u].cur \in ibits' /\ dirent'[th[u].cur] = dirent[th[u].cur] /\ (IsDir(th[u].cur)' <=> IsDir(th[u].cur))
    BY <1>l, <1>m, <1>e, <2>0 DEF HeldOK, IsDir
  <2>2. Making(u) \/ Removed(u) => th[u].kid \in ibits' /\ inode'[th[u].kid] = inode[th[u].kid]
    <3>1. Making(u) \/ Removed(u) => th[u].kid # th[t].kid /\ th[u].kid \in Inodes
      BY <1>3, <1>n, MakingIs, KidAlone DEF Removing
    <3> QED BY <1>l, <1>e, <2>0, <3>1 DEF HeldOK, MakeOK
  <2>3. Making(u) => ~entry'[th[u].kid].valid /\ th'[t].cur # th[u].kid /\ th'[t].kid # th[u].kid
    BY <1>f, <1>l, <1>n, <2>0 DEF MakeOK
  <2>4. Making(u) \/ Removing(u) => \A fd \in Opened' : files'[fd] # th[u].kid
    BY Private, <1>l DEF Unopened
  <2>5. Named(u) \/ (pc[u] = "write_dir" /\ ~th[u].held) => (IsDir(th[u].kid)' <=> IsDir(th[u].kid))
    <3>1. Named(u) => th[u].kid \in Inodes /\ th[u].kid # th[t].kid
      BY <1>u, NamedKid DEF Unnamed, Child
    <3>2. pc[u] = "write_dir" /\ ~th[u].held => th[u].kid # th[t].kid
      <4>1. pc[u] = "write_dir" /\ ~th[u].held => Child(u) = th[u].kid BY <2>0 DEF HeldOK
      <4>2. pc[u] = "write_dir" => th[u].cur \in Inodes /\ Name(u) \in Names BY InDir
      <4> QED BY <1>u, <4>1, <4>2 DEF Unnamed, Child
    <3>3. pc[u] = "write_dir" => th[u].kid \in Inodes
      <4>1. pc[u] = "write_dir" => ~OnFd(u) /\ pc[u] \notin Outside \cup {"walk", "at", "alloc_inode", "exit"}
        BY InDir DEF Outside
      <4>2. KidOK(u) BY Own
      <4> QED BY <2>0, <4>1, <4>2 DEF KidOK
    <3> QED BY <1>e, <2>0, <3>1, <3>2, <3>3 DEF IsDir
  <2> QED BY <1>l, <1>2, <1>3, <2>1, <2>2, <2>3, <2>4, <2>5, OthersThere
<1>4. MakeOK(t)' BY <1>2, <1>f DEF MakeOK
<1>5. HeldOK(t)'
  <2>1. IsDir(th[t].cur)' BY <1>m, <1>f, <1>e DEF IsDir
  <2>3. Unnamed(th[t].kid)' BY <1>f, <1>l, <1>u DEF Unnamed
  <2>5. \A u \in Threads : Opening(u)' => th'[u].index # th[t].kid
    <3>1. \A u \in Threads : u # t => (Opening(u)' <=> Opening(u)) BY <1>l DEF Steps, Opening
    <3> QED BY <1>2, <1>f, <1>n, <3>1 DEF Unopened
  <2>6. \A fd \in Opened' : files'[fd] # th[t].kid BY <1>l, <1>n DEF Unopened
  <2> QED BY <1>m, <1>n, <1>f, <1>e, <1>l, <1>2, <2>1, <2>3, <2>5, <2>6 DEF HeldOK
<1>6. OpenInv' /\ CopyInv' /\ CacheCoherent'
  <2>1. \A j \in Inodes : inode'[j] # inode[j] \/ (j \in ibits /\ j \notin ibits') => ~entry[j].valid
    BY <1>l, <1>e, <1>n
  <2>2. \A j \in ibits : ~Unopened(j) => j \in ibits' /\ (inode'[j].mode = "dir" <=> IsDir(j))
    BY <1>0, <1>l, <1>e, <1>n DEF IsDir, TypeOK
  <2>3. \A u \in Threads : Writing(u) => inode'[files[th[u].fd]].mode = inode[files[th[u].fd]].mode
    BY <1>e, <1>n, WritingOpen, WritingFile
  <2> QED BY <1>0, <1>f, <1>l, <1>2, <2>1, <2>2, <2>3, DiskRest
<1> QED BY <1>1, <1>3, <1>4, <1>5, <1>6 DEF Data, ThereInv

\* Free_inode: the tree, what the calls hold of it, and the copies stay sound.
LEMMA FreeInodeData ==
  ASSUME SafeInv, NEW t \in Threads, FreeInode(t)
  PROVE  Data'
<1>0. TypeOK /\ KindOK(t) /\ pc[t] = "free_inode" /\ Removing(t) /\ Removed(t) /\ NameInv
  BY Own DEF FreeInode, SafeInv, Removing, Removed
<1>m. /\ th[t].cur \in ibits /\ th[t].cur \in Inodes /\ th[t].cur # 0 /\ IsDir(th[t].cur) /\ Name(t) \in Names
      /\ th[t].kid \in Inodes /\ th[t].kid # 0 /\ th[t].kid # th[t].cur /\ th[t].held
      /\ \A u \in Threads : th[u].cur # th[t].kid
  BY <1>0, RemovalIs
<1>n. /\ th[t].kid \in ibits \ {Root} /\ Unopened(th[t].kid) /\ ~entry[th[t].kid].valid
      /\ \A u \in Threads : u # t /\ (Removing(u) \/ Emptying(u)) => th[u].kid # th[t].kid
      /\ \A u \in Threads : Making(u) => th[u].kid # th[t].kid
  BY <1>0, RemovingIs
<1>t. \A u \in Threads : MakeOK(u) /\ HeldOK(u) BY DEF SafeInv, ThereInv
<1>u. Unnamed(th[t].kid) /\ inode[th[t].kid] = NoInode BY <1>0, <1>t DEF HeldOK
<1>l. Fades /\ Opened' = Opened /\ Steps(t) /\ files' = files /\ entry' = entry /\ inode' = inode /\ dirent' = dirent
  BY <1>0, FreeInodeLocks, FreeInodeEffect DEF FreeInode, table, tree
<1>f. pc'[t] = "write_dir" /\ th' = th /\ ibits' = ibits \ {th[t].kid}
  BY <1>0, FreeInodeEffect DEF FreeInode
<1>1. NameInv' BY <1>0, <1>l, <1>f, <1>n, <1>u DEF NameInv, Unnamed
<1>2. ~Making(t)' /\ ~Removing(t)' /\ ~Emptying(t)' /\ ~Writing(t)' /\ ~Opening(t)' /\ ~Named(t)' /\ ~Removed(t)'
  BY <1>0, <1>f DEF Making, Removing, Removed, Emptying, Writing, Opening, Named, KindOK
<1>3. ASSUME NEW u \in Threads, u # t PROVE MakeOK(u)' /\ HeldOK(u)'
  <2>0. MakeOK(u) /\ HeldOK(u) /\ th'[u] = th[u] BY <1>t, <1>l, <1>3 DEF Steps
  <2>d. (IsDir(th[u].cur)' <=> IsDir(th[u].cur)) /\ (IsDir(th[u].kid)' <=> IsDir(th[u].kid))
    BY <1>l, <2>0 DEF IsDir
  <2>1. th[u].cur # 0 => th[u].cur \in ibits' BY <1>f, <1>m, <2>0 DEF HeldOK
  <2>2. Making(u) \/ Removed(u) => th[u].kid \in ibits'
    BY <1>3, <1>f, <1>n, <2>0 DEF HeldOK, MakeOK, Removing
  <2>3. Making(u) => ~entry'[th[u].kid].valid /\ th'[t].cur # th[u].kid BY <1>l, <1>f, <2>0 DEF MakeOK
  <2>4. Making(u) \/ Removing(u) => \A fd \in Opened' : files'[fd] # th[u].kid
    BY <1>l, Private DEF Unopened
  <2> QED BY <1>l, <1>2, <1>3, <2>d, <2>1, <2>2, <2>3, <2>4, OthersThere
<1>4. MakeOK(t)' BY <1>2, <1>f DEF MakeOK
<1>5. HeldOK(t)'
  <2>1. IsDir(th[t].cur)' BY <1>m, <1>f, <1>l DEF IsDir
  <2> QED BY <1>m, <1>f, <1>2, <2>1 DEF HeldOK
<1>6. OpenInv' /\ CopyInv' /\ CacheCoherent'
  <2>1. \A j \in Inodes : inode'[j] # inode[j] \/ (j \in ibits /\ j \notin ibits') => ~entry[j].valid
    BY <1>l, <1>f, <1>n
  <2>2. \A j \in ibits : ~Unopened(j) => j \in ibits' /\ (inode'[j].mode = "dir" <=> IsDir(j))
    BY <1>l, <1>f, <1>n DEF IsDir
  <2>3. \A u \in Threads : Writing(u) => inode'[files[th[u].fd]].mode = inode[files[th[u].fd]].mode
    BY <1>l
  <2> QED BY <1>l, <1>2, <2>1, <2>2, <2>3, DiskRest
<1> QED BY <1>1, <1>3, <1>4, <1>5, <1>6 DEF Data, ThereInv

\* What t wrote the entry of and is about to count, nobody else is making or removing.
LEMMA MadeKid ==
  ASSUME SafeInv, NEW t \in Threads, pc[t] = "write_dir", ~th[t].held
  PROVE  /\ th[t].cur \in Inodes /\ th[t].kid \in Inodes /\ Name(t) \in Names /\ Child(t) = th[t].kid
         /\ th[t].kid \in ibits \ {Root} /\ Others(t, th[t].kid)
         /\ IsDir(th[t].kid) <=> th[t].kind = "mkdir"
         /\ th[t].kind \in Creates \cup {"mkdir"}
<1>0. KindOK(t) /\ KidOK(t) /\ HeldOK(t) /\ (th[t].kid # 0 => th[t].kid \in Inodes)
  BY Own DEF SafeInv, ThereInv
<1>1. th[t].cur \in Inodes /\ Name(t) \in Names /\ ~OnFd(t) BY InDir
<1>2. th[t].kid # 0 /\ th[t].kid \in Inodes BY <1>0, <1>1 DEF KidOK, Outside
<1>3. Child(t) = th[t].kid /\ (IsDir(th[t].kid) <=> th[t].kind = "mkdir") BY <1>0 DEF HeldOK
<1>4. dirent[th[t].cur][Name(t)] = th[t].kid BY <1>3 DEF Child
<1>5. th[t].kind \in Creates \cup {"mkdir"} BY <1>0 DEF KidOK, KindOK
<1> QED BY <1>1, <1>2, <1>3, <1>4, <1>5, Named1, NotMade

\* The new inode is written: the tree, what the calls hold of it, and the copies stay
\* sound.
LEMMA WriteNewData ==
  ASSUME SafeInv, NEW t \in Threads, WriteNew(t)
  PROVE  Data'
<1>0. TypeOK /\ KindOK(t) /\ KidOK(t) /\ pc[t] = "write_new" /\ Making(t) /\ NameInv
  BY Own DEF WriteNew, SafeInv, Making
<1>m. /\ th[t].kid \in ibits \ {Root} /\ th[t].kid \in Inodes
      /\ Unopened(th[t].kid) /\ ~entry[th[t].kid].valid
      /\ \A n \in Names : dirent[th[t].kid][n] = 0
      /\ \A u \in Threads : u # t /\ (Making(u) \/ Removing(u)) => th[u].kid # th[t].kid
      /\ \A u \in Threads : th[u].cur # th[t].kid
      /\ th[t].cur \in ibits /\ th[t].cur \in Inodes /\ IsDir(th[t].cur) /\ Name(t) \in Names
      /\ Child(t) = th[t].kid
  BY <1>0, MakingIs
<1>t. \A u \in Threads : MakeOK(u) /\ HeldOK(u) BY DEF SafeInv, ThereInv
<1>l. Fades /\ Opened' = Opened /\ Steps(t) /\ files' = files /\ entry' = entry /\ ibits' = ibits
  BY <1>0, WriteNewLocks, WriteNewEffect DEF WriteNew, table, bits
<1>f. pc'[t] = "write_dir" /\ th' = th BY <1>0, WriteNewEffect DEF WriteNew
<1>e. /\ inode'[th[t].kid].mode = "dir" <=> th[t].kind = "mkdir"
      /\ \A i \in Inodes : i # th[t].kid => inode'[i] = inode[i]
      /\ \A d \in Inodes : d # th[t].kid => dirent'[d] = dirent[d]
      /\ \A n \in Names : dirent'[th[t].kid][n] = 0
  <2>1. CASE th[t].kind = "mkdir"
    <3>1. /\ inode' = [inode EXCEPT ![th[t].kid] = NewDir(th[t].index)]
          /\ dirent' = [dirent EXCEPT ![th[t].kid] = Empty] BY <2>1 DEF WriteNew
    <3>2. /\ inode'[th[t].kid] = NewDir(th[t].index) /\ \A i \in Inodes : i # th[t].kid => inode'[i] = inode[i]
          /\ dirent'[th[t].kid] = Empty /\ \A d \in Inodes : d # th[t].kid => dirent'[d] = dirent[d]
      BY <1>0, <1>m, <3>1 DEF TypeOK
    <3>3. NewDir(th[t].index).mode = "dir" BY DEF NewDir, NoInode
    <3> QED BY <2>1, <3>2, <3>3 DEF Empty
  <2>2. CASE th[t].kind # "mkdir"
    <3>1. inode' = [inode EXCEPT ![th[t].kid] = NewFile] /\ dirent' = dirent BY <2>2 DEF WriteNew
    <3>2. inode'[th[t].kid] = NewFile /\ \A i \in Inodes : i # th[t].kid => inode'[i] = inode[i]
      BY <1>0, <1>m, <3>1 DEF TypeOK
    <3>3. NewFile.mode = "file" BY DEF NewFile, NoInode
    <3> QED BY <1>m, <2>2, <3>1, <3>2, <3>3
  <2> QED BY <2>1, <2>2
<1>d. \A d \in Inodes, n \in Names : dirent'[d][n] = dirent[d][n] BY <1>e, <1>m
<1>1. NameInv'
  <2>1. Root \in Inodes BY <1>0 DEF NameInv, TypeOK
  <2>2. ASSUME NEW d \in Inodes, NEW n \in Names, dirent'[d][n] # 0
        PROVE  inode'[d].mode = "dir" /\ dirent'[d][n] \in ibits' \ {Root, d}
    <3>1. dirent[d][n] # 0 /\ dirent'[d][n] = dirent[d][n] /\ d # th[t].kid BY <1>d, <1>m, <2>2
    <3> QED BY <1>0, <1>e, <1>l, <3>1 DEF NameInv
  <2>3. ASSUME NEW d \in Inodes, NEW g \in Inodes, NEW n \in Names, NEW m \in Names,
               dirent'[d][n] # 0 /\ dirent'[d][n] = dirent'[g][m]
        PROVE  d = g /\ n = m
    <3>2. dirent[d][n] # 0 /\ dirent[d][n] = dirent[g][m] BY <1>d, <2>3
    <3> QED BY <1>0, <3>2 DEF NameInv
  <2> QED BY <1>0, <1>e, <1>l, <1>m, <2>1, <2>2, <2>3 DEF NameInv
<1>2. ~Making(t)' /\ ~Removing(t)' /\ ~Emptying(t)' /\ ~Writing(t)' /\ ~Opening(t)' /\ ~Named(t)' /\ ~Removed(t)'
  BY <1>0, <1>f DEF Making, Removing, Removed, Emptying, Writing, Opening, Named, KindOK
<1>3. ASSUME NEW u \in Threads, u # t PROVE MakeOK(u)' /\ HeldOK(u)'
  <2>0. MakeOK(u) /\ HeldOK(u) /\ th'[u] = th[u] /\ (th[u].cur # 0 => th[u].cur \in Inodes)
    BY <1>t, <1>l, <1>3, Own DEF Steps
  <2>1. th[u].cur # 0 => th[u].cur \in ibits' /\ dirent'[th[u].cur] = dirent[th[u].cur] /\ (IsDir(th[u].cur)' <=> IsDir(th[u].cur))
    BY <1>l, <1>m, <1>e, <2>0 DEF HeldOK, IsDir
  <2>2. Making(u) \/ Removed(u) => th[u].kid \in ibits' /\ inode'[th[u].kid] = inode[th[u].kid]
    <3>1. Making(u) \/ Removed(u) => th[u].kid # th[t].kid /\ th[u].kid \in Inodes
      BY <1>3, <1>m, MakingIs, KidAlone DEF Removing
    <3> QED BY <1>l, <1>e, <2>0, <3>1 DEF HeldOK, MakeOK
  <2>3. Making(u) => ~entry'[th[u].kid].valid /\ th'[t].cur # th[u].kid BY <1>f, <1>l, <2>0 DEF MakeOK
  <2>4. Making(u) \/ Removing(u) => \A fd \in Opened' : files'[fd] # th[u].kid
    BY Private, <1>l DEF Unopened
  <2>5. Named(u) \/ (pc[u] = "write_dir" /\ ~th[u].held) => (IsDir(th[u].kid)' <=> IsDir(th[u].kid))
    <3>1. Named(u) \/ (pc[u] = "write_dir" /\ ~th[u].held) => th[u].kid \in Inodes /\ th[u].kid # th[t].kid
      BY <1>0, <1>3, NamedKid, MadeKid DEF Others
    <3> QED BY <1>e, <2>0, <3>1 DEF IsDir
  <2>6. Removing(u) => dirent'[th[u].kid] = dirent[th[u].kid] BY <1>3, <1>e, <1>m, KidAlone
  <2> QED BY <1>l, <1>d, <1>2, <1>3, <2>1, <2>2, <2>3, <2>4, <2>5, <2>6, OthersThere
<1>4. MakeOK(t)' BY <1>2, <1>f DEF MakeOK
<1>5. HeldOK(t)'
  <2>1. IsDir(th[t].cur)' BY <1>m, <1>f, <1>e DEF IsDir
  <2>2. Child(t)' = th[t].kid BY <1>d, <1>f, <1>m DEF Child, Name
  <2>3. IsDir(th[t].kid)' <=> th[t].kind = "mkdir" BY <1>e, <1>f DEF IsDir
  <2> QED BY <1>m, <1>f, <1>l, <1>2, <2>1, <2>2, <2>3 DEF HeldOK
<1>6. OpenInv' /\ CopyInv' /\ CacheCoherent'
  <2>1. \A j \in Inodes : inode'[j] # inode[j] \/ (j \in ibits /\ j \notin ibits') => ~entry[j].valid
    BY <1>l, <1>e, <1>m
  <2>2. \A j \in ibits : ~Unopened(j) => j \in ibits' /\ (inode'[j].mode = "dir" <=> IsDir(j))
    BY <1>0, <1>l, <1>e, <1>m DEF IsDir, TypeOK
  <2>3. \A u \in Threads : Writing(u) => inode'[files[th[u].fd]].mode = inode[files[th[u].fd]].mode
    BY <1>e, <1>m, WritingOpen, WritingFile
  <2> QED BY <1>f, <1>l, <1>2, <2>1, <2>2, <2>3, DiskRest
<1> QED BY <1>1, <1>3, <1>4, <1>5, <1>6 DEF Data, ThereInv

\* The emptied inode is written: the tree, what the calls hold of it, and the copies
\* stay sound.
LEMMA WriteFileData ==
  ASSUME SafeInv, NEW t \in Threads, WriteFile(t)
  PROVE  Data'
<1>0. TypeOK /\ KindOK(t) /\ pc[t] = "write_file" /\ Emptying(t) /\ Named(t) /\ NameInv /\ CopyInv
  BY Own DEF WriteFile, SafeInv, Emptying, Named, KindOK
<1>m. /\ th[t].cur \in Inodes /\ th[t].kid \in Inodes /\ Name(t) \in Names /\ th[t].kid \in ibits \ {Root}
      /\ Child(t) = th[t].kid /\ ~IsDir(th[t].kid) /\ IsDir(th[t].cur)
      /\ Others(t, th[t].kid) /\ th[t].kind \in Truncates /\ th[t].cur # 0
  BY <1>0, NamedKid DEF KindOK, Inodes
<1>k. HasX(t, th[t].kid) /\ ~entry[th[t].kid].valid /\ th[t].kid # th[t].cur
  BY <1>0, KidAlone DEF CopyInv
<1>t. \A u \in Threads : MakeOK(u) /\ HeldOK(u) BY DEF SafeInv, ThereInv
<1>l. Fades /\ Opened' = Opened /\ Steps(t) /\ files' = files /\ entry' = entry /\ ibits' = ibits /\ dirent' = dirent
  BY <1>0, WriteFileLocks, WriteFileEffect DEF WriteFile, table, bits
<1>f. pc'[t] = "register" /\ th' = th BY <1>0, WriteFileEffect DEF WriteFile
<1>e. /\ inode'[th[t].kid].mode = "file"
      /\ \A i \in Inodes : i # th[t].kid => inode'[i] = inode[i]
  <2>1. inode'[th[t].kid] = NewFile /\ \A i \in Inodes : i # th[t].kid => inode'[i] = inode[i]
    BY <1>0, <1>m DEF WriteFile, TypeOK
  <2>2. NewFile.mode = "file" BY DEF NewFile, NoInode
  <2> QED BY <2>1, <2>2
<1>i. \A i \in Inodes : inode'[i].mode = "dir" <=> IsDir(i) BY <1>e, <1>m DEF IsDir
<1>1. NameInv'
  <2>1. Root \in Inodes BY <1>0 DEF NameInv, TypeOK
  <2> QED BY <1>0, <1>e, <1>i, <1>l, <1>m, <2>1 DEF NameInv, IsDir
<1>2. ~Making(t)' /\ ~Removing(t)' /\ ~Emptying(t)' /\ ~Writing(t)' /\ ~Opening(t)' /\ ~Removed(t)' /\ pc'[t] # "write_dir"
  BY <1>0, <1>f DEF Making, Removing, Removed, Emptying, Writing, Opening
<1>3. ASSUME NEW u \in Threads, u # t PROVE MakeOK(u)' /\ HeldOK(u)'
  <2>0. MakeOK(u) /\ HeldOK(u) /\ th'[u] = th[u] /\ (th[u].cur # 0 => th[u].cur \in Inodes)
    BY <1>t, <1>l, <1>3, Own DEF Steps
  <2>1. th[u].cur # 0 => th[u].cur \in ibits' /\ dirent'[th[u].cur] = dirent[th[u].cur] /\ (IsDir(th[u].cur)' <=> IsDir(th[u].cur))
    BY <1>l, <1>i, <2>0 DEF HeldOK, IsDir
  <2>2. Making(u) \/ Removed(u) => th[u].kid \in ibits' /\ inode'[th[u].kid] = inode[th[u].kid]
    <3>1. Making(u) => th[u].kid # th[t].kid /\ th[u].kid \in Inodes
      BY <1>3, <1>m, MakingIs DEF Others
    <3>2. Removed(u) => th[u].kid # th[t].kid /\ th[u].kid \in Inodes
      BY <1>3, <1>k, KidAlone, Exclusion DEF Removing
    <3> QED BY <1>l, <1>e, <2>0, <3>1, <3>2 DEF HeldOK, MakeOK
  <2>3. Making(u) => ~entry'[th[u].kid].valid /\ th'[t].cur # th[u].kid BY <1>f, <1>l, <2>0 DEF MakeOK
  <2>4. Making(u) \/ Removing(u) => \A fd \in Opened' : files'[fd] # th[u].kid
    BY Private, <1>l DEF Unopened
  <2>5. Named(u) \/ (pc[u] = "write_dir" /\ ~th[u].held) => (IsDir(th[u].kid)' <=> IsDir(th[u].kid))
    <3>1. Named(u) \/ (pc[u] = "write_dir" /\ ~th[u].held) => th[u].kid \in Inodes
      BY NamedKid, MadeKid
    <3> QED BY <1>i, <2>0, <3>1 DEF IsDir
  <2> QED BY <1>l, <1>2, <1>3, <2>1, <2>2, <2>3, <2>4, <2>5, OthersThere
<1>4. MakeOK(t)' BY <1>2, <1>f DEF MakeOK
<1>5. HeldOK(t)'
  <2>1. IsDir(th[t].cur)' BY <1>m, <1>f, <1>i DEF IsDir
  <2>2. Child(t)' = th[t].kid BY <1>l, <1>f, <1>m DEF Child, Name
  <2>3. ~IsDir(th[t].kid)' /\ th[t].kind # "rmdir" BY <1>e, <1>f, <1>m DEF IsDir
  <2>4. th[t].cur \in ibits' BY <1>l, <1>m, <1>t DEF HeldOK
  <2> QED BY <1>m, <1>f, <1>2, <2>1, <2>2, <2>3, <2>4 DEF HeldOK
<1>6. OpenInv' /\ CopyInv' /\ CacheCoherent'
  <2>1. \A j \in Inodes : inode'[j] # inode[j] \/ (j \in ibits /\ j \notin ibits') => ~entry[j].valid
    BY <1>l, <1>e, <1>k
  <2>2. \A j \in ibits : ~Unopened(j) => j \in ibits' /\ (inode'[j].mode = "dir" <=> IsDir(j))
    BY <1>0, <1>l, <1>i DEF TypeOK
  <2>3. ASSUME NEW u \in Threads, Writing(u)
        PROVE inode'[files[th[u].fd]].mode = inode[files[th[u].fd]].mode
    <3>1. u # t BY <1>0, <2>3 DEF Writing
    <3>2. files[th[u].fd] \in Inodes /\ HasX(u, files[th[u].fd]) BY <2>3, WritingFile, WritingX
    <3>3. files[th[u].fd] # th[t].kid BY <1>k, <1>m, <3>1, <3>2, Exclusion
    <3> QED BY <1>e, <3>2, <3>3
  <2> QED BY <1>f, <1>l, <1>2, <2>1, <2>2, <2>3, DiskRest
<1> QED BY <1>1, <1>3, <1>4, <1>5, <1>6 DEF Data, ThereInv

-----------------------------------------------------------------------------
(* Storing a directory and a file *)

\* A link count stays one.
LEMMA CountType == \A n \in Int : Count(n) \in 0..MaxLinks
  BY DEF Count

\* The directory's inode, as it is written back.
LEMMA WriteDirInode ==
  ASSUME SafeInv, NEW t \in Threads, WriteDir(t)
  PROVE  /\ inode' \in [Inodes -> InodeType] /\ inode'[th[t].cur].mode = "dir" /\ th[t].cur \in Inodes
         /\ \A i \in Inodes : i # th[t].cur => inode'[i] = inode[i]
<1>0. pc[t] = "write_dir" /\ TypeOK /\ InoOK(t) /\ KindOK(t) /\ th[t].ino \in InodeType
  BY Own DEF WriteDir
<1>1. th[t].cur \in Inodes BY <1>0, InDir
<1> DEFINE n == th[t].ino.links + (CASE th[t].kind = "mkdir" -> 1 [] th[t].kind = "rmdir" -> -1 [] OTHER -> 0)
           ino == [th[t].ino EXCEPT !.links = Count(n)]
<1>2. n \in Int
  <2>1. (CASE th[t].kind = "mkdir" -> 1 [] th[t].kind = "rmdir" -> -1 [] OTHER -> 0)
        = IF th[t].kind = "mkdir" THEN 1 ELSE IF th[t].kind = "rmdir" THEN -1 ELSE 0
    OBVIOUS
  <2>2. th[t].ino.links \in Nat BY <1>0 DEF InodeType
  <2> QED BY <2>1, <2>2
<1>3. inode' = [inode EXCEPT ![th[t].cur] = ino] BY DEF WriteDir
<1>4. Count(n) \in 0..MaxLinks BY <1>2, CountType
<1> HIDE DEF n
<1>5. ino \in InodeType /\ ino.mode = th[t].ino.mode BY <1>0, <1>4 DEF InodeType
<1>6. th[t].ino.mode = "dir" BY <1>0 DEF InoOK
<1> HIDE DEF ino
<1> QED BY <1>0, <1>1, <1>3, <1>5, <1>6 DEF TypeOK

\* The directory's inode is written: the tree, what the calls hold of it, and the
\* copies stay sound.
LEMMA WriteDirData ==
  ASSUME SafeInv, NEW t \in Threads, WriteDir(t)
  PROVE  Data'
<1>0. TypeOK /\ KindOK(t) /\ KidOK(t) /\ IndexOK(t) /\ pc[t] = "write_dir" /\ NameInv /\ CopyInv /\ OpenInv
  BY Own DEF WriteDir, SafeInv
<1>c. th[t].cur \in Inodes /\ th[t].cur # 0 /\ Name(t) \in Names BY <1>0, InDir
<1>t. \A u \in Threads : MakeOK(u) /\ HeldOK(u) BY DEF SafeInv, ThereInv
<1>m. th[t].cur \in ibits /\ IsDir(th[t].cur) BY <1>0, <1>c, <1>t DEF HeldOK
<1>l. Fades /\ Opened' = Opened /\ Steps(t) /\ files' = files /\ ibits' = ibits /\ dirent' = dirent
  BY <1>0, WriteDirLocks, WriteDirEffect DEF WriteDir, table, bits
<1>f. /\ th'[t].cur = th[t].cur /\ th'[t].kind = th[t].kind /\ th'[t].path = th[t].path
      /\ \/ pc'[t] = "lock_kid" /\ th[t].kind \in Creates /\ th'[t].kid = th[t].kid /\ th'[t].index = th[t].index
         \/ pc'[t] = "exit" /\ th[t].kind \notin Creates /\ th'[t].index \in {0, th[t].index}
  BY <1>0, WriteDirEffect DEF Becomes
<1>e. /\ inode'[th[t].cur].mode = "dir" /\ \A i \in Inodes : i # th[t].cur => inode'[i] = inode[i]
  BY WriteDirInode
<1>i. \A i \in Inodes : inode'[i].mode = "dir" <=> IsDir(i) BY <1>e, <1>m DEF IsDir
<1>1. NameInv'
  <2>1. Root \in Inodes BY <1>0 DEF NameInv, TypeOK
  <2> QED BY <1>0, <1>e, <1>i, <1>l, <1>m, <2>1 DEF NameInv, IsDir
<1>2. ~Making(t)' /\ ~Removing(t)' /\ ~Emptying(t)' /\ ~Writing(t)' /\ ~Removed(t)'
  BY <1>f DEF Making, Removing, Removed, Emptying, Writing
<1>o. ~Opening(t)' BY <1>0, <1>f DEF Opening, KindOK
<1>3. ASSUME NEW u \in Threads, u # t PROVE MakeOK(u)' /\ HeldOK(u)'
  <2>0. MakeOK(u) /\ HeldOK(u) /\ th'[u] = th[u] /\ (th[u].cur # 0 => th[u].cur \in Inodes)
    BY <1>t, <1>l, <1>3, Own DEF Steps
  <2>1. th[u].cur # 0 => th[u].cur \in ibits' /\ dirent'[th[u].cur] = dirent[th[u].cur] /\ (IsDir(th[u].cur)' <=> IsDir(th[u].cur))
    BY <1>l, <1>i, <2>0 DEF HeldOK, IsDir
  <2>2. Making(u) \/ Removed(u) => th[u].kid \in ibits' /\ inode'[th[u].kid] = inode[th[u].kid]
    <3>1. Making(u) => th[u].kid # th[t].cur /\ th[u].kid \in Inodes BY MakingIs
    <3>2. Removed(u) => th[u].kid # th[t].cur /\ th[u].kid \in Inodes BY <1>3, KidAlone DEF Removing
    <3> QED BY <1>l, <1>e, <2>0, <3>1, <3>2 DEF HeldOK, MakeOK
  <2>3. Making(u) => ~entry'[th[u].kid].valid /\ th'[t].cur # th[u].kid
    <3>1. Making(u) => th[u].kid \in Inodes BY MakingIs
    <3> QED BY <1>f, <1>l, <2>0, <3>1 DEF MakeOK, Fades
  <2>4. Making(u) \/ Removing(u) => \A fd \in Opened' : files'[fd] # th[u].kid
    BY Private, <1>l DEF Unopened
  <2>5. Named(u) \/ (pc[u] = "write_dir" /\ ~th[u].held) => (IsDir(th[u].kid)' <=> IsDir(th[u].kid))
    <3>1. Named(u) \/ (pc[u] = "write_dir" /\ ~th[u].held) => th[u].kid \in Inodes
      BY NamedKid, MadeKid
    <3> QED BY <1>i, <2>0, <3>1 DEF IsDir
  <2> QED BY <1>l, <1>2, <1>o, <1>3, <2>1, <2>2, <2>3, <2>4, <2>5, OthersThere
<1>4. MakeOK(t)' BY <1>2, <1>f DEF MakeOK
<1>5. HeldOK(t)'
  <2>1. IsDir(th[t].cur)' BY <1>m, <1>f, <1>e DEF IsDir
  <2>2. CASE pc'[t] = "exit" BY <1>f, <1>l, <1>m, <2>2, OwnNone
  <2>3. CASE pc'[t] = "lock_kid"
    <3>1. th[t].kind \in Creates /\ ~th[t].held /\ th'[t].kid = th[t].kid
      BY <1>0, <1>f, <2>3 DEF KidOK, Removed, Named, Emptying
    <3>2. th[t].kid \in Inodes /\ Child(t) = th[t].kid /\ ~IsDir(th[t].kid) BY <1>0, <3>1, MadeKid
    <3>3. Child(t)' = Child(t) BY <1>f, <1>l DEF Child, Name
    <3>4. ~IsDir(th[t].kid)' BY <1>i, <3>1, <3>2 DEF IsDir
    <3> QED BY <1>f, <1>l, <1>m, <1>2, <2>1, <2>3, <3>1, <3>2, <3>3, <3>4 DEF HeldOK
  <2> QED BY <1>f, <2>2, <2>3
<1>6. OpenInv' /\ CopyInv' /\ CacheCoherent'
  <2>1. \A j \in Inodes : inode'[j] # inode[j] \/ (j \in ibits /\ j \notin ibits') => ~entry[j].valid
    BY <1>0, <1>l, <1>e, <1>m DEF CopyInv
  <2>2. \A j \in ibits : ~Unopened(j) => j \in ibits' /\ (inode'[j].mode = "dir" <=> IsDir(j))
    BY <1>0, <1>l, <1>i DEF TypeOK
  <2>3. ASSUME NEW u \in Threads, Writing(u)
        PROVE inode'[files[th[u].fd]].mode = inode[files[th[u].fd]].mode
    BY <1>e, <1>m, <2>3, WritingFile, WritingOpen
  <2> QED BY <1>l, <1>2, <1>o, <2>1, <2>2, <2>3, DiskRest
<1> QED BY <1>1, <1>3, <1>4, <1>5, <1>6 DEF Data, ThereInv

\* Write_inode after a chunk: the tree, what the calls hold of it, and the copies stay
\* sound.
LEMMA StoreData ==
  ASSUME SafeInv, NEW t \in Threads, Store(t)
  PROVE  Data'
<1>0. TypeOK /\ KindOK(t) /\ WalkOK(t) /\ pc[t] = "store" /\ Writing(t) /\ NameInv /\ CopyInv /\ OpenInv /\ CacheCoherent
  BY Own DEF Store, SafeInv, Writing
<1>p. PICK i \in Inodes : i = files[th[t].fd] BY <1>0, WritingFile
<1>m. /\ th[t].fd \in Opened /\ i \in ibits /\ ~IsDir(i) /\ ~Unopened(i) /\ HasX(t, i)
      /\ th[t].ino.mode = inode[i].mode
  BY <1>0, <1>p, WritingOpen, WritingX DEF CopyInv
<1>t. \A u \in Threads : MakeOK(u) /\ HeldOK(u) BY DEF SafeInv, ThereInv
<1>l. Opened' = Opened /\ Steps(t) /\ files' = files /\ ibits' = ibits /\ dirent' = dirent /\ th' = th /\ pc'[t] = "unlock_file"
  BY <1>0, StoreLocks, StoreEffect DEF Store, table, bits
<1>e. inode'[i] = th[t].ino /\ \A j \in Inodes : j # i => inode'[j] = inode[j]
  BY <1>0, <1>p DEF Store, TypeOK
<1>v. entry'[i].valid /\ entry'[i].inode = th[t].ino /\ \A j \in Inodes : j # i => entry'[j] = entry[j]
  BY <1>p, StoreLocks DEF Only
<1>i. \A j \in Inodes : inode'[j].mode = "dir" <=> IsDir(j) BY <1>e, <1>m DEF IsDir
<1>z. th[t].cur = 0 BY <1>0 DEF WalkOK, KindOK, OnFd
<1>1. NameInv'
  <2>1. Root \in Inodes BY <1>0 DEF NameInv, TypeOK
  <2> QED BY <1>0, <1>e, <1>i, <1>l, <1>m, <2>1 DEF NameInv, IsDir
<1>2. ~Making(t)' /\ ~Removing(t)' /\ ~Emptying(t)' /\ ~Writing(t)' /\ ~Removed(t)' /\ ~Opening(t)' /\ ~Named(t)'
  BY <1>l DEF Making, Removing, Removed, Emptying, Writing, Opening, Named
<1>k. ASSUME NEW u \in Threads, Making(u) \/ Removing(u) PROVE th[u].kid # i BY <1>k, <1>m, Private
<1>3. ASSUME NEW u \in Threads, u # t PROVE MakeOK(u)' /\ HeldOK(u)'
  <2>0. MakeOK(u) /\ HeldOK(u) /\ th'[u] = th[u] /\ (th[u].cur # 0 => th[u].cur \in Inodes)
    BY <1>t, <1>l, <1>3, Own DEF Steps
  <2>1. th[u].cur # 0 => th[u].cur \in ibits' /\ dirent'[th[u].cur] = dirent[th[u].cur] /\ (IsDir(th[u].cur)' <=> IsDir(th[u].cur))
    BY <1>l, <1>i, <2>0 DEF HeldOK, IsDir
  <2>2. Making(u) \/ Removed(u) => th[u].kid \in ibits' /\ inode'[th[u].kid] = inode[th[u].kid]
    <3>1. Making(u) \/ Removed(u) => th[u].kid # i /\ th[u].kid \in Inodes
      BY <1>k, MakingIs, KidAlone DEF Removing
    <3> QED BY <1>l, <1>e, <2>0, <3>1 DEF HeldOK, MakeOK
  <2>3. Making(u) => ~entry'[th[u].kid].valid /\ th'[t].cur # th[u].kid
    <3>1. Making(u) => th[u].kid \in Inodes /\ th[u].kid # i /\ th[u].kid # th[t].cur
      BY <1>k, MakingIs
    <3> QED BY <1>l, <1>v, <2>0, <3>1 DEF MakeOK
  <2>4. Making(u) \/ Removing(u) => \A fd \in Opened' : files'[fd] # th[u].kid
    BY Private, <1>l DEF Unopened
  <2>5. Named(u) \/ (pc[u] = "write_dir" /\ ~th[u].held) => (IsDir(th[u].kid)' <=> IsDir(th[u].kid))
    <3>1. Named(u) \/ (pc[u] = "write_dir" /\ ~th[u].held) => th[u].kid \in Inodes
      BY NamedKid, MadeKid
    <3> QED BY <1>i, <2>0, <3>1 DEF IsDir
  <2> QED BY <1>l, <1>2, <1>3, <2>1, <2>2, <2>3, <2>4, <2>5, OthersThere
<1>4. MakeOK(t)' BY <1>2, <1>l DEF MakeOK
<1>5. HeldOK(t)' BY <1>2, <1>l, <1>z DEF HeldOK
<1>6. OpenInv'
  <2>1. \A fd \in Opened : files[fd] \in Inodes /\ files[fd] \in ibits' /\ ~(inode'[files[fd]].mode = "dir")
    BY <1>0, <1>i, <1>l DEF OpenInv, TypeOK
  <2>2. ASSUME NEW u \in Threads, Opening(u)'
        PROVE th'[u].index \in ibits' /\ ~(inode'[th'[u].index].mode = "dir")
    <3>1. Opening(u)
      <4>1. u # t BY <1>2, <2>2
      <4> QED BY <1>l, <2>2, <4>1 DEF Steps, Opening
    <3>2. th[u].index \in ibits /\ th[u].index \in Inodes /\ ~IsDir(th[u].index)
      BY <1>0, <3>1 DEF OpenInv, TypeOK
    <3> QED BY <1>i, <1>l, <3>2
  <2> QED BY <1>l, <2>1, <2>2 DEF OpenInv, IsDir
<1>7. CopyInv'
  <2>1. \A j \in Inodes : entry'[j].valid => j \in ibits' /\ ~(inode'[j].mode = "dir")
    BY <1>0, <1>i, <1>l, <1>m, <1>v DEF CopyInv
  <2>2. ASSUME NEW u \in Threads, Writing(u)'
        PROVE  ~entry'[files'[th'[u].fd]].valid /\ th'[u].ino.mode = inode'[files'[th'[u].fd]].mode
    <3>1. u # t BY <1>2, <2>2
    <3>2. Writing(u) BY <1>l, <2>2, <3>1 DEF Steps, Writing
    <3>3. files[th[u].fd] \in Inodes /\ files[th[u].fd] # i
      BY <1>m, <3>1, <3>2, WritingFile, WritingX, Exclusion
    <3>4. ~entry[files[th[u].fd]].valid /\ th[u].ino.mode = inode[files[th[u].fd]].mode
      BY <1>0, <3>2 DEF CopyInv
    <3> QED BY <1>e, <1>l, <1>v, <3>3, <3>4
  <2>3. ASSUME NEW u \in Threads, Removing(u)' \/ Emptying(u)' PROVE ~entry'[th'[u].kid].valid
    <3>1. u # t BY <1>2, <2>3
    <3>2. Removing(u) \/ Emptying(u) BY <1>l, <2>3, <3>1 DEF Steps, Removing, Removed, Emptying
    <3>3. th[u].kid \in Inodes /\ th[u].kid # i BY <1>m, <3>1, <3>2, KidAlone, Exclusion
    <3>4. ~entry[th[u].kid].valid BY <1>0, <3>2 DEF CopyInv
    <3> QED BY <1>l, <1>v, <3>3, <3>4
  <2> QED BY <2>1, <2>2, <2>3 DEF CopyInv, IsDir
<1>8. CacheCoherent'
  <2>1. \A j \in Inodes : entry'[j].valid => entry'[j].inode = inode'[j]
    BY <1>0, <1>e, <1>v DEF CacheCoherent
  <2> QED BY <2>1 DEF CacheCoherent
<1> QED BY <1>1, <1>3, <1>4, <1>5, <1>6, <1>7, <1>8 DEF Data, ThereInv

-----------------------------------------------------------------------------
(* The type of every variable *)

\* The types of what is on the disk, and of the rest.
DiskType == /\ ibits \subseteq Inodes /\ bbits \subseteq Blocks
            /\ inode \in [Inodes -> InodeType]
            /\ dirent \in [Inodes -> [Names -> 0..NInodes]] /\ dotdot \in [Inodes -> 0..NInodes]
RestType == /\ files \in [Fds -> 0..NInodes] /\ in_use \subseteq Fds /\ op \in [Fds -> Threads \cup {NoThread}]
            /\ running \subseteq Threads /\ closed \in BOOLEAN /\ calls \in 0..MaxCalls

\* A step that keeps the types of the parts keeps the type of all.
LEMMA TypeStep ==
  ASSUME NEW t \in Threads, Steps(t), entry' \in [Inodes -> EntryType], DiskType', RestType'
  PROVE  TypeOK'
  BY DEF Steps, DiskType, RestType, TypeOK

\* An entry of a directory is set.
LEMMA EntryType1 ==
  ASSUME TypeOK, NEW c \in Inodes, NEW m \in Names, NEW k \in 0..NInodes,
         dirent' = [dirent EXCEPT ![c][m] = k]
  PROVE  dirent' \in [Inodes -> [Names -> 0..NInodes]]
<1>1. dirent[c] \in [Names -> 0..NInodes] /\ dirent \in [Inodes -> [Names -> 0..NInodes]]
  BY DEF TypeOK
<1>2. [dirent[c] EXCEPT ![m] = k] \in [Names -> 0..NInodes] BY <1>1
<1>3. dirent' = [dirent EXCEPT ![c] = [dirent[c] EXCEPT ![m] = k]] OBVIOUS
<1> QED BY <1>1, <1>2, <1>3

\* The entry of what is being made is written.
LEMMA AddedType ==
  ASSUME SafeInv, NEW t \in Threads, Making(t), dirent' = [dirent EXCEPT ![th[t].cur][Name(t)] = th[t].kid]
  PROVE  dirent' \in [Inodes -> [Names -> 0..NInodes]]
<1>1. TypeOK /\ th[t].cur \in Inodes /\ Name(t) \in Names /\ th[t].kid \in Inodes BY Own, MakingIs
<1>2. th[t].kid \in 0..NInodes BY <1>1 DEF Inodes
<1> QED BY <1>1, <1>2, EntryType1

\* Begin_op lets a call in: every variable keeps its type.
LEMMA BeginType ==
  ASSUME SafeInv, NEW t \in Threads, Begin(t)
  PROVE  TypeOK'
<1>0. TypeOK /\ th[t] \in Locals BY Own
<1>1. Steps(t) BY BeginShape
<1>2. entry' \in [Inodes -> EntryType] BY BeginLocks DEF Fades
<1>3. DiskType' BY <1>0 DEF Begin, DiskType, TypeOK, bits, tree
<1>4. RestType' BY <1>0 DEF Begin, RestType, TypeOK, table, gate
<1> QED BY <1>1, <1>2, <1>3, <1>4, TypeStep

\* A walk starts at the root: every variable keeps its type.
LEMMA WalkRootType ==
  ASSUME SafeInv, NEW t \in Threads, WalkRoot(t)
  PROVE  TypeOK'
<1>0. TypeOK /\ th[t] \in Locals BY Own
<1>1. Steps(t) BY WalkRootShape
<1>2. entry' \in [Inodes -> EntryType] BY WalkRootLocks DEF Fades
<1>3. DiskType' BY <1>0 DEF WalkRoot, DiskType, TypeOK, bits, tree
<1>4. RestType' BY <1>0 DEF WalkRoot, RestType, TypeOK, table, gate
<1> QED BY <1>1, <1>2, <1>3, <1>4, TypeStep

\* A walk locks what it has found: every variable keeps its type.
LEMMA WalkLockType ==
  ASSUME SafeInv, NEW t \in Threads, WalkLock(t)
  PROVE  TypeOK'
<1>0. TypeOK /\ th[t] \in Locals BY Own
<1>1. Steps(t) BY WalkLockShape
<1>2. entry' \in [Inodes -> EntryType] BY WalkLockLocks DEF Fades
<1>3. DiskType' BY <1>0 DEF WalkLock, DiskType, TypeOK, bits, tree
<1>4. RestType' BY <1>0 DEF WalkLock, RestType, TypeOK, table, gate
<1> QED BY <1>1, <1>2, <1>3, <1>4, TypeStep

\* A walk looks a component up: every variable keeps its type.
LEMMA WalkNextType ==
  ASSUME SafeInv, NEW t \in Threads, WalkNext(t)
  PROVE  TypeOK'
<1>0. TypeOK /\ th[t] \in Locals BY Own
<1>1. Steps(t) BY WalkNextShape
<1>2. entry' \in [Inodes -> EntryType] BY WalkNextLocks DEF Fades
<1>3. DiskType' BY <1>0 DEF WalkNext, DiskType, TypeOK, bits, tree
<1>4. RestType' BY <1>0 DEF WalkNext, RestType, TypeOK, table, gate
<1> QED BY <1>1, <1>2, <1>3, <1>4, TypeStep

\* Open has reached the file's name: every variable keeps its type.
LEMMA AtOpenType ==
  ASSUME SafeInv, NEW t \in Threads, AtOpen(t)
  PROVE  TypeOK'
<1>0. TypeOK /\ th[t] \in Locals BY Own
<1>1. Steps(t) BY AtOpenShape
<1>2. entry' \in [Inodes -> EntryType] BY AtOpenLocks DEF Fades
<1>3. DiskType' BY <1>0 DEF AtOpen, DiskType, TypeOK, bits, tree
<1>4. RestType' BY <1>0 DEF AtOpen, RestType, TypeOK, table, gate
<1> QED BY <1>1, <1>2, <1>3, <1>4, TypeStep

\* A call has found its last component: every variable keeps its type.
LEMMA AtChildType ==
  ASSUME SafeInv, NEW t \in Threads, AtChild(t)
  PROVE  TypeOK'
<1>0. TypeOK /\ th[t] \in Locals BY Own
<1>1. Steps(t) BY AtChildShape
<1>2. entry' \in [Inodes -> EntryType] BY AtChildLocks DEF Fades
<1>3. DiskType' BY <1>0 DEF AtChild, DiskType, TypeOK, bits, tree
<1>4. RestType' BY <1>0 DEF AtChild, RestType, TypeOK, table, gate
<1> QED BY <1>1, <1>2, <1>3, <1>4, TypeStep

\* A call finds no such name: every variable keeps its type.
LEMMA AtNoneType ==
  ASSUME SafeInv, NEW t \in Threads, AtNone(t)
  PROVE  TypeOK'
<1>0. TypeOK /\ th[t] \in Locals BY Own
<1>1. Steps(t) BY AtNoneShape
<1>2. entry' \in [Inodes -> EntryType] BY AtNoneLocks DEF Fades
<1>3. DiskType' BY <1>0 DEF AtNone, DiskType, TypeOK, bits, tree
<1>4. RestType' BY <1>0 DEF AtNone, RestType, TypeOK, table, gate
<1> QED BY <1>1, <1>2, <1>3, <1>4, TypeStep

\* The inode below the directory is locked: every variable keeps its type.
LEMMA LockKidType ==
  ASSUME SafeInv, NEW t \in Threads, LockKid(t)
  PROVE  TypeOK'
<1>0. TypeOK /\ th[t] \in Locals BY Own
<1>1. Steps(t) BY LockKidShape
<1>2. entry' \in [Inodes -> EntryType] BY LockKidLocks DEF Fades
<1>3. DiskType' BY <1>0 DEF LockKid, DiskType, TypeOK, bits, tree
<1>4. RestType' BY <1>0 DEF LockKid, RestType, TypeOK, table, gate
<1> QED BY <1>1, <1>2, <1>3, <1>4, TypeStep

\* A file is counted open: every variable keeps its type.
LEMMA RegisterType ==
  ASSUME SafeInv, NEW t \in Threads, Register(t)
  PROVE  TypeOK'
<1>0. TypeOK /\ th[t] \in Locals BY Own
<1>1. Steps(t) BY RegisterShape
<1>2. entry' \in [Inodes -> EntryType] BY RegisterLocks DEF Fades
<1>3. DiskType' BY <1>0 DEF Register, DiskType, TypeOK, bits, tree
<1>4. RestType' BY <1>0 DEF Register, RestType, TypeOK, table, gate
<1> QED BY <1>1, <1>2, <1>3, <1>4, TypeStep

\* Alloc_inode: every variable keeps its type.
LEMMA AllocInodeType ==
  ASSUME SafeInv, NEW t \in Threads, AllocInode(t)
  PROVE  TypeOK'
<1>0. TypeOK /\ th[t] \in Locals BY Own
<1>1. Steps(t) BY AllocInodeShape
<1>2. entry' \in [Inodes -> EntryType] BY AllocInodeLocks DEF Fades
<1>3. DiskType'
  <2>1. ibits \in SUBSET Inodes BY <1>0 DEF TypeOK
  <2>2. ibits # Inodes => Min(Inodes \ ibits) \in Inodes BY <2>1, FreeIn
  <2>3. ibits' = ibits \/ (ibits # Inodes /\ ibits' = ibits \cup {Min(Inodes \ ibits)})
    BY DEF AllocInode
  <2>4. ibits' \subseteq Inodes BY <2>1, <2>2, <2>3
  <2> QED BY <1>0, <2>4 DEF AllocInode, DiskType, TypeOK, tree
<1>4. RestType' BY <1>0 DEF AllocInode, RestType, TypeOK, table, gate
<1> QED BY <1>1, <1>2, <1>3, <1>4, TypeStep

\* Mkdir takes a block for the new directory: every variable keeps its type.
LEMMA AllocBlockType ==
  ASSUME SafeInv, NEW t \in Threads, AllocBlock(t)
  PROVE  TypeOK'
<1>0. TypeOK /\ th[t] \in Locals BY Own
<1>1. Steps(t) BY AllocBlockShape
<1>2. entry' \in [Inodes -> EntryType] BY AllocBlockLocks DEF Fades
<1>3. DiskType'
  <2>1. bbits \in SUBSET Blocks BY <1>0 DEF TypeOK
  <2>2. bbits # Blocks => Min(Blocks \ bbits) \in Blocks BY <2>1, FreeIn
  <2>3. bbits' = bbits \/ (bbits # Blocks /\ bbits' = bbits \cup {Min(Blocks \ bbits)})
    BY DEF AllocBlock
  <2>4. bbits' \subseteq Blocks BY <2>1, <2>2, <2>3
  <2> QED BY <1>0, <2>4 DEF AllocBlock, DiskType, TypeOK, tree
<1>4. RestType' BY <1>0 DEF AllocBlock, RestType, TypeOK, table, gate
<1> QED BY <1>1, <1>2, <1>3, <1>4, TypeStep

\* Dir_add: every variable keeps its type.
LEMMA DirAddType ==
  ASSUME SafeInv, NEW t \in Threads, DirAdd(t)
  PROVE  TypeOK'
<1>0. TypeOK /\ th[t] \in Locals BY Own
<1>1. Steps(t) BY DirAddShape
<1>2. entry' \in [Inodes -> EntryType] BY DirAddLocks DEF Fades
<1>3. DiskType'
  <2>1. dirent' = dirent \/ dirent' = [dirent EXCEPT ![th[t].cur][Name(t)] = th[t].kid] BY DEF DirAdd
  <2>2. Making(t) BY DEF DirAdd, Making
  <2>3. dirent' \in [Inodes -> [Names -> 0..NInodes]] BY <1>0, <2>1, <2>2, AddedType DEF TypeOK
  <2> QED BY <1>0, <2>3 DEF DirAdd, DiskType, TypeOK, bits
<1>4. RestType' BY <1>0 DEF DirAdd, RestType, TypeOK, table, gate
<1> QED BY <1>1, <1>2, <1>3, <1>4, TypeStep

\* Mkdir hands its block back: every variable keeps its type.
LEMMA UndoBlockType ==
  ASSUME SafeInv, NEW t \in Threads, UndoBlock(t)
  PROVE  TypeOK'
<1>0. TypeOK /\ th[t] \in Locals BY Own
<1>1. Steps(t) BY UndoBlockShape
<1>2. entry' \in [Inodes -> EntryType] BY UndoBlockLocks DEF Fades
<1>3. DiskType' BY <1>0 DEF UndoBlock, DiskType, TypeOK, bits, tree, Locals
<1>4. RestType' BY <1>0 DEF UndoBlock, RestType, TypeOK, table, gate
<1> QED BY <1>1, <1>2, <1>3, <1>4, TypeStep

\* The inode that was taken is handed back: every variable keeps its type.
LEMMA UndoInodeType ==
  ASSUME SafeInv, NEW t \in Threads, UndoInode(t)
  PROVE  TypeOK'
<1>0. TypeOK /\ th[t] \in Locals BY Own
<1>1. Steps(t) BY UndoInodeShape
<1>2. entry' \in [Inodes -> EntryType] BY UndoInodeLocks DEF Fades
<1>3. DiskType' BY <1>0 DEF UndoInode, DiskType, TypeOK, bits, tree, Locals
<1>4. RestType' BY <1>0 DEF UndoInode, RestType, TypeOK, table, gate
<1> QED BY <1>1, <1>2, <1>3, <1>4, TypeStep

\* The new inode is written: every variable keeps its type.
LEMMA WriteNewType ==
  ASSUME SafeInv, NEW t \in Threads, WriteNew(t)
  PROVE  TypeOK'
<1>0. TypeOK /\ th[t] \in Locals BY Own
<1>1. Steps(t) BY WriteNewShape
<1>2. entry' \in [Inodes -> EntryType] BY WriteNewLocks DEF Fades
<1>3. DiskType'
  <2>0. pc[t] = "write_new" /\ Making(t) /\ IndexOK(t) BY Own DEF WriteNew, Making
  <2>1. th[t].kid \in Inodes /\ th[t].cur \in 0..NInodes BY <2>0, MakingIs DEF Inodes
  <2>2. th[t].kind = "mkdir" => NewDir(th[t].index) \in InodeType BY <2>0, NewTypes DEF IndexOK
  <2>3. inode' \in [Inodes -> InodeType] BY <1>0, <2>1, <2>2, NewTypes DEF WriteNew, TypeOK
  <2>4. Empty \in [Names -> 0..NInodes] BY DEF Empty
  <2>5. dirent' \in [Inodes -> [Names -> 0..NInodes]] BY <1>0, <2>4 DEF WriteNew, TypeOK
  <2>6. dotdot' \in [Inodes -> 0..NInodes] BY <1>0, <2>1 DEF WriteNew, TypeOK
  <2> QED BY <1>0, <2>3, <2>5, <2>6 DEF WriteNew, DiskType, TypeOK, bits
<1>4. RestType' BY <1>0 DEF WriteNew, RestType, TypeOK, table, gate
<1> QED BY <1>1, <1>2, <1>3, <1>4, TypeStep

\* The directory's inode is written: every variable keeps its type.
LEMMA WriteDirType ==
  ASSUME SafeInv, NEW t \in Threads, WriteDir(t)
  PROVE  TypeOK'
<1>0. TypeOK /\ th[t] \in Locals BY Own
<1>1. Steps(t) BY WriteDirShape
<1>2. entry' \in [Inodes -> EntryType] BY WriteDirLocks DEF Fades
<1>3. DiskType' BY <1>0, WriteDirInode DEF WriteDir, DiskType, TypeOK, bits, tree, Locals
<1>4. RestType' BY <1>0 DEF WriteDir, RestType, TypeOK, table, gate
<1> QED BY <1>1, <1>2, <1>3, <1>4, TypeStep

\* Unlink and rmdir check what they would remove: every variable keeps its type.
LEMMA CheckType ==
  ASSUME SafeInv, NEW t \in Threads, Check(t)
  PROVE  TypeOK'
<1>0. TypeOK /\ th[t] \in Locals BY Own
<1>1. Steps(t) BY CheckShape
<1>2. entry' \in [Inodes -> EntryType] BY CheckLocks DEF Fades
<1>3. DiskType' BY <1>0 DEF Check, DiskType, TypeOK, bits, tree
<1>4. RestType' BY <1>0 DEF Check, RestType, TypeOK, table, gate
<1> QED BY <1>1, <1>2, <1>3, <1>4, TypeStep

\* Dir_remove: every variable keeps its type.
LEMMA DirRemoveType ==
  ASSUME SafeInv, NEW t \in Threads, DirRemove(t)
  PROVE  TypeOK'
<1>0. TypeOK /\ th[t] \in Locals BY Own
<1>1. Steps(t) BY DirRemoveShape
<1>2. entry' \in [Inodes -> EntryType] BY DirRemoveLocks DEF Fades
<1>3. DiskType'
  <2>1. dirent' = [dirent EXCEPT ![th[t].cur][Name(t)] = 0] BY DEF DirRemove
  <2>2. th[t].cur \in Inodes /\ Name(t) \in Names BY RemovalIs DEF DirRemove, Removing
  <2>4. 0 \in 0..NInodes OBVIOUS
  <2>3. dirent' \in [Inodes -> [Names -> 0..NInodes]] BY <1>0, <2>1, <2>2, <2>4, EntryType1
  <2> QED BY <1>0, <2>3 DEF DirRemove, DiskType, TypeOK, bits
<1>4. RestType' BY <1>0 DEF DirRemove, RestType, TypeOK, table, gate
<1> QED BY <1>1, <1>2, <1>3, <1>4, TypeStep

\* O_TRUNC looks at the file: every variable keeps its type.
LEMMA TruncateType ==
  ASSUME SafeInv, NEW t \in Threads, Truncate(t)
  PROVE  TypeOK'
<1>0. TypeOK /\ th[t] \in Locals BY Own
<1>1. Steps(t) BY TruncateShape
<1>2. entry' \in [Inodes -> EntryType] BY TruncateLocks DEF Fades
<1>3. DiskType' BY <1>0 DEF Truncate, DiskType, TypeOK, bits, tree
<1>4. RestType' BY <1>0 DEF Truncate, RestType, TypeOK, table, gate
<1> QED BY <1>1, <1>2, <1>3, <1>4, TypeStep

\* Free_all_blocks: every variable keeps its type.
LEMMA FreeBlocksType ==
  ASSUME SafeInv, NEW t \in Threads, FreeBlocks(t)
  PROVE  TypeOK'
<1>0. TypeOK /\ th[t] \in Locals BY Own
<1>1. Steps(t) BY FreeBlocksShape
<1>2. entry' \in [Inodes -> EntryType] BY FreeBlocksLocks DEF Fades
<1>3. DiskType' BY <1>0 DEF FreeBlocks, DiskType, TypeOK, bits, tree, Locals
<1>4. RestType' BY <1>0 DEF FreeBlocks, RestType, TypeOK, table, gate
<1> QED BY <1>1, <1>2, <1>3, <1>4, TypeStep

\* The emptied inode is written: every variable keeps its type.
LEMMA WriteFileType ==
  ASSUME SafeInv, NEW t \in Threads, WriteFile(t)
  PROVE  TypeOK'
<1>0. TypeOK /\ th[t] \in Locals BY Own
<1>1. Steps(t) BY WriteFileShape
<1>2. entry' \in [Inodes -> EntryType] BY WriteFileLocks DEF Fades
<1>3. DiskType' BY <1>0, NewTypes DEF WriteFile, DiskType, TypeOK, bits, tree, Locals
<1>4. RestType' BY <1>0 DEF WriteFile, RestType, TypeOK, table, gate
<1> QED BY <1>1, <1>2, <1>3, <1>4, TypeStep

\* The removed inode is cleared: every variable keeps its type.
LEMMA ClearInodeType ==
  ASSUME SafeInv, NEW t \in Threads, ClearInode(t)
  PROVE  TypeOK'
<1>0. TypeOK /\ th[t] \in Locals BY Own
<1>1. Steps(t) BY ClearInodeShape
<1>2. entry' \in [Inodes -> EntryType] BY ClearInodeLocks DEF Fades
<1>3. DiskType'
  <2>1. inode' \in [Inodes -> InodeType] BY <1>0, NoInodeType DEF ClearInode, TypeOK
  <2>2. 0 \in 0..NInodes OBVIOUS
  <2>3. dotdot' \in [Inodes -> 0..NInodes] BY <1>0, <2>2 DEF ClearInode, TypeOK
  <2> QED BY <1>0, <2>1, <2>3 DEF ClearInode, DiskType, TypeOK, bits
<1>4. RestType' BY <1>0 DEF ClearInode, RestType, TypeOK, table, gate
<1> QED BY <1>1, <1>2, <1>3, <1>4, TypeStep

\* Free_inode: every variable keeps its type.
LEMMA FreeInodeType ==
  ASSUME SafeInv, NEW t \in Threads, FreeInode(t)
  PROVE  TypeOK'
<1>0. TypeOK /\ th[t] \in Locals BY Own
<1>1. Steps(t) BY FreeInodeShape
<1>2. entry' \in [Inodes -> EntryType] BY FreeInodeLocks DEF Fades
<1>3. DiskType' BY <1>0 DEF FreeInode, DiskType, TypeOK, bits, tree, Locals
<1>4. RestType' BY <1>0 DEF FreeInode, RestType, TypeOK, table, gate
<1> QED BY <1>1, <1>2, <1>3, <1>4, TypeStep

\* Alloc_all takes one more block: every variable keeps its type.
LEMMA TakeType ==
  ASSUME SafeInv, NEW t \in Threads, Take(t)
  PROVE  TypeOK'
<1>0. TypeOK /\ th[t] \in Locals BY Own
<1>1. Steps(t) BY TakeShape
<1>2. entry' \in [Inodes -> EntryType] BY TakeLocks DEF Fades
<1>3. DiskType'
  <2>0. Making(t) <=> th[t].kind \notin Writes BY DEF Take, Making
  <2>1. dirent' = dirent \/ dirent' = Added(t) BY DEF Take
  <2>2. dirent' \in [Inodes -> [Names -> 0..NInodes]] BY <1>0, <2>0, <2>1, AddedType DEF Added, TypeOK
  <2>3. bbits \in SUBSET Blocks BY <1>0 DEF TypeOK
  <2>4. bbits # Blocks => Min(Blocks \ bbits) \in Blocks BY <2>3, FreeIn
  <2>5. bbits' = bbits \/ (bbits # Blocks /\ bbits' = bbits \cup {Min(Blocks \ bbits)})
    BY DEF Take, NoBlock
  <2>6. bbits' \subseteq Blocks BY <2>3, <2>4, <2>5
  <2> QED BY <1>0, <2>2, <2>6 DEF Take, DiskType, TypeOK
<1>4. RestType' BY <1>0 DEF Take, RestType, TypeOK, table, gate
<1> QED BY <1>1, <1>2, <1>3, <1>4, TypeStep

\* Alloc_all gives back what it had taken: every variable keeps its type.
LEMMA GiveBackType ==
  ASSUME SafeInv, NEW t \in Threads, GiveBack(t)
  PROVE  TypeOK'
<1>0. TypeOK /\ th[t] \in Locals BY Own
<1>1. Steps(t) BY GiveBackShape
<1>2. entry' \in [Inodes -> EntryType] BY GiveBackLocks DEF Fades
<1>3. DiskType' BY <1>0 DEF GiveBack, DiskType, TypeOK, bits, tree, Locals
<1>4. RestType' BY <1>0 DEF GiveBack, RestType, TypeOK, table, gate
<1> QED BY <1>1, <1>2, <1>3, <1>4, TypeStep

\* The block is there already: every variable keeps its type.
LEMMA OverwriteType ==
  ASSUME SafeInv, NEW t \in Threads, Overwrite(t)
  PROVE  TypeOK'
<1>0. TypeOK /\ th[t] \in Locals BY Own
<1>1. Steps(t) BY OverwriteShape
<1>2. entry' \in [Inodes -> EntryType] BY OverwriteLocks DEF Fades
<1>3. DiskType'
  <2>0. Making(t) <=> th[t].kind \notin Writes BY DEF Overwrite, Making
  <2>1. dirent' = Added(t) BY DEF Overwrite
  <2>2. dirent' \in [Inodes -> [Names -> 0..NInodes]] BY <1>0, <2>0, <2>1, AddedType DEF Added, TypeOK
  <2> QED BY <1>0, <2>2 DEF Overwrite, DiskType, TypeOK, bits
<1>4. RestType' BY <1>0 DEF Overwrite, RestType, TypeOK, table, gate
<1> QED BY <1>1, <1>2, <1>3, <1>4, TypeStep

\* A call on a descriptor locks its file: every variable keeps its type.
LEMMA LockFileType ==
  ASSUME SafeInv, NEW t \in Threads, LockFile(t)
  PROVE  TypeOK'
<1>0. TypeOK /\ th[t] \in Locals BY Own
<1>1. Steps(t) BY LockFileShape
<1>2. entry' \in [Inodes -> EntryType] BY LockFileLocks DEF Fades
<1>3. DiskType' BY <1>0 DEF LockFile, DiskType, TypeOK, bits, tree
<1>4. RestType' BY <1>0 DEF LockFile, RestType, TypeOK, table, gate
<1> QED BY <1>1, <1>2, <1>3, <1>4, TypeStep

\* Write_inode after a chunk: every variable keeps its type.
LEMMA StoreType ==
  ASSUME SafeInv, NEW t \in Threads, Store(t)
  PROVE  TypeOK'
<1>0. TypeOK /\ th[t] \in Locals BY Own
<1>1. Steps(t) BY StoreShape
<1>2. entry' \in [Inodes -> EntryType] BY StoreLocks DEF Only
<1>3. DiskType' BY <1>0 DEF Store, DiskType, TypeOK, bits, tree, Locals
<1>4. RestType' BY <1>0 DEF Store, RestType, TypeOK, table, gate
<1> QED BY <1>1, <1>2, <1>3, <1>4, TypeStep

\* The file is unlocked: every variable keeps its type.
LEMMA UnlockFileType ==
  ASSUME SafeInv, NEW t \in Threads, UnlockFile(t)
  PROVE  TypeOK'
<1>0. TypeOK /\ th[t] \in Locals BY Own
<1>1. Steps(t) BY UnlockFileShape
<1>2. entry' \in [Inodes -> EntryType] BY UnlockFileLocks DEF Fades
<1>3. DiskType' BY <1>0 DEF UnlockFile, DiskType, TypeOK, bits, tree
<1>4. RestType' BY <1>0 DEF UnlockFile, RestType, TypeOK, table, gate
<1> QED BY <1>1, <1>2, <1>3, <1>4, TypeStep

\* Vfs_close drops the file: every variable keeps its type.
LEMMA CloseType ==
  ASSUME SafeInv, NEW t \in Threads, Close(t)
  PROVE  TypeOK'
<1>0. TypeOK /\ th[t] \in Locals BY Own
<1>1. Steps(t) BY CloseShape
<1>2. entry' \in [Inodes -> EntryType] BY CloseLocks DEF Fades
<1>3. DiskType' BY <1>0 DEF Close, DiskType, TypeOK, bits, tree
<1>4. RestType'
  <2>1. 0 \in 0..NInodes OBVIOUS
  <2>2. files' \in [Fds -> 0..NInodes] BY <1>0, <2>1 DEF Close, TypeOK
  <2>3. op' \in [Fds -> Threads \cup {NoThread}] BY <1>0 DEF Close, TypeOK
  <2> QED BY <1>0, <2>2, <2>3 DEF Close, RestType, TypeOK, gate
<1> QED BY <1>1, <1>2, <1>3, <1>4, TypeStep

\* A call leaves its locks: every variable keeps its type.
LEMMA ExitType ==
  ASSUME SafeInv, NEW t \in Threads, Exit(t)
  PROVE  TypeOK'
<1>0. TypeOK /\ th[t] \in Locals BY Own
<1>1. Steps(t) BY ExitShape
<1>2. entry' \in [Inodes -> EntryType] BY ExitLocks DEF Fades
<1>3. DiskType' BY <1>0 DEF Exit, DiskType, TypeOK, bits, tree
<1>4. RestType' BY <1>0 DEF Exit, RestType, TypeOK, table, gate
<1> QED BY <1>1, <1>2, <1>3, <1>4, TypeStep

\* The open file enters the table: every variable keeps its type.
LEMMA InstallType ==
  ASSUME SafeInv, NEW t \in Threads, Install(t)
  PROVE  TypeOK'
<1>0. TypeOK /\ th[t] \in Locals BY Own
<1>1. Steps(t) BY InstallShape
<1>2. entry' \in [Inodes -> EntryType] BY InstallLocks DEF Fades
<1>3. DiskType' BY <1>0 DEF Install, DiskType, TypeOK, bits, tree
<1>4. RestType'
  <2>1. Opening(t) BY Own DEF Install, Opening, IndexOK
  <2>2. th[t].index \in 0..NInodes BY <2>1, Own DEF IndexOK, Inodes
  <2>3. files' \in [Fds -> 0..NInodes] BY <1>0, <2>2 DEF Install, TypeOK
  <2> QED BY <1>0, <2>3 DEF Install, RestType, TypeOK, gate
<1> QED BY <1>1, <1>2, <1>3, <1>4, TypeStep

\* A call with a path begins: every variable keeps its type.
LEMMA CallPathType ==
  ASSUME SafeInv, NEW t \in Threads, CallPath(t)
  PROVE  TypeOK'
<1>0. TypeOK /\ th[t] \in Locals BY Own
<1>1. Steps(t) BY CallPathShape
<1>2. entry' \in [Inodes -> EntryType] BY CallPathLocks DEF Fades
<1>3. DiskType' BY <1>0 DEF CallPath, DiskType, TypeOK, bits, tree
<1>4. RestType'
  <2>1. in_use' \subseteq Fds BY <1>0, CallPathEffect DEF TypeOK
  <2>2. calls' \in 0..MaxCalls BY <1>0 DEF CallPath, TypeOK
  <2> QED BY <1>0, <2>1, <2>2 DEF CallPath, RestType, TypeOK, gate
<1> QED BY <1>1, <1>2, <1>3, <1>4, TypeStep

\* A call on a descriptor begins: every variable keeps its type.
LEMMA CallFdType ==
  ASSUME SafeInv, NEW t \in Threads, CallFd(t)
  PROVE  TypeOK'
<1>0. TypeOK /\ th[t] \in Locals BY Own
<1>1. Steps(t) BY CallFdShape
<1>2. entry' \in [Inodes -> EntryType] BY CallFdLocks DEF Fades
<1>3. DiskType' BY <1>0 DEF CallFd, DiskType, TypeOK, bits, tree
<1>4. RestType'
  <2>0. op' = [op EXCEPT ![th'[t].fd] = t] BY <1>0, CallFdEffect
  <2>1. op' \in [Fds -> Threads \cup {NoThread}] BY <1>0, <2>0 DEF TypeOK
  <2>3. calls < MaxCalls /\ calls' = calls + 1 /\ calls \in 0..MaxCalls BY <1>0 DEF CallFd, TypeOK
  <2>2. calls' \in 0..MaxCalls BY <2>3
  <2> QED BY <1>0, <2>1, <2>2 DEF CallFd, RestType, TypeOK, gate
<1> QED BY <1>1, <1>2, <1>3, <1>4, TypeStep

\* Vfs_fsync waits for a commit: every variable keeps its type.
LEMMA FsyncType ==
  ASSUME SafeInv, NEW t \in Threads, Fsync(t)
  PROVE  TypeOK'
<1>0. TypeOK /\ th[t] \in Locals BY Own
<1>1. Steps(t) BY FsyncShape
<1>2. entry' \in [Inodes -> EntryType] BY FsyncLocks DEF Fades
<1>3. DiskType' BY <1>0 DEF Fsync, DiskType, TypeOK, bits, tree
<1>4. RestType' BY <1>0 DEF Fsync, RestType, TypeOK, table, gate
<1> QED BY <1>1, <1>2, <1>3, <1>4, TypeStep

\* A block cannot be read and the step throws: every variable keeps its type.
LEMMA IoErrorType ==
  ASSUME SafeInv, NEW t \in Threads, IoError(t)
  PROVE  TypeOK'
<1>0. TypeOK /\ th[t] \in Locals BY Own
<1>1. Steps(t) BY IoErrorShape
<1>2. entry' \in [Inodes -> EntryType] BY IoErrorLocks DEF Fades
<1>3. DiskType' BY <1>0 DEF IoError, DiskType, TypeOK, bits, tree
<1>4. RestType' BY <1>0 DEF IoError, RestType, TypeOK, table, gate
<1> QED BY <1>1, <1>2, <1>3, <1>4, TypeStep

-----------------------------------------------------------------------------
(* The table, when a step leaves it alone *)

\* Begin_op lets a call in: the descriptor table stays sound.
LEMMA BeginTable ==
  ASSUME SafeInv, NEW t \in Threads, Begin(t)
  PROVE  TableInv'
<1>0. TypeOK /\ KindOK(t) /\ WalkOK(t) BY Own
<1>1. /\ Steps(t) /\ th'[t].kind = th[t].kind /\ th'[t].fd = th[t].fd /\ pc[t] # "install" /\ pc'[t] # "install"
  BY <1>0, BeginEffect DEF Becomes
<1>2. UNCHANGED table BY DEF Begin
<1> QED BY <1>1, <1>2, TableSame

\* A walk starts at the root: the descriptor table stays sound.
LEMMA WalkRootTable ==
  ASSUME SafeInv, NEW t \in Threads, WalkRoot(t)
  PROVE  TableInv'
<1>0. TypeOK /\ KindOK(t) /\ WalkOK(t) BY Own
<1>1. /\ Steps(t) /\ th'[t].kind = th[t].kind /\ th'[t].fd = th[t].fd /\ pc[t] # "install" /\ pc'[t] # "install"
  BY <1>0, WalkRootEffect DEF Becomes
<1>2. UNCHANGED table BY DEF WalkRoot
<1> QED BY <1>1, <1>2, TableSame

\* A walk locks what it has found: the descriptor table stays sound.
LEMMA WalkLockTable ==
  ASSUME SafeInv, NEW t \in Threads, WalkLock(t)
  PROVE  TableInv'
<1>0. TypeOK /\ KindOK(t) /\ WalkOK(t) BY Own
<1>1. /\ Steps(t) /\ th'[t].kind = th[t].kind /\ th'[t].fd = th[t].fd /\ pc[t] # "install" /\ pc'[t] # "install"
  BY <1>0, WalkLockEffect DEF Becomes
<1>2. UNCHANGED table BY DEF WalkLock
<1> QED BY <1>1, <1>2, TableSame

\* A walk looks a component up: the descriptor table stays sound.
LEMMA WalkNextTable ==
  ASSUME SafeInv, NEW t \in Threads, WalkNext(t)
  PROVE  TableInv'
<1>0. /\ TypeOK /\ KindOK(t) /\ WalkOK(t) /\ (th[t].cur # 0 => th[t].cur \in Inodes)
  BY Own
<1>e. /\ th[t].cur # 0 /\ th[t].path[th[t].depth + 1] \in Names
      /\ dirent[th[t].cur][th[t].path[th[t].depth + 1]] # 0 => dirent[th[t].cur][th[t].path[th[t].depth + 1]] # th[t].cur
  <2> pc[t] = "walk" BY DEF WalkNext
  <2>1. th[t].kind \in ByPath BY <1>0 DEF KindOK
  <2>2. th[t].cur # 0 /\ th[t].depth < Goal(t) BY <1>0, <2>1 DEF WalkOK, OnFd, Outside
  <2> QED BY <1>0, <2>1, <2>2, NameIn, Named1
<1>1. /\ Steps(t) /\ th'[t].kind = th[t].kind /\ th'[t].fd = th[t].fd /\ pc[t] # "install" /\ pc'[t] # "install"
  BY <1>0, <1>e, WalkNextEffect DEF Becomes
<1>2. UNCHANGED table BY DEF WalkNext
<1> QED BY <1>1, <1>2, TableSame

\* Open has reached the file's name: the descriptor table stays sound.
LEMMA AtOpenTable ==
  ASSUME SafeInv, NEW t \in Threads, AtOpen(t)
  PROVE  TableInv'
<1>0. TypeOK /\ KindOK(t) /\ WalkOK(t) BY Own
<1>1. /\ Steps(t) /\ th'[t].kind = th[t].kind /\ th'[t].fd = th[t].fd /\ pc[t] # "install" /\ pc'[t] # "install"
  BY <1>0, AtOpenEffect DEF Becomes
<1>2. UNCHANGED table BY DEF AtOpen
<1> QED BY <1>1, <1>2, TableSame

\* A call has found its last component: the descriptor table stays sound.
LEMMA AtChildTable ==
  ASSUME SafeInv, NEW t \in Threads, AtChild(t)
  PROVE  TableInv'
<1>0. /\ TypeOK /\ KindOK(t) /\ WalkOK(t) /\ (th[t].cur # 0 => th[t].cur \in Inodes)
  BY Own
<1>e. /\ th[t].cur # 0 /\ Name(t) \in Names /\ (Child(t) # 0 => Child(t) # th[t].cur)
      /\ th[t].kind \notin {"open", "stat"}
      /\ Suits(t) => th[t].kind \notin {"mkdir", "create_new"}
  <2> pc[t] = "at" /\ th[t].kind \notin {"open", "stat"} BY DEF AtChild
  <2>1. th[t].kind \in ByPath BY <1>0 DEF KindOK
  <2>2. th[t].cur # 0 BY <1>0, <2>1 DEF WalkOK, OnFd, Outside
  <2>3. CASE th[t].kind \in {"mkdir", "create_new"}
    <3>1. ~Suits(t) BY <2>3 DEF Suits
    <3> QED BY <1>0, <2>1, <2>2, <3>1, NameIn, Named1 DEF Child
  <2> QED BY <1>0, <2>1, <2>2, <2>3, NameIn, Named1 DEF Child
<1>1. /\ Steps(t) /\ th'[t].kind = th[t].kind /\ th'[t].fd = th[t].fd /\ pc[t] # "install" /\ pc'[t] # "install"
  BY <1>0, <1>e, AtChildEffect DEF Becomes
<1>2. UNCHANGED table BY DEF AtChild
<1> QED BY <1>1, <1>2, TableSame

\* A call finds no such name: the descriptor table stays sound.
LEMMA AtNoneTable ==
  ASSUME SafeInv, NEW t \in Threads, AtNone(t)
  PROVE  TableInv'
<1>0. TypeOK /\ KindOK(t) /\ WalkOK(t) BY Own
<1>1. /\ Steps(t) /\ th'[t].kind = th[t].kind /\ th'[t].fd = th[t].fd /\ pc[t] # "install" /\ pc'[t] # "install"
  BY <1>0, AtNoneEffect DEF Becomes
<1>2. UNCHANGED table BY DEF AtNone
<1> QED BY <1>1, <1>2, TableSame

\* The inode below the directory is locked: the descriptor table stays sound.
LEMMA LockKidTable ==
  ASSUME SafeInv, NEW t \in Threads, LockKid(t)
  PROVE  TableInv'
<1>0. TypeOK /\ KindOK(t) /\ WalkOK(t) BY Own
<1>1. /\ Steps(t) /\ th'[t].kind = th[t].kind /\ th'[t].fd = th[t].fd /\ pc[t] # "install" /\ pc'[t] # "install"
  BY <1>0, LockKidEffect DEF Becomes
<1>2. UNCHANGED table BY DEF LockKid
<1> QED BY <1>1, <1>2, TableSame

\* A file is counted open: the descriptor table stays sound.
LEMMA RegisterTable ==
  ASSUME SafeInv, NEW t \in Threads, Register(t)
  PROVE  TableInv'
<1>0. TypeOK /\ KindOK(t) /\ WalkOK(t) BY Own
<1>1. /\ Steps(t) /\ th'[t].kind = th[t].kind /\ th'[t].fd = th[t].fd /\ pc[t] # "install" /\ pc'[t] # "install"
  BY <1>0, RegisterEffect DEF Becomes
<1>2. UNCHANGED table BY DEF Register
<1> QED BY <1>1, <1>2, TableSame

\* Alloc_inode: the descriptor table stays sound.
LEMMA AllocInodeTable ==
  ASSUME SafeInv, NEW t \in Threads, AllocInode(t)
  PROVE  TableInv'
<1>0. /\ TypeOK /\ KindOK(t) /\ WalkOK(t) /\ (th[t].cur # 0 => th[t].cur \in Inodes)
  BY Own
<1>e. /\ th[t].cur # 0 /\ inode[th[t].cur].mode = "dir"
      /\ ibits # Inodes => Min(Inodes \ ibits) \in Inodes /\ Min(Inodes \ ibits) # th[t].cur /\ Min(Inodes \ ibits) # 0
  <2> pc[t] = "alloc_inode" BY DEF AllocInode
  <2>1. th[t].cur # 0 BY <1>0 DEF WalkOK, KindOK, OnFd, Outside
  <2>2. HeldOK(t) /\ ibits \in SUBSET Inodes BY <1>0 DEF SafeInv, ThereInv, TypeOK
  <2>3. th[t].cur \in ibits /\ inode[th[t].cur].mode = "dir" BY <2>1, <2>2 DEF HeldOK, IsDir
  <2>4. 0 \notin Inodes BY DEF Inodes
  <2> QED BY <2>1, <2>2, <2>3, <2>4, FreeIn
<1>1. /\ Steps(t) /\ th'[t].kind = th[t].kind /\ th'[t].fd = th[t].fd /\ pc[t] # "install" /\ pc'[t] # "install"
  BY <1>0, <1>e, AllocInodeEffect DEF Becomes
<1>2. UNCHANGED table BY DEF AllocInode
<1> QED BY <1>1, <1>2, TableSame

\* Mkdir takes a block for the new directory: the descriptor table stays sound.
LEMMA AllocBlockTable ==
  ASSUME SafeInv, NEW t \in Threads, AllocBlock(t)
  PROVE  TableInv'
<1>0. TypeOK /\ KindOK(t) /\ WalkOK(t) BY Own
<1>1. /\ Steps(t) /\ th'[t].kind = th[t].kind /\ th'[t].fd = th[t].fd /\ pc[t] # "install" /\ pc'[t] # "install"
  BY <1>0, AllocBlockEffect DEF Becomes
<1>2. UNCHANGED table BY DEF AllocBlock
<1> QED BY <1>1, <1>2, TableSame

\* Dir_add: the descriptor table stays sound.
LEMMA DirAddTable ==
  ASSUME SafeInv, NEW t \in Threads, DirAdd(t)
  PROVE  TableInv'
<1>0. TypeOK /\ KindOK(t) /\ WalkOK(t) BY Own
<1>1. /\ Steps(t) /\ th'[t].kind = th[t].kind /\ th'[t].fd = th[t].fd /\ pc[t] # "install" /\ pc'[t] # "install"
  BY <1>0, DirAddEffect DEF Becomes
<1>2. UNCHANGED table BY DEF DirAdd
<1> QED BY <1>1, <1>2, TableSame

\* Mkdir hands its block back: the descriptor table stays sound.
LEMMA UndoBlockTable ==
  ASSUME SafeInv, NEW t \in Threads, UndoBlock(t)
  PROVE  TableInv'
<1>0. TypeOK /\ KindOK(t) /\ WalkOK(t) BY Own
<1>1. /\ Steps(t) /\ th'[t].kind = th[t].kind /\ th'[t].fd = th[t].fd /\ pc[t] # "install" /\ pc'[t] # "install"
  BY <1>0, UndoBlockEffect DEF Becomes
<1>2. UNCHANGED table BY DEF UndoBlock
<1> QED BY <1>1, <1>2, TableSame

\* The inode that was taken is handed back: the descriptor table stays sound.
LEMMA UndoInodeTable ==
  ASSUME SafeInv, NEW t \in Threads, UndoInode(t)
  PROVE  TableInv'
<1>0. TypeOK /\ KindOK(t) /\ WalkOK(t) BY Own
<1>1. /\ Steps(t) /\ th'[t].kind = th[t].kind /\ th'[t].fd = th[t].fd /\ pc[t] # "install" /\ pc'[t] # "install"
  BY <1>0, UndoInodeEffect DEF Becomes
<1>2. UNCHANGED table BY DEF UndoInode
<1> QED BY <1>1, <1>2, TableSame

\* The new inode is written: the descriptor table stays sound.
LEMMA WriteNewTable ==
  ASSUME SafeInv, NEW t \in Threads, WriteNew(t)
  PROVE  TableInv'
<1>0. TypeOK /\ KindOK(t) /\ WalkOK(t) BY Own
<1>1. /\ Steps(t) /\ th'[t].kind = th[t].kind /\ th'[t].fd = th[t].fd /\ pc[t] # "install" /\ pc'[t] # "install"
  BY <1>0, WriteNewEffect DEF Becomes
<1>2. UNCHANGED table BY DEF WriteNew
<1> QED BY <1>1, <1>2, TableSame

\* The directory's inode is written: the descriptor table stays sound.
LEMMA WriteDirTable ==
  ASSUME SafeInv, NEW t \in Threads, WriteDir(t)
  PROVE  TableInv'
<1>0. TypeOK /\ KindOK(t) /\ WalkOK(t) BY Own
<1>1. /\ Steps(t) /\ th'[t].kind = th[t].kind /\ th'[t].fd = th[t].fd /\ pc[t] # "install" /\ pc'[t] # "install"
  BY <1>0, WriteDirEffect DEF Becomes
<1>2. UNCHANGED table BY DEF WriteDir
<1> QED BY <1>1, <1>2, TableSame

\* Unlink and rmdir check what they would remove: the descriptor table stays sound.
LEMMA CheckTable ==
  ASSUME SafeInv, NEW t \in Threads, Check(t)
  PROVE  TableInv'
<1>0. /\ TypeOK /\ KindOK(t) /\ WalkOK(t) /\ (th[t].cur # 0 => th[t].cur \in Inodes)
  BY Own
<1>e. th[t].cur # 0 /\ inode[th[t].cur].mode = "dir"
  <2> pc[t] = "check" BY DEF Check
  <2>1. th[t].cur # 0 BY <1>0 DEF WalkOK, KindOK, OnFd, Outside
  <2> QED BY <2>1 DEF SafeInv, ThereInv, HeldOK, Named, IsDir
<1>1. /\ Steps(t) /\ th'[t].kind = th[t].kind /\ th'[t].fd = th[t].fd /\ pc[t] # "install" /\ pc'[t] # "install"
  BY <1>0, <1>e, CheckEffect DEF Becomes
<1>2. UNCHANGED table BY DEF Check
<1> QED BY <1>1, <1>2, TableSame

\* Dir_remove: the descriptor table stays sound.
LEMMA DirRemoveTable ==
  ASSUME SafeInv, NEW t \in Threads, DirRemove(t)
  PROVE  TableInv'
<1>0. TypeOK /\ KindOK(t) /\ WalkOK(t) BY Own
<1>1. /\ Steps(t) /\ th'[t].kind = th[t].kind /\ th'[t].fd = th[t].fd /\ pc[t] # "install" /\ pc'[t] # "install"
  BY <1>0, DirRemoveEffect DEF Becomes
<1>2. UNCHANGED table BY DEF DirRemove
<1> QED BY <1>1, <1>2, TableSame

\* O_TRUNC looks at the file: the descriptor table stays sound.
LEMMA TruncateTable ==
  ASSUME SafeInv, NEW t \in Threads, Truncate(t)
  PROVE  TableInv'
<1>0. TypeOK /\ KindOK(t) /\ WalkOK(t) BY Own
<1>1. /\ Steps(t) /\ th'[t].kind = th[t].kind /\ th'[t].fd = th[t].fd /\ pc[t] # "install" /\ pc'[t] # "install"
  BY <1>0, TruncateEffect DEF Becomes
<1>2. UNCHANGED table BY DEF Truncate
<1> QED BY <1>1, <1>2, TableSame

\* Free_all_blocks: the descriptor table stays sound.
LEMMA FreeBlocksTable ==
  ASSUME SafeInv, NEW t \in Threads, FreeBlocks(t)
  PROVE  TableInv'
<1>0. TypeOK /\ KindOK(t) /\ WalkOK(t) BY Own
<1>1. /\ Steps(t) /\ th'[t].kind = th[t].kind /\ th'[t].fd = th[t].fd /\ pc[t] # "install" /\ pc'[t] # "install"
  BY <1>0, FreeBlocksEffect DEF Becomes
<1>2. UNCHANGED table BY DEF FreeBlocks
<1> QED BY <1>1, <1>2, TableSame

\* The emptied inode is written: the descriptor table stays sound.
LEMMA WriteFileTable ==
  ASSUME SafeInv, NEW t \in Threads, WriteFile(t)
  PROVE  TableInv'
<1>0. TypeOK /\ KindOK(t) /\ WalkOK(t) BY Own
<1>1. /\ Steps(t) /\ th'[t].kind = th[t].kind /\ th'[t].fd = th[t].fd /\ pc[t] # "install" /\ pc'[t] # "install"
  BY <1>0, WriteFileEffect DEF Becomes
<1>2. UNCHANGED table BY DEF WriteFile
<1> QED BY <1>1, <1>2, TableSame

\* The removed inode is cleared: the descriptor table stays sound.
LEMMA ClearInodeTable ==
  ASSUME SafeInv, NEW t \in Threads, ClearInode(t)
  PROVE  TableInv'
<1>0. TypeOK /\ KindOK(t) /\ WalkOK(t) BY Own
<1>1. /\ Steps(t) /\ th'[t].kind = th[t].kind /\ th'[t].fd = th[t].fd /\ pc[t] # "install" /\ pc'[t] # "install"
  BY <1>0, ClearInodeEffect DEF Becomes
<1>2. UNCHANGED table BY DEF ClearInode
<1> QED BY <1>1, <1>2, TableSame

\* Free_inode: the descriptor table stays sound.
LEMMA FreeInodeTable ==
  ASSUME SafeInv, NEW t \in Threads, FreeInode(t)
  PROVE  TableInv'
<1>0. TypeOK /\ KindOK(t) /\ WalkOK(t) BY Own
<1>1. /\ Steps(t) /\ th'[t].kind = th[t].kind /\ th'[t].fd = th[t].fd /\ pc[t] # "install" /\ pc'[t] # "install"
  BY <1>0, FreeInodeEffect DEF Becomes
<1>2. UNCHANGED table BY DEF FreeInode
<1> QED BY <1>1, <1>2, TableSame

\* Alloc_all takes one more block: the descriptor table stays sound.
LEMMA TakeTable ==
  ASSUME SafeInv, NEW t \in Threads, Take(t)
  PROVE  TableInv'
<1>0. TypeOK /\ KindOK(t) /\ WalkOK(t) BY Own
<1>1. /\ Steps(t) /\ th'[t].kind = th[t].kind /\ th'[t].fd = th[t].fd /\ pc[t] # "install" /\ pc'[t] # "install"
  <2>1. CASE pc'[t] = "give_back" /\ th' = th BY <1>0, <2>1, TakeEffect
  <2>2. CASE pc' = pc /\ Becomes(th[t], th'[t], th[t].depth, th[t].cur, th[t].kid, th[t].held,
                                 th[t].index, th[t].ino,
                                 Append(th[t].got, Min(Blocks \ bbits)), th[t].over)
    BY <1>0, <2>2, TakeEffect DEF Becomes
  <2>3. CASE pc'[t] \in Onward(t) /\ Bumped(t, <<>>, With(th[t].ino, Index(t), Append(th[t].got, Min(Blocks \ bbits))))
    BY <1>0, <2>3, TakeEffect DEF Becomes, Bumped, Onward
  <2> QED BY <1>0, <2>1, <2>2, <2>3, TakeEffect
<1>2. UNCHANGED table BY DEF Take
<1> QED BY <1>1, <1>2, TableSame

\* Alloc_all gives back what it had taken: the descriptor table stays sound.
LEMMA GiveBackTable ==
  ASSUME SafeInv, NEW t \in Threads, GiveBack(t)
  PROVE  TableInv'
<1>0. TypeOK /\ KindOK(t) /\ WalkOK(t) BY Own
<1>1. /\ Steps(t) /\ th'[t].kind = th[t].kind /\ th'[t].fd = th[t].fd /\ pc[t] # "install" /\ pc'[t] # "install"
  BY <1>0, GiveBackEffect DEF Becomes
<1>2. UNCHANGED table BY DEF GiveBack
<1> QED BY <1>1, <1>2, TableSame

\* The block is there already: the descriptor table stays sound.
LEMMA OverwriteTable ==
  ASSUME SafeInv, NEW t \in Threads, Overwrite(t)
  PROVE  TableInv'
<1>0. TypeOK /\ KindOK(t) /\ WalkOK(t) BY Own
<1>1. /\ Steps(t) /\ th'[t].kind = th[t].kind /\ th'[t].fd = th[t].fd /\ pc[t] # "install" /\ pc'[t] # "install"
  BY <1>0, OverwriteEffect DEF Becomes, Bumped, Onward
<1>2. UNCHANGED table BY DEF Overwrite
<1> QED BY <1>1, <1>2, TableSame

\* A call on a descriptor locks its file: the descriptor table stays sound.
LEMMA LockFileTable ==
  ASSUME SafeInv, NEW t \in Threads, LockFile(t)
  PROVE  TableInv'
<1>0. /\ TypeOK /\ KindOK(t) /\ WalkOK(t) /\ (th[t].cur # 0 => th[t].cur \in Inodes)
  BY Own
<1>e. files[th[t].fd] \in Inodes
  <2> pc[t] = "lock_file" BY DEF LockFile
  <2>1. files \in [Fds -> 0..NInodes] BY <1>0 DEF TypeOK
  <2>2. OnFd(t) BY <1>0 DEF KindOK, OnFd
  <2>3. th[t].fd \in Fds /\ files[th[t].fd] # 0 BY <1>0, <2>2 DEF WalkOK, SafeInv, TableInv
  <2> QED BY <2>1, <2>3 DEF Inodes
<1>1. /\ Steps(t) /\ th'[t].kind = th[t].kind /\ th'[t].fd = th[t].fd /\ pc[t] # "install" /\ pc'[t] # "install"
  BY <1>0, <1>e, LockFileEffect DEF Becomes
<1>2. UNCHANGED table BY DEF LockFile
<1> QED BY <1>1, <1>2, TableSame

\* Write_inode after a chunk: the descriptor table stays sound.
LEMMA StoreTable ==
  ASSUME SafeInv, NEW t \in Threads, Store(t)
  PROVE  TableInv'
<1>0. TypeOK /\ KindOK(t) /\ WalkOK(t) BY Own
<1>1. /\ Steps(t) /\ th'[t].kind = th[t].kind /\ th'[t].fd = th[t].fd /\ pc[t] # "install" /\ pc'[t] # "install"
  BY <1>0, StoreEffect DEF Becomes
<1>2. UNCHANGED table BY DEF Store
<1> QED BY <1>1, <1>2, TableSame

\* Vfs_fsync waits for a commit: the descriptor table stays sound.
LEMMA FsyncTable ==
  ASSUME SafeInv, NEW t \in Threads, Fsync(t)
  PROVE  TableInv'
<1>0. TypeOK /\ KindOK(t) /\ WalkOK(t) BY Own
<1>1. /\ Steps(t) /\ th'[t].kind = th[t].kind /\ th'[t].fd = th[t].fd /\ pc[t] # "install" /\ pc'[t] # "install"
  BY <1>0, FsyncEffect DEF Becomes
<1>2. UNCHANGED table BY DEF Fsync
<1> QED BY <1>1, <1>2, TableSame

\* A block cannot be read and the step throws: the descriptor table stays sound.
LEMMA IoErrorTable ==
  ASSUME SafeInv, NEW t \in Threads, IoError(t)
  PROVE  TableInv'
<1>0. TypeOK /\ KindOK(t) /\ WalkOK(t) BY Own
<1>1. /\ Steps(t) /\ th'[t].kind = th[t].kind /\ th'[t].fd = th[t].fd /\ pc[t] # "install" /\ pc'[t] # "install"
  BY <1>0, IoErrorEffect DEF Becomes, IoError, Reads
<1>2. UNCHANGED table BY DEF IoError
<1> QED BY <1>1, <1>2, TableSame

-----------------------------------------------------------------------------
(* Every step keeps the invariant *)

\* A step that keeps the parts keeps the invariant.
LEMMA SafeStep ==
  ASSUME TypeOK', ShapeInv', TableInv', LockInv', EntriesCounted', Data'
  PROVE  SafeInv'
  BY DEF SafeInv, Data

\* Begin_op lets a call in: the step keeps SafeInv.
LEMMA BeginSafe ==
  ASSUME SafeInv, NEW t \in Threads, Begin(t)
  PROVE  SafeInv'
<1>1. TypeOK' BY BeginType
<1>2. ShapeInv' BY BeginShape, ShapeStep
<1>3. TableInv' BY BeginTable
<1>4. LockInv' /\ EntriesCounted' BY BeginLocks
<1>5. Data' BY BeginData
<1> QED BY <1>1, <1>2, <1>3, <1>4, <1>5, SafeStep

\* A walk starts at the root: the step keeps SafeInv.
LEMMA WalkRootSafe ==
  ASSUME SafeInv, NEW t \in Threads, WalkRoot(t)
  PROVE  SafeInv'
<1>1. TypeOK' BY WalkRootType
<1>2. ShapeInv' BY WalkRootShape, ShapeStep
<1>3. TableInv' BY WalkRootTable
<1>4. LockInv' /\ EntriesCounted' BY WalkRootLocks
<1>5. Data' BY WalkRootData
<1> QED BY <1>1, <1>2, <1>3, <1>4, <1>5, SafeStep

\* A walk locks what it has found: the step keeps SafeInv.
LEMMA WalkLockSafe ==
  ASSUME SafeInv, NEW t \in Threads, WalkLock(t)
  PROVE  SafeInv'
<1>1. TypeOK' BY WalkLockType
<1>2. ShapeInv' BY WalkLockShape, ShapeStep
<1>3. TableInv' BY WalkLockTable
<1>4. LockInv' /\ EntriesCounted' BY WalkLockLocks
<1>5. Data' BY WalkLockData
<1> QED BY <1>1, <1>2, <1>3, <1>4, <1>5, SafeStep

\* A walk looks a component up: the step keeps SafeInv.
LEMMA WalkNextSafe ==
  ASSUME SafeInv, NEW t \in Threads, WalkNext(t)
  PROVE  SafeInv'
<1>1. TypeOK' BY WalkNextType
<1>2. ShapeInv' BY WalkNextShape, ShapeStep
<1>3. TableInv' BY WalkNextTable
<1>4. LockInv' /\ EntriesCounted' BY WalkNextLocks
<1>5. Data' BY WalkNextData
<1> QED BY <1>1, <1>2, <1>3, <1>4, <1>5, SafeStep

\* Open has reached the file's name: the step keeps SafeInv.
LEMMA AtOpenSafe ==
  ASSUME SafeInv, NEW t \in Threads, AtOpen(t)
  PROVE  SafeInv'
<1>1. TypeOK' BY AtOpenType
<1>2. ShapeInv' BY AtOpenShape, ShapeStep
<1>3. TableInv' BY AtOpenTable
<1>4. LockInv' /\ EntriesCounted' BY AtOpenLocks
<1>5. Data' BY AtOpenData
<1> QED BY <1>1, <1>2, <1>3, <1>4, <1>5, SafeStep

\* A call has found its last component: the step keeps SafeInv.
LEMMA AtChildSafe ==
  ASSUME SafeInv, NEW t \in Threads, AtChild(t)
  PROVE  SafeInv'
<1>1. TypeOK' BY AtChildType
<1>2. ShapeInv' BY AtChildShape, ShapeStep
<1>3. TableInv' BY AtChildTable
<1>4. LockInv' /\ EntriesCounted' BY AtChildLocks
<1>5. Data' BY AtChildData
<1> QED BY <1>1, <1>2, <1>3, <1>4, <1>5, SafeStep

\* A call finds no such name: the step keeps SafeInv.
LEMMA AtNoneSafe ==
  ASSUME SafeInv, NEW t \in Threads, AtNone(t)
  PROVE  SafeInv'
<1>1. TypeOK' BY AtNoneType
<1>2. ShapeInv' BY AtNoneShape, ShapeStep
<1>3. TableInv' BY AtNoneTable
<1>4. LockInv' /\ EntriesCounted' BY AtNoneLocks
<1>5. Data' BY AtNoneData
<1> QED BY <1>1, <1>2, <1>3, <1>4, <1>5, SafeStep

\* The inode below the directory is locked: the step keeps SafeInv.
LEMMA LockKidSafe ==
  ASSUME SafeInv, NEW t \in Threads, LockKid(t)
  PROVE  SafeInv'
<1>1. TypeOK' BY LockKidType
<1>2. ShapeInv' BY LockKidShape, ShapeStep
<1>3. TableInv' BY LockKidTable
<1>4. LockInv' /\ EntriesCounted' BY LockKidLocks
<1>5. Data' BY LockKidData
<1> QED BY <1>1, <1>2, <1>3, <1>4, <1>5, SafeStep

\* A file is counted open: the step keeps SafeInv.
LEMMA RegisterSafe ==
  ASSUME SafeInv, NEW t \in Threads, Register(t)
  PROVE  SafeInv'
<1>1. TypeOK' BY RegisterType
<1>2. ShapeInv' BY RegisterShape, ShapeStep
<1>3. TableInv' BY RegisterTable
<1>4. LockInv' /\ EntriesCounted' BY RegisterLocks
<1>5. Data' BY RegisterData
<1> QED BY <1>1, <1>2, <1>3, <1>4, <1>5, SafeStep

\* Alloc_inode: the step keeps SafeInv.
LEMMA AllocInodeSafe ==
  ASSUME SafeInv, NEW t \in Threads, AllocInode(t)
  PROVE  SafeInv'
<1>1. TypeOK' BY AllocInodeType
<1>2. ShapeInv' BY AllocInodeShape, ShapeStep
<1>3. TableInv' BY AllocInodeTable
<1>4. LockInv' /\ EntriesCounted' BY AllocInodeLocks
<1>5. Data' BY AllocInodeData
<1> QED BY <1>1, <1>2, <1>3, <1>4, <1>5, SafeStep

\* Mkdir takes a block for the new directory: the step keeps SafeInv.
LEMMA AllocBlockSafe ==
  ASSUME SafeInv, NEW t \in Threads, AllocBlock(t)
  PROVE  SafeInv'
<1>1. TypeOK' BY AllocBlockType
<1>2. ShapeInv' BY AllocBlockShape, ShapeStep
<1>3. TableInv' BY AllocBlockTable
<1>4. LockInv' /\ EntriesCounted' BY AllocBlockLocks
<1>5. Data' BY AllocBlockData
<1> QED BY <1>1, <1>2, <1>3, <1>4, <1>5, SafeStep

\* Dir_add: the step keeps SafeInv.
LEMMA DirAddSafe ==
  ASSUME SafeInv, NEW t \in Threads, DirAdd(t)
  PROVE  SafeInv'
<1>1. TypeOK' BY DirAddType
<1>2. ShapeInv' BY DirAddShape, ShapeStep
<1>3. TableInv' BY DirAddTable
<1>4. LockInv' /\ EntriesCounted' BY DirAddLocks
<1>5. Data' BY DirAddData
<1> QED BY <1>1, <1>2, <1>3, <1>4, <1>5, SafeStep

\* Mkdir hands its block back: the step keeps SafeInv.
LEMMA UndoBlockSafe ==
  ASSUME SafeInv, NEW t \in Threads, UndoBlock(t)
  PROVE  SafeInv'
<1>1. TypeOK' BY UndoBlockType
<1>2. ShapeInv' BY UndoBlockShape, ShapeStep
<1>3. TableInv' BY UndoBlockTable
<1>4. LockInv' /\ EntriesCounted' BY UndoBlockLocks
<1>5. Data' BY UndoBlockData
<1> QED BY <1>1, <1>2, <1>3, <1>4, <1>5, SafeStep

\* The inode that was taken is handed back: the step keeps SafeInv.
LEMMA UndoInodeSafe ==
  ASSUME SafeInv, NEW t \in Threads, UndoInode(t)
  PROVE  SafeInv'
<1>1. TypeOK' BY UndoInodeType
<1>2. ShapeInv' BY UndoInodeShape, ShapeStep
<1>3. TableInv' BY UndoInodeTable
<1>4. LockInv' /\ EntriesCounted' BY UndoInodeLocks
<1>5. Data' BY UndoInodeData
<1> QED BY <1>1, <1>2, <1>3, <1>4, <1>5, SafeStep

\* The new inode is written: the step keeps SafeInv.
LEMMA WriteNewSafe ==
  ASSUME SafeInv, NEW t \in Threads, WriteNew(t)
  PROVE  SafeInv'
<1>1. TypeOK' BY WriteNewType
<1>2. ShapeInv' BY WriteNewShape, ShapeStep
<1>3. TableInv' BY WriteNewTable
<1>4. LockInv' /\ EntriesCounted' BY WriteNewLocks
<1>5. Data' BY WriteNewData
<1> QED BY <1>1, <1>2, <1>3, <1>4, <1>5, SafeStep

\* The directory's inode is written: the step keeps SafeInv.
LEMMA WriteDirSafe ==
  ASSUME SafeInv, NEW t \in Threads, WriteDir(t)
  PROVE  SafeInv'
<1>1. TypeOK' BY WriteDirType
<1>2. ShapeInv' BY WriteDirShape, ShapeStep
<1>3. TableInv' BY WriteDirTable
<1>4. LockInv' /\ EntriesCounted' BY WriteDirLocks
<1>5. Data' BY WriteDirData
<1> QED BY <1>1, <1>2, <1>3, <1>4, <1>5, SafeStep

\* Unlink and rmdir check what they would remove: the step keeps SafeInv.
LEMMA CheckSafe ==
  ASSUME SafeInv, NEW t \in Threads, Check(t)
  PROVE  SafeInv'
<1>1. TypeOK' BY CheckType
<1>2. ShapeInv' BY CheckShape, ShapeStep
<1>3. TableInv' BY CheckTable
<1>4. LockInv' /\ EntriesCounted' BY CheckLocks
<1>5. Data' BY CheckData
<1> QED BY <1>1, <1>2, <1>3, <1>4, <1>5, SafeStep

\* Dir_remove: the step keeps SafeInv.
LEMMA DirRemoveSafe ==
  ASSUME SafeInv, NEW t \in Threads, DirRemove(t)
  PROVE  SafeInv'
<1>1. TypeOK' BY DirRemoveType
<1>2. ShapeInv' BY DirRemoveShape, ShapeStep
<1>3. TableInv' BY DirRemoveTable
<1>4. LockInv' /\ EntriesCounted' BY DirRemoveLocks
<1>5. Data' BY DirRemoveData
<1> QED BY <1>1, <1>2, <1>3, <1>4, <1>5, SafeStep

\* O_TRUNC looks at the file: the step keeps SafeInv.
LEMMA TruncateSafe ==
  ASSUME SafeInv, NEW t \in Threads, Truncate(t)
  PROVE  SafeInv'
<1>1. TypeOK' BY TruncateType
<1>2. ShapeInv' BY TruncateShape, ShapeStep
<1>3. TableInv' BY TruncateTable
<1>4. LockInv' /\ EntriesCounted' BY TruncateLocks
<1>5. Data' BY TruncateData
<1> QED BY <1>1, <1>2, <1>3, <1>4, <1>5, SafeStep

\* Free_all_blocks: the step keeps SafeInv.
LEMMA FreeBlocksSafe ==
  ASSUME SafeInv, NEW t \in Threads, FreeBlocks(t)
  PROVE  SafeInv'
<1>1. TypeOK' BY FreeBlocksType
<1>2. ShapeInv' BY FreeBlocksShape, ShapeStep
<1>3. TableInv' BY FreeBlocksTable
<1>4. LockInv' /\ EntriesCounted' BY FreeBlocksLocks
<1>5. Data' BY FreeBlocksData
<1> QED BY <1>1, <1>2, <1>3, <1>4, <1>5, SafeStep

\* The emptied inode is written: the step keeps SafeInv.
LEMMA WriteFileSafe ==
  ASSUME SafeInv, NEW t \in Threads, WriteFile(t)
  PROVE  SafeInv'
<1>1. TypeOK' BY WriteFileType
<1>2. ShapeInv' BY WriteFileShape, ShapeStep
<1>3. TableInv' BY WriteFileTable
<1>4. LockInv' /\ EntriesCounted' BY WriteFileLocks
<1>5. Data' BY WriteFileData
<1> QED BY <1>1, <1>2, <1>3, <1>4, <1>5, SafeStep

\* The removed inode is cleared: the step keeps SafeInv.
LEMMA ClearInodeSafe ==
  ASSUME SafeInv, NEW t \in Threads, ClearInode(t)
  PROVE  SafeInv'
<1>1. TypeOK' BY ClearInodeType
<1>2. ShapeInv' BY ClearInodeShape, ShapeStep
<1>3. TableInv' BY ClearInodeTable
<1>4. LockInv' /\ EntriesCounted' BY ClearInodeLocks
<1>5. Data' BY ClearInodeData
<1> QED BY <1>1, <1>2, <1>3, <1>4, <1>5, SafeStep

\* Free_inode: the step keeps SafeInv.
LEMMA FreeInodeSafe ==
  ASSUME SafeInv, NEW t \in Threads, FreeInode(t)
  PROVE  SafeInv'
<1>1. TypeOK' BY FreeInodeType
<1>2. ShapeInv' BY FreeInodeShape, ShapeStep
<1>3. TableInv' BY FreeInodeTable
<1>4. LockInv' /\ EntriesCounted' BY FreeInodeLocks
<1>5. Data' BY FreeInodeData
<1> QED BY <1>1, <1>2, <1>3, <1>4, <1>5, SafeStep

\* Alloc_all takes one more block: the step keeps SafeInv.
LEMMA TakeSafe ==
  ASSUME SafeInv, NEW t \in Threads, Take(t)
  PROVE  SafeInv'
<1>1. TypeOK' BY TakeType
<1>2. ShapeInv' BY TakeShape, ShapeStep
<1>3. TableInv' BY TakeTable
<1>4. LockInv' /\ EntriesCounted' BY TakeLocks
<1>5. Data' BY TakeData
<1> QED BY <1>1, <1>2, <1>3, <1>4, <1>5, SafeStep

\* Alloc_all gives back what it had taken: the step keeps SafeInv.
LEMMA GiveBackSafe ==
  ASSUME SafeInv, NEW t \in Threads, GiveBack(t)
  PROVE  SafeInv'
<1>1. TypeOK' BY GiveBackType
<1>2. ShapeInv' BY GiveBackShape, ShapeStep
<1>3. TableInv' BY GiveBackTable
<1>4. LockInv' /\ EntriesCounted' BY GiveBackLocks
<1>5. Data' BY GiveBackData
<1> QED BY <1>1, <1>2, <1>3, <1>4, <1>5, SafeStep

\* The block is there already: the step keeps SafeInv.
LEMMA OverwriteSafe ==
  ASSUME SafeInv, NEW t \in Threads, Overwrite(t)
  PROVE  SafeInv'
<1>1. TypeOK' BY OverwriteType
<1>2. ShapeInv' BY OverwriteShape, ShapeStep
<1>3. TableInv' BY OverwriteTable
<1>4. LockInv' /\ EntriesCounted' BY OverwriteLocks
<1>5. Data' BY OverwriteData
<1> QED BY <1>1, <1>2, <1>3, <1>4, <1>5, SafeStep

\* A call on a descriptor locks its file: the step keeps SafeInv.
LEMMA LockFileSafe ==
  ASSUME SafeInv, NEW t \in Threads, LockFile(t)
  PROVE  SafeInv'
<1>1. TypeOK' BY LockFileType
<1>2. ShapeInv' BY LockFileShape, ShapeStep
<1>3. TableInv' BY LockFileTable
<1>4. LockInv' /\ EntriesCounted' BY LockFileLocks
<1>5. Data' BY LockFileData
<1> QED BY <1>1, <1>2, <1>3, <1>4, <1>5, SafeStep

\* Write_inode after a chunk: the step keeps SafeInv.
LEMMA StoreSafe ==
  ASSUME SafeInv, NEW t \in Threads, Store(t)
  PROVE  SafeInv'
<1>1. TypeOK' BY StoreType
<1>2. ShapeInv' BY StoreShape, ShapeStep
<1>3. TableInv' BY StoreTable
<1>4. LockInv' /\ EntriesCounted' BY StoreLocks
<1>5. Data' BY StoreData
<1> QED BY <1>1, <1>2, <1>3, <1>4, <1>5, SafeStep

\* The file is unlocked: the step keeps SafeInv.
LEMMA UnlockFileSafe ==
  ASSUME SafeInv, NEW t \in Threads, UnlockFile(t)
  PROVE  SafeInv'
<1>1. TypeOK' BY UnlockFileType
<1>2. ShapeInv' BY UnlockFileShape, ShapeStep
<1>3. TableInv' BY UnlockFileTable
<1>4. LockInv' /\ EntriesCounted' BY UnlockFileLocks
<1>5. Data' BY UnlockFileData
<1> QED BY <1>1, <1>2, <1>3, <1>4, <1>5, SafeStep

\* Vfs_close drops the file: the step keeps SafeInv.
LEMMA CloseSafe ==
  ASSUME SafeInv, NEW t \in Threads, Close(t)
  PROVE  SafeInv'
<1>1. TypeOK' BY CloseType
<1>2. ShapeInv' BY CloseShape, ShapeStep
<1>3. TableInv' BY CloseTable
<1>4. LockInv' /\ EntriesCounted' BY CloseLocks
<1>5. Data' BY CloseData
<1> QED BY <1>1, <1>2, <1>3, <1>4, <1>5, SafeStep

\* A call leaves its locks: the step keeps SafeInv.
LEMMA ExitSafe ==
  ASSUME SafeInv, NEW t \in Threads, Exit(t)
  PROVE  SafeInv'
<1>1. TypeOK' BY ExitType
<1>2. ShapeInv' BY ExitShape, ShapeStep
<1>3. TableInv' BY ExitTable
<1>4. LockInv' /\ EntriesCounted' BY ExitLocks
<1>5. Data' BY ExitData
<1> QED BY <1>1, <1>2, <1>3, <1>4, <1>5, SafeStep

\* The open file enters the table: the step keeps SafeInv.
LEMMA InstallSafe ==
  ASSUME SafeInv, NEW t \in Threads, Install(t)
  PROVE  SafeInv'
<1>1. TypeOK' BY InstallType
<1>2. ShapeInv' BY InstallShape, ShapeStep
<1>3. TableInv' BY InstallTable
<1>4. LockInv' /\ EntriesCounted' BY InstallLocks
<1>5. Data' BY InstallData
<1> QED BY <1>1, <1>2, <1>3, <1>4, <1>5, SafeStep

\* A call with a path begins: the step keeps SafeInv.
LEMMA CallPathSafe ==
  ASSUME SafeInv, NEW t \in Threads, CallPath(t)
  PROVE  SafeInv'
<1>1. TypeOK' BY CallPathType
<1>2. ShapeInv' BY CallPathShape, ShapeStep
<1>3. TableInv' BY CallPathTable
<1>4. LockInv' /\ EntriesCounted' BY CallPathLocks
<1>5. Data' BY CallPathData
<1> QED BY <1>1, <1>2, <1>3, <1>4, <1>5, SafeStep

\* A call on a descriptor begins: the step keeps SafeInv.
LEMMA CallFdSafe ==
  ASSUME SafeInv, NEW t \in Threads, CallFd(t)
  PROVE  SafeInv'
<1>1. TypeOK' BY CallFdType
<1>2. ShapeInv' BY CallFdShape, ShapeStep
<1>3. TableInv' BY CallFdTable
<1>4. LockInv' /\ EntriesCounted' BY CallFdLocks
<1>5. Data' BY CallFdData
<1> QED BY <1>1, <1>2, <1>3, <1>4, <1>5, SafeStep

\* Vfs_fsync waits for a commit: the step keeps SafeInv.
LEMMA FsyncSafe ==
  ASSUME SafeInv, NEW t \in Threads, Fsync(t)
  PROVE  SafeInv'
<1>1. TypeOK' BY FsyncType
<1>2. ShapeInv' BY FsyncShape, ShapeStep
<1>3. TableInv' BY FsyncTable
<1>4. LockInv' /\ EntriesCounted' BY FsyncLocks
<1>5. Data' BY FsyncData
<1> QED BY <1>1, <1>2, <1>3, <1>4, <1>5, SafeStep

\* A block cannot be read and the step throws: the step keeps SafeInv.
LEMMA IoErrorSafe ==
  ASSUME SafeInv, NEW t \in Threads, IoError(t)
  PROVE  SafeInv'
<1>1. TypeOK' BY IoErrorType
<1>2. ShapeInv' BY IoErrorShape, ShapeStep
<1>3. TableInv' BY IoErrorTable
<1>4. LockInv' /\ EntriesCounted' BY IoErrorLocks
<1>5. Data' BY IoErrorData
<1> QED BY <1>1, <1>2, <1>3, <1>4, <1>5, SafeStep

\* Nothing changes but that threads that wait for a commit may be told of one.
LEMMA WakeSafe ==
  ASSUME SafeInv, pc' \in [Threads -> Labels], closed' \in BOOLEAN,
         \A t \in Threads : pc'[t] = pc[t] \/ (pc[t] = "sync" /\ pc'[t] = "idle"),
         UNCHANGED <<ibits, bbits, inode, dirent, dotdot, entry, files, in_use, op, running, th, calls>>
  PROVE  SafeInv'
<1>0. /\ TypeOK /\ ibits' = ibits /\ bbits' = bbits /\ inode' = inode /\ dirent' = dirent /\ dotdot' = dotdot /\ entry' = entry
      /\ files' = files /\ in_use' = in_use /\ op' = op /\ running' = running /\ th' = th /\ calls' = calls
  BY DEF SafeInv
<1>1. \A t \in Threads : pc'[t] = pc[t] \/ (pc[t] = "sync" /\ pc'[t] = "idle") OBVIOUS
<1>2. TypeOK' BY <1>0 DEF TypeOK
<1>3. \A t \in Threads : /\ Goal(t)' = Goal(t) /\ Name(t)' = Name(t) /\ Child(t)' = Child(t) /\ Index(t)' = Index(t)
                         /\ (OnFd(t)' <=> OnFd(t)) /\ (Reserving(t)' <=> Reserving(t))
  BY <1>0, <1>1 DEF Goal, Name, Child, Index, OnFd, Reserving
<1>4. \A t \in Threads : /\ Making(t)' <=> Making(t)
                         /\ Writing(t)' <=> Writing(t)
                         /\ Removed(t)' <=> Removed(t)
                         /\ Removing(t)' <=> Removing(t)
                         /\ Emptying(t)' <=> Emptying(t)
                         /\ Named(t)' <=> Named(t)
                         /\ Opening(t)' <=> Opening(t)
  BY <1>0, <1>1 DEF Making, Writing, Removed, Removing, Emptying, Named, Opening
<1>5. Opened' = Opened BY <1>0, <1>1 DEF Opened
<1>6. ShapeInv'
  <2> SUFFICES ASSUME NEW t \in Threads
               PROVE KindOK(t)' /\ WalkOK(t)' /\ KidOK(t)' /\ IndexOK(t)' /\ InoOK(t)'
    BY DEF ShapeInv
  <2>0. /\ KindOK(t) /\ WalkOK(t) /\ KidOK(t) /\ IndexOK(t) /\ InoOK(t) BY Own
  <2>1. KindOK(t)' BY <1>0, <1>1, <2>0 DEF KindOK
  <2>2. WalkOK(t)' BY <1>0, <1>1, <1>3, <2>0 DEF WalkOK, Outside
  <2>3. KidOK(t)' BY <1>0, <1>1, <1>3, <1>4, <2>0 DEF KidOK, Outside
  <2>4. IndexOK(t)' BY <1>0, <1>1, <1>4, <2>0 DEF IndexOK
  <2>5. InoOK(t)' BY <1>0, <1>1, <1>3, <1>4, <2>0 DEF InoOK
  <2> QED BY <2>1, <2>2, <2>3, <2>4, <2>5
<1>7. TableInv'
  <2>1. TableInv BY DEF SafeInv
  <2>2. \A fd \in Fds : op[fd] # NoThread => op[fd] \in Threads BY <1>0 DEF TypeOK
  <2> QED BY <1>0, <1>3, <2>1, <2>2 DEF TableInv
<1>8. LockInv'
  <2>1. \A t \in Threads : (CurX(t)' <=> CurX(t)) /\ (KidX(t)' <=> KidX(t))
    BY <1>0, <1>1, <1>3 DEF CurX, KidX
  <2>2. \A t \in Threads, i \in Inodes : HasFile(t, i)' <=> HasFile(t, i)
    BY <1>0, <1>1, <1>4 DEF HasFile
  <2>3. \A t \in Threads, i \in Inodes : (HasX(t, i)' <=> HasX(t, i)) /\ (HasS(t, i)' <=> HasS(t, i))
    BY <1>0, <2>1, <2>2 DEF HasX, HasS
  <2>4. LockInv BY DEF SafeInv
  <2> QED BY <1>0, <2>3, <2>4 DEF LockInv
<1>9. EntriesCounted'
  <2>1. \A i \in Inodes : At(i)' = At(i) /\ Below(i)' = Below(i) /\ Openers(i)' = Openers(i)
    BY <1>0, <1>1, <1>4 DEF At, Below, Openers
  <2>2. EntriesCounted BY DEF SafeInv
  <2> QED BY <1>0, <1>5, <2>1, <2>2 DEF EntriesCounted
<1>10. Data'
  <2>0. NameInv /\ ThereInv /\ OpenInv /\ CopyInv /\ CacheCoherent BY DEF SafeInv
  <2>1. NameInv' BY <1>0, <2>0 DEF NameInv
  <2>2. ThereInv'
    <3> SUFFICES ASSUME NEW t \in Threads PROVE MakeOK(t)' /\ HeldOK(t)' BY DEF ThereInv
    <3>0. MakeOK(t) /\ HeldOK(t) BY <2>0 DEF ThereInv
    <3>1. \A i : (Unnamed(i)' <=> Unnamed(i)) /\ (IsDir(i)' <=> IsDir(i)) BY <1>0 DEF Unnamed, IsDir
    <3>2. MakeOK(t)' BY <1>0, <1>1, <1>3, <1>4, <1>5, <3>0, <3>1 DEF MakeOK
    <3>3. HeldOK(t)' BY <1>0, <1>1, <1>3, <1>4, <1>5, <3>0, <3>1 DEF HeldOK
    <3> QED BY <3>2, <3>3
  <2>3. OpenInv' BY <1>0, <1>4, <1>5, <2>0 DEF OpenInv, IsDir
  <2>4. CopyInv' BY <1>0, <1>4, <2>0 DEF CopyInv, IsDir
  <2>5. CacheCoherent' BY <1>0, <2>0 DEF CacheCoherent
  <2> QED BY <2>1, <2>2, <2>3, <2>4, <2>5 DEF Data
<1> QED BY <1>2, <1>6, <1>7, <1>8, <1>9, <1>10, SafeStep

\* A commit wakes those that waited for it.
LEMMA CommitSafe ==
  ASSUME SafeInv, Commit
  PROVE  SafeInv'
<1>1. pc' = [t \in Threads |-> IF pc[t] = "sync" THEN "idle" ELSE pc[t]] /\ closed' \in BOOLEAN /\ pc \in [Threads -> Labels]
  BY DEF Commit, SafeInv, TypeOK
<1>2. pc' \in [Threads -> Labels] BY <1>1 DEF Labels
<1>3. \A t \in Threads : pc'[t] = pc[t] \/ (pc[t] = "sync" /\ pc'[t] = "idle") BY <1>1
<1>4. UNCHANGED <<ibits, bbits, inode, dirent, dotdot, entry, files, in_use, op, running, th, calls>>
  BY DEF Commit, bits, tree, table
<1> QED BY <1>1, <1>2, <1>3, <1>4, WakeSafe

\* Nothing changes.
LEMMA StutterSafe ==
  ASSUME SafeInv, UNCHANGED vars
  PROVE  SafeInv'
<1>1. pc' = pc /\ closed' = closed /\ pc \in [Threads -> Labels] /\ closed \in BOOLEAN
  BY DEF vars, gate, SafeInv, TypeOK
<1>2. UNCHANGED <<ibits, bbits, inode, dirent, dotdot, entry, files, in_use, op, running, th, calls>>
  BY DEF vars, bits, tree, table, gate
<1> QED BY <1>1, <1>2, WakeSafe

-----------------------------------------------------------------------------
(* The theorems *)

\* What mkfs leaves, with nobody calling.
LEMMA InitSafe ==
  ASSUME Init
  PROVE  SafeInv
<1>0. Root \in Inodes /\ 1 \in Blocks /\ 0 \notin Inodes /\ 0 \notin Fds
  BY DEF Root, Inodes, Blocks, Fds
<1>1. TypeOK
  <2>1. inode \in [Inodes -> InodeType] BY <1>0, NewTypes, NoInodeType DEF Init
  <2>2. Empty \in [Names -> 0..NInodes] BY DEF Empty
  <2>3. dirent \in [Inodes -> [Names -> 0..NInodes]] BY <2>2 DEF Init
  <2>4. Root \in 0..NInodes /\ 0 \in 0..NInodes BY DEF Root
  <2>5. dotdot \in [Inodes -> 0..NInodes] BY <2>4 DEF Init
  <2>6. entry \in [Inodes -> EntryType] BY NoEntryType DEF Init
  <2>7. files \in [Fds -> 0..NInodes] /\ in_use \subseteq Fds /\ op \in [Fds -> Threads \cup {NoThread}]
    BY <2>4 DEF Init
  <2>8. pc \in [Threads -> Labels] BY DEF Init, Labels
  <2>9. th \in [Threads -> Locals] BY IdleType DEF Init
  <2>10. calls \in 0..MaxCalls BY DEF Init
  <2> QED BY <1>0, <2>1, <2>3, <2>5, <2>6, <2>7, <2>8, <2>9, <2>10 DEF Init, TypeOK
<1>2. \A t \in Threads : /\ pc[t] = "idle" /\ th[t] = Idle /\ th[t].kind = "stat" /\ th[t].cur = 0 /\ th[t].kid = 0
                         /\ th[t].held = FALSE /\ th[t].index = 0 /\ th[t].got = <<>> /\ ~OnFd(t) /\ ~Reserving(t)
  BY IdleType DEF Init, OnFd, Reserving
<1>3. \A t \in Threads : /\ ~Making(t) /\ ~Writing(t) /\ ~Removed(t) /\ ~Removing(t) /\ ~Emptying(t) /\ ~Named(t)
                         /\ ~Opening(t)
  BY <1>2 DEF Making, Writing, Removed, Removing, Emptying, Named, Opening
<1>4. Opened = {} /\ \A fd \in Fds : files[fd] = 0 BY DEF Init, Opened
<1>5. \A d \in Inodes, n \in Names : dirent[d][n] = 0 BY DEF Init, Empty
<1>6. ShapeInv
  <2> SUFFICES ASSUME NEW t \in Threads
               PROVE KindOK(t) /\ WalkOK(t) /\ KidOK(t) /\ IndexOK(t) /\ InoOK(t)
    BY DEF ShapeInv
  <2>1. KindOK(t) BY <1>2 DEF KindOK
  <2>2. WalkOK(t) BY <1>2 DEF WalkOK, Outside
  <2>3. KidOK(t) BY <1>2, <1>3 DEF KidOK, Outside
  <2>4. IndexOK(t) BY <1>2, <1>3 DEF IndexOK
  <2>5. InoOK(t) BY <1>2, <1>3 DEF InoOK
  <2> QED BY <2>1, <2>2, <2>3, <2>4, <2>5
<1>7. TableInv BY <1>2, <1>4 DEF TableInv, Init
<1>8. LockInv
  <2>1. \A t \in Threads, i \in Inodes : ~HasX(t, i) /\ ~HasS(t, i)
    BY <1>0, <1>2, <1>3 DEF HasX, HasS, HasFile
  <2>2. \A i \in Inodes : entry[i].x = NoThread /\ entry[i].s = {} BY NoEntryType DEF Init
  <2> QED BY <2>1, <2>2, ThreadsAssumption DEF LockInv
<1>9. EntriesCounted
  <2> SUFFICES ASSUME NEW i \in Inodes
               PROVE  /\ entry[i].refs = Cardinality(At(i)) + Cardinality(Below(i)) + Cardinality(Openers(i))
                                         + Cardinality({fd \in Fds : files[fd] = i})
                      /\ entry[i].open_count = Cardinality({fd \in Opened : files[fd] = i}) + Cardinality(Openers(i))
                      /\ entry[i].refs = 0 => entry[i] = NoEntry
    BY DEF EntriesCounted
  <2>1. At(i) = {} /\ Below(i) = {} /\ Openers(i) = {} BY <1>0, <1>2, <1>3 DEF At, Below, Openers
  <2>2. {fd \in Fds : files[fd] = i} = {} /\ {fd \in Opened : files[fd] = i} = {} BY <1>0, <1>4
  <2>3. entry[i] = NoEntry /\ NoEntry.refs = 0 /\ NoEntry.open_count = 0
    BY NoEntryType DEF Init, NoEntry
  <2> QED BY <2>1, <2>2, <2>3, FS_EmptySet
<1>10. NameInv
  <2>1. inode[Root].mode = "dir" /\ \A i \in Inodes \ ibits : inode[i] = NoInode
    BY <1>0, NewTypes DEF Init
  <2> QED BY <1>5, <2>1 DEF NameInv, Init
<1>11. ThereInv BY <1>2, <1>3 DEF ThereInv, MakeOK, HeldOK
<1>12. OpenInv BY <1>3, <1>4 DEF OpenInv
<1>13. CopyInv /\ CacheCoherent
  <2>1. \A i \in Inodes : ~entry[i].valid BY NoEntryType DEF Init
  <2> QED BY <1>3, <2>1 DEF CopyInv, CacheCoherent
<1> QED BY <1>1, <1>6, <1>7, <1>8, <1>9, <1>10, <1>11, <1>12, <1>13 DEF SafeInv

\* The steps of one thread.
LEMMA ThreadSafe ==
  ASSUME SafeInv, NEW t \in Threads, CallPath(t) \/ CallFd(t) \/ Fsync(t) \/ Continue(t) \/ IoError(t)
  PROVE  SafeInv'
<1>1. CASE CallPath(t) \/ CallFd(t) \/ Fsync(t) \/ IoError(t)
  BY <1>1, CallPathSafe, CallFdSafe, FsyncSafe, IoErrorSafe
<1>2. CASE Begin(t) \/ LockKid(t) \/ Register(t) \/ Exit(t) \/ Install(t)
  BY <1>2, BeginSafe, LockKidSafe, RegisterSafe, ExitSafe, InstallSafe
<1>3. CASE Walk(t)
  BY <1>3, WalkRootSafe, WalkLockSafe, WalkNextSafe, AtOpenSafe, AtChildSafe, AtNoneSafe DEF Walk
<1>4. CASE Make(t)
  BY <1>4, AllocInodeSafe, AllocBlockSafe, DirAddSafe, UndoBlockSafe, UndoInodeSafe, WriteNewSafe,
     WriteDirSafe DEF Make
<1>5. CASE Remove(t)
  BY <1>5, CheckSafe, DirRemoveSafe, TruncateSafe, FreeBlocksSafe, WriteFileSafe, ClearInodeSafe,
     FreeInodeSafe DEF Remove
<1>6. CASE Fill(t)
  BY <1>6, TakeSafe, GiveBackSafe, OverwriteSafe, LockFileSafe, StoreSafe, UnlockFileSafe, CloseSafe
     DEF Fill
<1> QED BY <1>1, <1>2, <1>3, <1>4, <1>5, <1>6 DEF Continue

\* Whatever the threads do, and whichever blocks cannot be read, a thread keeps
\* the locals its place calls for, locks belong to those the code takes them
\* for, an entry of the lock manager counts its users, entries name inodes the
\* allocator gave out and none twice, what a call has locked or is making is
\* there and nobody else's, open files are files, and a copy of an inode is
\* only kept where it is true.
THEOREM Safe == Spec => []SafeInv
<1>1. Init => SafeInv BY InitSafe
<1>2. SafeInv /\ [Next]_vars => SafeInv'
  <2> SUFFICES ASSUME SafeInv, [Next]_vars PROVE SafeInv' OBVIOUS
  <2>1. CASE \E t \in Threads : CallPath(t) \/ CallFd(t) \/ Fsync(t) \/ Continue(t) \/ IoError(t)
    BY <2>1, ThreadSafe
  <2>2. CASE Commit BY <2>2, CommitSafe
  <2>3. CASE Done \/ UNCHANGED vars BY <2>3, StutterSafe DEF Done
  <2> QED BY <2>1, <2>2, <2>3 DEF Next
<1> QED BY <1>1, <1>2, PTL DEF Spec

\* Every variable keeps its type: indexes, counts and link counts stay in range.
THEOREM TypeCorrect == Spec => []TypeOK
<1>1. SafeInv => TypeOK BY DEF SafeInv
<1> QED BY <1>1, Safe, PTL

\* LockManager: an entry has a reference for every lock held or waited for and
\* every open file, for any number of threads, inodes and descriptors.
THEOREM EveryUserCounted == Spec => []EntriesCounted
<1>1. SafeInv => EntriesCounted BY DEF SafeInv
<1> QED BY <1>1, Safe, PTL

\* LockManager::Entry: whenever inode_valid is true, inode is exactly what the
\* cache holds, also when steps fail for a block that cannot be read.
THEOREM CopiesTrue == Spec => []CacheCoherent
<1>1. SafeInv => CacheCoherent BY DEF SafeInv
<1> QED BY <1>1, Safe, PTL
=============================================================================
