-------------------------------- MODULE Mkfs --------------------------------
(***************************************************************************)
(* Formatting an image (src/mkfs.cpp), over a blank device or an older     *)
(* file system with another layout, with a crash anywhere: of the blocks   *)
(* written since the last sync any may hold the old bytes, the new ones    *)
(* or, torn, neither. A sector is written whole, so block 0, of which only *)
(* the first sector ever differs, is old or new. An image that nobody is   *)
(* writing may also be damaged, one field at a time.                       *)
(*                                                                         *)
(* The crash keeps any subset of the unsynced writes, so a loop of writes  *)
(* is one step.                                                            *)
(***************************************************************************)
EXTENDS Fsck

CONSTANTS
    Images,         \* the images to begin with
    InodeCounts,    \* the inode_count arguments
    Damages(_, _),  \* Damages(block, contents): what damage makes of a block
    MaxDamage,      \* how many fields are damaged, at most
    MaxCrash,       \* how many crashes
    MaxTorn         \* how many blocks one crash tears

ASSUME ImagesAssumption == \A d \in Images :
    /\ IsFiniteSet(DOMAIN d) /\ DOMAIN d # {} /\ DOMAIN d = 0..(Cardinality(DOMAIN d) - 1)
    /\ d = [b \in DOMAIN d |-> d[b]]
ASSUME CountsAssumption == InodeCounts \subseteq Nat /\ {MaxDamage, MaxCrash, MaxTorn} \subseteq Nat

VARIABLES
    disk, durable,  \* what reads see; what is sure to outlive a crash
    sb,             \* the plan
    pc,
    damaged, crashes

vars == <<disk, durable, sb, pc, damaged, crashes>>

device_blocks == Cardinality(DOMAIN disk)

\* PreadDevice::create: a new image is a hole, which reads as zeros.
create(block_count) == [b \in 0..(block_count - 1) |-> ZeroBlock]

Init ==
    /\ disk \in Images /\ durable = disk
    /\ sb = Refused /\ pc = "idle" /\ damaged = 0 /\ crashes = 0

-----------------------------------------------------------------------------
Write(new, from, to) == pc = from /\ pc' = to /\ disk' = new /\ UNCHANGED <<durable, sb, damaged, crashes>>

\* Mutant: the wiped superblock is not synced before the rest is written.
SyncLate(from, to) == pc = from /\ pc' = to
                      /\ durable' = (IF from = "wiped" THEN durable ELSE disk)
                      /\ UNCHANGED <<disk, sb, damaged, crashes>>

Sync(from, to) == pc = from /\ pc' = to /\ durable' = disk /\ UNCHANGED <<disk, sb, damaged, crashes>>

\* plan_layout, which may throw, and the wipe of block 0.
Wipe(inode_count) ==
    /\ pc = "idle" /\ damaged = 0
    /\ sb' = plan_layout(device_blocks, inode_count)
    /\ IF sb' = Refused THEN UNCHANGED <<disk, pc>>
       ELSE disk' = [disk EXCEPT ![0] = ZeroBlock] /\ pc' = "wiped"
    /\ UNCHANGED <<durable, damaged, crashes>>

ZeroTable ==
    Write([b \in DOMAIN disk |->
            IF b \in sb.inode_table_start..(sb.data_start - 1) THEN ZeroBlock ELSE disk[b]],
          "table", "bitmaps")

WriteBitmaps ==
    LET inodes == Marked(sb.inode_count, {0, ROOT_INODE})
        blocks == Marked(sb.total_blocks, 0..sb.data_start) \* the metadata and the root's block
    IN  Write(store(store(disk, sb.inode_bitmap_start, inodes), sb.data_bitmap_start, blocks),
              "bitmaps", "root")

make_entry(name, id, type) == [inode_id |-> id, name |-> name, type |-> type]

RootEntries ==
    [i \in 1..DIRENTS_PER_BLOCK |->
        CASE i = 1 -> make_entry(".", ROOT_INODE, "dir")
          [] i = 2 -> make_entry("..", ROOT_INODE, "dir")
          [] OTHER -> ZeroEntry]

RootInode(block) ==
    [ZeroInode EXCEPT !.id = ROOT_INODE, !.mode = "dir", !.link_count = 2, !.size = BLOCK_SIZE,
                      !.block_count = 1, !.direct[1] = block]

RootInodes(block) == [i \in 0..(INODES_PER_BLOCK - 1) |->
                        IF i = inode_offset(ROOT_INODE) THEN RootInode(block) ELSE ZeroInode]

WriteRoot ==
    Write([disk EXCEPT ![sb.data_start] = DirBlock(RootEntries),
                       ![inode_block(sb, ROOT_INODE)] = InodeBlock(RootInodes(sb.data_start))],
          "root", "written")

WriteSuper == Write([disk EXCEPT ![0] = SuperBlock(sb, 0)], "synced", "super")

\* A crash while mkfs runs: mkfs may then be run again.
Crash ==
    /\ pc # "idle" /\ crashes < MaxCrash /\ crashes' = crashes + 1
    /\ LET unsynced == {b \in DOMAIN disk : disk[b] # durable[b]} IN
        \E new \in SUBSET unsynced : \E torn \in SUBSET (unsynced \ (new \cup {0})) :
            /\ Cardinality(torn) <= MaxTorn
            /\ disk' = [b \in DOMAIN disk |-> IF b \in new THEN disk[b]
                                              ELSE IF b \in torn THEN DataBlock ELSE durable[b]]
    /\ durable' = disk' /\ pc' = "idle"
    /\ UNCHANGED <<sb, damaged>>

\* A field of an image at rest changes.
Damage(b) ==
    /\ pc = "idle" /\ damaged < MaxDamage /\ (damaged > 0 \/ disk \in Images)
    /\ \E c \in Damages(b, disk[b]) : disk' = [disk EXCEPT ![b] = c] /\ durable' = disk'
    /\ damaged' = damaged + 1
    /\ UNCHANGED <<sb, pc, crashes>>

Next ==
    \/ \E n \in InodeCounts : Wipe(n)
    \/ Sync("wiped", "table") \/ ZeroTable \/ WriteBitmaps \/ WriteRoot
    \/ Sync("written", "synced") \/ WriteSuper \/ Sync("super", "idle")
    \/ Crash
    \/ \E b \in DOMAIN disk : Damage(b)

Spec == Init /\ [][Next]_vars

-----------------------------------------------------------------------------
(* Properties *)

\* The type of every variable.
TypeOK ==
    /\ device_blocks \in Nat \ {0} /\ DOMAIN disk = 0..(device_blocks - 1) /\ DOMAIN durable = DOMAIN disk
    /\ disk = [b \in DOMAIN disk |-> disk[b]] /\ durable = [b \in DOMAIN disk |-> durable[b]]
    /\ pc \in {"idle", "wiped", "table", "bitmaps", "root", "written", "synced", "super"}
    /\ damaged \in 0..MaxDamage /\ crashes \in 0..MaxCrash
    /\ pc # "idle" => sb # Refused

\* "It is either complete or obviously unformatted": whenever mkfs stops, by a
\* crash too, a block 0 that a mount would accept belongs to the older file
\* system, untouched, or to a new one that is complete and holds only its root.
AllOrNothing ==
    pc = "idle" /\ damaged = 0 /\ validate_superblock(AsSuper(disk[0]), device_blocks) =>
        \/ disk \in Images
        \/ /\ Consistent(disk)
           /\ LET sup == AsSuper(disk[0])
              IN  {id \in 0..(sup.inode_count - 1) : Bit(disk, sup.inode_bitmap_start, id)} = {0, ROOT_INODE}

\* "src/fsck.cpp checks every one of them": fsck finds no problem in an image
\* exactly if the image keeps every rule of layout.h and has no directory longer
\* than check_blocks looks up: it reports a hole in one that is, consistent or
\* not, so what is damaged is never passed.
FsckAgrees == pc = "idle" =>
    (fsck(disk) <=> Consistent(disk) /\ DirectoriesLookedUp(disk))

\* A plan that is not refused is one that every mount accepts, and its regions
\* have a place for every inode and every bit, one after the other.
PlanFits ==
    sb # Refused =>
        /\ validate_superblock(sb, device_blocks)
        /\ sb.inode_count <= blocks_for(sb.inode_count) * BITS_PER_BLOCK
        /\ sb.total_blocks <= (sb.inode_table_start - sb.data_bitmap_start) * BITS_PER_BLOCK
        /\ sb.inode_bitmap_start + blocks_for(sb.inode_count) = sb.data_bitmap_start
        /\ inode_block(sb, 0) = sb.inode_table_start
        /\ inode_block(sb, sb.inode_count - 1) = sb.data_start - 1
        /\ sb.data_start \in DOMAIN disk

-----------------------------------------------------------------------------
(* Why: what each step leaves for the next *)

\* A plan for n blocks, which planning again does not change.
Planned(s, n) == s # Refused /\ s.inode_count \in Nat /\ s = plan_layout(n, s.inode_count)

\* What the regions of a plan hold once they are written.
TableZeroed(d, s) == \A b \in s.inode_table_start..(s.data_start - 1) : d[b] = ZeroBlock
Stored(d, start, words, nbits) ==
    \A k \in 0..(blocks_for(nbits) - 1) : d[start + k] = BitsBlock(block_words(words, k))
BitmapsStored(d, s) ==
    /\ Stored(d, s.inode_bitmap_start, Marked(s.inode_count, {0, ROOT_INODE}), s.inode_count)
    /\ Stored(d, s.data_bitmap_start, Marked(s.total_blocks, 0..s.data_start), s.total_blocks)
RootStored(d, s) ==
    /\ d[s.data_start] = DirBlock(RootEntries)
    /\ \A b \in s.inode_table_start..(s.data_start - 1) :
         d[b] = IF b = s.inode_table_start THEN InodeBlock(RootInodes(s.data_start)) ELSE ZeroBlock
Written(d, s) == BitmapsStored(d, s) /\ RootStored(d, s)

\* An image that is as it was, obviously unformatted, or complete.
Whole(d) == LET s == AsSuper(d[0])
            IN  d[0] = SuperBlock(s, 0) /\ Planned(s, Cardinality(DOMAIN d)) /\ Written(d, s)
Sound(d) == d \in Images \/ d[0] = ZeroBlock \/ Whole(d)

PhaseInv ==
    /\ pc # "idle" => damaged = 0
    /\ sb # Refused => Planned(sb, device_blocks)
    /\ pc \in {"idle", "synced"} => durable = disk
    /\ pc = "idle" /\ damaged = 0 => Sound(disk)
    /\ pc = "wiped" => disk = [durable EXCEPT ![0] = ZeroBlock] /\ Sound(durable)
    /\ pc \in {"table", "bitmaps", "root", "written", "synced"} => disk[0] = ZeroBlock
    /\ pc \in {"table", "bitmaps", "root", "written", "synced", "super"} => durable[0] = ZeroBlock
    /\ pc \in {"bitmaps", "root"} => TableZeroed(disk, sb)
    /\ pc = "root" => BitmapsStored(disk, sb)
    /\ pc \in {"written", "synced", "super"} => Written(disk, sb)
    /\ pc = "super" => disk = [durable EXCEPT ![0] = SuperBlock(sb, 0)]

\* The types, what every plan promises, and what each step leaves for the next.
Inv == TypeOK /\ PlanFits /\ PhaseInv
=============================================================================
