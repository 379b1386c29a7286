------------------------- MODULE BufferCacheProofs -------------------------
(***************************************************************************)
(* Proofs about module BufferCache, for any number of clients, blocks and  *)
(* frames.                                                                 *)
(***************************************************************************)
EXTENDS BufferCache, FiniteSetTheorems, TLAPS

-----------------------------------------------------------------------------
(* What each step does to the frames, field by field. *)

KeepMap == \A h \in FrameIds : frame'[h].block = frame[h].block /\ (frame'[h].mapped <=> frame[h].mapped)
KeepLock == \A h \in FrameIds : /\ frame'[h].owner = frame[h].owner
                                /\ frame'[h].load_failed <=> frame[h].load_failed
KeepTxn == \A h \in FrameIds : frame'[h].in_txn <=> frame[h].in_txn
KeepDirty == \A h \in FrameIds : frame'[h].dirty <=> frame[h].dirty
KeepVersion == \A h \in FrameIds : frame'[h].version = frame[h].version
KeepPins == \A h \in FrameIds : frame'[h].pins = frame[h].pins
KeepData == \A h \in FrameIds : frame'[h].data = frame[h].data

\* Thread t alone moves.
Moves(t, label) == /\ pc'[t] = label
                   /\ \A u \in Clients : u # t => pc'[u] = pc[u] /\ use'[u] = use[u]

\* acquire finds the block in the map.
LEMMA HitEffect ==
  ASSUME TypeOK, NEW t \in Clients, NEW b \in Blocks, NEW kind \in Kinds, Hit(t, b, kind)
  PROVE  /\ frame' \in [FrameIds -> Frames]
         /\ UNCHANGED <<allocated, dirty_count, disk, journal, flusher, history>>
         /\ KeepMap /\ KeepLock /\ KeepDirty /\ KeepVersion /\ KeepData
         /\ pc[t] = "idle" /\ Moves(t, "bytes")
         /\ \E f \in MappedTo(b) :
              /\ \A h \in FrameIds : /\ frame'[h].in_txn <=> frame[h].in_txn \/ (h = f /\ kind # "read")
                                     /\ frame'[h].pins = IF h = f THEN frame[h].pins + 1 ELSE frame[h].pins
              /\ use'[t] = [frame |-> f, kind |-> kind, joined |-> kind # "read" /\ ~frame[f].in_txn]
<1> USE DEF TypeOK, Frames
<1>1. PICK f \in MappedTo(b) :
         /\ frame' = [frame EXCEPT ![f].pins = @ + 1, ![f].in_txn = @ \/ kind # "read"]
         /\ use' = [use EXCEPT ![t] = [frame |-> f, kind |-> kind, joined |-> kind # "read" /\ ~frame[f].in_txn]]
  BY DEF Hit
<1>2. f \in FrameIds BY DEF MappedTo
<1>3. frame' \in [FrameIds -> Frames]
  <2>1. (frame[f].in_txn \/ kind # "read") \in BOOLEAN OBVIOUS
  <2>2. frame[f] \in Frames /\ frame[f].pins + 1 \in Nat BY <1>2
  <2>3. [frame[f] EXCEPT !.pins = @ + 1, !.in_txn = @ \/ kind # "read"] \in Frames BY <2>1, <2>2
  <2>4. frame' = [frame EXCEPT ![f] = [frame[f] EXCEPT !.pins = @ + 1, !.in_txn = @ \/ kind # "read"]]
    BY <1>1, <1>2
  <2> QED BY <1>2, <2>3, <2>4
<1>4. KeepMap /\ KeepLock /\ KeepDirty /\ KeepVersion /\ KeepData
  BY <1>1, <1>2 DEF KeepMap, KeepLock, KeepDirty, KeepVersion, KeepData
<1>5. \A h \in FrameIds : /\ frame'[h].in_txn <=> frame[h].in_txn \/ (h = f /\ kind # "read")
                          /\ frame'[h].pins = IF h = f THEN frame[h].pins + 1 ELSE frame[h].pins
  BY <1>1, <1>2
<1>6. pc[t] = "idle" /\ Moves(t, "bytes") BY <1>1 DEF Hit, Moves
<1> QED BY <1>1, <1>3, <1>4, <1>5, <1>6 DEF Hit

\* acquire does not find it: a frame is taken and mapped.
LEMMA MissEffect ==
  ASSUME TypeOK, NEW t \in Clients, NEW b \in Blocks, NEW kind \in Kinds, Miss(t, b, kind)
  PROVE  /\ frame' \in [FrameIds -> Frames]
         /\ UNCHANGED <<journal, flusher, history>>
         /\ MappedTo(b) = {}
         /\ pc[t] = "idle" /\ Moves(t, "load")
         /\ \E f \in FrameIds :
              /\ TakeFrame(f)
              /\ \A h \in FrameIds : h # f => frame'[h] = frame[h]
              /\ frame'[f].block = b /\ frame'[f].mapped /\ ~frame'[f].dirty
              /\ frame'[f].in_txn <=> kind # "read"
              /\ frame'[f].version = 0 /\ frame'[f].pins = 1 /\ frame'[f].owner = t
              /\ ~frame'[f].load_failed
              /\ use'[t] = [frame |-> f, kind |-> kind, joined |-> kind # "read"]
<1> USE DEF TypeOK
<1>1. PICK f \in FrameIds :
         /\ TakeFrame(f)
         /\ frame' = [frame EXCEPT ![f] = [Unused(b) EXCEPT !.mapped = TRUE, !.pins = 1,
                            !.in_txn = kind # "read", !.owner = t, !.data = frame[f].data]]
         /\ use' = [use EXCEPT ![t] = [frame |-> f, kind |-> kind, joined |-> kind # "read"]]
  BY DEF Miss
<1> DEFINE k == kind # "read"
           d == frame[f].data
           r == [Unused(b) EXCEPT !.mapped = TRUE, !.pins = 1, !.in_txn = k, !.owner = t, !.data = d]
<1>2. k \in BOOLEAN /\ d \in Nat BY DEF Frames
<1>3. /\ r \in Frames
      /\ r.block = b /\ r.mapped /\ ~r.dirty /\ (r.in_txn <=> k)
      /\ r.version = 0 /\ r.pins = 1 /\ r.owner = t /\ ~r.load_failed
  <2> HIDE DEF k, d
  <2> QED BY <1>2 DEF Unused, Frames
<1>4. frame' = [frame EXCEPT ![f] = r] BY <1>1
<1>5. frame'[f] = r /\ \A h \in FrameIds : h # f => frame'[h] = frame[h] BY <1>4
<1>6. frame' \in [FrameIds -> Frames] BY <1>3, <1>4
<1>7. pc[t] = "idle" /\ Moves(t, "load") /\ MappedTo(b) = {} BY <1>1 DEF Miss, Moves
<1> HIDE DEF r
<1>8. /\ frame'[f].block = b /\ frame'[f].mapped /\ ~frame'[f].dirty
      /\ frame'[f].in_txn <=> kind # "read"
      /\ frame'[f].version = 0 /\ frame'[f].pins = 1 /\ frame'[f].owner = t
      /\ ~frame'[f].load_failed
  BY <1>3, <1>5
<1> QED BY <1>1, <1>5, <1>6, <1>7, <1>8 DEF Miss

\* A thread in the cache has a frame.
LEMMA UseFrame ==
  ASSUME TypeOK, UseInv, NEW t \in Clients, pc[t] # "idle"
  PROVE  use[t].frame \in FrameIds
  BY DEF TypeOK, UseInv

\* Setting one frame to a record of the type keeps the type.
LEMMA FrameSet ==
  ASSUME TypeOK, NEW f \in FrameIds, NEW r \in Frames, frame' = [frame EXCEPT ![f] = r]
  PROVE  /\ frame' \in [FrameIds -> Frames]
         /\ frame'[f] = r
         /\ \A h \in FrameIds : h # f => frame'[h] = frame[h]
  BY DEF TypeOK

\* The load succeeds.
LEMMA LoadOkEffect ==
  ASSUME TypeOK, UseInv, NEW t \in Clients, LoadOk(t), frame[use[t].frame].block \in Blocks
  PROVE  /\ frame' \in [FrameIds -> Frames]
         /\ UNCHANGED <<allocated, dirty_count, disk, use, journal, flusher, history>>
         /\ KeepMap /\ KeepLock /\ KeepTxn /\ KeepDirty /\ KeepVersion /\ KeepPins
         /\ pc[t] = "load" /\ Moves(t, "bytes")
         /\ \A h \in FrameIds : h # use[t].frame =>
               frame'[h].data = frame[h].data
         /\ frame'[use[t].frame].data = IF use[t].kind = "fresh" THEN 0 ELSE disk[frame[use[t].frame].block]
<1> DEFINE f == use[t].frame
           v == IF use[t].kind = "fresh" THEN 0 ELSE disk[frame[f].block]
           r == [frame[f] EXCEPT !.data = v]
<1>1. f \in FrameIds BY UseFrame DEF LoadOk
<1>2. frame[f] \in Frames /\ v \in Nat BY <1>1 DEF TypeOK
<1>3. frame' = [frame EXCEPT ![f] = r] BY <1>1 DEF LoadOk, TypeOK
<1>4. /\ r \in Frames
      /\ r.block = frame[f].block /\ (r.mapped <=> frame[f].mapped) /\ (r.dirty <=> frame[f].dirty)
      /\ (r.in_txn <=> frame[f].in_txn) /\ r.version = frame[f].version /\ r.pins = frame[f].pins
      /\ r.owner = frame[f].owner /\ (r.load_failed <=> frame[f].load_failed) /\ r.data = v
  <2> HIDE DEF v
  <2> QED BY <1>2 DEF Frames
<1> HIDE DEF r
<1>5. /\ frame' \in [FrameIds -> Frames] /\ frame'[f] = r
      /\ \A h \in FrameIds : h # f => frame'[h] = frame[h]
  BY <1>1, <1>3, <1>4, FrameSet
<1>6. KeepMap /\ KeepLock /\ KeepTxn /\ KeepDirty /\ KeepVersion /\ KeepPins
  BY <1>4, <1>5 DEF KeepMap, KeepLock, KeepTxn, KeepDirty, KeepVersion, KeepPins
<1>7. Moves(t, "bytes") BY DEF LoadOk, Moves, TypeOK
<1> QED BY <1>1, <1>4, <1>5, <1>6, <1>7 DEF LoadOk

\* The load fails.
LEMMA LoadFailEffect ==
  ASSUME TypeOK, UseInv, NEW t \in Clients, LoadFail(t)
  PROVE  /\ frame' \in [FrameIds -> Frames]
         /\ UNCHANGED <<allocated, dirty_count, disk, use, journal, flusher, history>>
         /\ KeepMap /\ KeepTxn /\ KeepDirty /\ KeepVersion /\ KeepPins /\ KeepData
         /\ pc[t] = "load" /\ Moves(t, "unmap")
         /\ \A h \in FrameIds : h # use[t].frame =>
               frame'[h].owner = frame[h].owner /\ (frame'[h].load_failed <=> frame[h].load_failed)
         /\ frame'[use[t].frame].owner = NoThread
         /\ (frame'[use[t].frame].load_failed <=> TRUE)
<1> DEFINE f == use[t].frame
           r == [frame[f] EXCEPT !.load_failed = TRUE, !.owner = NoThread]
<1>1. f \in FrameIds BY UseFrame DEF LoadFail
<1>2. frame[f] \in Frames BY <1>1 DEF TypeOK
<1>3. frame' = [frame EXCEPT ![f] = r] BY <1>1 DEF LoadFail, TypeOK
<1>4. /\ r \in Frames
      /\ r.block = frame[f].block /\ (r.mapped <=> frame[f].mapped) /\ (r.dirty <=> frame[f].dirty)
      /\ (r.in_txn <=> frame[f].in_txn) /\ r.version = frame[f].version /\ r.pins = frame[f].pins
      /\ r.owner = NoThread /\ (r.load_failed <=> TRUE) /\ r.data = frame[f].data
  BY <1>2 DEF Frames
<1> HIDE DEF r
<1>5. /\ frame' \in [FrameIds -> Frames] /\ frame'[f] = r
      /\ \A h \in FrameIds : h # f => frame'[h] = frame[h]
  BY <1>1, <1>3, <1>4, FrameSet
<1>6. KeepMap /\ KeepTxn /\ KeepDirty /\ KeepVersion /\ KeepPins /\ KeepData
  BY <1>4, <1>5 DEF KeepMap, KeepTxn, KeepDirty, KeepVersion, KeepPins, KeepData
<1>7. Moves(t, "unmap") BY DEF LoadFail, Moves, TypeOK
<1> QED BY <1>1, <1>4, <1>5, <1>6, <1>7 DEF LoadFail

\* The frame of a failed load leaves the map.
LEMMA UnmapEffect ==
  ASSUME TypeOK, UseInv, NEW t \in Clients, Unmap(t), frame[use[t].frame].pins # 0
  PROVE  /\ frame' \in [FrameIds -> Frames]
         /\ UNCHANGED <<allocated, dirty_count, disk, journal, flusher, history>>
         /\ KeepLock /\ KeepDirty /\ KeepVersion /\ KeepData
         /\ pc[t] = "unmap" /\ Moves(t, "idle") /\ use'[t] = Idle
         /\ \A h \in FrameIds : h # use[t].frame =>
               frame'[h].block = frame[h].block /\ (frame'[h].mapped <=> frame[h].mapped) /\ (frame'[h].in_txn <=> frame[h].in_txn) /\ frame'[h].pins = frame[h].pins
         /\ frame'[use[t].frame].block = frame[use[t].frame].block
         /\ (frame'[use[t].frame].mapped <=> FALSE)
         /\ (frame'[use[t].frame].in_txn <=> FALSE)
         /\ frame'[use[t].frame].pins = frame[use[t].frame].pins - 1
<1> DEFINE f == use[t].frame
           r == [frame[f] EXCEPT !.mapped = FALSE, !.in_txn = FALSE, !.pins = @ - 1]
<1>1. f \in FrameIds BY UseFrame DEF Unmap
<1>2. frame[f] \in Frames /\ frame[f].pins - 1 \in Nat BY <1>1 DEF TypeOK, Frames
<1>3. frame' = [frame EXCEPT ![f] = r] BY <1>1 DEF Unmap, TypeOK
<1>4. /\ r \in Frames
      /\ r.block = frame[f].block /\ (r.mapped <=> FALSE) /\ (r.dirty <=> frame[f].dirty)
      /\ (r.in_txn <=> FALSE) /\ r.version = frame[f].version /\ r.pins = frame[f].pins - 1
      /\ r.owner = frame[f].owner /\ (r.load_failed <=> frame[f].load_failed) /\ r.data = frame[f].data
  BY <1>2 DEF Frames
<1> HIDE DEF r
<1>5. /\ frame' \in [FrameIds -> Frames] /\ frame'[f] = r
      /\ \A h \in FrameIds : h # f => frame'[h] = frame[h]
  BY <1>1, <1>3, <1>4, FrameSet
<1>6. KeepLock /\ KeepDirty /\ KeepVersion /\ KeepData
  BY <1>4, <1>5 DEF KeepLock, KeepDirty, KeepVersion, KeepData
<1>7. Moves(t, "idle") /\ use'[t] = Idle BY DEF Unmap, Moves, TypeOK
<1> QED BY <1>1, <1>4, <1>5, <1>6, <1>7 DEF Unmap

\* A pin is dropped.
LEMMA UnpinEffect ==
  ASSUME TypeOK, UseInv, NEW t \in Clients, Unpin(t), frame[use[t].frame].pins # 0
  PROVE  /\ frame' \in [FrameIds -> Frames]
         /\ UNCHANGED <<allocated, dirty_count, disk, journal, flusher, history>>
         /\ KeepMap /\ KeepLock /\ KeepTxn /\ KeepDirty /\ KeepVersion /\ KeepData
         /\ pc[t] = "unpin" /\ Moves(t, "idle") /\ use'[t] = Idle
         /\ \A h \in FrameIds : h # use[t].frame =>
               frame'[h].pins = frame[h].pins
         /\ frame'[use[t].frame].pins = frame[use[t].frame].pins - 1
<1> DEFINE f == use[t].frame
           r == [frame[f] EXCEPT !.pins = @ - 1]
<1>1. f \in FrameIds BY UseFrame DEF Unpin
<1>2. frame[f] \in Frames /\ frame[f].pins - 1 \in Nat BY <1>1 DEF TypeOK, Frames
<1>3. frame' = [frame EXCEPT ![f] = r] BY <1>1 DEF Unpin, TypeOK
<1>4. /\ r \in Frames
      /\ r.block = frame[f].block /\ (r.mapped <=> frame[f].mapped) /\ (r.dirty <=> frame[f].dirty)
      /\ (r.in_txn <=> frame[f].in_txn) /\ r.version = frame[f].version /\ r.pins = frame[f].pins - 1
      /\ r.owner = frame[f].owner /\ (r.load_failed <=> frame[f].load_failed) /\ r.data = frame[f].data
  BY <1>2 DEF Frames
<1> HIDE DEF r
<1>5. /\ frame' \in [FrameIds -> Frames] /\ frame'[f] = r
      /\ \A h \in FrameIds : h # f => frame'[h] = frame[h]
  BY <1>1, <1>3, <1>4, FrameSet
<1>6. KeepMap /\ KeepLock /\ KeepTxn /\ KeepDirty /\ KeepVersion /\ KeepData
  BY <1>4, <1>5 DEF KeepMap, KeepLock, KeepTxn, KeepDirty, KeepVersion, KeepData
<1>7. Moves(t, "idle") /\ use'[t] = Idle BY DEF Unpin, Moves, TypeOK
<1> QED BY <1>1, <1>4, <1>5, <1>6, <1>7 DEF Unpin

\* A change is done.
LEMMA FinishEffect ==
  ASSUME TypeOK, UseInv, NEW t \in Clients, FinishModify(t), frame[use[t].frame].pins # 0
  PROVE  /\ frame' \in [FrameIds -> Frames]
         /\ UNCHANGED <<allocated, dirty_count, disk, use, journal, flusher, history>>
         /\ KeepMap /\ KeepLock /\ KeepTxn /\ KeepDirty /\ KeepData
         /\ pc[t] = "finish" /\ Moves(t, "add")
         /\ \A h \in FrameIds : h # use[t].frame =>
               frame'[h].version = frame[h].version /\ frame'[h].pins = frame[h].pins
         /\ frame'[use[t].frame].version = frame[use[t].frame].version + 1
         /\ frame'[use[t].frame].pins = frame[use[t].frame].pins - 1
<1> DEFINE f == use[t].frame
           p == frame[f].pins - 1
           v == frame[f].version + 1
           r == [frame[f] EXCEPT !.version = v, !.pins = p]
<1>1. f \in FrameIds BY UseFrame DEF FinishModify
<1>2. frame[f] \in Frames /\ p \in Nat /\ v \in Nat BY <1>1 DEF TypeOK, Frames
<1>3. frame' = [frame EXCEPT ![f] = r] BY <1>1 DEF FinishModify, TypeOK
<1>4. /\ r \in Frames
      /\ r.block = frame[f].block /\ (r.mapped <=> frame[f].mapped) /\ (r.dirty <=> frame[f].dirty)
      /\ (r.in_txn <=> frame[f].in_txn) /\ r.version = v /\ r.pins = p
      /\ r.owner = frame[f].owner /\ (r.load_failed <=> frame[f].load_failed) /\ r.data = frame[f].data
  <2> HIDE DEF p, v
  <2> QED BY <1>2 DEF Frames
<1> HIDE DEF r
<1>5. /\ frame' \in [FrameIds -> Frames] /\ frame'[f] = r
      /\ \A h \in FrameIds : h # f => frame'[h] = frame[h]
  BY <1>1, <1>3, <1>4, FrameSet
<1>6. KeepMap /\ KeepLock /\ KeepTxn /\ KeepDirty /\ KeepData
  BY <1>4, <1>5 DEF KeepMap, KeepLock, KeepTxn, KeepDirty, KeepData
<1>7. Moves(t, "add") BY DEF FinishModify, Moves, TypeOK
<1> QED BY <1>1, <1>4, <1>5, <1>6, <1>7 DEF FinishModify

\* The bytes are read or changed: whoever had the lock lets it go.
LEMMA BytesEffect ==
  ASSUME TypeOK, UseInv, LockInv, NEW t \in Clients, Bytes(t),
         frame[use[t].frame].load_failed \/ frame[use[t].frame].block \in Blocks
  PROVE  /\ frame' \in [FrameIds -> Frames] /\ mem' \in [Blocks -> Nat]
         /\ UNCHANGED <<allocated, dirty_count, disk, use, journal, flusher, committed>>
         /\ KeepMap /\ KeepTxn /\ KeepDirty /\ KeepVersion /\ KeepPins
         /\ pc[t] = "bytes"
         /\ frame[use[t].frame].owner \in {t, NoThread} /\ frame'[use[t].frame].owner = NoThread
         /\ \A h \in FrameIds : frame'[h].load_failed <=> frame[h].load_failed
         /\ \A h \in FrameIds : h # use[t].frame => frame'[h].owner = frame[h].owner /\ frame'[h].data = frame[h].data
         /\ \A b \in Blocks : b # frame[use[t].frame].block => mem'[b] = mem[b]
         /\ \/ /\ frame[use[t].frame].load_failed \/ use[t].kind = "read"
               /\ Moves(t, "unpin") /\ mem' = mem /\ KeepData
            \/ /\ ~frame[use[t].frame].load_failed /\ use[t].kind # "read"
               /\ Moves(t, "finish")
               /\ mem'[frame[use[t].frame].block] = mem[frame[use[t].frame].block] + 1
               /\ frame'[use[t].frame].data = IF use[t].kind = "fresh" THEN mem[frame[use[t].frame].block] + 1
                                               ELSE frame[use[t].frame].data + 1
<1> DEFINE f == use[t].frame
           b == frame[f].block
           new(d) == [frame[f] EXCEPT !.owner = NoThread, !.data = d]
<1>1. f \in FrameIds BY UseFrame DEF Bytes
<1>2. frame[f] \in Frames /\ frame[f].data \in Nat BY <1>1 DEF TypeOK, Frames
<1>3. ASSUME NEW d \in Nat PROVE
      /\ new(d) \in Frames
      /\ new(d).block = frame[f].block /\ (new(d).mapped <=> frame[f].mapped)
      /\ (new(d).dirty <=> frame[f].dirty) /\ (new(d).in_txn <=> frame[f].in_txn)
      /\ new(d).version = frame[f].version /\ new(d).pins = frame[f].pins
      /\ new(d).owner = NoThread /\ (new(d).load_failed <=> frame[f].load_failed) /\ new(d).data = d
  BY <1>2 DEF Frames
<1> HIDE DEF new
<1>4. ASSUME NEW d \in Nat, frame' = [frame EXCEPT ![f] = new(d)]
      PROVE  /\ frame' \in [FrameIds -> Frames]
             /\ KeepMap /\ KeepTxn /\ KeepDirty /\ KeepVersion /\ KeepPins
             /\ frame'[f].owner = NoThread /\ frame'[f].data = d
             /\ \A h \in FrameIds : frame'[h].load_failed <=> frame[h].load_failed
             /\ \A h \in FrameIds : h # f => frame'[h].owner = frame[h].owner /\ frame'[h].data = frame[h].data
  <2>1. /\ frame' \in [FrameIds -> Frames] /\ frame'[f] = new(d)
        /\ \A h \in FrameIds : h # f => frame'[h] = frame[h]
    BY <1>1, <1>3, <1>4, FrameSet
  <2> QED BY <1>3, <2>1 DEF KeepMap, KeepTxn, KeepDirty, KeepVersion, KeepPins
<1>5. frame[f].owner \in {t, NoThread} /\ pc[t] = "bytes" BY DEF Bytes
<1>6. CASE frame[f].load_failed
  <2>1. UNCHANGED <<frame, mem>> /\ pc' = [pc EXCEPT ![t] = "unpin"] /\ use' = use BY <1>6 DEF Bytes
  <2>2. Moves(t, "unpin") BY <2>1 DEF Moves, TypeOK
  <2>3. frame[f].owner = NoThread BY <1>1, <1>6 DEF LockInv
  <2> QED BY <1>1, <1>5, <1>6, <2>1, <2>2, <2>3
          DEF Bytes, KeepMap, KeepTxn, KeepDirty, KeepVersion, KeepPins, KeepData, TypeOK
<1>7. CASE ~frame[f].load_failed /\ use[t].kind = "read"
  <2>1. /\ frame' = [frame EXCEPT ![f].owner = NoThread] /\ mem' = mem
        /\ pc' = [pc EXCEPT ![t] = "unpin"] /\ use' = use
    BY <1>7 DEF Bytes
  <2>2. Moves(t, "unpin") BY <2>1 DEF Moves, TypeOK
  <2>3. new(frame[f].data) = [frame[f] EXCEPT !.owner = NoThread] BY <1>2 DEF Frames, new
  <2>4. frame' = [frame EXCEPT ![f] = new(frame[f].data)] BY <2>1, <2>3, <1>1 DEF TypeOK
  <2>5. KeepData BY <1>2, <1>4, <2>4 DEF KeepData
  <2> QED BY <1>1, <1>2, <1>4, <1>5, <1>7, <2>1, <2>2, <2>4, <2>5 DEF Bytes, TypeOK
<1>8. CASE ~frame[f].load_failed /\ use[t].kind # "read"
  <2> DEFINE d == IF use[t].kind = "fresh" THEN mem[b] + 1 ELSE frame[f].data + 1
  <2>1. /\ frame' = [frame EXCEPT ![f].owner = NoThread,
                        ![f].data = IF use[t].kind = "fresh" THEN mem[b] + 1 ELSE @ + 1]
        /\ mem' = [mem EXCEPT ![b] = @ + 1]
        /\ pc' = [pc EXCEPT ![t] = "finish"] /\ use' = use
    BY <1>8 DEF Bytes
  <2>2. Moves(t, "finish") BY <2>1 DEF Moves, TypeOK
  <2>3. b \in Blocks /\ mem[b] \in Nat /\ d \in Nat BY <1>2, <1>8 DEF TypeOK
  <2>4. frame' = [frame EXCEPT ![f] = new(d)] BY <2>1, <1>1 DEF TypeOK, new
  <2>5. /\ mem' \in [Blocks -> Nat] /\ mem'[b] = mem[b] + 1
        /\ \A c \in Blocks : c # b => mem'[c] = mem[c]
    BY <2>1, <2>3 DEF TypeOK
  <2> QED BY <1>1, <1>4, <1>5, <1>8, <2>2, <2>3, <2>4, <2>5 DEF Bytes
<1> QED BY <1>6, <1>7, <1>8

-----------------------------------------------------------------------------
\* commit_frame takes one frame out of the transaction and makes it dirty.
LEMMA CommitEffect ==
  ASSUME TypeOK, NEW b \in Blocks, CommitFrame(b)
  PROVE  /\ frame' \in [FrameIds -> Frames] /\ committed' \in [Blocks -> Nat]
         /\ UNCHANGED <<allocated, disk, clients, flusher, mem>>
         /\ KeepMap /\ KeepLock /\ KeepPins /\ KeepData
         /\ committing /\ b \in txn_blocks /\ txn_blocks' = txn_blocks \ {b}
         /\ committing' = (txn_blocks' # {})
         /\ \A c \in Blocks : c # b => committed'[c] = committed[c]
         /\ \E f \in MappedTo(b) :
              /\ frame[f].in_txn
              /\ committed'[b] = frame[f].data
              /\ dirty_count' = dirty_count + (IF frame[f].dirty THEN 0 ELSE 1)
              /\ \A h \in FrameIds : h # f => /\ frame'[h].in_txn <=> frame[h].in_txn
                                              /\ frame'[h].dirty <=> frame[h].dirty
                                              /\ frame'[h].version = frame[h].version
              /\ ~frame'[f].in_txn /\ frame'[f].dirty /\ frame'[f].version = frame[f].version + 1
<1>1. PICK f \in MappedTo(b) :
         /\ frame[f].in_txn
         /\ frame' = [frame EXCEPT ![f].in_txn = FALSE, ![f].dirty = TRUE, ![f].version = @ + 1]
         /\ dirty_count' = dirty_count + (IF frame[f].dirty THEN 0 ELSE 1)
         /\ committed' = [committed EXCEPT ![b] = frame[f].data]
  BY DEF CommitFrame
<1> DEFINE v == frame[f].version + 1
           r == [frame[f] EXCEPT !.in_txn = FALSE, !.dirty = TRUE, !.version = v]
<1>2. f \in FrameIds BY DEF MappedTo, TypeOK
<1>3. frame[f] \in Frames /\ v \in Nat /\ frame[f].data \in Nat BY <1>2 DEF TypeOK, Frames
<1>4. frame' = [frame EXCEPT ![f] = r] BY <1>1, <1>2 DEF TypeOK
<1>5. /\ r \in Frames
      /\ r.block = frame[f].block /\ (r.mapped <=> frame[f].mapped) /\ r.dirty
      /\ ~r.in_txn /\ r.version = v /\ r.pins = frame[f].pins
      /\ r.owner = frame[f].owner /\ (r.load_failed <=> frame[f].load_failed) /\ r.data = frame[f].data
  <2> HIDE DEF v
  <2> QED BY <1>3 DEF Frames
<1> HIDE DEF r
<1>6. /\ frame' \in [FrameIds -> Frames] /\ frame'[f] = r
      /\ \A h \in FrameIds : h # f => frame'[h] = frame[h]
  BY <1>2, <1>4, <1>5, FrameSet
<1>7. KeepMap /\ KeepLock /\ KeepPins /\ KeepData
  BY <1>5, <1>6 DEF KeepMap, KeepLock, KeepPins, KeepData
<1>8. /\ committed' \in [Blocks -> Nat] /\ committed'[b] = frame[f].data
      /\ \A c \in Blocks : c # b => committed'[c] = committed[c]
  BY <1>1, <1>3 DEF TypeOK
<1>9. /\ UNCHANGED <<allocated, disk, clients, flusher, mem>>
      /\ committing /\ b \in txn_blocks /\ txn_blocks' = txn_blocks \ {b}
      /\ committing' = (txn_blocks' # {})
  BY DEF CommitFrame
<1> HIDE DEF v
<1>10. ~frame'[f].in_txn /\ frame'[f].dirty /\ frame'[f].version = v BY <1>5, <1>6
<1> QED BY <1>1, <1>6, <1>7, <1>8, <1>9, <1>10 DEF v

\* write_back pins a frame.
LEMMA PickEffect ==
  ASSUME TypeOK, NEW f \in FrameIds, Pick(f)
  PROVE  /\ frame' \in [FrameIds -> Frames]
         /\ UNCHANGED <<allocated, dirty_count, disk, clients, journal, run, written, history>>
         /\ KeepMap /\ KeepLock /\ KeepTxn /\ KeepDirty /\ KeepVersion /\ KeepData
         /\ \A h \in FrameIds : h # f => frame'[h].pins = frame[h].pins
         /\ frame'[f].pins = frame[f].pins + 1
<1> DEFINE p == frame[f].pins + 1
           r == [frame[f] EXCEPT !.pins = p]
<1>1. frame[f] \in Frames /\ p \in Nat BY DEF TypeOK, Frames
<1>2. frame' = [frame EXCEPT ![f] = r] BY DEF Pick, TypeOK
<1>3. /\ r \in Frames
      /\ r.block = frame[f].block /\ (r.mapped <=> frame[f].mapped) /\ (r.dirty <=> frame[f].dirty)
      /\ (r.in_txn <=> frame[f].in_txn) /\ r.version = frame[f].version /\ r.pins = p
      /\ r.owner = frame[f].owner /\ (r.load_failed <=> frame[f].load_failed) /\ r.data = frame[f].data
  <2> HIDE DEF p
  <2> QED BY <1>1 DEF Frames
<1> HIDE DEF r
<1>4. /\ frame' \in [FrameIds -> Frames] /\ frame'[f] = r
      /\ \A h \in FrameIds : h # f => frame'[h] = frame[h]
  BY <1>2, <1>3, FrameSet
<1>5. KeepMap /\ KeepLock /\ KeepTxn /\ KeepDirty /\ KeepVersion /\ KeepData
  BY <1>3, <1>4 DEF KeepMap, KeepLock, KeepTxn, KeepDirty, KeepVersion, KeepData
<1> QED BY <1>3, <1>4, <1>5 DEF Pick

\* A written frame is unpinned, and marked clean unless it changed.
LEMMA MarkEffect ==
  ASSUME TypeOK, NEW f \in FrameIds, Mark(f), frame[f].pins # 0
  PROVE  /\ frame' \in [FrameIds -> Frames]
         /\ UNCHANGED <<allocated, disk, clients, journal, history>>
         /\ KeepMap /\ KeepLock /\ KeepTxn /\ KeepVersion /\ KeepData
         /\ \A h \in FrameIds : h # f => frame'[h].pins = frame[h].pins /\ (frame'[h].dirty <=> frame[h].dirty)
         /\ frame'[f].pins = frame[f].pins - 1
         /\ frame'[f].dirty <=> frame[f].dirty /\ frame[f].version # picks[f]
         /\ dirty_count' = dirty_count - (IF frame[f].version = picks[f] /\ frame[f].dirty THEN 1 ELSE 0)
<1> DEFINE p == frame[f].pins - 1
           d == frame[f].dirty /\ ~(frame[f].version = picks[f] /\ frame[f].dirty)
           r == [frame[f] EXCEPT !.dirty = d, !.pins = p]
<1>1. frame[f] \in Frames /\ p \in Nat /\ d \in BOOLEAN BY DEF TypeOK, Frames
<1>2. frame' = [frame EXCEPT ![f] = r] BY DEF Mark, TypeOK
<1>3. /\ r \in Frames
      /\ r.block = frame[f].block /\ (r.mapped <=> frame[f].mapped) /\ (r.dirty <=> d)
      /\ (r.in_txn <=> frame[f].in_txn) /\ r.version = frame[f].version /\ r.pins = p
      /\ r.owner = frame[f].owner /\ (r.load_failed <=> frame[f].load_failed) /\ r.data = frame[f].data
  <2> HIDE DEF p, d
  <2> QED BY <1>1 DEF Frames
<1> HIDE DEF r
<1>4. /\ frame' \in [FrameIds -> Frames] /\ frame'[f] = r
      /\ \A h \in FrameIds : h # f => frame'[h] = frame[h]
  BY <1>2, <1>3, FrameSet
<1>5. KeepMap /\ KeepLock /\ KeepTxn /\ KeepVersion /\ KeepData
  BY <1>3, <1>4 DEF KeepMap, KeepLock, KeepTxn, KeepVersion, KeepData
<1> QED BY <1>3, <1>4, <1>5 DEF Mark

\* Frames that were pinned are unpinned.
LEMMA UnpinnedEffect ==
  ASSUME TypeOK, NEW S \in SUBSET FrameIds, frame' = Unpinned(S), \A f \in S : frame[f].pins # 0
  PROVE  /\ frame' \in [FrameIds -> Frames]
         /\ KeepMap /\ KeepLock /\ KeepTxn /\ KeepDirty /\ KeepVersion /\ KeepData
         /\ \A h \in FrameIds : frame'[h].pins = IF h \in S THEN frame[h].pins - 1 ELSE frame[h].pins
<1> DEFINE p(h) == frame[h].pins - 1
           r(h) == [frame[h] EXCEPT !.pins = p(h)]
<1>1. ASSUME NEW h \in S PROVE
      /\ r(h) \in Frames
      /\ r(h).block = frame[h].block /\ (r(h).mapped <=> frame[h].mapped)
      /\ (r(h).dirty <=> frame[h].dirty) /\ (r(h).in_txn <=> frame[h].in_txn)
      /\ r(h).version = frame[h].version /\ r(h).pins = p(h)
      /\ r(h).owner = frame[h].owner /\ (r(h).load_failed <=> frame[h].load_failed)
      /\ r(h).data = frame[h].data
  <2>1. frame[h] \in Frames /\ p(h) \in Nat BY DEF TypeOK, Frames
  <2> HIDE DEF p
  <2> QED BY <2>1 DEF Frames
<1>2. frame' = [h \in FrameIds |-> IF h \in S THEN r(h) ELSE frame[h]] BY DEF Unpinned
<1> HIDE DEF r
<1>3. frame' \in [FrameIds -> Frames] BY <1>1, <1>2 DEF TypeOK
<1>4. \A h \in FrameIds : frame'[h] = IF h \in S THEN r(h) ELSE frame[h] BY <1>2
<1>5. KeepMap /\ KeepLock /\ KeepTxn /\ KeepDirty /\ KeepVersion /\ KeepData
  BY <1>1, <1>4 DEF KeepMap, KeepLock, KeepTxn, KeepDirty, KeepVersion, KeepData
<1> QED BY <1>1, <1>3, <1>4, <1>5

-----------------------------------------------------------------------------
(* Pins, users and dirty frames *)

\* Finitely many threads use a frame.
LEMMA UsersFinite ==
  ASSUME NEW f
  PROVE  IsFiniteSet(UsersOf(f)) /\ Cardinality(UsersOf(f)) \in Nat
<1>1. IsFiniteSet(UsersOf(f)) BY FS_Subset, FramesAssumption DEF UsersOf
<1> QED BY <1>1, FS_CardinalityType

\* A frame that a thread or write_back uses is pinned.
LEMMA UsedIsPinned ==
  ASSUME TypeOK, PinsAreUsers, NEW f \in FrameIds, UsersOf(f) # {} \/ f \in DOMAIN picks
  PROVE  frame[f].pins # 0
<1>1. UsersOf(f) # {} => Cardinality(UsersOf(f)) # 0 BY UsersFinite, FS_EmptySet
<1> QED BY <1>1, UsersFinite DEF PinsAreUsers

\* Nobody uses a frame without pins.
LEMMA UnpinnedIsUnused ==
  ASSUME TypeOK, PinsAreUsers, NEW f \in FrameIds, frame[f].pins = 0
  PROVE  UsersOf(f) = {} /\ f \notin DOMAIN picks
  BY UsedIsPinned

\* A frame nobody uses has no pins.
LEMMA UnusedIsUnpinned ==
  ASSUME TypeOK, PinsAreUsers, NEW f \in FrameIds, UsersOf(f) = {}, f \notin DOMAIN picks
  PROVE  frame[f].pins = 0
  BY FS_EmptySet DEF PinsAreUsers

\* A thread enters the cache and pins a frame; it leaves it and drops its pin.
LEMMA EnterPins ==
  ASSUME TypeOK, PinsAreUsers, NEW t \in Clients, NEW f \in FrameIds, NEW label,
         pc[t] = "idle", Moves(t, label), label \notin {"idle", "add"}, use'[t].frame = f,
         picks' = picks, \A h \in FrameIds : h # f => frame'[h].pins = frame[h].pins,
         frame'[f].pins = frame[f].pins + 1
  PROVE  PinsAreUsers'
<1>1. t \notin UsersOf(f) BY DEF UsersOf
<1>2. UsersOf(f)' = UsersOf(f) \cup {t} BY DEF UsersOf, Moves
<1>3. \A h \in FrameIds : h # f => UsersOf(h)' = UsersOf(h) BY DEF UsersOf, Moves
<1>4. Cardinality(UsersOf(f)') = Cardinality(UsersOf(f)) + 1
  BY <1>1, <1>2, UsersFinite, FS_AddElement
<1> QED BY <1>3, <1>4, UsersFinite DEF PinsAreUsers

\* A thread leaves the cache and drops its pin.
LEMMA LeavePins ==
  ASSUME TypeOK, PinsAreUsers, NEW t \in Clients, NEW f \in FrameIds, NEW label,
         pc[t] \notin {"idle", "add"}, use[t].frame = f, Moves(t, label), label \in {"idle", "add"},
         picks' = picks, \A h \in FrameIds : h # f => frame'[h].pins = frame[h].pins,
         frame'[f].pins = frame[f].pins - 1
  PROVE  PinsAreUsers'
<1>1. t \in UsersOf(f) BY DEF UsersOf
<1>2. UsersOf(f)' = UsersOf(f) \ {t} BY DEF UsersOf, Moves
<1>3. \A h \in FrameIds : h # f => UsersOf(h)' = UsersOf(h) BY DEF UsersOf, Moves
<1>4. Cardinality(UsersOf(f)') = Cardinality(UsersOf(f)) - 1
  BY <1>1, <1>2, UsersFinite, FS_RemoveElement
<1> QED BY <1>3, <1>4, UsersFinite DEF PinsAreUsers

\* A thread moves on with the frame it has, or without one.
LEMMA StayPins ==
  ASSUME TypeOK, PinsAreUsers, NEW t \in Clients, NEW label, Moves(t, label),
         pc[t] \in {"idle", "add"} <=> label \in {"idle", "add"},
         label \notin {"idle", "add"} => use'[t] = use[t],
         picks' = picks, KeepPins
  PROVE  PinsAreUsers'
<1>1. \A h \in FrameIds : UsersOf(h)' = UsersOf(h) BY DEF UsersOf, Moves
<1> QED BY <1>1 DEF PinsAreUsers, KeepPins

\* write_back's own pins.
LEMMA WriteBackPins ==
  ASSUME TypeOK, PinsAreUsers, UNCHANGED clients,
         \A h \in FrameIds : frame'[h].pins = frame[h].pins
            + (IF h \in DOMAIN picks' THEN 1 ELSE 0) - (IF h \in DOMAIN picks THEN 1 ELSE 0)
  PROVE  PinsAreUsers'
<1>1. \A h \in FrameIds : UsersOf(h)' = UsersOf(h) BY DEF UsersOf, clients
<1> QED BY <1>1, UsersFinite DEF PinsAreUsers

\* The lock of a frame is held by a thread that pins it.
LEMMA LockedIsPinned == TypeOK /\ PinsAreUsers /\ LockInv => FreeIsUnlocked
<1> SUFFICES ASSUME TypeOK, PinsAreUsers, LockInv, NEW f \in FrameIds, frame[f].owner # NoThread
             PROVE  frame[f].pins # 0
  BY DEF FreeIsUnlocked
<1>1. frame[f].owner \in Clients BY DEF TypeOK, Frames
<1>2. frame[f].owner \in UsersOf(f) BY <1>1 DEF LockInv, UsersOf
<1> QED BY <1>2, UsedIsPinned

\* The same of the state after a step.
LEMMA LockedIsPinnedNext ==
  ASSUME TypeOK', PinsAreUsers', LockInv'
  PROVE  FreeIsUnlocked'
  BY LockedIsPinned, PTL

\* There are finitely many dirty frames.
LEMMA DirtyFinite ==
  ASSUME TypeOK
  PROVE  IsFiniteSet(DirtyFrames) /\ Cardinality(DirtyFrames) \in Nat
<1>1. IsFiniteSet(DirtyFrames) BY FS_Subset, FramesAssumption DEF DirtyFrames, TypeOK
<1> QED BY <1>1, FS_CardinalityType

\* A step that makes no frame dirty or clean leaves the count right.
LEMMA SameDirty ==
  ASSUME DirtyCounted, dirty_count' = dirty_count, DirtyFrames' = DirtyFrames
  PROVE  DirtyCounted'
  BY DEF DirtyCounted

\* One more frame is dirty.
LEMMA OneMoreDirty ==
  ASSUME TypeOK, DirtyCounted, NEW f, f \notin DirtyFrames,
         DirtyFrames' = DirtyFrames \cup {f}, dirty_count' = dirty_count + 1
  PROVE  DirtyCounted'
  BY DirtyFinite, FS_AddElement DEF DirtyCounted

\* One frame fewer is dirty.
LEMMA OneLessDirty ==
  ASSUME TypeOK, DirtyCounted, NEW f \in DirtyFrames,
         DirtyFrames' = DirtyFrames \ {f}, dirty_count' = dirty_count - 1
  PROVE  DirtyCounted' /\ dirty_count' \in Nat
<1>1. Cardinality(DirtyFrames') = Cardinality(DirtyFrames) - 1 /\ IsFiniteSet(DirtyFrames')
  BY DirtyFinite, FS_RemoveElement
<1>2. Cardinality(DirtyFrames') \in Nat BY <1>1, FS_CardinalityType
<1> QED BY <1>1, <1>2 DEF DirtyCounted

-----------------------------------------------------------------------------
(* What a step keeps when it leaves most of a frame alone *)

\* Which frames hold a block depends on mapped and block only.
LEMMA SameMap ==
  ASSUME TypeOK, KeepMap, allocated' = allocated
  PROVE  \A b : MappedTo(b)' = MappedTo(b)
  BY DEF TypeOK, KeepMap, MappedTo

\* Whether a frame is valid depends on mapped, owner and load_failed only.
LEMMA SameValid ==
  ASSUME KeepMap, KeepLock
  PROVE  \A f \in FrameIds : Valid(f)' <=> Valid(f)
  BY DEF KeepMap, KeepLock, Valid

\* A step that maps and unmaps nothing keeps what the map says.
LEMMA KeepsMapInv ==
  ASSUME TypeOK, MapInv, KeepMap, KeepLock, allocated' = allocated,
         \A h \in FrameIds : frame'[h].dirty => Valid(h),
         \A h \in FrameIds : frame'[h].in_txn => frame[h].mapped
  PROVE  MapInv'
<1>1. \A h \in FrameIds : frame'[h].dirty => Valid(h)' BY SameValid
<1>2. \A f, h \in FrameIds :
         frame'[f].mapped /\ frame'[h].mapped /\ frame'[f].block = frame'[h].block => f = h
  BY DEF MapInv, KeepMap
<1>3. \A f \in FrameIds : /\ frame'[f].mapped => f \in allocated' /\ frame'[f].block \in Blocks
                          /\ frame'[f].in_txn => frame'[f].mapped
  BY DEF MapInv, KeepMap
<1> QED BY <1>1, <1>2, <1>3 DEF MapInv

\* The invariant's parts that a step of write_back cannot touch, short of writing.
LEMMA BackgroundKeeps ==
  ASSUME Inv, UNCHANGED <<allocated, clients, journal, history>>,
         KeepMap, KeepLock, KeepTxn, KeepVersion, KeepData,
         \A h \in FrameIds : frame'[h].dirty => frame[h].dirty
  PROVE  /\ MapInv' /\ LockInv' /\ UseInv' /\ TransactionHasFrames'
         /\ disk' = disk => DataInv' /\ NothingLost' /\ NothingUncommittedOnDisk'
         /\ KeepDirty /\ disk' = disk => CleanMeansWritten'
         /\ KeepDirty /\ dirty_count' = dirty_count => DirtyCounted'
<1>0. TypeOK /\ MapInv BY DEF Inv
<1>1. MapInv' BY <1>0, KeepsMapInv DEF MapInv, KeepTxn
<1>2. (\A b : MappedTo(b)' = MappedTo(b)) /\ (\A f \in FrameIds : Valid(f)' <=> Valid(f))
  BY <1>0, SameMap, SameValid
<1>3. LockInv' BY DEF Inv, LockInv, KeepMap, KeepLock, clients
<1>4. UseInv'
  <2> SUFFICES ASSUME NEW t \in Clients PROVE UseInv!(t)'
    BY DEF UseInv
  <2>1. pc[t] # "idle" => use[t].frame \in FrameIds BY UseFrame, <1>0 DEF Inv
  <2> QED BY <2>1 DEF Inv, UseInv, KeepMap, KeepLock, KeepTxn, clients, Modifying
<1>5. TransactionHasFrames'
  <2>1. \A b : MappedTo(b) \subseteq FrameIds BY <1>0 DEF MappedTo, TypeOK
  <2> QED BY <1>2, <2>1 DEF Inv, TransactionHasFrames, clients, journal, KeepTxn, KeepMap
<1>6. ASSUME disk' = disk PROVE DataInv' /\ NothingLost' /\ NothingUncommittedOnDisk'
  <2>1. \A b : MappedTo(b) \subseteq FrameIds BY <1>0 DEF MappedTo, TypeOK
  <2>2. DataInv'
    BY <1>2, <1>6, <2>1 DEF Inv, DataInv, clients, history, KeepTxn, KeepMap, KeepLock, KeepData
  <2>3. NothingLost' BY <1>2, <1>6, <2>1 DEF Inv, NothingLost, history, KeepData
  <2>4. NothingUncommittedOnDisk' BY <1>6 DEF Inv, NothingUncommittedOnDisk, history
  <2> QED BY <2>2, <2>3, <2>4
<1>7. ASSUME disk' = disk, KeepDirty PROVE CleanMeansWritten'
  BY <1>0, <1>2, <1>7 DEF Inv, CleanMeansWritten, TypeOK, KeepDirty, KeepMap, KeepTxn, KeepData
<1>8. ASSUME dirty_count' = dirty_count, KeepDirty PROVE DirtyCounted'
  <2>1. DirtyFrames' = DirtyFrames BY <1>0, <1>8 DEF DirtyFrames, KeepDirty, KeepMap, TypeOK
  <2> QED BY <2>1, <1>8, SameDirty DEF Inv
<1> QED BY <1>1, <1>3, <1>4, <1>5, <1>6, <1>7, <1>8

-----------------------------------------------------------------------------
(* write_back and the start of a commit *)

\* write_back picks dirty frames outside the transaction.
LEMMA PickedIsDirty ==
  ASSUME Inv, NEW f \in DOMAIN picks
  PROVE  f \in FrameIds /\ frame[f].dirty /\ Valid(f) /\ f \in allocated /\ frame[f].block \in Blocks
  BY DEF Inv, TypeOK, PickInv, MapInv, Valid

\* What a valid frame outside the transaction holds has been committed.
LEMMA OutsideIsCommitted ==
  ASSUME Inv, NEW f \in FrameIds, Valid(f), ~frame[f].in_txn
  PROVE  /\ frame[f].data = committed[frame[f].block]
         /\ frame[f].data = mem[frame[f].block]
<1>1. f \in MappedTo(frame[f].block) /\ frame[f].block \in Blocks BY DEF Inv, MapInv, MappedTo, Valid
<1>2. frame[f].data = mem[frame[f].block] BY <1>1 DEF Inv, NothingLost
<1>3. \A g \in MappedTo(frame[f].block) : g = f BY <1>1 DEF Inv, MapInv, MappedTo, TypeOK
<1>4. mem[frame[f].block] = committed[frame[f].block] BY <1>1, <1>3 DEF Inv, DataInv
<1> QED BY <1>2, <1>4

\* write_back pins the frames it will copy.
LEMMA PickKeepsInv ==
  ASSUME Inv, NEW f \in FrameIds, Pick(f)
  PROVE  Inv'
<1>0. TypeOK BY DEF Inv
<1>1. /\ frame' \in [FrameIds -> Frames]
      /\ UNCHANGED <<allocated, dirty_count, disk, clients, journal, run, written, history>>
      /\ KeepMap /\ KeepLock /\ KeepTxn /\ KeepDirty /\ KeepVersion /\ KeepData
      /\ \A h \in FrameIds : h # f => frame'[h].pins = frame[h].pins
      /\ frame'[f].pins = frame[f].pins + 1
  BY <1>0, PickEffect
<1>2. /\ DOMAIN run = {} /\ f \notin DOMAIN picks /\ frame[f].dirty
      /\ picks' = [h \in DOMAIN picks \cup {f} |-> IF h = f THEN frame[f].version ELSE picks[h]]
  BY DEF Pick, NoRun
<1>3. \A h \in FrameIds : frame'[h].dirty => frame[h].dirty BY <1>1 DEF KeepDirty
<1>4. /\ MapInv' /\ LockInv' /\ UseInv' /\ TransactionHasFrames' /\ DataInv' /\ NothingLost'
      /\ NothingUncommittedOnDisk' /\ CleanMeansWritten' /\ DirtyCounted'
  BY <1>1, <1>3, BackgroundKeeps
<1>5. TypeOK' BY <1>0, <1>1, <1>2 DEF TypeOK, clients, journal, history
<1>6. PinsAreUsers'
  <2>1. \A h \in FrameIds : frame'[h].pins = frame[h].pins
            + (IF h \in DOMAIN picks' THEN 1 ELSE 0) - (IF h \in DOMAIN picks THEN 1 ELSE 0)
    BY <1>0, <1>1, <1>2 DEF TypeOK, Frames
  <2> QED BY <1>0, <1>1, <2>1, WriteBackPins DEF Inv
<1>7. PickInv'
  <2>1. frame[f].version \in Nat BY <1>0 DEF TypeOK, Frames
  <2>2. \A h \in DOMAIN picks' : h \in FrameIds /\ frame'[h].version = frame[h].version /\ (frame'[h].dirty <=> frame[h].dirty)
    BY <1>0, <1>1, <1>2 DEF TypeOK, KeepVersion, KeepDirty
  <2>3. \A h \in DOMAIN picks' : frame'[h].dirty /\ picks'[h] \in Nat /\ picks'[h] <= frame'[h].version
    BY <1>2, <2>1, <2>2 DEF Inv, PickInv
  <2>4. DOMAIN run' = {} /\ written' = {} BY <1>0, <1>1, <1>2 DEF TypeOK
  <2> QED BY <2>3, <2>4 DEF PickInv
<1> QED BY <1>4, <1>5, <1>6, <1>7, LockedIsPinnedNext DEF Inv

\* write_back copies a frame's bytes.
LEMMA CopyKeepsInv ==
  ASSUME Inv, NEW f \in FrameIds, Copy(f)
  PROVE  Inv'
<1>0. TypeOK BY DEF Inv
<1>1. UNCHANGED <<shard, disk, clients, journal, picks, written, history>> BY DEF Copy
<1>2. /\ f \in DOMAIN picks /\ f \notin DOMAIN run /\ written = {}
      /\ run' = [h \in DOMAIN run \cup {f} |->
                    IF h = f THEN [data |-> frame[f].data, checked |-> FALSE] ELSE run[h]]
  BY DEF Copy
<1>3. KeepMap /\ KeepLock /\ KeepTxn /\ KeepDirty /\ KeepVersion /\ KeepData /\ KeepPins
  BY <1>1 DEF shard, KeepMap, KeepLock, KeepTxn, KeepDirty, KeepVersion, KeepData, KeepPins
<1>4. /\ MapInv' /\ LockInv' /\ UseInv' /\ TransactionHasFrames' /\ DataInv' /\ NothingLost'
      /\ NothingUncommittedOnDisk' /\ CleanMeansWritten' /\ DirtyCounted'
  BY <1>1, <1>3, BackgroundKeeps DEF KeepDirty, shard
<1>5. TypeOK' BY <1>0, <1>1, <1>2 DEF TypeOK, clients, journal, history, shard
<1>6. PinsAreUsers'
  <2>1. \A h \in FrameIds : frame'[h].pins = frame[h].pins
            + (IF h \in DOMAIN picks' THEN 1 ELSE 0) - (IF h \in DOMAIN picks THEN 1 ELSE 0)
    BY <1>0, <1>1, <1>3 DEF TypeOK, Frames, KeepPins
  <2> QED BY <1>0, <1>1, <2>1, WriteBackPins DEF Inv
<1>7. PickInv'
  <2>1. frame[f].data \in Nat BY <1>0 DEF TypeOK, Frames
  <2>2. Valid(f) BY <1>2, PickedIsDirty
  <2>3. ~frame[f].in_txn => frame[f].data = committed[frame[f].block] BY <2>2, OutsideIsCommitted
  <2>4. /\ run'[f] \in [data : Nat, checked : BOOLEAN] /\ run'[f].data = frame[f].data /\ ~run'[f].checked
        /\ \A h \in DOMAIN run : run'[h] = run[h]
        /\ DOMAIN run' = DOMAIN run \cup {f}
    BY <1>2, <2>1
  <2>5. frame' = frame /\ picks' = picks /\ committed' = committed /\ written' = {}
    BY <1>1, <1>2 DEF shard, history
  <2>6. PickInv BY DEF Inv
  <2> QED BY <2>1, <2>3, <2>4, <2>5, <2>6 DEF PickInv
<1> QED BY <1>4, <1>5, <1>6, <1>7, LockedIsPinnedNext DEF Inv

\* write_back checks a copy again before it is written.
LEMMA RecheckKeepsInv ==
  ASSUME Inv, NEW f \in FrameIds, Recheck(f)
  PROVE  Inv'
<1>0. TypeOK BY DEF Inv
<1>1. UNCHANGED <<shard, disk, clients, journal, picks, written, history>> BY DEF Recheck
<1>2. f \in DOMAIN run /\ ~frame[f].in_txn /\ run' = [run EXCEPT ![f].checked = TRUE] BY DEF Recheck
<1>3. KeepMap /\ KeepLock /\ KeepTxn /\ KeepDirty /\ KeepVersion /\ KeepData /\ KeepPins
  BY <1>1 DEF shard, KeepMap, KeepLock, KeepTxn, KeepDirty, KeepVersion, KeepData, KeepPins
<1>4. /\ MapInv' /\ LockInv' /\ UseInv' /\ TransactionHasFrames' /\ DataInv' /\ NothingLost'
      /\ NothingUncommittedOnDisk' /\ CleanMeansWritten' /\ DirtyCounted'
  BY <1>1, <1>3, BackgroundKeeps DEF KeepDirty, shard
<1>5. TypeOK' BY <1>0, <1>1, <1>2 DEF TypeOK, clients, journal, history, shard
<1>6. PinsAreUsers'
  <2>1. \A h \in FrameIds : frame'[h].pins = frame[h].pins
            + (IF h \in DOMAIN picks' THEN 1 ELSE 0) - (IF h \in DOMAIN picks THEN 1 ELSE 0)
    BY <1>0, <1>1, <1>3 DEF TypeOK, Frames, KeepPins
  <2> QED BY <1>0, <1>1, <2>1, WriteBackPins DEF Inv
<1>7. PickInv'
  <2>1. PickInv BY DEF Inv
  <2>2. run[f] \in [data : Nat, checked : BOOLEAN] BY <1>2, <2>1 DEF PickInv
  <2>3. /\ run'[f] \in [data : Nat, checked : BOOLEAN] /\ run'[f].data = run[f].data /\ run'[f].checked
        /\ \A h \in DOMAIN run : h # f => run'[h] = run[h]
        /\ DOMAIN run' = DOMAIN run
    BY <1>2, <2>2
  <2>4. frame' = frame /\ picks' = picks /\ committed' = committed /\ written' = written /\ disk' = disk
    BY <1>1 DEF shard, history
  <2> QED BY <1>0, <1>2, <2>1, <2>3, <2>4 DEF PickInv, TypeOK
<1> QED BY <1>4, <1>5, <1>6, <1>7, LockedIsPinnedNext DEF Inv

\* write_back leaves out a frame that changed under it.
LEMMA LeaveKeepsInv ==
  ASSUME Inv, NEW f \in FrameIds, Leave(f)
  PROVE  Inv'
<1>0. TypeOK BY DEF Inv
<1>1. /\ UNCHANGED <<allocated, dirty_count, disk, clients, journal, written, history>>
      /\ DOMAIN run = {f} /\ ~run[f].checked /\ frame' = Unpinned({f})
      /\ DOMAIN run' = {} /\ picks' = [h \in DOMAIN picks \ {f} |-> picks[h]]
  BY DEF Leave, NoRun, Without
<1>2. f \in DOMAIN picks BY <1>0, <1>1 DEF TypeOK
<1>3. frame[f].pins # 0 BY <1>0, <1>2, UsedIsPinned DEF Inv
<1>4. /\ frame' \in [FrameIds -> Frames]
      /\ KeepMap /\ KeepLock /\ KeepTxn /\ KeepDirty /\ KeepVersion /\ KeepData
      /\ \A h \in FrameIds : frame'[h].pins = IF h \in {f} THEN frame[h].pins - 1 ELSE frame[h].pins
  BY <1>0, <1>1, <1>3, UnpinnedEffect
<1>5. /\ MapInv' /\ LockInv' /\ UseInv' /\ TransactionHasFrames' /\ DataInv' /\ NothingLost'
      /\ NothingUncommittedOnDisk' /\ CleanMeansWritten' /\ DirtyCounted'
  BY <1>1, <1>4, BackgroundKeeps DEF KeepDirty
<1>6. written = {} BY <1>0, <1>1 DEF Inv, TypeOK, PickInv
<1>7. TypeOK' BY <1>0, <1>1, <1>4, <1>6 DEF TypeOK, clients, journal, history
<1>8. PinsAreUsers'
  <2>1. \A h \in FrameIds : frame'[h].pins = frame[h].pins
            + (IF h \in DOMAIN picks' THEN 1 ELSE 0) - (IF h \in DOMAIN picks THEN 1 ELSE 0)
    <3>1. \A h \in FrameIds : frame[h].pins \in Nat BY <1>0 DEF TypeOK, Frames
    <3>2. DOMAIN picks' = DOMAIN picks \ {f} BY <1>1
    <3> HIDE <1>1
    <3> QED BY <1>2, <1>4, <3>1, <3>2
  <2> QED BY <1>0, <1>1, <2>1, WriteBackPins DEF Inv
<1>9. PickInv' BY <1>0, <1>1, <1>4, <1>6 DEF Inv, PickInv, KeepDirty, KeepVersion, TypeOK
<1> QED BY <1>5, <1>7, <1>8, <1>9, LockedIsPinnedNext DEF Inv

\* write_back's write fails.
LEMMA WriteFailKeepsInv ==
  ASSUME Inv, WriteFail
  PROVE  Inv'
<1>0. TypeOK BY DEF Inv
<1>1. /\ UNCHANGED <<allocated, dirty_count, disk, clients, journal, written, history>>
      /\ frame' = Unpinned(DOMAIN picks) /\ DOMAIN run' = {} /\ DOMAIN picks' = {} /\ written = {}
  BY DEF WriteFail, NoRun
<1>2. \A f \in DOMAIN picks : frame[f].pins # 0 BY <1>0, UsedIsPinned DEF Inv, TypeOK
<1>3. /\ frame' \in [FrameIds -> Frames]
      /\ KeepMap /\ KeepLock /\ KeepTxn /\ KeepDirty /\ KeepVersion /\ KeepData
      /\ \A h \in FrameIds : frame'[h].pins = IF h \in DOMAIN picks THEN frame[h].pins - 1 ELSE frame[h].pins
  <2>1. DOMAIN picks \in SUBSET FrameIds BY <1>0 DEF TypeOK
  <2> QED BY <1>0, <1>1, <1>2, <2>1, UnpinnedEffect
<1>4. /\ MapInv' /\ LockInv' /\ UseInv' /\ TransactionHasFrames' /\ DataInv' /\ NothingLost'
      /\ NothingUncommittedOnDisk' /\ CleanMeansWritten' /\ DirtyCounted'
  BY <1>1, <1>3, BackgroundKeeps DEF KeepDirty
<1>5. TypeOK' BY <1>0, <1>1, <1>3 DEF TypeOK, clients, journal, history
<1>6. PinsAreUsers'
  <2>1. \A h \in FrameIds : frame'[h].pins = frame[h].pins
            + (IF h \in DOMAIN picks' THEN 1 ELSE 0) - (IF h \in DOMAIN picks THEN 1 ELSE 0)
    BY <1>0, <1>1, <1>3 DEF TypeOK, Frames
  <2> QED BY <1>0, <1>1, <2>1, WriteBackPins DEF Inv
<1>7. PickInv' BY <1>1 DEF PickInv
<1> QED BY <1>4, <1>5, <1>6, <1>7, LockedIsPinnedNext DEF Inv

\* The copies that were checked again reach the disk, each at its block.
LEMMA WriteRunEffect ==
  ASSUME Inv, WriteRun
  PROVE  /\ disk' \in [Blocks -> Nat]
         /\ \A f \in Ready : disk'[frame[f].block] = run[f].data
         /\ \A b \in Blocks : (\A f \in Ready : frame[f].block # b) => disk'[b] = disk[b]
<1>1. \A f \in Ready : f \in FrameIds /\ frame[f].block \in Blocks /\ frame[f].mapped /\ run[f].data \in Nat
  BY PickedIsDirty DEF Ready, Inv, TypeOK, PickInv, Valid
<1>2. \A f, h \in Ready : frame[f].block = frame[h].block => f = h BY <1>1 DEF Inv, MapInv
<1> DEFINE at(b) == CHOOSE f \in Ready : frame[f].block = b
<1>3. \A b \in Blocks : (\E f \in Ready : frame[f].block = b) => at(b) \in Ready /\ frame[at(b)].block = b
  OBVIOUS
<1>4. disk' = [b \in Blocks |-> IF \E f \in Ready : frame[f].block = b THEN run[at(b)].data ELSE disk[b]]
  BY DEF WriteRun
<1>5. \A f \in Ready : at(frame[f].block) = f BY <1>1, <1>2, <1>3
<1> HIDE DEF at
<1>6. disk' \in [Blocks -> Nat]
  <2>1. \A b \in Blocks : disk[b] \in Nat BY DEF Inv, TypeOK
  <2>2. \A b \in Blocks : (\E f \in Ready : frame[f].block = b) => run[at(b)].data \in Nat BY <1>1, <1>3
  <2> QED BY <1>4, <2>1, <2>2
<1>7. \A f \in Ready : disk'[frame[f].block] = run[f].data BY <1>1, <1>4, <1>5
<1>8. \A b \in Blocks : (\A f \in Ready : frame[f].block # b) => disk'[b] = disk[b] BY <1>4
<1> QED BY <1>6, <1>7, <1>8

\* write_back writes a run of blocks.
LEMMA WriteRunKeepsInv ==
  ASSUME Inv, WriteRun
  PROVE  Inv'
<1>0. TypeOK BY DEF Inv
<1>1. UNCHANGED <<shard, clients, journal, picks, run, history>> /\ written' = Ready BY DEF WriteRun
<1>2. KeepMap /\ KeepLock /\ KeepTxn /\ KeepDirty /\ KeepVersion /\ KeepData /\ KeepPins
  BY <1>1 DEF shard, KeepMap, KeepLock, KeepTxn, KeepDirty, KeepVersion, KeepData, KeepPins
<1>3. MapInv' /\ LockInv' /\ UseInv' /\ TransactionHasFrames' /\ DirtyCounted'
  BY <1>1, <1>2, BackgroundKeeps DEF KeepDirty, shard
<1>4. /\ disk' \in [Blocks -> Nat]
      /\ \A f \in Ready : disk'[frame[f].block] = run[f].data
      /\ \A b \in Blocks : (\A f \in Ready : frame[f].block # b) => disk'[b] = disk[b]
  BY WriteRunEffect
<1>5. TypeOK' BY <1>0, <1>1, <1>4 DEF TypeOK, clients, journal, history, shard, Ready
<1>6. PinsAreUsers'
  <2>1. \A h \in FrameIds : frame'[h].pins = frame[h].pins
            + (IF h \in DOMAIN picks' THEN 1 ELSE 0) - (IF h \in DOMAIN picks THEN 1 ELSE 0)
    BY <1>0, <1>1, <1>2 DEF TypeOK, Frames, KeepPins
  <2> QED BY <1>0, <1>1, <2>1, WriteBackPins DEF Inv
<1>7. \A f \in Ready : /\ f \in DOMAIN run /\ f \in FrameIds /\ f \in allocated /\ Valid(f) /\ frame[f].dirty
                       /\ frame[f].block \in Blocks /\ run[f].checked
  BY <1>0, PickedIsDirty DEF Ready, TypeOK
\* A block that is written has its frame among those of the run.
<1>8. \A f \in FrameIds : frame[f].mapped /\ f \notin Ready => disk'[frame[f].block] = disk[frame[f].block]
  BY <1>4, <1>7 DEF Inv, MapInv, Valid
<1>9. PickInv'
  <2>1. PickInv BY DEF Inv
  <2>2. frame' = frame /\ picks' = picks /\ committed' = committed /\ run' = run BY <1>1 DEF shard, history
  <2> QED BY <1>1, <1>4, <1>7, <2>1, <2>2 DEF PickInv
<1>10. DataInv'
  <2>1. \A f \in FrameIds : frame[f].mapped /\ ~Valid(f) => disk'[frame[f].block] = disk[frame[f].block]
    BY <1>7, <1>8
  <2>2. DataInv BY DEF Inv
  <2>3. frame' = frame /\ allocated' = allocated /\ mem' = mem /\ committed' = committed /\ pc' = pc /\ use' = use
    BY <1>1 DEF shard, history, clients
  <2> QED BY <2>1, <2>2, <2>3 DEF DataInv, MappedTo, Valid
<1>11. NothingLost'
  <2>1. \A b \in Blocks : MappedTo(b) = {} => disk'[b] = disk[b]
    BY <1>4, <1>7 DEF MappedTo, Valid
  <2>2. frame' = frame /\ allocated' = allocated /\ mem' = mem BY <1>1 DEF shard, history
  <2> QED BY <2>1, <2>2 DEF Inv, NothingLost, MappedTo, Valid
<1>12. CleanMeansWritten'
  <2>1. \A f \in FrameIds : Valid(f) /\ ~frame[f].dirty => disk'[frame[f].block] = disk[frame[f].block]
    BY <1>7, <1>8 DEF Valid
  <2>2. frame' = frame /\ allocated' = allocated BY <1>1 DEF shard
  <2> QED BY <1>0, <2>1, <2>2 DEF Inv, CleanMeansWritten, Valid, TypeOK
<1>13. NothingUncommittedOnDisk'
  <2>1. \A f \in Ready : run[f].data <= committed[frame[f].block] BY <1>7 DEF Inv, PickInv
  <2>2. committed' = committed BY <1>1 DEF history
  <2> QED BY <1>4, <2>1, <2>2 DEF Inv, NothingUncommittedOnDisk
<1> QED BY <1>3, <1>5, <1>6, <1>9, <1>10, <1>11, <1>12, <1>13, LockedIsPinnedNext DEF Inv

\* write_back marks a frame clean, or leaves it dirty when it changed.
LEMMA MarkKeepsInv ==
  ASSUME Inv, NEW f \in FrameIds, Mark(f)
  PROVE  Inv'
<1>0. TypeOK /\ PickInv BY DEF Inv
<1>1. /\ f \in written /\ written' = written \ {f}
      /\ picks' = [h \in DOMAIN picks \ {f} |-> picks[h]]
      /\ run' = [h \in DOMAIN run \ {f} |-> run[h]]
  BY DEF Mark, Without
<1>2. f \in DOMAIN run /\ f \in DOMAIN picks /\ f \in allocated /\ frame[f].dirty /\ Valid(f)
  BY <1>0, <1>1, PickedIsDirty DEF TypeOK
<1>3. frame[f].pins # 0 BY <1>0, <1>2, UsedIsPinned DEF Inv
<1>4. /\ frame' \in [FrameIds -> Frames]
      /\ UNCHANGED <<allocated, disk, clients, journal, history>>
      /\ KeepMap /\ KeepLock /\ KeepTxn /\ KeepVersion /\ KeepData
      /\ \A h \in FrameIds : h # f => frame'[h].pins = frame[h].pins /\ (frame'[h].dirty <=> frame[h].dirty)
      /\ frame'[f].pins = frame[f].pins - 1
      /\ frame'[f].dirty <=> frame[f].dirty /\ frame[f].version # picks[f]
      /\ dirty_count' = dirty_count - (IF frame[f].version = picks[f] /\ frame[f].dirty THEN 1 ELSE 0)
  BY <1>0, <1>3, MarkEffect
<1>5. \A h \in FrameIds : frame'[h].dirty => frame[h].dirty BY <1>4
<1>6. /\ MapInv' /\ LockInv' /\ UseInv' /\ TransactionHasFrames' /\ DataInv' /\ NothingLost'
      /\ NothingUncommittedOnDisk'
  BY <1>4, <1>5, BackgroundKeeps
<1>7. DirtyCounted' /\ dirty_count' \in Nat
  <2>1. CASE frame[f].version = picks[f]
    <3>1. DirtyFrames' = DirtyFrames \ {f}
      BY <1>0, <1>4, <2>1 DEF DirtyFrames, KeepMap, TypeOK
    <3>2. f \in DirtyFrames /\ dirty_count' = dirty_count - 1 BY <1>2, <1>4, <2>1 DEF DirtyFrames, Valid
    <3> QED BY <1>0, <3>1, <3>2, OneLessDirty DEF Inv
  <2>2. CASE frame[f].version # picks[f]
    <3>1. DirtyFrames' = DirtyFrames
      BY <1>0, <1>4, <2>2 DEF DirtyFrames, KeepMap, TypeOK
    <3>2. dirty_count' = dirty_count BY <1>0, <1>4, <2>2 DEF TypeOK
    <3> QED BY <1>0, <3>1, <3>2, SameDirty DEF Inv, TypeOK
  <2> QED BY <2>1, <2>2
<1>8. TypeOK' BY <1>0, <1>1, <1>4, <1>7 DEF TypeOK, clients, journal, history
<1>9. PinsAreUsers'
  <2>1. \A h \in FrameIds : frame[h].pins \in Nat BY <1>0 DEF TypeOK, Frames
  <2>2. DOMAIN picks' = DOMAIN picks \ {f} BY <1>1
  <2>3. \A h \in FrameIds : frame'[h].pins = frame[h].pins
            + (IF h \in DOMAIN picks' THEN 1 ELSE 0) - (IF h \in DOMAIN picks THEN 1 ELSE 0)
    <3> HIDE <1>1
    <3> QED BY <1>2, <1>4, <2>1, <2>2
  <2> QED BY <1>0, <1>4, <2>3, WriteBackPins DEF Inv
<1>10. PickInv'
  <2>1. \A h \in DOMAIN picks' : /\ h \in DOMAIN picks /\ h \in FrameIds /\ h # f
                                 /\ picks'[h] = picks[h] /\ frame'[h].version = frame[h].version
                                 /\ frame'[h].dirty <=> frame[h].dirty
    BY <1>0, <1>1, <1>4 DEF TypeOK, KeepVersion
  <2>2. \A h \in DOMAIN run' : /\ h \in DOMAIN run /\ h # f /\ h \in FrameIds /\ run'[h] = run[h]
                               /\ picks'[h] = picks[h] /\ frame'[h].version = frame[h].version
                               /\ frame'[h].data = frame[h].data /\ frame'[h].block = frame[h].block
                               /\ frame'[h].in_txn <=> frame[h].in_txn
    BY <1>0, <1>1, <1>4 DEF TypeOK, KeepVersion, KeepData, KeepMap, KeepTxn
  <2>3. written' \subseteq written /\ written' \subseteq DOMAIN run' BY <1>0, <1>1 DEF TypeOK
  <2>4. committed' = committed /\ disk' = disk BY <1>4 DEF history
  <2> QED BY <1>0, <2>1, <2>2, <2>3, <2>4 DEF PickInv
<1>11. CleanMeansWritten'
  <2>1. ASSUME ~frame[f].in_txn, frame[f].version = picks[f] PROVE disk[frame[f].block] = frame[f].data
    BY <1>0, <1>1, <1>2, <2>1 DEF PickInv
  <2>2. \A h \in FrameIds : Valid(h)' <=> Valid(h) BY <1>4, SameValid
  <2>3. \A h \in FrameIds : /\ frame'[h].in_txn <=> frame[h].in_txn
                            /\ frame'[h].data = frame[h].data /\ frame'[h].block = frame[h].block
    BY <1>4 DEF KeepTxn, KeepData, KeepMap
  <2> SUFFICES ASSUME NEW h \in FrameIds, h \in allocated, Valid(h), ~frame'[h].dirty, ~frame[h].in_txn
               PROVE  disk[frame[h].block] = frame[h].data
    BY <1>0, <1>4, <2>2, <2>3 DEF CleanMeansWritten, TypeOK
  <2>4. CASE h = f BY <1>2, <1>4, <2>1, <2>4
  <2>5. CASE h # f BY <1>4, <2>5 DEF Inv, CleanMeansWritten
  <2> QED BY <2>4, <2>5
<1> QED BY <1>6, <1>7, <1>8, <1>9, <1>10, <1>11, LockedIsPinnedNext DEF Inv

\* A commit starts when no operation runs.
LEMMA StartCommitKeepsInv ==
  ASSUME Inv, StartCommit
  PROVE  Inv'
<1>1. /\ UNCHANGED <<shard, disk, clients, txn_blocks, flusher, history>>
      /\ committing' = TRUE /\ txn_blocks # {} /\ \A t \in Clients : use[t].kind = "read"
  BY DEF StartCommit
<1>2. TransactionHasFrames'
  BY <1>1 DEF Inv, TransactionHasFrames, shard, clients, MappedTo, Valid
<1>3. TypeOK' BY <1>1 DEF Inv, TypeOK, shard, clients, flusher, history
<1>4. PinsAreUsers' /\ DirtyCounted' /\ FreeIsUnlocked'
  BY <1>1 DEF Inv, PinsAreUsers, UsersOf, DirtyCounted, DirtyFrames, FreeIsUnlocked, shard, clients, flusher
<1>5. MapInv' /\ LockInv' /\ UseInv' BY <1>1 DEF Inv, MapInv, LockInv, UseInv, Valid, shard, clients
<1>6. PickInv' /\ DataInv' BY <1>1 DEF Inv, PickInv, DataInv, MappedTo, Valid, shard, clients, flusher, history
<1>7. NothingLost' /\ CleanMeansWritten' /\ NothingUncommittedOnDisk'
  BY <1>1 DEF Inv, NothingLost, CleanMeansWritten, NothingUncommittedOnDisk, MappedTo, Valid, shard, history
<1> QED BY <1>2, <1>3, <1>4, <1>5, <1>6, <1>7 DEF Inv

\* commit_frame.
LEMMA CommitKeepsInv ==
  ASSUME Inv, NEW b \in Blocks, CommitFrame(b)
  PROVE  Inv'
<1>0. TypeOK /\ MapInv /\ PickInv BY DEF Inv
<1>1. /\ frame' \in [FrameIds -> Frames] /\ committed' \in [Blocks -> Nat]
      /\ UNCHANGED <<allocated, disk, clients, flusher, mem>>
      /\ KeepMap /\ KeepLock /\ KeepPins /\ KeepData
      /\ committing /\ b \in txn_blocks /\ txn_blocks' = txn_blocks \ {b}
      /\ committing' = (txn_blocks' # {})
      /\ \A c \in Blocks : c # b => committed'[c] = committed[c]
  BY <1>0, CommitEffect
<1>2. PICK f \in MappedTo(b) :
         /\ frame[f].in_txn
         /\ committed'[b] = frame[f].data
         /\ dirty_count' = dirty_count + (IF frame[f].dirty THEN 0 ELSE 1)
         /\ \A h \in FrameIds : h # f => /\ frame'[h].in_txn <=> frame[h].in_txn
                                         /\ frame'[h].dirty <=> frame[h].dirty
                                         /\ frame'[h].version = frame[h].version
         /\ ~frame'[f].in_txn /\ frame'[f].dirty /\ frame'[f].version = frame[f].version + 1
  BY <1>0, CommitEffect
<1>3. f \in FrameIds /\ f \in allocated /\ frame[f].mapped /\ frame[f].block = b
  BY <1>0 DEF MappedTo, TypeOK
\* The block's only frame.
<1>4. \A h \in FrameIds : frame[h].mapped /\ frame[h].block = b => h = f BY <1>0, <1>3 DEF MapInv
<1>5. Valid(f)
  <2>1. PICK g \in MappedTo(b) : Valid(g) BY <1>1 DEF Inv, TransactionHasFrames
  <2> QED BY <1>0, <1>4, <2>1 DEF MappedTo, TypeOK
<1>6. frame[f].data = mem[b] /\ mem[b] \in Nat BY <1>0, <1>2, <1>5 DEF Inv, NothingLost, TypeOK
<1>7. \A t \in Clients : use[t].kind = "read" /\ ~use[t].joined
  BY <1>0, <1>1 DEF Inv, TransactionHasFrames, UseInv, TypeOK
<1>8. (\A c : MappedTo(c)' = MappedTo(c)) /\ (\A h \in FrameIds : Valid(h)' <=> Valid(h))
  BY <1>0, <1>1, SameMap, SameValid
<1>9. \A c : MappedTo(c) \subseteq FrameIds BY <1>0 DEF MappedTo, TypeOK
<1>10. DirtyCounted' /\ dirty_count' \in Nat
  <2>1. CASE frame[f].dirty
    <3>1. DirtyFrames' = DirtyFrames
      BY <1>0, <1>1, <1>2, <1>3, <2>1 DEF DirtyFrames, KeepMap, TypeOK
    <3>2. dirty_count' = dirty_count BY <1>0, <1>2, <2>1 DEF TypeOK
    <3> QED BY <1>0, <3>1, <3>2, SameDirty DEF Inv, TypeOK
  <2>2. CASE ~frame[f].dirty
    <3>1. DirtyFrames' = DirtyFrames \cup {f}
      BY <1>0, <1>1, <1>2, <1>3, <2>2 DEF DirtyFrames, KeepMap, TypeOK
    <3>2. f \notin DirtyFrames /\ dirty_count' = dirty_count + 1 BY <1>2, <2>2 DEF DirtyFrames
    <3> QED BY <1>0, <3>1, <3>2, OneMoreDirty DEF Inv, TypeOK
  <2> QED BY <2>1, <2>2
<1>11. TypeOK' BY <1>0, <1>1, <1>10 DEF TypeOK, clients, flusher
<1>12. PinsAreUsers'
  <2>1. \A h \in FrameIds : frame'[h].pins = frame[h].pins
            + (IF h \in DOMAIN picks' THEN 1 ELSE 0) - (IF h \in DOMAIN picks THEN 1 ELSE 0)
    BY <1>0, <1>1 DEF TypeOK, Frames, KeepPins, flusher
  <2> QED BY <1>0, <1>1, <2>1, WriteBackPins DEF Inv
<1>13. MapInv'
  <2>1. \A h \in FrameIds : /\ frame'[h].dirty => Valid(h)
                            /\ frame'[h].in_txn => frame[h].mapped
    BY <1>0, <1>2, <1>5 DEF MapInv
  <2> QED BY <1>0, <1>1, <2>1, KeepsMapInv
<1>14. LockInv' BY <1>1 DEF Inv, LockInv, KeepMap, KeepLock, clients
<1>15. UseInv'
  <2> SUFFICES ASSUME NEW t \in Clients PROVE UseInv!(t)'
    BY DEF UseInv
  <2>1. pc[t] # "idle" => use[t].frame \in FrameIds BY UseFrame, <1>0 DEF Inv
  <2> QED BY <1>1, <1>7, <2>1 DEF Inv, UseInv, KeepMap, KeepLock, clients, Modifying
<1>16. TransactionHasFrames'
  <2>1. committing' => txn_blocks' # {} /\ \A t \in Clients : use'[t].kind = "read"
    BY <1>1, <1>7 DEF clients
  <2>2. ASSUME NEW c \in txn_blocks' PROVE \E g \in MappedTo(c)' : frame'[g].in_txn /\ Valid(g)'
    <3>1. c \in txn_blocks /\ c # b BY <1>1
    <3>2. PICK g \in MappedTo(c) : frame[g].in_txn /\ Valid(g) BY <3>1 DEF Inv, TransactionHasFrames
    <3>3. g # f /\ g \in FrameIds BY <1>3, <1>9, <3>1, <3>2 DEF MappedTo
    <3> QED BY <1>2, <1>8, <3>2, <3>3
  <2>3. ASSUME NEW h \in FrameIds, frame'[h].in_txn
        PROVE  \/ frame'[h].block \in txn_blocks'
               \/ \E t \in Clients : use'[t].frame = h /\ pc'[t] = "unmap"
    <3>1. h # f /\ frame[h].in_txn /\ frame[h].mapped BY <1>0, <1>2, <2>3 DEF MapInv
    <3>2. frame[h].block # b /\ frame'[h].block = frame[h].block BY <1>1, <1>4, <3>1 DEF KeepMap
    <3>3. \/ frame[h].block \in txn_blocks
          \/ \E t \in Clients : use[t].frame = h /\ pc[t] = "unmap"
      BY <1>7, <3>1 DEF Inv, TransactionHasFrames
    <3> QED BY <1>1, <3>2, <3>3 DEF clients
  <2> QED BY <2>1, <2>2, <2>3 DEF TransactionHasFrames
<1>17. PickInv'
  <2>1. picks' = picks /\ run' = run /\ written' = written /\ disk' = disk BY <1>1 DEF flusher
  <2>2. \A h \in DOMAIN picks : h \in FrameIds /\ frame[h].mapped /\ frame[h].version \in Nat /\ frame[h].block \in Blocks
    BY <1>0, PickedIsDirty DEF Valid, TypeOK, Frames
  <2>3. ASSUME NEW h \in DOMAIN picks PROVE frame'[h].dirty /\ picks[h] \in Nat /\ picks[h] <= frame'[h].version
    BY <1>0, <1>2, <2>2 DEF PickInv
  <2>4. ASSUME NEW h \in DOMAIN run
        PROVE  /\ run[h].data <= frame'[h].data
               /\ run[h].checked \/ ~frame'[h].in_txn => run[h].data <= committed'[frame'[h].block]
               /\ frame'[h].version = picks[h] /\ ~frame'[h].in_txn => run[h].data = frame'[h].data
    <3>1. h \in DOMAIN picks /\ h \in FrameIds BY <1>0 DEF TypeOK
    <3>2. frame'[h].data = frame[h].data /\ frame'[h].block = frame[h].block BY <1>1, <3>1 DEF KeepData, KeepMap
    <3>3. CASE h = f
      <4>1. picks[f] <= frame[f].version /\ picks[f] \in Nat /\ frame[f].version \in Nat BY <1>0, <2>2, <3>1, <3>3 DEF PickInv
      <4>2. frame'[f].version # picks[f] BY <1>2, <4>1
      <4>3. run[f].data <= frame[f].data BY <1>0, <3>3 DEF PickInv
      <4> QED BY <1>2, <1>3, <3>2, <3>3, <4>2, <4>3
    <3>4. CASE h # f
      <4>1. frame[h].block # b BY <1>4, <2>2, <3>1, <3>4
      <4> QED BY <1>0, <1>1, <1>2, <2>2, <3>1, <3>2, <3>4, <4>1 DEF PickInv
    <3> QED BY <3>3, <3>4
  <2>5. ASSUME NEW h \in written PROVE run[h].checked /\ disk[frame'[h].block] = run[h].data
    BY <1>0, <1>1 DEF PickInv, KeepMap, TypeOK
  <2> QED BY <1>0, <2>1, <2>3, <2>4, <2>5 DEF PickInv
<1>18. DataInv'
  <2>1. ASSUME NEW c \in Blocks
        PROVE  /\ committed'[c] <= mem'[c]
               /\ mem'[c] # committed'[c] => \E g \in MappedTo(c)' : frame'[g].in_txn /\ Valid(g)'
    <3>1. CASE c = b BY <1>1, <1>2, <1>6, <3>1
    <3>2. CASE c # b
      <4>1. committed'[c] = committed[c] /\ mem'[c] = mem[c] BY <1>1, <3>2
      <4>2. \A g \in MappedTo(c) : g # f /\ g \in FrameIds BY <1>3, <1>9, <3>2 DEF MappedTo
      <4> QED BY <1>2, <1>8, <4>1, <4>2 DEF Inv, DataInv
    <3> QED BY <3>1, <3>2
  <2>2. \A h \in FrameIds : frame'[h].mapped =>
          /\ ~Valid(h)' => disk'[frame'[h].block] = mem'[frame'[h].block]
          /\ /\ frame'[h].owner # NoThread
             /\ pc'[frame'[h].owner] = "bytes" /\ use'[frame'[h].owner].kind # "fresh"
             => frame'[h].data = mem'[frame'[h].block]
    BY <1>1, <1>8 DEF Inv, DataInv, KeepMap, KeepLock, KeepData, clients
  <2> QED BY <2>1, <2>2 DEF DataInv
<1>19. NothingLost' BY <1>1, <1>8, <1>9 DEF Inv, NothingLost, KeepData
<1>20. CleanMeansWritten'
  <2> SUFFICES ASSUME NEW h \in FrameIds, h \in allocated, Valid(h), ~frame'[h].dirty, ~frame'[h].in_txn
               PROVE  disk[frame[h].block] = frame[h].data
    BY <1>0, <1>1, <1>8 DEF CleanMeansWritten, TypeOK, KeepMap, KeepData
  <2> QED BY <1>2 DEF Inv, CleanMeansWritten
<1>21. NothingUncommittedOnDisk'
  <2>1. disk[b] <= committed[b] /\ committed[b] <= mem[b] BY DEF Inv, NothingUncommittedOnDisk, DataInv
  <2>2. disk[b] \in Nat /\ committed[b] \in Nat /\ mem[b] \in Nat BY <1>0 DEF TypeOK
  <2>3. disk[b] <= committed'[b] BY <1>2, <1>6, <2>1, <2>2
  <2> QED BY <1>1, <2>3 DEF Inv, NothingUncommittedOnDisk
<1> QED BY <1>10, <1>11, <1>12, <1>13, <1>14, <1>15, <1>16, <1>17, <1>18, <1>19, <1>20, <1>21, LockedIsPinnedNext
        DEF Inv

-----------------------------------------------------------------------------
(* The clients *)

\* A step that validates no frame and changes no bytes of a valid one.
LEMMA QuietKeeps ==
  ASSUME Inv, UNCHANGED <<allocated, disk, history, flusher>>, KeepMap, KeepDirty,
         frame' \in [FrameIds -> Frames],
         \A h \in FrameIds : Valid(h)' <=> Valid(h),
         \A h \in FrameIds : frame[h].in_txn => frame'[h].in_txn,
         \A h \in FrameIds : frame'[h].in_txn => frame[h].mapped,
         \A h \in FrameIds : frame'[h].version >= frame[h].version,
         \A h \in FrameIds : Valid(h) => frame'[h].data = frame[h].data,
         \A h \in FrameIds : /\ frame[h].mapped /\ frame'[h].owner # NoThread
                             /\ pc'[frame'[h].owner] = "bytes" /\ use'[frame'[h].owner].kind # "fresh"
                             => frame'[h].data = mem[frame[h].block]
  PROVE  /\ MapInv' /\ PickInv' /\ DataInv'
         /\ NothingLost' /\ CleanMeansWritten' /\ NothingUncommittedOnDisk'
         /\ dirty_count' = dirty_count => DirtyCounted'
<1>0. TypeOK /\ PickInv /\ MapInv BY DEF Inv
<1>1. \A b : MappedTo(b)' = MappedTo(b) BY <1>0, SameMap
<1>2. \A b : MappedTo(b) \subseteq FrameIds BY <1>0 DEF MappedTo, TypeOK
<1>3. MapInv'
  <2>1. \A h \in FrameIds : frame'[h].dirty => Valid(h)' BY <1>0 DEF MapInv, KeepDirty
  <2>2. \A f, h \in FrameIds :
           frame'[f].mapped /\ frame'[h].mapped /\ frame'[f].block = frame'[h].block => f = h
    BY <1>0 DEF MapInv, KeepMap
  <2>3. \A f \in FrameIds : /\ frame'[f].mapped => f \in allocated' /\ frame'[f].block \in Blocks
                            /\ frame'[f].in_txn => frame'[f].mapped
    BY <1>0 DEF MapInv, KeepMap
  <2> QED BY <2>1, <2>2, <2>3 DEF MapInv
<1>4. PickInv'
  <2>1. picks' = picks /\ run' = run /\ written' = written /\ disk' = disk /\ committed' = committed
    BY DEF flusher, history
  <2>2. \A h \in DOMAIN picks : /\ h \in FrameIds /\ Valid(h) /\ frame'[h].dirty
                                /\ frame'[h].version \in Nat /\ frame[h].version \in Nat
                                /\ frame'[h].data = frame[h].data /\ frame'[h].block = frame[h].block
    BY <1>0, PickedIsDirty DEF TypeOK, Frames, KeepDirty, KeepMap
  <2>3. ASSUME NEW h \in DOMAIN picks PROVE frame'[h].dirty /\ picks[h] \in Nat /\ picks[h] <= frame'[h].version
    BY <1>0, <2>2 DEF PickInv
  <2>4. ASSUME NEW h \in DOMAIN run
        PROVE  /\ run[h].data <= frame'[h].data
               /\ run[h].checked \/ ~frame'[h].in_txn => run[h].data <= committed[frame'[h].block]
               /\ frame'[h].version = picks[h] /\ ~frame'[h].in_txn => run[h].data = frame'[h].data
    <3>1. h \in DOMAIN picks BY <1>0 DEF TypeOK
    <3>2. frame'[h].version = picks[h] => frame[h].version = picks[h]
      <4>1. picks[h] \in Nat /\ picks[h] <= frame[h].version BY <1>0, <3>1 DEF PickInv
      <4>2. frame'[h].version >= frame[h].version BY <2>2, <3>1
      <4> QED BY <2>2, <3>1, <4>1, <4>2
    <3> QED BY <1>0, <2>2, <3>1, <3>2 DEF PickInv
  <2>5. ASSUME NEW h \in written PROVE run[h].checked /\ disk[frame'[h].block] = run[h].data
    BY <1>0, <2>2 DEF PickInv, TypeOK
  <2> QED BY <1>0, <2>1, <2>3, <2>4, <2>5 DEF PickInv
<1>5. DataInv'
  <2>1. mem' = mem /\ committed' = committed /\ disk' = disk BY DEF history
  <2>2. \A b \in Blocks :
          /\ committed[b] <= mem[b]
          /\ mem[b] # committed[b] => \E g \in MappedTo(b)' : frame'[g].in_txn /\ Valid(g)'
    BY <1>1, <1>2 DEF Inv, DataInv
  <2>3. \A h \in FrameIds : frame'[h].mapped /\ ~Valid(h)' => disk[frame'[h].block] = mem[frame'[h].block]
    BY DEF Inv, DataInv, KeepMap
  <2>4. \A h \in FrameIds : frame'[h].mapped =>
          (/\ frame'[h].owner # NoThread
           /\ pc'[frame'[h].owner] = "bytes" /\ use'[frame'[h].owner].kind # "fresh"
           => frame'[h].data = mem[frame'[h].block])
    BY DEF KeepMap
  <2> QED BY <2>1, <2>2, <2>3, <2>4 DEF DataInv
<1>6. NothingLost' BY <1>1, <1>2 DEF Inv, NothingLost, history
<1>7. CleanMeansWritten'
  BY <1>0 DEF Inv, CleanMeansWritten, TypeOK, KeepDirty, KeepMap
<1>8. NothingUncommittedOnDisk' BY DEF Inv, NothingUncommittedOnDisk, history
<1>9. ASSUME dirty_count' = dirty_count PROVE DirtyCounted'
  <2>1. DirtyFrames' = DirtyFrames BY <1>0 DEF DirtyFrames, KeepDirty, KeepMap, TypeOK
  <2> QED BY <2>1, <1>9, SameDirty DEF Inv
<1> QED BY <1>3, <1>4, <1>5, <1>6, <1>7, <1>8, <1>9

\* A thread that holds no lock, or keeps it, moves.
LEMMA LockMoves ==
  ASSUME TypeOK, LockInv, KeepMap, KeepLock, NEW t \in Clients, NEW label, Moves(t, label),
         pc[t] # "unmap",
         \A h \in FrameIds : frame[h].owner = t => label \in {"load", "bytes"} /\ use'[t].frame = h
  PROVE  LockInv'
<1> SUFFICES ASSUME NEW h \in FrameIds PROVE LockInv!(h)'
  BY DEF LockInv
<1>1. frame[h].owner \in Clients \cup {NoThread} BY DEF TypeOK, Frames
<1>2. frame'[h].owner = frame[h].owner /\ (frame'[h].load_failed <=> frame[h].load_failed)
      /\ (frame'[h].mapped <=> frame[h].mapped)
  BY DEF KeepLock, KeepMap
<1>3. ASSUME frame[h].owner # NoThread
      PROVE  /\ pc'[frame[h].owner] \in {"load", "bytes"} /\ use'[frame[h].owner].frame = h
             /\ frame[h].mapped /\ ~frame[h].load_failed
  <2>1. CASE frame[h].owner = t BY <1>3, <2>1 DEF LockInv, Moves
  <2>2. CASE frame[h].owner # t BY <1>1, <1>3, <2>2 DEF LockInv, Moves
  <2> QED BY <2>1, <2>2
<1>4. ASSUME frame[h].load_failed, frame[h].mapped
      PROVE  \E u \in Clients : pc'[u] = "unmap" /\ use'[u].frame = h
  <2>1. PICK u \in Clients : pc[u] = "unmap" /\ use[u].frame = h BY <1>4 DEF LockInv
  <2> QED BY <2>1 DEF Moves
<1> QED BY <1>2, <1>3, <1>4

\* A thread moves to another step of its call.
LEMMA UseMoves ==
  ASSUME TypeOK, UseInv, KeepMap, KeepLock, allocated' = allocated,
         \A h \in FrameIds : frame[h].in_txn => frame'[h].in_txn,
         NEW t \in Clients, NEW label, Moves(t, label), label # "unmap", UseInv!(t)'
  PROVE  UseInv'
<1> SUFFICES ASSUME NEW u \in Clients PROVE UseInv!(u)'
  BY DEF UseInv
<1>1. CASE u = t BY <1>1
<1>2. CASE u # t
  <2>1. pc'[u] = pc[u] /\ use'[u] = use[u] BY <1>2 DEF Moves
  <2>2. pc[u] # "idle" => use[u].frame \in FrameIds BY UseFrame
  <2>3. \A v \in Clients : pc'[v] = "unmap" => pc[v] = "unmap" /\ use'[v] = use[v] BY DEF Moves
  <2> QED BY <2>1, <2>2, <2>3 DEF UseInv, KeepMap, KeepLock, Modifying
<1> QED BY <1>1, <1>2

\* Thread t sees to it that frame h leaves the transaction.
Keeper(t, h) == use[t].frame = h /\ (pc[t] = "unmap" \/ (use[t].joined /\ pc[t] \in Modifying))

\* The transaction's frames while a thread moves.
LEMMA TransactionMoves ==
  ASSUME Inv, KeepMap, allocated' = allocated, UNCHANGED journal,
         \A h \in FrameIds : Valid(h)' <=> Valid(h),
         \A h \in FrameIds : frame[h].in_txn => frame'[h].in_txn,
         NEW t \in Clients, NEW label, Moves(t, label), committing => use'[t].kind = "read",
         \A h \in FrameIds : frame'[h].in_txn => frame[h].in_txn \/ Keeper(t, h)',
         \A h \in FrameIds : Keeper(t, h) => Keeper(t, h)'
  PROVE  TransactionHasFrames'
<1>0. TypeOK /\ TransactionHasFrames BY DEF Inv
<1>1. \A b : MappedTo(b)' = MappedTo(b) BY <1>0, SameMap
<1>2. \A b : MappedTo(b) \subseteq FrameIds BY <1>0 DEF MappedTo, TypeOK
<1>3. committing' => txn_blocks' # {} /\ \A u \in Clients : use'[u].kind = "read"
  BY <1>0 DEF TransactionHasFrames, Moves, journal
<1>4. \A b \in txn_blocks' : \E f \in MappedTo(b)' : frame'[f].in_txn /\ Valid(f)'
  BY <1>0, <1>1, <1>2 DEF TransactionHasFrames, journal
<1>5. ASSUME NEW h \in FrameIds, frame'[h].in_txn
      PROVE  frame'[h].block \in txn_blocks' \/ \E u \in Clients : Keeper(u, h)'
  <2>1. CASE Keeper(t, h)' BY <2>1
  <2>2. CASE frame[h].in_txn /\ ~Keeper(t, h)'
    <3>1. frame[h].block \in txn_blocks \/ \E u \in Clients : Keeper(u, h)
      BY <1>0, <2>2 DEF TransactionHasFrames, Keeper
    <3>2. ASSUME NEW u \in Clients, Keeper(u, h) PROVE Keeper(u, h)'
      BY <3>2, <2>2 DEF Keeper, Moves
    <3> QED BY <3>1, <3>2 DEF KeepMap, journal
  <2> QED BY <1>5, <2>1, <2>2
<1> QED BY <1>3, <1>4, <1>5 DEF TransactionHasFrames, Keeper

\* acquire finds the block.
LEMMA HitKeepsInv ==
  ASSUME Inv, NEW t \in Clients, NEW b \in Blocks, NEW kind \in Kinds, Hit(t, b, kind)
  PROVE  Inv'
<1>0. TypeOK /\ UseInv /\ LockInv /\ MapInv BY DEF Inv
<1>1. /\ frame' \in [FrameIds -> Frames]
      /\ UNCHANGED <<allocated, dirty_count, disk, journal, flusher, history>>
      /\ KeepMap /\ KeepLock /\ KeepDirty /\ KeepVersion /\ KeepData
      /\ pc[t] = "idle" /\ Moves(t, "bytes")
  BY <1>0, HitEffect
<1>2. PICK f \in MappedTo(b) :
         /\ \A h \in FrameIds : /\ frame'[h].in_txn <=> frame[h].in_txn \/ (h = f /\ kind # "read")
                                /\ frame'[h].pins = IF h = f THEN frame[h].pins + 1 ELSE frame[h].pins
         /\ use'[t] = [frame |-> f, kind |-> kind, joined |-> kind # "read" /\ ~frame[f].in_txn]
  BY <1>0, HitEffect
<1>12. /\ use'[t].frame = f /\ use'[t].kind = kind
       /\ use'[t].joined <=> kind # "read" /\ ~frame[f].in_txn
  <2> DEFINE j == kind # "read" /\ ~frame[f].in_txn
  <2>1. use'[t] = [frame |-> f, kind |-> kind, joined |-> j] BY <1>2
  <2> HIDE DEF j
  <2>2. use'[t].frame = f /\ use'[t].kind = kind /\ use'[t].joined = j BY <2>1
  <2> QED BY <2>2 DEF j
<1>3. f \in FrameIds /\ f \in allocated /\ frame[f].mapped BY <1>0 DEF MappedTo, TypeOK
<1>4. \A h \in FrameIds : frame[h].owner # t BY <1>0, <1>1, NothingAssumption DEF LockInv
<1>5. \A h \in FrameIds : Valid(h)' <=> Valid(h) BY <1>1, SameValid
<1>6. /\ MapInv' /\ PickInv' /\ DataInv' /\ DirtyCounted'
      /\ NothingLost' /\ CleanMeansWritten' /\ NothingUncommittedOnDisk'
  <2>1. \A h \in FrameIds : /\ frame[h].in_txn => frame'[h].in_txn
                            /\ frame'[h].in_txn => frame[h].mapped
    BY <1>0, <1>2, <1>3 DEF MapInv
  <2>2. \A h \in FrameIds : frame'[h].version >= frame[h].version
    BY <1>0, <1>1 DEF KeepVersion, TypeOK, Frames
  <2>3. ASSUME NEW h \in FrameIds, frame[h].mapped, frame'[h].owner # NoThread,
               pc'[frame'[h].owner] = "bytes", use'[frame'[h].owner].kind # "fresh"
        PROVE  frame'[h].data = mem[frame[h].block]
    <3>1. frame'[h].owner = frame[h].owner /\ frame[h].owner # t /\ frame[h].owner \in Clients
      BY <1>0, <1>1, <1>4, <2>3 DEF KeepLock, TypeOK, Frames
    <3>2. pc'[frame[h].owner] = pc[frame[h].owner] /\ use'[frame[h].owner] = use[frame[h].owner]
      BY <1>1, <3>1 DEF Moves
    <3> QED BY <1>1, <2>3, <3>1, <3>2 DEF Inv, DataInv, KeepData
  <2> QED BY <1>1, <1>5, <2>1, <2>2, <2>3, QuietKeeps DEF KeepData
<1>7. TypeOK'
  <2>1. pc' \in [Clients -> {"idle", "load", "unmap", "bytes", "unpin", "finish", "add"}]
    BY <1>0 DEF Hit, TypeOK
  <2>2. use' \in [Clients -> [frame : FrameIds \cup {NoFrame}, kind : Kinds, joined : BOOLEAN]]
    BY <1>0, <1>3 DEF Hit, TypeOK, MappedTo
  <2> QED BY <1>0, <1>1, <2>1, <2>2 DEF TypeOK, journal, flusher, history
<1>8. PinsAreUsers'
  <2>2. picks' = picks BY <1>1 DEF flusher
  <2> QED BY <1>0, <1>1, <1>2, <1>3, <1>12, <2>2, EnterPins DEF Inv
<1>9. LockInv' BY <1>0, <1>1, <1>4, LockMoves
<1>10. UseInv'
  <2>1. UseInv!(t)'
    <3>1. pc'[t] = "bytes" /\ f \in allocated' /\ frame'[f].mapped BY <1>1, <1>3 DEF Moves, KeepMap
    <3>2. kind # "read" => frame'[f].in_txn BY <1>2, <1>3
    <3> HIDE <1>2
    <3> QED BY <1>12, <3>1, <3>2
  <2> QED BY <1>0, <1>1, <1>2, <2>1, UseMoves
<1>11. TransactionHasFrames'
  <2>1. committing => use'[t].kind = "read" BY <1>2 DEF Hit, MayCall
  <2>2. \A h \in FrameIds : frame'[h].in_txn => frame[h].in_txn \/ Keeper(t, h)'
    <3>1. pc'[t] = "bytes" BY <1>1 DEF Moves
    <3>2. \A h \in FrameIds : frame'[h].in_txn /\ ~frame[h].in_txn => h = f /\ kind # "read" BY <1>2
    <3> HIDE <1>2
    <3> QED BY <1>12, <3>1, <3>2 DEF Keeper, Modifying
  <2>3. \A h \in FrameIds : ~Keeper(t, h) BY <1>1 DEF Keeper, Modifying
  <2> QED BY <1>1, <1>2, <1>5, <2>1, <2>2, <2>3, TransactionMoves
<1> QED BY <1>6, <1>7, <1>8, <1>9, <1>10, <1>11, LockedIsPinnedNext DEF Inv

\* What a thread in the cache knows of its frame.
LEMMA Known ==
  ASSUME Inv, NEW t \in Clients, pc[t] # "idle"
  PROVE  LET f == use[t].frame IN
         /\ f \in FrameIds /\ f \in allocated
         /\ pc[t] # "add" => frame[f].pins # 0
         /\ pc[t] = "load" => /\ frame[f].owner = t /\ frame[f].mapped /\ ~frame[f].load_failed
                              /\ frame[f].block \in Blocks /\ ~Valid(f)
         /\ pc[t] = "unmap" => frame[f].load_failed /\ frame[f].mapped /\ frame[f].owner = NoThread /\ ~Valid(f)
         /\ pc[t] \in {"finish", "add"} => /\ Valid(f) /\ use[t].kind # "read" /\ frame[f].in_txn
         /\ pc[t] \notin {"load", "bytes"} => \A h \in FrameIds : frame[h].owner # t
         /\ \A h \in FrameIds : frame[h].owner = t => h = f
<1> DEFINE f == use[t].frame
<1>0. TypeOK /\ UseInv /\ LockInv /\ MapInv /\ t # NoThread BY NothingAssumption DEF Inv
<1>1. f \in FrameIds /\ f \in allocated BY <1>0, UseFrame DEF UseInv
<1>2. pc[t] # "add" => frame[f].pins # 0
  <2>1. pc[t] # "add" => t \in UsersOf(f) BY DEF UsersOf
  <2> QED BY <1>0, <1>1, <2>1, UsedIsPinned DEF Inv
<1>3. \A h \in FrameIds : frame[h].owner = t => h = f /\ pc[t] \in {"load", "bytes"} BY <1>0 DEF LockInv
<1>4. pc[t] = "load" => /\ frame[f].owner = t /\ frame[f].mapped /\ ~frame[f].load_failed
                        /\ frame[f].block \in Blocks /\ ~Valid(f)
  BY <1>0, <1>1 DEF UseInv, LockInv, MapInv, Valid
<1>5. pc[t] = "unmap" => frame[f].load_failed /\ frame[f].mapped /\ frame[f].owner = NoThread /\ ~Valid(f)
  BY <1>0 DEF UseInv, Valid
<1>6. pc[t] \in {"finish", "add"} => Valid(f) /\ use[t].kind # "read" /\ frame[f].in_txn
  BY <1>0 DEF UseInv, Valid, Modifying
<1> QED BY <1>1, <1>2, <1>3, <1>4, <1>5, <1>6

\* A load that succeeds.
LEMMA LoadOkKeepsInv ==
  ASSUME Inv, NEW t \in Clients, LoadOk(t)
  PROVE  Inv'
<1> DEFINE f == use[t].frame
<1>0. TypeOK /\ UseInv /\ LockInv /\ MapInv BY DEF Inv
<1>1. /\ f \in FrameIds /\ f \in allocated /\ frame[f].owner = t /\ frame[f].mapped /\ ~frame[f].load_failed
      /\ frame[f].block \in Blocks /\ ~Valid(f) /\ pc[t] = "load"
      /\ \A h \in FrameIds : frame[h].owner = t => h = f
  BY Known DEF LoadOk
<1>2. /\ frame' \in [FrameIds -> Frames]
      /\ UNCHANGED <<allocated, dirty_count, disk, use, journal, flusher, history>>
      /\ KeepMap /\ KeepLock /\ KeepTxn /\ KeepDirty /\ KeepVersion /\ KeepPins
      /\ Moves(t, "bytes")
      /\ \A h \in FrameIds : h # f => frame'[h].data = frame[h].data
      /\ frame'[f].data = IF use[t].kind = "fresh" THEN 0 ELSE disk[frame[f].block]
  BY <1>0, <1>1, LoadOkEffect
<1>3. \A h \in FrameIds : Valid(h)' <=> Valid(h) BY <1>2, SameValid
<1>4. /\ MapInv' /\ PickInv' /\ DataInv' /\ DirtyCounted'
      /\ NothingLost' /\ CleanMeansWritten' /\ NothingUncommittedOnDisk'
  <2>1. \A h \in FrameIds : /\ frame[h].in_txn => frame'[h].in_txn
                            /\ frame'[h].in_txn => frame[h].mapped
    BY <1>0, <1>2 DEF MapInv, KeepTxn
  <2>2. \A h \in FrameIds : frame'[h].version >= frame[h].version
    BY <1>0, <1>2 DEF KeepVersion, TypeOK, Frames
  <2>3. ASSUME NEW h \in FrameIds, frame[h].mapped, frame'[h].owner # NoThread,
               pc'[frame'[h].owner] = "bytes", use'[frame'[h].owner].kind # "fresh"
        PROVE  frame'[h].data = mem[frame[h].block]
    <3>1. frame'[h].owner = frame[h].owner /\ frame[h].owner \in Clients
      BY <1>0, <1>2, <2>3 DEF KeepLock, TypeOK, Frames
    <3>2. CASE frame[h].owner = t
      <4>1. h = f /\ use[t].kind # "fresh" BY <1>1, <1>2, <2>3, <3>1, <3>2
      <4>2. disk[frame[f].block] = mem[frame[f].block] BY <1>1 DEF Inv, DataInv
      <4> QED BY <1>2, <4>1, <4>2
    <3>3. CASE frame[h].owner # t
      <4>1. pc'[frame[h].owner] = pc[frame[h].owner] /\ use' = use BY <1>2, <3>1, <3>3 DEF Moves
      <4>2. h # f BY <1>1, <3>3
      <4> QED BY <1>2, <2>3, <3>1, <4>1, <4>2 DEF Inv, DataInv
    <3> QED BY <3>2, <3>3
  <2>4. \A h \in FrameIds : Valid(h) => frame'[h].data = frame[h].data BY <1>1, <1>2
  <2> QED BY <1>2, <1>3, <2>1, <2>2, <2>3, <2>4, QuietKeeps
<1>5. TypeOK'
  <2>1. pc' \in [Clients -> {"idle", "load", "unmap", "bytes", "unpin", "finish", "add"}]
    BY <1>0 DEF LoadOk, TypeOK
  <2> QED BY <1>0, <1>2, <2>1 DEF TypeOK, journal, flusher, history
<1>6. PinsAreUsers'
  <2>1. picks' = picks BY <1>2 DEF flusher
  <2> QED BY <1>0, <1>1, <1>2, <2>1, StayPins DEF Inv
<1>7. LockInv' BY <1>0, <1>1, <1>2, LockMoves
<1>8. UseInv'
  <2>1. UseInv!(t)'
    <3>1. pc'[t] = "bytes" /\ use'[t] = use[t] BY <1>2 DEF Moves
    <3>2. /\ frame'[f].mapped /\ f \in allocated'
          /\ (frame'[f].load_failed <=> frame[f].load_failed) /\ (frame'[f].in_txn <=> frame[f].in_txn)
      BY <1>1, <1>2 DEF KeepMap, KeepLock, KeepTxn
    <3> QED BY <1>0, <1>1, <3>1, <3>2 DEF UseInv, Modifying
  <2> QED BY <1>0, <1>2, <2>1, UseMoves DEF KeepTxn
<1>9. TransactionHasFrames'
  <2>1. committing => use'[t].kind = "read" BY <1>2 DEF Inv, TransactionHasFrames
  <2>2. \A h \in FrameIds : Keeper(t, h) => Keeper(t, h)' BY <1>1, <1>2 DEF Keeper, Moves, Modifying
  <2> QED BY <1>2, <1>3, <2>1, <2>2, TransactionMoves DEF KeepTxn
<1> QED BY <1>4, <1>5, <1>6, <1>7, <1>8, <1>9, LockedIsPinnedNext DEF Inv

\* A reader lets its frame go.
LEMMA UnpinKeepsInv ==
  ASSUME Inv, NEW t \in Clients, Unpin(t)
  PROVE  Inv'
<1> DEFINE f == use[t].frame
<1>0. TypeOK /\ UseInv /\ LockInv /\ MapInv BY DEF Inv
<1>1. /\ f \in FrameIds /\ frame[f].pins # 0 /\ pc[t] = "unpin"
      /\ \A h \in FrameIds : frame[h].owner # t
  BY Known DEF Unpin
<1>2. /\ frame' \in [FrameIds -> Frames]
      /\ UNCHANGED <<allocated, dirty_count, disk, journal, flusher, history>>
      /\ KeepMap /\ KeepLock /\ KeepTxn /\ KeepDirty /\ KeepVersion /\ KeepData
      /\ Moves(t, "idle") /\ use'[t] = Idle
      /\ \A h \in FrameIds : h # f => frame'[h].pins = frame[h].pins
      /\ frame'[f].pins = frame[f].pins - 1
  BY <1>0, <1>1, UnpinEffect
<1>3. \A h \in FrameIds : Valid(h)' <=> Valid(h) BY <1>2, SameValid
<1>4. /\ MapInv' /\ PickInv' /\ DataInv' /\ DirtyCounted'
      /\ NothingLost' /\ CleanMeansWritten' /\ NothingUncommittedOnDisk'
  <2>1. \A h \in FrameIds : /\ frame[h].in_txn => frame'[h].in_txn
                            /\ frame'[h].in_txn => frame[h].mapped
    BY <1>0, <1>2 DEF MapInv, KeepTxn
  <2>2. \A h \in FrameIds : frame'[h].version >= frame[h].version
    BY <1>0, <1>2 DEF KeepVersion, TypeOK, Frames
  <2>3. ASSUME NEW h \in FrameIds, frame[h].mapped, frame'[h].owner # NoThread,
               pc'[frame'[h].owner] = "bytes", use'[frame'[h].owner].kind # "fresh"
        PROVE  frame'[h].data = mem[frame[h].block]
    <3>1. frame'[h].owner = frame[h].owner /\ frame[h].owner # t /\ frame[h].owner \in Clients
      BY <1>0, <1>1, <1>2, <2>3 DEF KeepLock, TypeOK, Frames
    <3>2. pc'[frame[h].owner] = pc[frame[h].owner] /\ use'[frame[h].owner] = use[frame[h].owner]
      BY <1>2, <3>1 DEF Moves
    <3> QED BY <1>2, <2>3, <3>1, <3>2 DEF Inv, DataInv, KeepData
  <2> QED BY <1>2, <1>3, <2>1, <2>2, <2>3, QuietKeeps DEF KeepData
<1>5. TypeOK'
  <2>1. pc' \in [Clients -> {"idle", "load", "unmap", "bytes", "unpin", "finish", "add"}]
    BY <1>0 DEF Unpin, TypeOK
  <2>2. use' \in [Clients -> [frame : FrameIds \cup {NoFrame}, kind : Kinds, joined : BOOLEAN]]
    BY <1>0 DEF Unpin, TypeOK, Idle, Kinds
  <2> QED BY <1>0, <1>2, <2>1, <2>2 DEF TypeOK, journal, flusher, history
<1>6. PinsAreUsers'
  <2>1. picks' = picks BY <1>2 DEF flusher
  <2> QED BY <1>0, <1>1, <1>2, <2>1, LeavePins DEF Inv
<1>7. LockInv' BY <1>0, <1>1, <1>2, LockMoves
<1>8. UseInv'
  <2>1. UseInv!(t)' BY <1>2 DEF Moves, Idle, Modifying
  <2> QED BY <1>0, <1>2, <2>1, UseMoves DEF KeepTxn
<1>9. TransactionHasFrames'
  <2>1. use'[t].kind = "read" BY <1>2 DEF Idle
  <2>2. \A h \in FrameIds : ~Keeper(t, h) BY <1>1 DEF Keeper, Modifying
  <2> QED BY <1>2, <1>3, <2>1, <2>2, TransactionMoves DEF KeepTxn
<1> QED BY <1>4, <1>5, <1>6, <1>7, <1>8, <1>9, LockedIsPinnedNext DEF Inv

\* A writer lets its frame go.
LEMMA FinishKeepsInv ==
  ASSUME Inv, NEW t \in Clients, FinishModify(t)
  PROVE  Inv'
<1> DEFINE f == use[t].frame
<1>0. TypeOK /\ UseInv /\ LockInv /\ MapInv BY DEF Inv
<1>1. /\ f \in FrameIds /\ f \in allocated /\ frame[f].pins # 0 /\ pc[t] = "finish"
      /\ Valid(f) /\ use[t].kind # "read" /\ frame[f].in_txn
      /\ \A h \in FrameIds : frame[h].owner # t
  BY Known DEF FinishModify
<1>2. /\ frame' \in [FrameIds -> Frames]
      /\ UNCHANGED <<allocated, dirty_count, disk, use, journal, flusher, history>>
      /\ KeepMap /\ KeepLock /\ KeepTxn /\ KeepDirty /\ KeepData
      /\ Moves(t, "add")
      /\ \A h \in FrameIds : h # f => frame'[h].version = frame[h].version /\ frame'[h].pins = frame[h].pins
      /\ frame'[f].version = frame[f].version + 1
      /\ frame'[f].pins = frame[f].pins - 1
  BY <1>0, <1>1, FinishEffect
<1>3. \A h \in FrameIds : Valid(h)' <=> Valid(h) BY <1>2, SameValid
<1>4. /\ MapInv' /\ PickInv' /\ DataInv' /\ DirtyCounted'
      /\ NothingLost' /\ CleanMeansWritten' /\ NothingUncommittedOnDisk'
  <2>1. \A h \in FrameIds : /\ frame[h].in_txn => frame'[h].in_txn
                            /\ frame'[h].in_txn => frame[h].mapped
    BY <1>0, <1>2 DEF MapInv, KeepTxn
  <2>2. \A h \in FrameIds : frame'[h].version >= frame[h].version
    <3>1. \A h \in FrameIds : frame[h].version \in Nat BY <1>0 DEF TypeOK, Frames
    <3> QED BY <1>2, <3>1
  <2>3. ASSUME NEW h \in FrameIds, frame[h].mapped, frame'[h].owner # NoThread,
               pc'[frame'[h].owner] = "bytes", use'[frame'[h].owner].kind # "fresh"
        PROVE  frame'[h].data = mem[frame[h].block]
    <3>1. frame'[h].owner = frame[h].owner /\ frame[h].owner # t /\ frame[h].owner \in Clients
      BY <1>0, <1>1, <1>2, <2>3 DEF KeepLock, TypeOK, Frames
    <3>2. pc'[frame[h].owner] = pc[frame[h].owner] /\ use'[frame[h].owner] = use[frame[h].owner]
      BY <1>2, <3>1 DEF Moves
    <3> QED BY <1>2, <2>3, <3>1, <3>2 DEF Inv, DataInv, KeepData
  <2> QED BY <1>2, <1>3, <2>1, <2>2, <2>3, QuietKeeps DEF KeepData
<1>5. TypeOK'
  <2>1. pc' \in [Clients -> {"idle", "load", "unmap", "bytes", "unpin", "finish", "add"}]
    BY <1>0 DEF FinishModify, TypeOK
  <2> QED BY <1>0, <1>2, <2>1 DEF TypeOK, journal, flusher, history
<1>6. PinsAreUsers'
  <2>1. picks' = picks BY <1>2 DEF flusher
  <2>2. \A h \in FrameIds : h # f => frame'[h].pins = frame[h].pins BY <1>2
  <2> QED BY <1>0, <1>1, <1>2, <2>1, <2>2, LeavePins DEF Inv
<1>7. LockInv' BY <1>0, <1>1, <1>2, LockMoves
<1>8. UseInv'
  <2>1. UseInv!(t)'
    <3>1. pc'[t] = "add" /\ use'[t] = use[t] BY <1>2 DEF Moves
    <3>2. /\ frame'[f].mapped /\ f \in allocated' /\ frame'[f].owner = NoThread
          /\ ~frame'[f].load_failed /\ frame'[f].in_txn
      BY <1>1, <1>2 DEF KeepMap, KeepLock, KeepTxn, Valid
    <3> QED BY <1>1, <3>1, <3>2
  <2> QED BY <1>0, <1>2, <2>1, UseMoves DEF KeepTxn
<1>9. TransactionHasFrames'
  <2>1. committing => use'[t].kind = "read" BY <1>2 DEF Inv, TransactionHasFrames
  <2>2. \A h \in FrameIds : Keeper(t, h) => Keeper(t, h)' BY <1>1, <1>2 DEF Keeper, Moves, Modifying
  <2> QED BY <1>2, <1>3, <2>1, <2>2, TransactionMoves DEF KeepTxn
<1> QED BY <1>4, <1>5, <1>6, <1>7, <1>8, <1>9, LockedIsPinnedNext DEF Inv

\* A frame joins the transaction.
LEMMA AddKeepsInv ==
  ASSUME Inv, NEW t \in Clients, AddToTxn(t)
  PROVE  Inv'
<1> DEFINE f == use[t].frame
<1>0. TypeOK /\ UseInv /\ LockInv /\ MapInv /\ TransactionHasFrames BY DEF Inv
<1>1. /\ f \in FrameIds /\ f \in allocated /\ pc[t] = "add"
      /\ Valid(f) /\ use[t].kind # "read" /\ frame[f].in_txn
      /\ \A h \in FrameIds : frame[h].owner # t
  BY Known DEF AddToTxn
<1>2. /\ UNCHANGED <<shard, disk, committing, flusher, history>>
      /\ txn_blocks' = IF use[t].joined THEN txn_blocks \cup {frame[f].block} ELSE txn_blocks
      /\ pc' = [pc EXCEPT ![t] = "idle"] /\ use' = [use EXCEPT ![t] = Idle]
  BY DEF AddToTxn
<1>3. Moves(t, "idle") /\ use'[t] = Idle BY <1>0, <1>2 DEF Moves, TypeOK
<1>4. KeepMap /\ KeepLock /\ KeepTxn /\ KeepDirty /\ KeepVersion /\ KeepData /\ KeepPins /\ frame' = frame
  BY <1>2 DEF shard, KeepMap, KeepLock, KeepTxn, KeepDirty, KeepVersion, KeepData, KeepPins
<1>5. \A h \in FrameIds : Valid(h)' <=> Valid(h) BY <1>4, SameValid
<1>6. /\ MapInv' /\ PickInv' /\ DataInv' /\ DirtyCounted'
      /\ NothingLost' /\ CleanMeansWritten' /\ NothingUncommittedOnDisk'
  <2>1. \A h \in FrameIds : /\ frame[h].in_txn => frame'[h].in_txn
                            /\ frame'[h].in_txn => frame[h].mapped
    BY <1>0, <1>4 DEF MapInv
  <2>2. \A h \in FrameIds : frame'[h].version >= frame[h].version
    BY <1>0, <1>4 DEF TypeOK, Frames
  <2>3. ASSUME NEW h \in FrameIds, frame[h].mapped, frame'[h].owner # NoThread,
               pc'[frame'[h].owner] = "bytes", use'[frame'[h].owner].kind # "fresh"
        PROVE  frame'[h].data = mem[frame[h].block]
    <3>1. frame'[h].owner = frame[h].owner /\ frame[h].owner # t /\ frame[h].owner \in Clients
      BY <1>0, <1>1, <1>4, <2>3 DEF TypeOK, Frames
    <3>2. pc'[frame[h].owner] = pc[frame[h].owner] /\ use'[frame[h].owner] = use[frame[h].owner]
      BY <1>3, <3>1 DEF Moves
    <3> QED BY <1>4, <2>3, <3>1, <3>2 DEF Inv, DataInv
  <2>4. frame' \in [FrameIds -> Frames] /\ UNCHANGED <<allocated, dirty_count, disk, history, flusher>>
    BY <1>0, <1>2 DEF TypeOK, shard
  <2> QED BY <1>4, <1>5, <2>1, <2>2, <2>3, <2>4, QuietKeeps
<1>7. TypeOK'
  <2>1. pc' \in [Clients -> {"idle", "load", "unmap", "bytes", "unpin", "finish", "add"}]
    BY <1>0, <1>2 DEF TypeOK
  <2>2. use' \in [Clients -> [frame : FrameIds \cup {NoFrame}, kind : Kinds, joined : BOOLEAN]]
    BY <1>0, <1>2 DEF TypeOK, Idle, Kinds
  <2>3. txn_blocks' \subseteq Blocks BY <1>0, <1>1, <1>2 DEF TypeOK, MapInv, Valid
  <2> QED BY <1>0, <1>2, <2>1, <2>2, <2>3 DEF TypeOK, shard, flusher, history
<1>8. PinsAreUsers'
  <2>1. picks' = picks BY <1>2 DEF flusher
  <2> QED BY <1>0, <1>1, <1>3, <1>4, <2>1, StayPins DEF Inv
<1>9. LockInv' BY <1>0, <1>1, <1>3, <1>4, LockMoves
<1>10. UseInv'
  <2>1. UseInv!(t)' BY <1>3 DEF Moves, Idle, Modifying
  <2>2. allocated' = allocated BY <1>2 DEF shard
  <2> QED BY <1>0, <1>3, <1>4, <2>1, <2>2, UseMoves DEF KeepTxn
<1>11. TransactionHasFrames'
  <2>1. ~committing /\ ~committing' BY <1>0, <1>1, <1>2 DEF TransactionHasFrames
  <2>2. \A b : MappedTo(b)' = MappedTo(b)
    BY <1>2 DEF shard, MappedTo
  <2>3. \A b \in txn_blocks' : \E g \in MappedTo(b)' : frame'[g].in_txn /\ Valid(g)'
    <3>1. f \in MappedTo(frame[f].block) BY <1>1 DEF MappedTo, Valid
    <3>2. \A b \in txn_blocks : \E g \in MappedTo(b) : g \in FrameIds /\ frame[g].in_txn /\ Valid(g)
      BY <1>0 DEF TransactionHasFrames, MappedTo, TypeOK
    <3> QED BY <1>1, <1>2, <1>4, <1>5, <2>2, <3>1, <3>2
  <2>4. ASSUME NEW h \in FrameIds, frame'[h].in_txn
        PROVE  frame'[h].block \in txn_blocks' \/ \E u \in Clients : Keeper(u, h)'
    <3>1. frame[h].block \in txn_blocks \/ \E u \in Clients : Keeper(u, h)
      BY <1>0, <1>4, <2>4 DEF TransactionHasFrames, Keeper
    <3>2. CASE frame[h].block \in txn_blocks BY <1>2, <1>4, <3>2
    <3>3. ASSUME NEW u \in Clients, Keeper(u, h), u = t PROVE frame'[h].block \in txn_blocks'
      BY <1>1, <1>2, <1>4, <3>3 DEF Keeper
    <3>4. ASSUME NEW u \in Clients, Keeper(u, h), u # t PROVE Keeper(u, h)'
      BY <1>3, <3>4 DEF Keeper, Moves
    <3> QED BY <3>1, <3>2, <3>3, <3>4
  <2> QED BY <2>1, <2>3, <2>4 DEF TransactionHasFrames, Keeper
<1> QED BY <1>6, <1>7, <1>8, <1>9, <1>10, <1>11, LockedIsPinnedNext DEF Inv

\* A load that fails.
LEMMA LoadFailKeepsInv ==
  ASSUME Inv, NEW t \in Clients, LoadFail(t)
  PROVE  Inv'
<1> DEFINE f == use[t].frame
<1>0. TypeOK /\ UseInv /\ LockInv /\ MapInv BY DEF Inv
<1>1. /\ f \in FrameIds /\ f \in allocated /\ frame[f].owner = t /\ frame[f].mapped /\ ~frame[f].load_failed
      /\ frame[f].block \in Blocks /\ ~Valid(f) /\ pc[t] = "load"
      /\ \A h \in FrameIds : frame[h].owner = t => h = f
  BY Known DEF LoadFail
<1>2. /\ frame' \in [FrameIds -> Frames]
      /\ UNCHANGED <<allocated, dirty_count, disk, use, journal, flusher, history>>
      /\ KeepMap /\ KeepTxn /\ KeepDirty /\ KeepVersion /\ KeepPins /\ KeepData
      /\ Moves(t, "unmap")
      /\ \A h \in FrameIds : h # f =>
            frame'[h].owner = frame[h].owner /\ (frame'[h].load_failed <=> frame[h].load_failed)
      /\ frame'[f].owner = NoThread /\ frame'[f].load_failed
  BY <1>0, <1>1, LoadFailEffect
<1>3. \A h \in FrameIds : Valid(h)' <=> Valid(h) BY <1>1, <1>2 DEF Valid, KeepMap
<1>12. \A h \in FrameIds : frame'[h].owner # NoThread =>
          /\ h # f /\ frame'[h].owner = frame[h].owner /\ frame[h].owner # t /\ frame[h].owner \in Clients
          /\ pc'[frame[h].owner] = pc[frame[h].owner] /\ use'[frame[h].owner] = use[frame[h].owner]
  BY <1>0, <1>1, <1>2 DEF TypeOK, Frames, Moves
<1>4. /\ MapInv' /\ PickInv' /\ DataInv' /\ DirtyCounted'
      /\ NothingLost' /\ CleanMeansWritten' /\ NothingUncommittedOnDisk'
  <2>1. \A h \in FrameIds : /\ frame[h].in_txn => frame'[h].in_txn
                            /\ frame'[h].in_txn => frame[h].mapped
    BY <1>0, <1>2 DEF MapInv, KeepTxn
  <2>2. \A h \in FrameIds : frame'[h].version >= frame[h].version
    BY <1>0, <1>2 DEF KeepVersion, TypeOK, Frames
  <2>3. ASSUME NEW h \in FrameIds, frame[h].mapped, frame'[h].owner # NoThread,
               pc'[frame'[h].owner] = "bytes", use'[frame'[h].owner].kind # "fresh"
        PROVE  frame'[h].data = mem[frame[h].block]
    BY <1>2, <1>12, <2>3 DEF Inv, DataInv, KeepData
  <2> QED BY <1>2, <1>3, <2>1, <2>2, <2>3, QuietKeeps DEF KeepData
<1>5. TypeOK'
  <2>1. pc' \in [Clients -> {"idle", "load", "unmap", "bytes", "unpin", "finish", "add"}]
    BY <1>0 DEF LoadFail, TypeOK
  <2> QED BY <1>0, <1>2, <2>1 DEF TypeOK, journal, flusher, history
<1>6. PinsAreUsers'
  <2>1. picks' = picks BY <1>2 DEF flusher
  <2> QED BY <1>0, <1>1, <1>2, <2>1, StayPins DEF Inv
<1>7. LockInv'
  <2> SUFFICES ASSUME NEW h \in FrameIds PROVE LockInv!(h)'
    BY DEF LockInv
  <2>1. CASE h = f BY <1>2, <2>1 DEF Moves
  <2>2. CASE h # f
    <3>1. /\ frame'[h].owner = frame[h].owner /\ (frame'[h].load_failed <=> frame[h].load_failed)
          /\ (frame'[h].mapped <=> frame[h].mapped)
      BY <1>2, <2>2 DEF KeepMap
    <3>2. ASSUME frame[h].load_failed, frame[h].mapped
          PROVE  \E u \in Clients : pc'[u] = "unmap" /\ use'[u].frame = h
      <4>1. PICK u \in Clients : pc[u] = "unmap" /\ use[u].frame = h BY <1>0, <3>2 DEF LockInv
      <4> QED BY <1>1, <1>2, <4>1 DEF Moves
    <3> QED BY <1>0, <1>12, <3>1, <3>2 DEF LockInv
  <2> QED BY <2>1, <2>2
<1>8. UseInv'
  <2>1. \A u \in Clients : pc[u] \in {"load", "unmap", "finish", "add"} /\ use[u].frame = f => u = t
    BY <1>0, <1>1, NothingAssumption DEF UseInv
  <2> SUFFICES ASSUME NEW u \in Clients PROVE UseInv!(u)'
    BY DEF UseInv
  <2>2. CASE u = t
    <3>1. pc'[t] = "unmap" /\ use' = use /\ f \in allocated' BY <1>1, <1>2 DEF Moves
    <3>2. frame'[f].mapped BY <1>1, <1>2 DEF KeepMap
    <3>3. \A v \in Clients : pc'[v] = "unmap" /\ use'[v].frame = f => v = t
      BY <1>2, <2>1 DEF Moves
    <3> QED BY <1>0, <1>2, <2>2, <3>1, <3>2, <3>3 DEF UseInv, Modifying
  <2>3. CASE u # t
    <3>1. pc'[u] = pc[u] /\ use'[u] = use[u] BY <1>2, <2>3 DEF Moves
    <3>2. pc[u] # "idle" => use[u].frame \in FrameIds BY <1>0, UseFrame
    <3>3. CASE use[u].frame = f /\ pc[u] # "idle"
      BY <1>0, <1>1, <1>2, <2>1, <2>3, <3>1, <3>3 DEF UseInv, Modifying
    <3>4. CASE use[u].frame # f \/ pc[u] = "idle"
      <4>1. \A v \in Clients : pc'[v] = "unmap" /\ use'[v].frame = use[u].frame /\ pc[u] # "idle"
               => pc[v] = "unmap" /\ use[v].frame = use[u].frame
        BY <1>2, <3>4 DEF Moves
      <4> QED BY <1>0, <1>2, <3>1, <3>2, <3>4, <4>1 DEF UseInv, Modifying, KeepMap, KeepTxn
    <3> QED BY <3>3, <3>4
  <2> QED BY <2>2, <2>3
<1>9. TransactionHasFrames'
  <2>1. committing => use'[t].kind = "read" BY <1>2 DEF Inv, TransactionHasFrames
  <2>2. \A h \in FrameIds : Keeper(t, h) => Keeper(t, h)' BY <1>1, <1>2 DEF Keeper, Moves, Modifying
  <2> QED BY <1>2, <1>3, <2>1, <2>2, TransactionMoves DEF KeepTxn
<1> QED BY <1>4, <1>5, <1>6, <1>7, <1>8, <1>9, LockedIsPinnedNext DEF Inv

\* The frame of a failed load leaves the map.
LEMMA UnmapKeepsInv ==
  ASSUME Inv, NEW t \in Clients, Unmap(t)
  PROVE  Inv'
<1> DEFINE f == use[t].frame
<1>0. TypeOK /\ UseInv /\ LockInv /\ MapInv /\ PickInv /\ TransactionHasFrames BY DEF Inv
<1>1. /\ f \in FrameIds /\ f \in allocated /\ frame[f].pins # 0 /\ pc[t] = "unmap"
      /\ frame[f].load_failed /\ frame[f].mapped /\ frame[f].owner = NoThread /\ ~Valid(f)
      /\ \A h \in FrameIds : frame[h].owner # t
  BY Known DEF Unmap
<1>2. /\ frame' \in [FrameIds -> Frames]
      /\ UNCHANGED <<allocated, dirty_count, disk, journal, flusher, history>>
      /\ KeepLock /\ KeepDirty /\ KeepVersion /\ KeepData
      /\ Moves(t, "idle") /\ use'[t] = Idle
      /\ \A h \in FrameIds : h # f => /\ frame'[h].block = frame[h].block
                                      /\ frame'[h].mapped <=> frame[h].mapped
                                      /\ frame'[h].in_txn <=> frame[h].in_txn
                                      /\ frame'[h].pins = frame[h].pins
      /\ frame'[f].block = frame[f].block /\ ~frame'[f].mapped /\ ~frame'[f].in_txn
      /\ frame'[f].pins = frame[f].pins - 1
  BY <1>0, <1>1, UnmapEffect
<1>3. \A h \in FrameIds : Valid(h)' <=> Valid(h) BY <1>1, <1>2 DEF Valid, KeepLock
<1>4. /\ \A b : MappedTo(b)' = MappedTo(b) \ {f}
      /\ \A b : MappedTo(b) \subseteq FrameIds
      /\ ~frame[f].dirty /\ f \notin DOMAIN picks
  <2>1. \A b : MappedTo(b)' = MappedTo(b) \ {f} BY <1>0, <1>2 DEF MappedTo, TypeOK
  <2>2. \A b : MappedTo(b) \subseteq FrameIds BY <1>0 DEF MappedTo, TypeOK
  <2>3. ~frame[f].dirty /\ f \notin DOMAIN picks BY <1>0, <1>1 DEF MapInv, PickInv
  <2> QED BY <2>1, <2>2, <2>3
<1>5. MapInv'
  <2>1. \A h \in FrameIds : frame'[h].dirty => Valid(h)' BY <1>0, <1>2, <1>3 DEF MapInv, KeepDirty
  <2>2. \A g, h \in FrameIds :
           frame'[g].mapped /\ frame'[h].mapped /\ frame'[g].block = frame'[h].block => g = h
    BY <1>0, <1>2 DEF MapInv
  <2>3. \A h \in FrameIds : /\ frame'[h].mapped => h \in allocated' /\ frame'[h].block \in Blocks
                            /\ frame'[h].in_txn => frame'[h].mapped
    BY <1>0, <1>2 DEF MapInv
  <2> QED BY <2>1, <2>2, <2>3 DEF MapInv
<1>6. PickInv'
  <2>1. picks' = picks /\ run' = run /\ written' = written /\ disk' = disk /\ committed' = committed
    BY <1>2 DEF flusher, history
  <2>2. \A h \in DOMAIN picks : /\ h \in FrameIds /\ (frame'[h].dirty <=> frame[h].dirty)
                                /\ frame'[h].version = frame[h].version /\ frame'[h].data = frame[h].data
                                /\ frame'[h].block = frame[h].block /\ (frame'[h].in_txn <=> frame[h].in_txn)
    BY <1>0, <1>2, <1>4 DEF TypeOK, KeepDirty, KeepVersion, KeepData
  <2>3. DOMAIN run \subseteq DOMAIN picks /\ written \subseteq DOMAIN run BY <1>0 DEF TypeOK
  <2> QED BY <1>0, <2>1, <2>2, <2>3 DEF PickInv
<1>7. DataInv'
  <2>1. mem' = mem /\ committed' = committed /\ disk' = disk BY <1>2 DEF history
  <2>2. \A b \in Blocks :
          /\ committed[b] <= mem[b]
          /\ mem[b] # committed[b] => \E g \in MappedTo(b)' : frame'[g].in_txn /\ Valid(g)'
    BY <1>1, <1>2, <1>3, <1>4 DEF Inv, DataInv
  <2>3. ASSUME NEW h \in FrameIds, frame'[h].mapped
        PROVE  /\ ~Valid(h)' => disk[frame'[h].block] = mem[frame'[h].block]
               /\ /\ frame'[h].owner # NoThread
                  /\ pc'[frame'[h].owner] = "bytes" /\ use'[frame'[h].owner].kind # "fresh"
                  => frame'[h].data = mem[frame'[h].block]
    <3>1. /\ h # f /\ frame[h].mapped /\ frame'[h].block = frame[h].block /\ frame'[h].data = frame[h].data
          /\ frame'[h].owner = frame[h].owner /\ frame[h].owner # t
          /\ frame[h].owner \in Clients \cup {NoThread}
      BY <1>0, <1>1, <1>2, <2>3 DEF KeepData, KeepLock, TypeOK, Frames
    <3>2. frame[h].owner # NoThread => /\ pc'[frame[h].owner] = pc[frame[h].owner]
                                       /\ use'[frame[h].owner] = use[frame[h].owner]
      BY <1>2, <3>1 DEF Moves
    <3> QED BY <1>3, <3>1, <3>2 DEF Inv, DataInv
  <2> QED BY <2>1, <2>2, <2>3 DEF DataInv
<1>8. NothingLost'
  <2>1. disk[frame[f].block] = mem[frame[f].block] BY <1>1 DEF Inv, DataInv
  <2>2. \A b \in Blocks : f \in MappedTo(b) => b = frame[f].block BY DEF MappedTo
  <2>3. mem' = mem /\ disk' = disk BY <1>2 DEF history
  <2> SUFFICES ASSUME NEW b \in Blocks PROVE NothingLost!(b)'
    BY DEF NothingLost
  <2>4. CASE MappedTo(b)' = {} BY <1>4, <2>1, <2>2, <2>3, <2>4 DEF Inv, NothingLost
  <2>5. CASE MappedTo(b)' # {}
    BY <1>2, <1>3, <1>4, <2>3, <2>5 DEF Inv, NothingLost, KeepData
  <2> QED BY <2>4, <2>5
<1>9. CleanMeansWritten'
  <2> SUFFICES ASSUME NEW h \in FrameIds, h \in allocated, Valid(h), ~frame'[h].dirty, ~frame'[h].in_txn
               PROVE  disk[frame'[h].block] = frame'[h].data
    BY <1>0, <1>2, <1>3 DEF CleanMeansWritten, TypeOK
  <2> QED BY <1>1, <1>2 DEF Inv, CleanMeansWritten, KeepDirty, KeepData
<1>10. NothingUncommittedOnDisk' BY <1>2 DEF Inv, NothingUncommittedOnDisk, history
<1>11. DirtyCounted'
  <2>1. DirtyFrames' = DirtyFrames BY <1>0, <1>2, <1>4 DEF DirtyFrames, KeepDirty, TypeOK
  <2> QED BY <1>2, <2>1, SameDirty DEF Inv
<1>12. TypeOK'
  <2>1. pc' \in [Clients -> {"idle", "load", "unmap", "bytes", "unpin", "finish", "add"}]
    BY <1>0 DEF Unmap, TypeOK
  <2>2. use' \in [Clients -> [frame : FrameIds \cup {NoFrame}, kind : Kinds, joined : BOOLEAN]]
    BY <1>0 DEF Unmap, TypeOK, Idle, Kinds
  <2> QED BY <1>0, <1>2, <2>1, <2>2 DEF TypeOK, journal, flusher, history
<1>13. PinsAreUsers'
  <2>1. picks' = picks BY <1>2 DEF flusher
  <2>2. \A h \in FrameIds : h # f => frame'[h].pins = frame[h].pins BY <1>2
  <2> QED BY <1>0, <1>1, <1>2, <2>1, <2>2, LeavePins DEF Inv
<1>14. LockInv'
  <2> SUFFICES ASSUME NEW h \in FrameIds PROVE LockInv!(h)'
    BY DEF LockInv
  <2>1. frame'[h].owner = frame[h].owner /\ (frame'[h].load_failed <=> frame[h].load_failed)
    BY <1>2 DEF KeepLock
  <2>2. CASE h = f BY <1>1, <1>2, <2>1, <2>2
  <2>3. CASE h # f
    <3>1. frame[h].owner # NoThread => /\ frame[h].owner # t /\ frame[h].owner \in Clients
                                       /\ pc'[frame[h].owner] = pc[frame[h].owner]
                                       /\ use'[frame[h].owner] = use[frame[h].owner]
      BY <1>0, <1>1, <1>2 DEF Moves, TypeOK, Frames
    <3>2. ASSUME frame[h].load_failed, frame[h].mapped
          PROVE  \E u \in Clients : pc'[u] = "unmap" /\ use'[u].frame = h
      <4>1. PICK u \in Clients : pc[u] = "unmap" /\ use[u].frame = h BY <1>0, <3>2 DEF LockInv
      <4>2. u # t BY <2>3, <4>1
      <4> QED BY <1>2, <4>1, <4>2 DEF Moves
    <3>3. frame'[h].mapped <=> frame[h].mapped BY <1>2, <2>3
    <3> QED BY <1>0, <2>1, <3>1, <3>2, <3>3 DEF LockInv
  <2> QED BY <2>2, <2>3
<1>15. UseInv'
  <2>1. \A u \in Clients : pc[u] \in {"load", "unmap", "finish", "add"} /\ use[u].frame = f => u = t
    BY <1>0, <1>1, NothingAssumption DEF UseInv
  <2> SUFFICES ASSUME NEW u \in Clients PROVE UseInv!(u)'
    BY DEF UseInv
  <2>2. CASE u = t BY <1>2, <2>2 DEF Moves, Idle, Modifying
  <2>3. CASE u # t
    <3>1. pc'[u] = pc[u] /\ use'[u] = use[u] BY <1>2, <2>3 DEF Moves
    <3>2. pc[u] # "idle" => use[u].frame \in FrameIds BY <1>0, UseFrame
    <3>3. CASE use[u].frame = f /\ pc[u] # "idle"
      BY <1>0, <1>1, <1>2, <2>1, <2>3, <3>1, <3>3 DEF UseInv, Modifying, KeepLock
    <3>4. CASE use[u].frame # f \/ pc[u] = "idle"
      <4>1. \A v \in Clients : pc'[v] = "unmap" => pc[v] = "unmap" /\ use'[v] = use[v]
        BY <1>2 DEF Moves
      <4> QED BY <1>0, <1>2, <3>1, <3>2, <3>4, <4>1 DEF UseInv, Modifying, KeepLock
    <3> QED BY <3>3, <3>4
  <2> QED BY <2>2, <2>3
<1>16. TransactionHasFrames'
  <2>1. committing' => txn_blocks' # {} /\ \A u \in Clients : use'[u].kind = "read"
    BY <1>0, <1>2 DEF TransactionHasFrames, Moves, journal, Idle
  <2>2. \A b \in txn_blocks' : \E g \in MappedTo(b)' : frame'[g].in_txn /\ Valid(g)'
    BY <1>0, <1>1, <1>2, <1>3, <1>4 DEF TransactionHasFrames, journal
  <2>3. ASSUME NEW h \in FrameIds, frame'[h].in_txn
        PROVE  frame'[h].block \in txn_blocks' \/ \E u \in Clients : Keeper(u, h)'
    <3>1. h # f /\ frame[h].in_txn /\ frame'[h].block = frame[h].block BY <1>2, <2>3
    <3>2. frame[h].block \in txn_blocks \/ \E u \in Clients : Keeper(u, h)
      BY <1>0, <3>1 DEF TransactionHasFrames, Keeper
    <3>3. ASSUME NEW u \in Clients, Keeper(u, h) PROVE Keeper(u, h)'
      BY <1>2, <3>1, <3>3 DEF Keeper, Moves
    <3> QED BY <1>2, <3>1, <3>2, <3>3 DEF journal
  <2> QED BY <2>1, <2>2, <2>3 DEF TransactionHasFrames, Keeper
<1> QED BY <1>5, <1>6, <1>7, <1>8, <1>9, <1>10, <1>11, <1>12, <1>13, <1>14, <1>15, <1>16, LockedIsPinnedNext
        DEF Inv

\* The bytes are read or changed.
LEMMA BytesKeepsInv ==
  ASSUME Inv, NEW t \in Clients, Bytes(t)
  PROVE  Inv'
<1> DEFINE f == use[t].frame
           e == frame[f].block
<1>0. TypeOK /\ UseInv /\ LockInv /\ MapInv /\ PickInv /\ TransactionHasFrames /\ DataInv BY DEF Inv
<1>1. /\ f \in FrameIds /\ f \in allocated /\ pc[t] = "bytes"
      /\ \A h \in FrameIds : frame[h].owner = t => h = f
  BY Known DEF Bytes
<1>2. ~frame[f].load_failed => /\ frame[f].mapped /\ e \in Blocks
                               /\ use[t].kind # "read" => frame[f].in_txn
  BY <1>0, <1>1 DEF UseInv, Modifying, MapInv
<1>3. /\ frame' \in [FrameIds -> Frames] /\ mem' \in [Blocks -> Nat]
      /\ UNCHANGED <<allocated, dirty_count, disk, use, journal, flusher, committed>>
      /\ KeepMap /\ KeepTxn /\ KeepDirty /\ KeepVersion /\ KeepPins
      /\ frame[f].owner \in {t, NoThread} /\ frame'[f].owner = NoThread
      /\ \A h \in FrameIds : frame'[h].load_failed <=> frame[h].load_failed
      /\ \A h \in FrameIds : h # f => frame'[h].owner = frame[h].owner /\ frame'[h].data = frame[h].data
      /\ \A b \in Blocks : b # e => mem'[b] = mem[b]
      /\ \/ /\ frame[f].load_failed \/ use[t].kind = "read"
            /\ Moves(t, "unpin") /\ mem' = mem /\ KeepData
         \/ /\ ~frame[f].load_failed /\ use[t].kind # "read"
            /\ Moves(t, "finish")
            /\ mem'[e] = mem[e] + 1
            /\ frame'[f].data = IF use[t].kind = "fresh" THEN mem[e] + 1 ELSE frame[f].data + 1
  BY <1>0, <1>2, BytesEffect
<1> DEFINE Reads == /\ frame[f].load_failed \/ use[t].kind = "read"
                    /\ Moves(t, "unpin") /\ mem' = mem /\ KeepData
           Writes == /\ ~frame[f].load_failed /\ use[t].kind # "read"
                     /\ Moves(t, "finish")
                     /\ mem'[e] = mem[e] + 1
                     /\ frame'[f].data = IF use[t].kind = "fresh" THEN mem[e] + 1 ELSE frame[f].data + 1
<1>4. Reads \/ Writes BY <1>3
<1>5. \A h \in FrameIds : h # f => (Valid(h)' <=> Valid(h)) BY <1>3 DEF Valid, KeepMap
<1>6. (Valid(f) => Valid(f)') /\ (Valid(f)' => ~frame[f].load_failed /\ frame[f].mapped)
  BY <1>1, <1>3 DEF Valid, KeepMap
<1>7. (\A b : MappedTo(b)' = MappedTo(b)) /\ (\A b : MappedTo(b) \subseteq FrameIds)
  <2>1. \A b : MappedTo(b) \subseteq FrameIds BY <1>0 DEF MappedTo, TypeOK
  <2> QED BY <1>0, <1>3, <2>1, SameMap
\* A frame that is not being loaded by t into fresh bytes has the block's last change.
<1>8. ~frame[f].load_failed /\ (use[t].kind # "fresh" \/ frame[f].owner = NoThread) => frame[f].data = mem[e]
  <2> SUFFICES ASSUME ~frame[f].load_failed, use[t].kind # "fresh" \/ frame[f].owner = NoThread
               PROVE  frame[f].data = mem[e]
    OBVIOUS
  <2>1. CASE frame[f].owner = NoThread
    <3>1. Valid(f) /\ f \in MappedTo(e) BY <1>1, <1>2, <2>1 DEF Valid, MappedTo
    <3> QED BY <1>2, <3>1 DEF Inv, NothingLost
  <2>2. CASE frame[f].owner = t BY <1>0, <1>1, <1>2, <2>2, NothingAssumption DEF DataInv
  <2> QED BY <1>3, <2>1, <2>2
<1>9. Valid(f)' => frame'[f].data = mem'[e] /\ e \in Blocks
  <2> SUFFICES ASSUME Valid(f)' PROVE frame'[f].data = mem'[e]
    BY <1>2, <1>6
  <2>1. CASE Reads BY <1>1, <1>6, <1>8, <2>1 DEF KeepData
  <2>2. CASE Writes BY <1>8, <2>2
  <2> QED BY <1>4, <2>1, <2>2
<1>10. /\ frame[f].owner = t => ~Valid(f) /\ frame[f].mapped /\ disk[e] = mem[e]
       /\ frame[f].owner = NoThread /\ Valid(f)' => Valid(f)
  BY <1>0, <1>1, <1>6, NothingAssumption DEF Valid, LockInv, DataInv
<1>11. \A h \in FrameIds : h # f /\ frame[h].mapped => frame[h].block \in Blocks /\ mem'[frame[h].block] = mem[frame[h].block]
  BY <1>0, <1>1, <1>2, <1>3 DEF MapInv
<1>12. \A h \in FrameIds : h # f =>
          /\ frame[h].owner # t
          /\ frame[h].owner # NoThread => /\ frame[h].owner \in Clients
                                          /\ pc'[frame[h].owner] = pc[frame[h].owner]
  BY <1>0, <1>1, <1>3 DEF TypeOK, Frames, Moves
<1>13. MapInv'
  <2>1. \A h \in FrameIds : frame'[h].dirty => Valid(h)' BY <1>0, <1>3, <1>5, <1>6 DEF MapInv, KeepDirty
  <2>2. \A g, h \in FrameIds :
           frame'[g].mapped /\ frame'[h].mapped /\ frame'[g].block = frame'[h].block => g = h
    BY <1>0, <1>3 DEF MapInv, KeepMap
  <2>3. \A h \in FrameIds : /\ frame'[h].mapped => h \in allocated' /\ frame'[h].block \in Blocks
                            /\ frame'[h].in_txn => frame'[h].mapped
    BY <1>0, <1>3 DEF MapInv, KeepMap, KeepTxn
  <2> QED BY <2>1, <2>2, <2>3 DEF MapInv
<1>14. PickInv'
  <2>1. picks' = picks /\ run' = run /\ written' = written /\ disk' = disk /\ committed' = committed
    BY <1>3 DEF flusher
  <2>2. \A h \in DOMAIN picks : /\ h \in FrameIds /\ (frame'[h].dirty <=> frame[h].dirty)
                                /\ frame'[h].version = frame[h].version /\ frame'[h].block = frame[h].block
                                /\ (frame'[h].in_txn <=> frame[h].in_txn)
    BY <1>0, <1>3 DEF TypeOK, KeepDirty, KeepVersion, KeepTxn, KeepMap
  <2>3. \A h \in DOMAIN picks : \/ frame'[h].data = frame[h].data
                                \/ frame[h].in_txn /\ frame'[h].data = frame[h].data + 1
    <3> SUFFICES ASSUME NEW h \in DOMAIN picks, h = f, Writes
                 PROVE  frame[h].in_txn /\ frame'[h].data = frame[h].data + 1
      BY <1>3, <1>4, <2>2 DEF KeepData
    <3>1. Valid(f) BY PickedIsDirty
    <3>2. frame[f].data = mem[e] BY <1>8, <3>1 DEF Valid
    <3> QED BY <1>2, <3>2
  <2>4. DOMAIN run \subseteq DOMAIN picks /\ written \subseteq DOMAIN run BY <1>0 DEF TypeOK
  <2>5. ASSUME NEW h \in DOMAIN run
        PROVE  /\ run[h].data <= frame'[h].data
               /\ run[h].checked \/ ~frame'[h].in_txn => run[h].data <= committed[frame'[h].block]
               /\ frame'[h].version = picks[h] /\ ~frame'[h].in_txn => run[h].data = frame'[h].data
    <3>1. /\ run[h] \in [data : Nat, checked : BOOLEAN]
          /\ run[h].data <= frame[h].data
          /\ run[h].checked \/ ~frame[h].in_txn => run[h].data <= committed[frame[h].block]
          /\ frame[h].version = picks[h] /\ ~frame[h].in_txn => run[h].data = frame[h].data
      BY <1>0 DEF PickInv
    <3>2. run[h].data \in Nat /\ frame[h].data \in Nat BY <1>0, <2>2, <2>4, <3>1 DEF TypeOK, Frames
    <3>3. h \in DOMAIN picks BY <2>4
    <3> QED BY <2>2, <2>3, <3>1, <3>2, <3>3
  <2> QED BY <1>0, <2>1, <2>2, <2>4, <2>5 DEF PickInv
<1>15. DataInv'
  <2>1. committed' = committed /\ disk' = disk /\ use' = use BY <1>3
  <2>2. ASSUME NEW b \in Blocks
        PROVE  /\ committed[b] <= mem'[b]
               /\ mem'[b] # committed[b] => \E g \in MappedTo(b)' : frame'[g].in_txn /\ Valid(g)'
    <3>1. committed[b] \in Nat /\ mem[b] \in Nat BY <1>0 DEF TypeOK
    <3>2. CASE mem'[b] = mem[b] BY <1>0, <1>3, <1>5, <1>6, <1>7, <3>2 DEF DataInv, KeepTxn
    <3>3. CASE mem'[b] # mem[b]
      <4>1. Writes /\ b = e BY <1>3, <1>4, <3>3
      <4>2. frame'[f].in_txn BY <1>1, <1>2, <1>3, <4>1 DEF KeepTxn
      <4>3. Valid(f)' BY <1>1, <1>2, <1>3, <4>1 DEF Valid, KeepMap
      <4>4. f \in MappedTo(b)' BY <1>1, <1>2, <1>7, <4>1 DEF MappedTo
      <4>5. committed[b] <= mem[b] /\ mem'[b] = mem[b] + 1 BY <1>0, <4>1 DEF DataInv
      <4>6. use' = use /\ committed[b] <= mem'[b] BY <1>3, <3>1, <4>5
      <4> QED BY <4>2, <4>3, <4>4, <4>6
    <3> QED BY <3>2, <3>3
  <2>3. ASSUME NEW h \in FrameIds, frame'[h].mapped
        PROVE  /\ ~Valid(h)' => disk[frame'[h].block] = mem'[frame'[h].block]
               /\ /\ frame'[h].owner # NoThread
                  /\ pc'[frame'[h].owner] = "bytes" /\ use[frame'[h].owner].kind # "fresh"
                  => frame'[h].data = mem'[frame'[h].block]
    <3>1. frame[h].mapped /\ frame'[h].block = frame[h].block BY <1>3, <2>3 DEF KeepMap
    <3>2. CASE h = f
      <4>1. ~Valid(f)' => Reads /\ ~Valid(f) BY <1>1, <1>2, <1>3, <1>4, <1>6 DEF Valid, KeepMap
      <4> QED BY <1>0, <1>3, <3>1, <3>2, <4>1 DEF DataInv
    <3>3. CASE h # f
      <4>1. /\ frame'[h].owner = frame[h].owner /\ frame'[h].data = frame[h].data
            /\ mem'[frame[h].block] = mem[frame[h].block] /\ (Valid(h)' <=> Valid(h))
        BY <1>3, <1>5, <1>11, <3>1, <3>3
      <4>2. frame[h].owner # NoThread => pc'[frame[h].owner] = pc[frame[h].owner] BY <1>12, <3>3
      <4> QED BY <1>0, <3>1, <4>1, <4>2 DEF DataInv
    <3> QED BY <3>2, <3>3
  <2> QED BY <2>1, <2>2, <2>3 DEF DataInv
<1>16. NothingLost'
  <2> SUFFICES ASSUME NEW b \in Blocks PROVE NothingLost!(b)'
    BY DEF NothingLost
  <2>1. CASE MappedTo(b) = {}
    <3>1. mem'[b] = mem[b]
      <4>1. CASE Reads BY <4>1
      <4>2. CASE Writes BY <1>1, <1>2, <1>3, <2>1, <4>2 DEF MappedTo
      <4> QED BY <1>4, <4>1, <4>2
    <3> QED BY <1>3, <1>7, <2>1, <3>1 DEF Inv, NothingLost
  <2>2. ASSUME NEW g \in MappedTo(b), Valid(g)' PROVE frame'[g].data = mem'[b]
    <3>1. g \in FrameIds /\ frame[g].block = b /\ frame[g].mapped BY <1>7 DEF MappedTo
    <3>2. CASE g = f BY <1>3, <1>9, <2>2, <3>1, <3>2
    <3>3. CASE g # f
      <4>1. frame[g].data = mem[b] BY <1>5, <2>2, <3>1, <3>3 DEF Inv, NothingLost
      <4> QED BY <1>3, <1>11, <3>1, <3>3, <4>1
    <3> QED BY <3>2, <3>3
  <2> QED BY <1>7, <2>1, <2>2
<1>17. CleanMeansWritten'
  <2> SUFFICES ASSUME NEW h \in FrameIds, h \in allocated, Valid(h)', ~frame[h].dirty, ~frame[h].in_txn
               PROVE  disk[frame[h].block] = frame'[h].data
    BY <1>0, <1>3 DEF CleanMeansWritten, TypeOK, KeepDirty, KeepTxn, KeepMap
  <2>1. CASE h = f
    <3>1. Reads BY <1>2, <1>4, <2>1
    <3>4. Valid(f)' /\ frame'[f].data = frame[f].data BY <1>1, <1>3, <2>1, <3>1 DEF KeepData
    <3>2. CASE frame[f].owner = t
      <4>1. frame'[f].data = mem'[e] BY <1>9, <3>4
      <4> QED BY <1>10, <2>1, <3>1, <3>2, <4>1
    <3>3. CASE frame[f].owner = NoThread
      BY <1>1, <1>10, <2>1, <3>3, <3>4 DEF Inv, CleanMeansWritten
    <3> QED BY <1>3, <3>2, <3>3
  <2>2. CASE h # f BY <1>3, <1>5, <2>2 DEF Inv, CleanMeansWritten
  <2> QED BY <2>1, <2>2
<1>18. NothingUncommittedOnDisk' BY <1>3 DEF Inv, NothingUncommittedOnDisk
<1>19. DirtyCounted'
  <2>1. DirtyFrames' = DirtyFrames BY <1>0, <1>3 DEF DirtyFrames, KeepDirty, KeepMap, TypeOK
  <2> QED BY <1>3, <2>1, SameDirty DEF Inv
<1>20. TypeOK'
  <2>1. pc' \in [Clients -> {"idle", "load", "unmap", "bytes", "unpin", "finish", "add"}]
    BY <1>0 DEF Bytes, TypeOK
  <2> QED BY <1>0, <1>3, <2>1 DEF TypeOK, journal, flusher
<1>21. PinsAreUsers'
  <2>1. picks' = picks BY <1>3 DEF flusher
  <2>2. CASE Reads BY <1>0, <1>1, <1>3, <2>1, <2>2, StayPins DEF Inv
  <2>3. CASE Writes BY <1>0, <1>1, <1>3, <2>1, <2>3, StayPins DEF Inv
  <2> QED BY <1>4, <2>2, <2>3
<1>22. LockInv'
  <2> SUFFICES ASSUME NEW h \in FrameIds PROVE LockInv!(h)'
    BY DEF LockInv
  <2>1. (frame'[h].mapped <=> frame[h].mapped) /\ (frame'[h].load_failed <=> frame[h].load_failed)
    BY <1>3 DEF KeepMap
  <2>2. ASSUME frame[h].load_failed, frame[h].mapped
        PROVE  \E u \in Clients : pc'[u] = "unmap" /\ use'[u].frame = h
    <3>1. PICK u \in Clients : pc[u] = "unmap" /\ use[u].frame = h BY <1>0, <2>2 DEF LockInv
    <3>2. u # t BY <1>1, <3>1
    <3> QED BY <1>3, <3>1, <3>2 DEF Moves
  <2>3. CASE h = f BY <1>3, <2>1, <2>2, <2>3
  <2>4. CASE h # f
    <3>1. ASSUME frame[h].owner # NoThread
          PROVE  /\ pc'[frame[h].owner] \in {"load", "bytes"} /\ use'[frame[h].owner].frame = h
                 /\ frame[h].mapped /\ ~frame[h].load_failed
      BY <1>0, <1>3, <1>12, <2>4, <3>1 DEF LockInv
    <3> QED BY <1>3, <2>1, <2>2, <2>4, <3>1
  <2> QED BY <2>3, <2>4
<1>23. UseInv'
  <2> SUFFICES ASSUME NEW u \in Clients PROVE UseInv!(u)'
    BY DEF UseInv
  <2>1. use' = use /\ allocated' = allocated BY <1>3
  <2>2. pc[u] # "idle" => use[u].frame \in FrameIds BY <1>0, UseFrame
  <2>3. CASE u = t
    <3>1. /\ (frame'[f].mapped <=> frame[f].mapped) /\ (frame'[f].in_txn <=> frame[f].in_txn)
          /\ (frame'[f].load_failed <=> frame[f].load_failed)
      BY <1>1, <1>3 DEF KeepMap, KeepTxn
    <3>2. CASE Reads
      <4>1. pc'[t] = "unpin" BY <3>2 DEF Moves
      <4> QED BY <1>0, <1>1, <2>1, <2>3, <4>1 DEF UseInv, Modifying
    <3>3. CASE Writes
      <4>1. pc'[t] = "finish" BY <3>3 DEF Moves
      <4> QED BY <1>0, <1>1, <1>2, <1>3, <2>1, <2>3, <3>1, <3>3, <4>1 DEF UseInv
    <3> QED BY <1>4, <3>2, <3>3
  <2>4. CASE u # t
    <3>1. pc'[u] = pc[u] BY <1>3, <2>4 DEF Moves
    <3>2. \A v \in Clients : pc'[v] = "unmap" => pc[v] = "unmap" BY <1>3 DEF Moves
    <3>3. pc[u] = "load" => use[u].frame # f BY <1>0, <1>3, <2>4, NothingAssumption DEF UseInv
    <3>4. CASE pc[u] = "idle" BY <1>0, <2>1, <3>1, <3>4 DEF UseInv, Modifying
    <3>5. CASE pc[u] # "idle"
      <4> DEFINE g == use[u].frame
      <4>1. /\ (frame'[g].mapped <=> frame[g].mapped) /\ (frame'[g].in_txn <=> frame[g].in_txn)
            /\ (frame'[g].load_failed <=> frame[g].load_failed)
            /\ (g # f => frame'[g].owner = frame[g].owner) /\ (g = f => frame'[g].owner = NoThread)
        BY <1>3, <2>2, <3>5 DEF KeepMap, KeepTxn
      <4> QED BY <1>0, <2>1, <3>1, <3>2, <3>3, <3>5, <4>1 DEF UseInv, Modifying
    <3> QED BY <3>4, <3>5
  <2> QED BY <2>3, <2>4
<1>24. TransactionHasFrames'
  <2>1. committing' => txn_blocks' # {} /\ \A u \in Clients : use'[u].kind = "read"
    BY <1>0, <1>3 DEF TransactionHasFrames, journal
  <2>2. \A b \in txn_blocks' : \E g \in MappedTo(b)' : frame'[g].in_txn /\ Valid(g)'
    BY <1>0, <1>3, <1>5, <1>6, <1>7 DEF TransactionHasFrames, journal, KeepTxn
  <2>3. ASSUME NEW h \in FrameIds, frame'[h].in_txn
        PROVE  frame'[h].block \in txn_blocks' \/ \E u \in Clients : Keeper(u, h)'
    <3>1. frame[h].in_txn /\ frame'[h].block = frame[h].block BY <1>3, <2>3 DEF KeepTxn, KeepMap
    <3>2. frame[h].block \in txn_blocks \/ \E u \in Clients : Keeper(u, h)
      BY <1>0, <3>1 DEF TransactionHasFrames, Keeper
    <3>3. CASE frame[h].block \in txn_blocks BY <1>3, <3>1, <3>3 DEF journal
    <3>4. ASSUME NEW u \in Clients, Keeper(u, h), u # t PROVE Keeper(u, h)'
      BY <1>3, <3>4 DEF Keeper, Moves
    <3>5. ASSUME Keeper(t, h) PROVE \E u \in Clients : Keeper(u, h)'
      <4>1. h = f /\ use[t].joined BY <1>1, <3>5 DEF Keeper
      <4>2. CASE Writes BY <1>3, <4>1, <4>2 DEF Keeper, Moves, Modifying
      <4>3. CASE Reads
        <5>1. use[t].kind # "read" BY <1>0, <4>1 DEF UseInv
        <5>2. frame[f].load_failed /\ frame[f].mapped BY <1>0, <3>1, <4>1, <4>3, <5>1 DEF MapInv
        <5>3. PICK u \in Clients : pc[u] = "unmap" /\ use[u].frame = f BY <1>0, <1>1, <5>2 DEF LockInv
        <5>4. u # t BY <1>1, <5>3
        <5> QED BY <1>3, <4>1, <5>3, <5>4 DEF Keeper, Moves
      <4> QED BY <1>4, <4>2, <4>3
    <3> QED BY <3>2, <3>3, <3>4, <3>5
  <2> QED BY <2>1, <2>2, <2>3 DEF TransactionHasFrames, Keeper
<1> QED BY <1>13, <1>14, <1>15, <1>16, <1>17, <1>18, <1>19, <1>20, <1>21, <1>22, <1>23, <1>24, LockedIsPinnedNext
        DEF Inv

\* The frame take_frame finds is nobody's, and the block it held is on disk.
LEMMA Taken ==
  ASSUME Inv, NEW f \in FrameIds, TakeFrame(f)
  PROVE  /\ allocated' = allocated \cup {f} /\ disk' \in [Blocks -> Nat]
         /\ UsersOf(f) = {} /\ f \notin DOMAIN picks /\ frame[f].pins = 0 /\ ~frame[f].in_txn
         /\ \A u \in Clients : pc[u] # "idle" => use[u].frame # f
         /\ frame[f].mapped => /\ f \in allocated /\ frame[f].block \in Blocks
                               /\ disk'[frame[f].block] = mem[frame[f].block]
                               /\ disk'[frame[f].block] = committed[frame[f].block]
         /\ \A c \in Blocks : (frame[f].mapped /\ c = frame[f].block) \/ disk'[c] = disk[c]
         /\ dirty_count' = dirty_count - (IF f \in DirtyFrames THEN 1 ELSE 0)
<1>0. TypeOK /\ PinsAreUsers /\ MapInv /\ LockInv /\ UseInv /\ PickInv BY DEF Inv
<1>1. allocated' = allocated \cup {f} BY DEF TakeFrame, CleanVictims, DirtyVictims
<1>2. /\ f \notin allocated => ~frame[f].mapped /\ UsersOf(f) = {} /\ f \notin DOMAIN picks /\ ~frame[f].in_txn
      /\ f \in allocated => Free(f)
  <2>1. f \notin allocated => ~frame[f].mapped /\ ~frame[f].dirty /\ ~frame[f].in_txn
    BY <1>0 DEF MapInv, Valid
  <2>2. f \notin allocated => UsersOf(f) = {} BY <1>0 DEF UseInv, UsersOf
  <2>3. f \notin allocated => f \notin DOMAIN picks BY <1>0, <2>1 DEF PickInv
  <2>4. f \in allocated => Free(f) BY DEF TakeFrame, CleanVictims, DirtyVictims
  <2> QED BY <2>1, <2>2, <2>3, <2>4
<1>3. UsersOf(f) = {} /\ f \notin DOMAIN picks /\ frame[f].pins = 0 /\ ~frame[f].in_txn
  BY <1>0, <1>2, UnpinnedIsUnused, UnusedIsUnpinned DEF Free
<1>4. ASSUME NEW u \in Clients, pc[u] # "idle", use[u].frame = f PROVE FALSE
  <2>1. pc[u] = "add" BY <1>3, <1>4 DEF UsersOf
  <2> QED BY <1>3, <1>4, <2>1, Known
<1>5. frame[f].mapped => /\ f \in allocated /\ frame[f].block \in Blocks /\ Valid(f)
                         /\ frame[f].data = mem[frame[f].block]
                         /\ frame[f].data = committed[frame[f].block]
  <2> SUFFICES ASSUME frame[f].mapped
               PROVE  /\ f \in allocated /\ frame[f].block \in Blocks /\ Valid(f)
                      /\ frame[f].data = mem[frame[f].block] /\ frame[f].data = committed[frame[f].block]
    OBVIOUS
  <2>1. f \in allocated /\ frame[f].block \in Blocks BY <1>0 DEF MapInv
  <2>2. frame[f].owner = NoThread BY <1>3 DEF Inv, FreeIsUnlocked
  <2>3. ~frame[f].load_failed BY <1>0, <1>4 DEF LockInv
  <2>4. Valid(f) BY <2>2, <2>3 DEF Valid
  <2> QED BY <1>3, <2>1, <2>4, OutsideIsCommitted
<1>6. CASE /\ UNCHANGED <<disk, dirty_count>> /\ (~frame[f].mapped \/ ~frame[f].dirty)
  <2>1. frame[f].mapped => disk[frame[f].block] = frame[f].data
    BY <1>3, <1>5, <1>6 DEF Inv, CleanMeansWritten
  <2>2. disk' \in [Blocks -> Nat] /\ dirty_count \in Nat BY <1>0, <1>6 DEF TypeOK
  <2>3. f \notin DirtyFrames BY <1>6 DEF DirtyFrames
  <2> QED BY <1>1, <1>3, <1>4, <1>5, <1>6, <2>1, <2>2, <2>3
<1>7. CASE /\ disk' = [disk EXCEPT ![frame[f].block] = frame[f].data]
           /\ dirty_count' = dirty_count - 1 /\ frame[f].mapped /\ frame[f].dirty
  <2>1. f \in DirtyFrames BY <1>5, <1>7 DEF DirtyFrames
  <2>2. frame[f].data \in Nat BY <1>0 DEF TypeOK, Frames
  <2>3. /\ disk' \in [Blocks -> Nat] /\ disk'[frame[f].block] = frame[f].data
        /\ \A c \in Blocks : c = frame[f].block \/ disk'[c] = disk[c]
    BY <1>0, <1>5, <1>7, <2>2 DEF TypeOK
  <2> QED BY <1>1, <1>3, <1>4, <1>5, <1>7, <2>1, <2>3
<1> QED BY <1>2, <1>6, <1>7 DEF TakeFrame, CleanVictims, DirtyVictims

\* acquire takes a frame for the block, writing what it held if it must.
LEMMA MissKeepsInv ==
  ASSUME Inv, NEW t \in Clients, NEW b \in Blocks, NEW kind \in Kinds, Miss(t, b, kind)
  PROVE  Inv'
<1>0. TypeOK /\ UseInv /\ LockInv /\ MapInv /\ PickInv /\ TransactionHasFrames /\ DataInv BY DEF Inv
<1>1. /\ frame' \in [FrameIds -> Frames]
      /\ UNCHANGED <<journal, flusher, history>>
      /\ MappedTo(b) = {}
      /\ pc[t] = "idle" /\ Moves(t, "load")
  BY <1>0, MissEffect
<1>2. PICK f \in FrameIds :
         /\ TakeFrame(f)
         /\ \A h \in FrameIds : h # f => frame'[h] = frame[h]
         /\ frame'[f].block = b /\ frame'[f].mapped /\ ~frame'[f].dirty
         /\ frame'[f].in_txn <=> kind # "read"
         /\ frame'[f].version = 0 /\ frame'[f].pins = 1 /\ frame'[f].owner = t
         /\ ~frame'[f].load_failed
         /\ use'[t] = [frame |-> f, kind |-> kind, joined |-> kind # "read"]
  BY <1>0, MissEffect
<1>3. /\ allocated' = allocated \cup {f} /\ disk' \in [Blocks -> Nat]
      /\ UsersOf(f) = {} /\ f \notin DOMAIN picks /\ frame[f].pins = 0 /\ ~frame[f].in_txn
      /\ \A u \in Clients : pc[u] # "idle" => use[u].frame # f
      /\ frame[f].mapped => /\ f \in allocated /\ frame[f].block \in Blocks
                            /\ disk'[frame[f].block] = mem[frame[f].block]
                            /\ disk'[frame[f].block] = committed[frame[f].block]
      /\ \A c \in Blocks : (frame[f].mapped /\ c = frame[f].block) \/ disk'[c] = disk[c]
      /\ dirty_count' = dirty_count - (IF f \in DirtyFrames THEN 1 ELSE 0)
  BY <1>2, Taken
<1>4. use'[t].frame = f /\ use'[t].kind = kind /\ (use'[t].joined <=> kind # "read")
  <2> DEFINE j == kind # "read"
  <2>1. use'[t] = [frame |-> f, kind |-> kind, joined |-> j] BY <1>2
  <2> HIDE DEF j
  <2>2. use'[t].frame = f /\ use'[t].kind = kind /\ use'[t].joined = j BY <2>1
  <2> QED BY <2>2 DEF j
<1>5. \A h \in FrameIds : frame[h].mapped => /\ h \in allocated /\ frame[h].block \in Blocks /\ frame[h].block # b
                                             /\ h # f => disk'[frame[h].block] = disk[frame[h].block]
  BY <1>0, <1>1, <1>3 DEF MapInv, MappedTo
<1>6. /\ MappedTo(b)' = {f}
      /\ \A c \in Blocks : c # b => MappedTo(c)' = MappedTo(c) \ {f}
      /\ \A c : MappedTo(c) \subseteq FrameIds
  <2>1. allocated' \subseteq FrameIds /\ allocated \subseteq FrameIds BY <1>0, <1>3 DEF TypeOK
  <2>2. \A h \in FrameIds : h \in MappedTo(b)' <=> h = f BY <1>2, <1>3, <1>5 DEF MappedTo
  <2>3. \A c \in Blocks : c # b => \A h \in FrameIds : h \in MappedTo(c)' <=> h \in MappedTo(c) /\ h # f
    BY <1>2, <1>3 DEF MappedTo
  <2>4. \A c : MappedTo(c)' \subseteq FrameIds /\ MappedTo(c) \subseteq FrameIds BY <2>1 DEF MappedTo
  <2> QED BY <2>2, <2>3, <2>4
<1>7. (\A h \in FrameIds : h # f => (Valid(h)' <=> Valid(h))) /\ ~Valid(f)'
  BY <1>2, NothingAssumption DEF Valid
<1>8. disk'[b] = mem[b] BY <1>1, <1>3, <1>5 DEF Inv, NothingLost
<1>9. \A h \in FrameIds : frame[h].owner # t BY <1>0, <1>1, NothingAssumption DEF LockInv
<1>10. mem' = mem /\ committed' = committed /\ picks' = picks /\ run' = run /\ written' = written
       /\ txn_blocks' = txn_blocks /\ committing' = committing
  BY <1>1 DEF history, flusher, journal
<1>11. MapInv'
  <2>1. \A h \in FrameIds : frame'[h].dirty => Valid(h)' BY <1>0, <1>2, <1>7 DEF MapInv
  <2>2. \A g, h \in FrameIds :
           frame'[g].mapped /\ frame'[h].mapped /\ frame'[g].block = frame'[h].block => g = h
    BY <1>0, <1>2, <1>5 DEF MapInv
  <2>3. \A h \in FrameIds : /\ frame'[h].mapped => h \in allocated' /\ frame'[h].block \in Blocks
                            /\ frame'[h].in_txn => frame'[h].mapped
    BY <1>0, <1>2, <1>3 DEF MapInv
  <2> QED BY <2>1, <2>2, <2>3 DEF MapInv
<1>12. PickInv'
  <2>1. \A h \in DOMAIN picks : h \in FrameIds /\ frame'[h] = frame[h] /\ disk'[frame[h].block] = disk[frame[h].block]
    BY <1>2, <1>3, <1>5, PickedIsDirty DEF Valid
  <2>2. DOMAIN run \subseteq DOMAIN picks /\ written \subseteq DOMAIN run BY <1>0 DEF TypeOK
  <2> QED BY <1>0, <1>10, <2>1, <2>2 DEF PickInv
<1>13. DataInv'
  <2>1. ASSUME NEW c \in Blocks, mem[c] # committed[c]
        PROVE  \E g \in MappedTo(c)' : frame'[g].in_txn /\ Valid(g)'
    <3>1. PICK g \in MappedTo(c) : frame[g].in_txn /\ Valid(g) BY <1>0, <2>1 DEF DataInv
    <3>2. c # b /\ g # f /\ g \in FrameIds BY <1>1, <1>3, <1>6, <3>1
    <3> QED BY <1>2, <1>6, <1>7, <3>1, <3>2
  <2>2. ASSUME NEW h \in FrameIds, frame'[h].mapped
        PROVE  /\ ~Valid(h)' => disk'[frame'[h].block] = mem[frame'[h].block]
               /\ /\ frame'[h].owner # NoThread
                  /\ pc'[frame'[h].owner] = "bytes" /\ use'[frame'[h].owner].kind # "fresh"
                  => frame'[h].data = mem[frame'[h].block]
    <3>1. CASE h = f BY <1>1, <1>2, <1>8, <3>1 DEF Moves
    <3>2. CASE h # f
      <4>1. frame'[h] = frame[h] /\ frame[h].mapped BY <1>2, <2>2, <3>2
      <4>2. disk'[frame[h].block] = disk[frame[h].block] BY <1>5, <3>2, <4>1
      <4>3. frame[h].owner # NoThread => /\ pc'[frame[h].owner] = pc[frame[h].owner]
                                         /\ use'[frame[h].owner] = use[frame[h].owner]
        BY <1>0, <1>1, <1>9 DEF Moves, TypeOK, Frames
      <4> QED BY <1>0, <1>7, <3>2, <4>1, <4>2, <4>3 DEF DataInv
    <3> QED BY <3>1, <3>2
  <2>3. \A c \in Blocks : committed[c] <= mem[c] BY <1>0 DEF DataInv
  <2> QED BY <1>10, <2>1, <2>2, <2>3 DEF DataInv
<1>14. NothingLost'
  <2> SUFFICES ASSUME NEW c \in Blocks PROVE NothingLost!(c)'
    BY DEF NothingLost
  <2>1. CASE c = b BY <1>6, <1>7, <2>1
  <2>2. CASE c # b /\ MappedTo(c)' = {}
    <3>1. CASE f \in MappedTo(c) BY <1>3, <1>10, <2>2, <3>1 DEF MappedTo
    <3>2. CASE f \notin MappedTo(c)
      <4>1. MappedTo(c) = {} BY <1>6, <2>2, <3>2
      <4>2. disk'[c] = disk[c] BY <1>3, <3>2 DEF MappedTo
      <4> QED BY <1>10, <2>2, <4>1, <4>2 DEF Inv, NothingLost
    <3> QED BY <3>1, <3>2
  <2>3. CASE c # b /\ MappedTo(c)' # {}
    <3>1. \A g \in MappedTo(c)' : /\ g \in MappedTo(c) /\ g # f /\ g \in FrameIds
                                  /\ frame'[g] = frame[g] /\ (Valid(g)' <=> Valid(g))
      BY <1>2, <1>6, <1>7, <2>3
    <3> QED BY <1>10, <2>3, <3>1 DEF Inv, NothingLost
  <2> QED BY <2>1, <2>2, <2>3
<1>15. CleanMeansWritten'
  <2> SUFFICES ASSUME NEW h \in FrameIds, h \in allocated', Valid(h)', ~frame'[h].dirty, ~frame'[h].in_txn
               PROVE  disk'[frame'[h].block] = frame'[h].data
    BY <1>0, <1>3 DEF CleanMeansWritten, TypeOK
  <2>1. h # f /\ frame'[h] = frame[h] /\ Valid(h) /\ h \in allocated BY <1>2, <1>3, <1>7
  <2>2. disk'[frame[h].block] = disk[frame[h].block] BY <1>5, <2>1 DEF Valid
  <2> QED BY <2>1, <2>2 DEF Inv, CleanMeansWritten
<1>16. NothingUncommittedOnDisk'
  <2>1. \A c \in Blocks : committed[c] \in Nat BY <1>0 DEF TypeOK
  <2> QED BY <1>3, <1>10, <2>1 DEF Inv, NothingUncommittedOnDisk
<1>17. DirtyCounted' /\ dirty_count' \in Nat
  <2>1. DirtyFrames' = DirtyFrames \ {f}
    <3>1. DirtyFrames' \subseteq FrameIds /\ DirtyFrames \subseteq FrameIds BY <1>0, <1>3 DEF DirtyFrames, TypeOK
    <3>2. \A h \in FrameIds : h \in DirtyFrames' <=> h \in DirtyFrames /\ h # f BY <1>2, <1>3 DEF DirtyFrames
    <3> QED BY <3>1, <3>2
  <2>2. CASE f \in DirtyFrames BY <1>0, <1>3, <2>1, <2>2, OneLessDirty DEF Inv
  <2>3. CASE f \notin DirtyFrames
    <3>1. dirty_count' = dirty_count /\ DirtyFrames' = DirtyFrames BY <1>0, <1>3, <2>1, <2>3 DEF TypeOK
    <3> QED BY <1>0, <3>1, SameDirty DEF Inv, TypeOK
  <2> QED BY <2>2, <2>3
<1>18. TypeOK'
  <2>1. pc' \in [Clients -> {"idle", "load", "unmap", "bytes", "unpin", "finish", "add"}]
    BY <1>0 DEF Miss, TypeOK
  <2>2. use' \in [Clients -> [frame : FrameIds \cup {NoFrame}, kind : Kinds, joined : BOOLEAN]]
    BY <1>0 DEF Miss, TypeOK
  <2> QED BY <1>0, <1>1, <1>3, <1>10, <1>17, <2>1, <2>2 DEF TypeOK
<1>19. PinsAreUsers' BY <1>0, <1>1, <1>2, <1>3, <1>4, <1>10, EnterPins DEF Inv
<1>20. LockInv'
  <2> SUFFICES ASSUME NEW h \in FrameIds PROVE LockInv!(h)'
    BY DEF LockInv
  <2>1. CASE h = f BY <1>1, <1>2, <1>4, <2>1 DEF Moves
  <2>2. CASE h # f
    <3>1. frame'[h] = frame[h] BY <1>2, <2>2
    <3>2. frame[h].owner # NoThread => /\ frame[h].owner \in Clients
                                       /\ pc'[frame[h].owner] = pc[frame[h].owner]
                                       /\ use'[frame[h].owner] = use[frame[h].owner]
      BY <1>0, <1>1, <1>9 DEF Moves, TypeOK, Frames
    <3>3. ASSUME frame[h].load_failed, frame[h].mapped
          PROVE  \E u \in Clients : pc'[u] = "unmap" /\ use'[u].frame = h
      <4>1. PICK u \in Clients : pc[u] = "unmap" /\ use[u].frame = h BY <1>0, <3>3 DEF LockInv
      <4>2. u # t BY <1>1, <4>1
      <4> QED BY <1>1, <4>1, <4>2 DEF Moves
    <3> QED BY <1>0, <3>1, <3>2, <3>3 DEF LockInv
  <2> QED BY <2>1, <2>2
<1>21. UseInv'
  <2> SUFFICES ASSUME NEW u \in Clients PROVE UseInv!(u)'
    BY DEF UseInv
  <2>1. CASE u = t
    <3>1. pc'[t] = "load" /\ f \in allocated' BY <1>1, <1>3 DEF Moves
    <3>2. frame'[f].owner = t /\ frame'[f].mapped /\ (kind # "read" => frame'[f].in_txn) BY <1>2
    <3> HIDE <1>2
    <3> QED BY <1>4, <2>1, <3>1, <3>2
  <2>2. CASE u # t
    <3>1. pc'[u] = pc[u] /\ use'[u] = use[u] BY <1>1, <2>2 DEF Moves
    <3>2. pc[u] # "idle" => use[u].frame \in FrameIds /\ frame'[use[u].frame] = frame[use[u].frame]
      BY <1>0, <1>2, <1>3, UseFrame
    <3>3. \A v \in Clients : pc'[v] = "unmap" => pc[v] = "unmap" /\ use'[v] = use[v] BY <1>1 DEF Moves
    <3> QED BY <1>0, <1>3, <3>1, <3>2, <3>3 DEF UseInv, Modifying
  <2> QED BY <2>1, <2>2
<1>22. TransactionHasFrames'
  <2>1. committing' => txn_blocks' # {} /\ \A u \in Clients : use'[u].kind = "read"
    BY <1>0, <1>1, <1>4, <1>10 DEF TransactionHasFrames, Moves, Miss, MayCall
  <2>2. ASSUME NEW c \in txn_blocks PROVE \E g \in MappedTo(c)' : frame'[g].in_txn /\ Valid(g)'
    <3>1. c \in Blocks BY <1>0 DEF TypeOK
    <3>2. PICK g \in MappedTo(c) : frame[g].in_txn /\ Valid(g) BY <1>0 DEF TransactionHasFrames
    <3>3. c # b /\ g # f /\ g \in FrameIds BY <1>1, <1>3, <1>6, <3>2
    <3> QED BY <1>2, <1>6, <1>7, <3>1, <3>2, <3>3
  <2>3. ASSUME NEW h \in FrameIds, frame'[h].in_txn
        PROVE  frame'[h].block \in txn_blocks' \/ \E u \in Clients : Keeper(u, h)'
    <3>1. CASE h = f
      <4>1. kind # "read" /\ pc'[t] = "load" BY <1>1, <1>2, <2>3, <3>1 DEF Moves
      <4> HIDE <1>2
      <4> QED BY <1>4, <3>1, <4>1 DEF Keeper, Modifying
    <3>2. CASE h # f
      <4>1. frame'[h] = frame[h] BY <1>2, <3>2
      <4>2. frame[h].block \in txn_blocks \/ \E u \in Clients : Keeper(u, h)
        BY <1>0, <2>3, <4>1 DEF TransactionHasFrames, Keeper
      <4>3. ASSUME NEW u \in Clients, Keeper(u, h) PROVE Keeper(u, h)'
        BY <1>1, <4>3 DEF Keeper, Moves, Modifying
      <4> QED BY <1>10, <4>1, <4>2, <4>3
    <3> QED BY <3>1, <3>2
  <2> QED BY <1>10, <2>1, <2>2, <2>3 DEF TransactionHasFrames, Keeper
<1> QED BY <1>11, <1>12, <1>13, <1>14, <1>15, <1>16, <1>17, <1>18, <1>19, <1>20, <1>21, <1>22, LockedIsPinnedNext
        DEF Inv

-----------------------------------------------------------------------------
(* The theorems *)

\* The cache starts empty.
LEMMA InitInv == Init => Inv
<1> SUFFICES ASSUME Init PROVE Inv OBVIOUS
<1>1. \A f \in FrameIds : frame[f] = Unused(NoBlock) BY DEF Init
<1>2. /\ Unused(NoBlock).block = NoBlock /\ ~Unused(NoBlock).mapped /\ ~Unused(NoBlock).dirty
      /\ ~Unused(NoBlock).in_txn /\ Unused(NoBlock).pins = 0 /\ Unused(NoBlock).owner = NoThread
      /\ ~Unused(NoBlock).load_failed /\ Unused(NoBlock) \in Frames
  BY DEF Unused, Frames
<1>3. \A f \in FrameIds : /\ ~frame[f].mapped /\ ~frame[f].dirty /\ ~frame[f].in_txn /\ ~frame[f].load_failed
                          /\ frame[f].pins = 0 /\ frame[f].owner = NoThread /\ frame[f] \in Frames
  BY <1>1, <1>2
<1>4. TypeOK
  <2>1. frame \in [FrameIds -> Frames] BY <1>2 DEF Init
  <2>2. use \in [Clients -> [frame : FrameIds \cup {NoFrame}, kind : Kinds, joined : BOOLEAN]]
    BY DEF Init, Idle, Kinds
  <2> QED BY <2>1, <2>2 DEF Init, TypeOK
<1>5. PinsAreUsers
  <2>1. \A f : UsersOf(f) = {} BY DEF Init, UsersOf
  <2>2. DOMAIN picks = {} BY DEF Init
  <2>3. \A f \in FrameIds : Cardinality(UsersOf(f)) = 0 BY <2>1, FS_EmptySet
  <2> QED BY <1>3, <2>2, <2>3 DEF PinsAreUsers
<1>6. DirtyCounted
  <2>1. DirtyFrames = {} BY DEF Init, DirtyFrames
  <2> QED BY <2>1, FS_EmptySet DEF Init, DirtyCounted
<1>7. FreeIsUnlocked /\ MapInv /\ LockInv BY <1>3 DEF FreeIsUnlocked, MapInv, LockInv
<1>8. UseInv BY DEF Init, UseInv, Idle, Modifying
<1>9. \A b : MappedTo(b) = {} BY DEF Init, MappedTo
<1>10. TransactionHasFrames BY <1>3 DEF Init, TransactionHasFrames
<1>11. PickInv BY DEF Init, PickInv
<1>12. DataInv
  <2>1. \A b \in Blocks : mem[b] = 0 /\ committed[b] = 0 BY DEF Init
  <2> QED BY <1>3, <2>1 DEF DataInv
<1>13. NothingLost /\ CleanMeansWritten /\ NothingUncommittedOnDisk
  BY <1>9 DEF Init, NothingLost, CleanMeansWritten, NothingUncommittedOnDisk
<1> QED BY <1>4, <1>5, <1>6, <1>7, <1>8, <1>10, <1>11, <1>12, <1>13 DEF Inv

\* Nothing changes.
LEMMA StutterKeepsInv == Inv /\ UNCHANGED vars => Inv'
<1> SUFFICES ASSUME Inv, UNCHANGED vars PROVE Inv' OBVIOUS
<1>1. UNCHANGED <<shard, disk, clients, journal, flusher, history>> BY DEF vars
<1>2. TypeOK' /\ TransactionHasFrames'
  BY <1>1 DEF Inv, TypeOK, TransactionHasFrames, MappedTo, Valid, shard, clients, journal, flusher, history
<1>3. PinsAreUsers' /\ DirtyCounted' /\ FreeIsUnlocked'
  BY <1>1 DEF Inv, PinsAreUsers, UsersOf, DirtyCounted, DirtyFrames, FreeIsUnlocked, shard, clients, flusher
<1>4. MapInv' /\ LockInv' /\ UseInv' BY <1>1 DEF Inv, MapInv, LockInv, UseInv, Valid, shard, clients
<1>5. PickInv' /\ DataInv' BY <1>1 DEF Inv, PickInv, DataInv, MappedTo, Valid, shard, clients, flusher, history
<1>6. NothingLost' /\ CleanMeansWritten' /\ NothingUncommittedOnDisk'
  BY <1>1 DEF Inv, NothingLost, CleanMeansWritten, NothingUncommittedOnDisk, MappedTo, Valid, shard, history
<1> QED BY <1>2, <1>3, <1>4, <1>5, <1>6 DEF Inv

\* Every step keeps the invariant.
LEMMA StepKeepsInv == Inv /\ [Next]_vars => Inv'
<1> SUFFICES ASSUME Inv, [Next]_vars PROVE Inv' OBVIOUS
<1>1. ASSUME NEW t \in Clients, NEW b \in Blocks, NEW kind \in Kinds, Hit(t, b, kind) PROVE Inv'
  BY <1>1, HitKeepsInv
<1>2. ASSUME NEW t \in Clients, NEW b \in Blocks, NEW kind \in Kinds, Miss(t, b, kind) PROVE Inv'
  BY <1>2, MissKeepsInv
<1>3. ASSUME NEW t \in Clients, LoadOk(t) PROVE Inv' BY <1>3, LoadOkKeepsInv
<1>4. ASSUME NEW t \in Clients, LoadFail(t) PROVE Inv' BY <1>4, LoadFailKeepsInv
<1>5. ASSUME NEW t \in Clients, Unmap(t) PROVE Inv' BY <1>5, UnmapKeepsInv
<1>6. ASSUME NEW t \in Clients, Bytes(t) PROVE Inv' BY <1>6, BytesKeepsInv
<1>7. ASSUME NEW t \in Clients, Unpin(t) PROVE Inv' BY <1>7, UnpinKeepsInv
<1>8. ASSUME NEW t \in Clients, FinishModify(t) PROVE Inv' BY <1>8, FinishKeepsInv
<1>9. ASSUME NEW t \in Clients, AddToTxn(t) PROVE Inv' BY <1>9, AddKeepsInv
<1>10. CASE StartCommit BY <1>10, StartCommitKeepsInv
<1>11. ASSUME NEW b \in Blocks, CommitFrame(b) PROVE Inv' BY <1>11, CommitKeepsInv
<1>12. CASE WriteRun BY <1>12, WriteRunKeepsInv
<1>13. CASE WriteFail BY <1>13, WriteFailKeepsInv
<1>14. ASSUME NEW f \in FrameIds, Pick(f) PROVE Inv' BY <1>14, PickKeepsInv
<1>15. ASSUME NEW f \in FrameIds, Copy(f) PROVE Inv' BY <1>15, CopyKeepsInv
<1>16. ASSUME NEW f \in FrameIds, Recheck(f) PROVE Inv' BY <1>16, RecheckKeepsInv
<1>17. ASSUME NEW f \in FrameIds, Leave(f) PROVE Inv' BY <1>17, LeaveKeepsInv
<1>18. ASSUME NEW f \in FrameIds, Mark(f) PROVE Inv' BY <1>18, MarkKeepsInv
<1>19. CASE UNCHANGED vars BY <1>19, StutterKeepsInv
<1> QED BY <1>1, <1>2, <1>3, <1>4, <1>5, <1>6, <1>7, <1>8, <1>9, <1>10, <1>11, <1>12, <1>13, <1>14, <1>15,
           <1>16, <1>17, <1>18, <1>19 DEF Next, Client, Committer, WriteBack

\* The cache's books are always right: pins are exactly the users of a frame,
\* dirty_count_ counts the dirty frames, a free frame's lock is free, a block has one
\* frame, and what the journal will commit is there, however clients, evictions,
\* commits and write_back interleave and whatever loads and writes fail.
THEOREM Invariance == Spec => []Inv
  BY InitInv, StepKeepsInv, PTL DEF Spec

\* Neither write_back's old copies nor an eviction put a change on disk.img before
\* its transaction has committed.
THEOREM NoStealBeforeCommit == Spec => []NothingUncommittedOnDisk
<1>1. Inv => NothingUncommittedOnDisk BY DEF Inv
<1> QED BY <1>1, Invariance, PTL

\* No change is lost by an eviction, a failed load or a failed write-back, and a
\* reader of a valid frame sees the last one.
THEOREM NoChangeIsLost == Spec => []NothingLost
<1>1. Inv => NothingLost BY DEF Inv
<1> QED BY <1>1, Invariance, PTL

\* A frame is clean only if the disk has its bytes: write_back's version check is
\* enough.
THEOREM CleanIsOnDisk == Spec => []CleanMeansWritten
<1>1. Inv => CleanMeansWritten BY DEF Inv
<1> QED BY <1>1, Invariance, PTL

=============================================================================
