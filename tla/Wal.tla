-------------------------------- MODULE Wal --------------------------------
(***************************************************************************)
(* The log file (src/wal.cpp) in cells: a record is a header cell and, for *)
(* a BLOCK record, PayCells cells of payload, laid out back to back. Staged*)
(* records wait in a batch; a write puts cells at the end of the file and  *)
(* may be cut short by a crash, in the middle of a cell too. scan() reads  *)
(* the file from its start as far as it is in order.                       *)
(*                                                                         *)
(* The checksum is modelled as what it is computed from: equal only for    *)
(* equal header and payload.                                               *)
(***************************************************************************)
EXTENDS Naturals, Sequences

CONSTANTS
    Blocks,     \* the block numbers a BLOCK record may name
    PayCells,   \* the sectors of a block
    BatchCells  \* BATCH_BYTES

ASSUME WalAssumption == PayCells \in Nat \ {0} /\ BatchCells \in Nat /\ 0 \notin Blocks

VARIABLES
    file,       \* the cells of the log
    batch,      \* batch_: encoded records not written yet
    next_lsn    \* next_lsn_

wal == <<file, batch, next_lsn>>

\* A cell of which only a part was written, and an end of file.
Torn == [kind |-> "torn"]

record_checksum(type, block, lsn, txn, data) == <<type, block, lsn, txn, data>>

payload(data) == [i \in 1..PayCells |-> [kind |-> "payload", part |-> i, data |-> data]]

\* The cells of a record with the next lsn; data is a BLOCK record's payload.
encode(type, txn, block, data) ==
    LET header == [kind |-> "header", type |-> type, block |-> block, lsn |-> next_lsn, txn |-> txn,
                   checksum |-> record_checksum(type, block, next_lsn, txn, data)]
    IN  IF type = "BLOCK" THEN <<header>> \o payload(data) ELSE <<header>>

SizeOf(type) == IF type = "BLOCK" THEN 1 + PayCells ELSE 1

\* n cells from a place of file f; fewer only at its end.
read_at(f, at, n) == SubSeq(f, at, IF at + n - 1 <= Len(f) THEN at + n - 1 ELSE Len(f))

\* The record at a place of file f is whole and follows lsn `last` (0 before the first).
intact(f, at, last) ==
    /\ read_at(f, at, 1) # <<>> /\ f[at].kind = "header"
    /\ LET h == f[at] IN
        /\ h.type \in {"BEGIN", "BLOCK", "COMMIT"}
        /\ IF h.type = "BLOCK" THEN h.block \in Blocks ELSE h.block = 0
        /\ h.lsn > 0 /\ (last # 0 => h.lsn = last + 1)
        /\ LET data == IF h.type = "BLOCK" THEN h.checksum[5] ELSE 0 IN
            /\ h.checksum = record_checksum(h.type, h.block, h.lsn, h.txn, data)
            /\ h.type = "BLOCK" => read_at(f, at + 1, PayCells) = payload(data)

\* scan(): the headers of the intact records from the start of the file.
scan(f) ==
    LET from[at \in 1..(Len(f) + 1), last \in Nat] ==
            IF intact(f, at, last)
            THEN <<f[at]>> \o from[at + SizeOf(f[at].type), f[at].lsn]
            ELSE <<>>
    IN  from[1, 0]

\* What a write of some cells may leave in the file if it is cut short: every
\* length but the whole, and perhaps part of the next cell.
Cut(cells) ==
    LET kept == {SubSeq(cells, 1, k) : k \in 0..(Len(cells) - 1)}
    IN  kept \cup {Append(s, Torn) : s \in kept}

\* stage_record finds no room: the batch must be written first.
Full(type) == batch # <<>> /\ Len(batch) + SizeOf(type) > BatchCells

\* stage()
Stage(type, txn, block, data) ==
    /\ ~Full(type)
    /\ batch' = batch \o encode(type, txn, block, data)
    /\ next_lsn' = next_lsn + 1
    /\ UNCHANGED file

\* reset()
Reset(lsn) == file' = <<>> /\ batch' = <<>> /\ next_lsn' = lsn
=============================================================================
