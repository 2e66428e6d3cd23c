--------------------------- MODULE PipeBufferProofs ---------------------------
(***************************************************************************)
(* Proofs about the pipe buffer, for every block size and number of        *)
(* chunks: its safety properties, and that it implements the abstract      *)
(* first-in first-out buffer.                                              *)
(***************************************************************************)
EXTENDS PipeBuffer, TLAPS, SequenceTheorems

PCell == Nat \X Nat
PPlaces == 0 .. PipeSize - 1

PbTyped == pb \in [limit : 1 .. PipeSize, offR : 0 .. PipeSize, offW : 0 .. PipeSize,
                    open : BOOLEAN, pending : BOOLEAN]
RdTyped == rd \in [pc : {"idle", "look", "wait", "io", "ret", "eof", "reset", "err"},
                    off : Nat, n : Nat, data : Seq(PCell)]
WrTyped == wr \in [pc : {"idle", "look", "io", "ret", "err"},
                    off : Nat, n : Nat, data : Seq(PCell)]
CellTyped == cell \in [PPlaces -> PCell]
RestTyped ==
  /\ signal \in {0, 1} /\ cl \in {"none", "wait", "done"} /\ pctx \in BOOLEAN
  /\ use \in Nat /\ sent \in Nat /\ got \in Seq(PCell)
PTyped == PbTyped /\ RdTyped /\ WrTyped /\ CellTyped /\ RestTyped

\* What was read is behind what was written, and that behind the limit.
POffsets ==
  /\ pb.offR = Len(got) /\ pb.offW = sent
  /\ pb.offR <= pb.offW /\ pb.offW <= pb.limit

\* The bytes of the chunk that Write counted are in the block.
PWritten == \A i \in PPlaces : i < pb.offW => cell[i] = PByte(use, i)

\* The bytes a Read took over, and those it copied.
PReading ==
  /\ rd.pc \in {"io", "ret"} => rd.n > 0 /\ rd.off = pb.offR /\ rd.off + rd.n <= pb.offW
  /\ rd.pc = "ret" => rd.data = [i \in 1 .. rd.n |-> PByte(use, rd.off + i - 1)]
  /\ rd.pc \in {"look", "wait"} => rd.n > 0

\* A Write writes behind what was written, within the chunk; its bytes are in the
\* block when it returns.
PWriting ==
  /\ wr.pc \in {"look", "io"} => wr.n > 0
  /\ wr.pc \in {"look", "io", "ret"} => sent < pb.limit /\ sent + wr.n <= pb.limit
  /\ wr.pc \in {"io", "ret"} => wr.off = pb.offW
  /\ wr.pc = "ret" =>
       \A i \in PPlaces : pb.offW <= i /\ i < pb.offW + wr.n => cell[i] = PByte(use, i)

\* The end of the chunk was read before a Reset.
PChunkEnd ==
  /\ rd.pc \in {"eof", "reset"} => pb.offR = pb.limit
  /\ rd.pc = "reset" => use < PipeUses

\* Close waits for the calls inside, and later ones find the block closed.
PClosed ==
  /\ cl # "none" <=> ~pb.open
  /\ cl = "done" => rd.pc \notin {"io", "ret"} /\ wr.pc \notin {"io", "ret"}

PipeInv ==
  /\ PTyped /\ POffsets /\ PWritten /\ PReading /\ PWriting /\ PChunkEnd /\ PClosed
  /\ PipeInOrder /\ PipeWakeUp

\* The buffer starts in the invariant: nothing written, nothing read.
LEMMA PInitInv == PipeInit => PipeInv
<1> SUFFICES ASSUME PipeInit PROVE PipeInv
  OBVIOUS
<1> USE PipeAssumption
<1>1. PTyped
  BY DEF PipeInit, PTyped, PbTyped, RdTyped, WrTyped, CellTyped, RestTyped,
         PIdle, PCell, PPlaces, PUnwritten
<1>2. POffsets /\ PWritten /\ PReading /\ PWriting /\ PChunkEnd /\ PClosed
  BY DEF PipeInit, PIdle, POffsets, PWritten, PReading, PWriting, PChunkEnd, PClosed
<1>3. PipeInOrder /\ PipeWakeUp
  BY DEF PipeInit, PIdle, PipeInOrder, PipeWakeUp
<1> QED
  BY <1>1, <1>2, <1>3 DEF PipeInv

\* A call that is not under way.
LEMMA PIdleType ==
  /\ PIdle \in [pc : {"idle"}, off : {0}, n : {0}, data : Seq(PCell)]
  /\ PIdle.pc = "idle" /\ PIdle.n = 0
<1>1. <<>> \in Seq(PCell)
  OBVIOUS
<1> QED
  BY <1>1 DEF PIdle

\* The steps of Read that change only the reader, and readPending.
LEMMA PReadStartInv ==
    ASSUME PipeInv, NEW k \in 1 .. PipeSize, PReadStart(k)
    PROVE  PipeInv'
<1> USE PipeAssumption
<1> USE DEF PipeInv, PTyped
<1>1. PICK p \in {"err", "eof", "look"} :
        /\ rd' = [pc |-> p, off |-> 0, n |-> k, data |-> <<>>]
        /\ p = "eof" => pb.offR >= pb.limit
  BY DEF PReadStart, PIdle
<1>2. PTyped'
  <2>1. k \in Nat /\ <<>> \in Seq(PCell)
    OBVIOUS
  <2>2. RdTyped'
    BY <1>1, <2>1 DEF RdTyped
  <2> QED
    BY <2>2 DEF PReadStart, PbTyped, WrTyped, CellTyped, RestTyped
<1>3. POffsets' /\ PWritten' /\ PipeInOrder'
  BY DEF PReadStart, POffsets, PWritten, PipeInOrder
<1>4. PReading' /\ PChunkEnd'
  BY <1>1 DEF PReadStart, PReading, PChunkEnd, PbTyped, POffsets
<1>5. PWriting' /\ PClosed' /\ PipeWakeUp'
  BY <1>1 DEF PReadStart, PWriting, PClosed, PipeWakeUp
<1> QED
  BY <1>2, <1>3, <1>4, <1>5

LEMMA PReadLookInv ==
    ASSUME PipeInv, PReadLook
    PROVE  PipeInv'
<1> USE PipeAssumption
<1> USE DEF PipeInv, PTyped
<1>1. CASE ~pb.open
  <2>1. rd' = [rd EXCEPT !.pc = "err"] /\ pb' = pb
    BY <1>1 DEF PReadLook
  <2>2. PTyped'
    BY <2>1 DEF PReadLook, PbTyped, RdTyped, WrTyped, CellTyped, RestTyped
  <2>3. rd'.pc = "err"
    BY <2>1 DEF RdTyped
  <2> QED
    BY <2>1, <2>2, <2>3 DEF PReadLook, POffsets, PWritten, PipeInOrder, PReading, PWriting,
                            PChunkEnd, PClosed, PipeWakeUp
<1>2. CASE pb.open /\ PCanRead = 0
  <2>1. rd' = [rd EXCEPT !.pc = "wait"] /\ pb' = [pb EXCEPT !.pending = TRUE]
    BY <1>2 DEF PReadLook
  <2>2. PTyped'
    BY <2>1 DEF PReadLook, PbTyped, RdTyped, WrTyped, CellTyped, RestTyped
  <2>3. /\ rd'.pc = "wait" /\ rd'.n = rd.n /\ pb'.pending /\ pb'.open = pb.open /\ pb'.limit = pb.limit
        /\ pb'.offR = pb.offR /\ pb'.offW = pb.offW
    BY <2>1 DEF RdTyped, PbTyped
  <2> QED
    BY <1>2, <2>2, <2>3 DEF PReadLook, POffsets, PWritten, PipeInOrder, PReading, PWriting,
                            PChunkEnd, PClosed, PipeWakeUp
<1>3. CASE pb.open /\ PCanRead > 0
  <2>1. rd' = [rd EXCEPT !.pc = "io", !.off = pb.offR, !.n = PMin(rd.n, PCanRead)] /\ pb' = pb
    BY <1>3 DEF PReadLook, PCanRead, PbTyped
  <2>2. /\ rd.n \in Nat /\ rd.n > 0 /\ pb.offR \in Nat /\ pb.offW \in Nat
    BY DEF RdTyped, PReading, PReadLook, PbTyped
  <2>3. PMin(rd.n, PCanRead) \in 1 .. (pb.offW - pb.offR)
    BY <1>3, <2>2 DEF PMin, PCanRead
  <2>4. rd'.pc = "io" /\ rd'.off = pb.offR /\ rd'.n = PMin(rd.n, PCanRead)
    BY <2>1 DEF RdTyped
  <2>5. PTyped'
    <3>1. PMin(rd.n, PCanRead) \in Nat
      BY <2>2, <2>3
    <3>2. RdTyped'
      BY <2>1, <2>2, <3>1 DEF RdTyped
    <3> QED
      BY <2>1, <3>2 DEF PReadLook, PbTyped, WrTyped, CellTyped, RestTyped
  <2>6. PReading'
    BY <2>1, <2>2, <2>3, <2>4 DEF PReading
  <2>7. cl # "done"
    BY <1>3 DEF PClosed
  <2> QED
    BY <2>1, <2>4, <2>5, <2>6, <2>7 DEF PReadLook, POffsets, PWritten, PipeInOrder, PWriting,
                            PChunkEnd, PClosed, PipeWakeUp
<1> QED
  BY <1>1, <1>2, <1>3 DEF PReadLook

LEMMA PReadWakeInv ==
    ASSUME PipeInv, PReadWake
    PROVE  PipeInv'
<1> USE DEF PipeInv, PTyped
<1>1. PICK p \in {"look", "err"} : rd' = [rd EXCEPT !.pc = p] /\ (p = "look" => signal = 1)
  BY DEF PReadWake
<1>2. signal' \in {0, 1}
  BY DEF PReadWake, RestTyped
<1>3. PTyped'
  BY <1>1, <1>2 DEF PReadWake, PbTyped, RdTyped, WrTyped, CellTyped, RestTyped
<1>4. rd'.pc = p /\ rd'.n = rd.n
  BY <1>1 DEF RdTyped
<1>5. rd.n > 0
  BY DEF PReading, PReadWake
<1> QED
  BY <1>3, <1>4, <1>5 DEF PReadWake, POffsets, PWritten, PipeInOrder, PReading, PWriting,
                          PChunkEnd, PClosed, PipeWakeUp

\* What a Read copies is what Write left there, and no Write is at these places.
LEMMA PReadBlockInv ==
    ASSUME PipeInv, PReadBlock
    PROVE  PipeInv'
<1> USE PipeAssumption
<1> USE DEF PipeInv, PTyped
<1> DEFINE data == [i \in 1 .. rd.n |-> cell[rd.off + i - 1]]
<1>1. /\ rd.n \in Nat /\ rd.n > 0 /\ rd.off \in Nat /\ rd.off + rd.n <= pb.offW
      /\ rd.off = pb.offR
  BY DEF PReadBlock, RdTyped, PReading
<1>2. pb.offW <= PipeSize /\ pb.offW \in Nat
  BY DEF PbTyped
<1>3. ASSUME NEW i \in 1 .. rd.n
      PROVE  rd.off + i - 1 \in PPlaces /\ cell[rd.off + i - 1] = PByte(use, rd.off + i - 1)
  <2>1. rd.off + i - 1 \in PPlaces /\ rd.off + i - 1 < pb.offW
    BY <1>1, <1>2, PipeAssumption DEF PPlaces
  <2> QED
    BY <2>1 DEF PWritten
<1>4. data \in Seq(PCell)
  <2>1. data \in [1 .. rd.n -> PCell]
    BY <1>3 DEF CellTyped
  <2> QED
    BY <1>1, <2>1, SeqDef
<1>5. data = [i \in 1 .. rd.n |-> PByte(use, rd.off + i - 1)]
  BY <1>3
<1> HIDE DEF data
<1>6. rd' = [rd EXCEPT !.pc = "ret", !.data = data]
  BY DEF PReadBlock, data
<1>7. PTyped'
  BY <1>4, <1>6 DEF PReadBlock, PbTyped, RdTyped, WrTyped, CellTyped, RestTyped
<1>8. rd'.pc = "ret" /\ rd'.off = rd.off /\ rd'.n = rd.n /\ rd'.data = data
  BY <1>6 DEF RdTyped
<1>9. PReading'
  BY <1>1, <1>5, <1>8 DEF PReadBlock, PReading
<1>10. cl # "done"
  BY DEF PClosed, PReadBlock
<1> QED
  BY <1>7, <1>8, <1>9, <1>10 DEF PReadBlock, POffsets, PWritten, PipeInOrder, PWriting,
                                 PChunkEnd, PClosed, PipeWakeUp

\* Read returns: the bytes it copied continue those that were delivered.
LEMMA PReadReturnInv ==
    ASSUME PipeInv, PReadReturn
    PROVE  PipeInv' /\ Len(got') = Len(got) + rd.n
<1> USE PipeAssumption
<1> USE DEF PipeInv, PTyped
<1>1. /\ rd.n \in Nat /\ rd.n > 0 /\ rd.off = pb.offR /\ rd.off + rd.n <= pb.offW
      /\ rd.data = [i \in 1 .. rd.n |-> PByte(use, rd.off + i - 1)]
      /\ rd.data \in Seq(PCell)
  BY DEF PReadReturn, RdTyped, PReading
<1>2. /\ got \in Seq(PCell) /\ pb.offR = Len(got) /\ pb.offW \in Nat /\ pb.offW <= PipeSize
      /\ pb.offR \in Nat
  BY DEF RestTyped, POffsets, PbTyped
<1>3. Len(rd.data) = rd.n
  BY <1>1
<1>4. /\ got' \in Seq(PCell) /\ Len(got') = Len(got) + rd.n
      /\ \A i \in 1 .. Len(got) + rd.n :
            got'[i] = IF i <= Len(got) THEN got[i] ELSE rd.data[i - Len(got)]
  <2>1. got' = got \o rd.data
    BY DEF PReadReturn
  <2> DEFINE d == rd.data
  <2>2. d \in Seq(PCell) /\ Len(d) = rd.n
    BY <1>1, <1>3
  <2> HIDE DEF d
  <2>3. /\ got \o d \in Seq(PCell) /\ Len(got \o d) = Len(got) + Len(d)
        /\ \A i \in 1 .. Len(got) + Len(d) :
              (got \o d)[i] = IF i <= Len(got) THEN got[i] ELSE d[i - Len(got)]
    BY <1>2, <2>2, ConcatProperties, Zenon
  <2> QED
    BY <2>1, <2>2, <2>3 DEF d
<1>5. use' = use
  BY DEF PReadReturn
<1>6. ASSUME NEW i \in 1 .. Len(got')
      PROVE  got'[i] = PByte(use, i - 1)
  <2>1. CASE i <= Len(got)
    BY <1>2, <1>4, <2>1 DEF PipeInOrder
  <2>2. CASE i > Len(got)
    <3>1. i - Len(got) \in 1 .. rd.n /\ i = Len(got) + (i - Len(got))
      BY <1>1, <1>2, <1>4, <2>2
    <3>2. got'[i] = rd.data[i - Len(got)]
      BY <1>2, <1>4, <2>2
    <3>3. rd.data[i - Len(got)] = PByte(use, rd.off + (i - Len(got)) - 1)
      BY <1>1, <3>1
    <3>4. rd.off + (i - Len(got)) - 1 = i - 1
      BY <1>1, <1>2
    <3> QED
      BY <3>2, <3>3, <3>4
  <2> QED
    BY <1>2, <2>1, <2>2
<1>7. PipeInOrder'
  <2>1. got' = [i \in 1 .. Len(got') |-> got'[i]]
    BY <1>4
  <2> QED
    BY <1>5, <1>6, <2>1 DEF PipeInOrder
<1>8. /\ pb'.offR = pb.offR + rd.n /\ pb'.limit = pb.limit /\ pb'.offW = pb.offW
      /\ pb'.open = pb.open /\ pb'.pending = pb.pending
  BY DEF PReadReturn, PbTyped
<1>9. PTyped'
  <2>1. pb.offR + rd.n \in 0 .. PipeSize
    BY <1>1, <1>2
  <2>2. PbTyped'
    BY <2>1 DEF PReadReturn, PbTyped
  <2>3. RdTyped'
    BY PIdleType DEF PReadReturn, RdTyped
  <2> QED
    BY <1>4, <2>2, <2>3 DEF PReadReturn, WrTyped, CellTyped, RestTyped
<1>10. POffsets' /\ PWritten'
  BY <1>1, <1>2, <1>4, <1>8 DEF PReadReturn, POffsets, PWritten
<1>11. PReading' /\ PWriting' /\ PChunkEnd' /\ PClosed' /\ PipeWakeUp'
  BY <1>8, PIdleType DEF PReadReturn, PReading, PWriting, PChunkEnd, PClosed, PipeWakeUp
<1> QED
  BY <1>4, <1>7, <1>9, <1>10, <1>11

\* The steps of Write: what it writes is behind everything a Read may copy.
LEMMA PWriteStartInv ==
    ASSUME PipeInv, NEW k \in 1 .. PipeSize, PWriteStart(k)
    PROVE  PipeInv'
<1> USE PipeAssumption
<1> USE DEF PipeInv, PTyped
<1>1. PICK p \in {"look", "err"} : wr' = [pc |-> p, off |-> 0, n |-> k, data |-> <<>>]
  BY DEF PWriteStart, PIdle
<1>2. PTyped'
  <2>1. k \in Nat /\ <<>> \in Seq(PCell)
    OBVIOUS
  <2>2. WrTyped'
    BY <1>1, <2>1 DEF WrTyped
  <2> QED
    BY <2>2 DEF PWriteStart, PbTyped, RdTyped, CellTyped, RestTyped
<1>3. sent \in Nat /\ sent + k <= pb.limit /\ k \in Nat /\ k > 0 /\ pb.limit \in Nat
  BY DEF PWriteStart, RestTyped, PbTyped
<1>4. PWriting'
  BY <1>1, <1>3 DEF PWriteStart, PWriting
<1> QED
  BY <1>1, <1>2, <1>4 DEF PWriteStart, POffsets, PWritten, PipeInOrder, PReading,
                          PChunkEnd, PClosed, PipeWakeUp

LEMMA PWriteLookInv ==
    ASSUME PipeInv, PWriteLook
    PROVE  PipeInv'
<1> USE PipeAssumption
<1> USE DEF PipeInv, PTyped
<1>1. CASE ~pb.open \/ pb.limit <= pb.offW
  <2>1. wr' = [wr EXCEPT !.pc = "err"]
    BY <1>1 DEF PWriteLook
  <2>2. WrTyped' /\ wr'.pc = "err"
    BY <2>1 DEF WrTyped
  <2> QED
    BY <2>2 DEF PWriteLook, PbTyped, RdTyped, CellTyped, RestTyped, POffsets, PWritten,
                PipeInOrder, PReading, PWriting, PChunkEnd, PClosed, PipeWakeUp
<1>2. CASE ~(~pb.open \/ pb.limit <= pb.offW)
  <2> DEFINE n == PMin(wr.n, pb.limit - pb.offW)
  <2>1. wr' = [wr EXCEPT !.pc = "io", !.off = pb.offW, !.n = n]
    BY <1>2 DEF PWriteLook
  <2>2. /\ wr.n \in Nat /\ wr.n > 0 /\ pb.limit \in Nat /\ pb.offW \in Nat
        /\ sent = pb.offW /\ pb.offW < pb.limit
    BY <1>2 DEF WrTyped, PWriting, PWriteLook, PbTyped, POffsets
  <2>3. n \in Nat /\ n > 0 /\ n <= pb.limit - pb.offW
    BY <2>2 DEF PMin
  <2> HIDE DEF n
  <2>4. WrTyped' /\ wr'.pc = "io" /\ wr'.off = pb.offW /\ wr'.n = n
    BY <2>1, <2>2, <2>3 DEF WrTyped
  <2>5. PWriting'
    BY <2>2, <2>3, <2>4 DEF PWriteLook, PWriting
  <2>6. PClosed'
    BY <1>2, <2>4 DEF PWriteLook, PClosed
  <2> QED
    BY <2>4, <2>5, <2>6 DEF PWriteLook, PbTyped, RdTyped, CellTyped, RestTyped, POffsets,
                PWritten, PipeInOrder, PReading, PChunkEnd, PipeWakeUp
<1> QED
  BY <1>1, <1>2

LEMMA PWriteBlockInv ==
    ASSUME PipeInv, PWriteBlock
    PROVE  PipeInv'
<1> USE PipeAssumption
<1> USE DEF PipeInv, PTyped
<1>1. PICK n \in 0 .. wr.n :
        /\ wr' = [wr EXCEPT !.pc = "ret", !.n = n]
        /\ cell' = [i \in DOMAIN cell |->
                      IF i \in wr.off .. wr.off + n - 1 THEN PByte(use, sent + (i - wr.off)) ELSE cell[i]]
  BY DEF PWriteBlock
<1>2. /\ wr.n \in Nat /\ wr.off = pb.offW /\ sent = pb.offW /\ sent < pb.limit
      /\ sent + wr.n <= pb.limit /\ sent \in Nat /\ use \in Nat /\ pb.limit \in Nat
      /\ pb.limit <= PipeSize
  BY DEF PWriteBlock, WrTyped, PWriting, POffsets, PbTyped, RestTyped
<1>3. n \in Nat /\ n <= wr.n
  BY <1>2
<1>4. WrTyped' /\ wr'.pc = "ret" /\ wr'.n = n /\ wr'.off = wr.off
  BY <1>1, <1>3 DEF WrTyped
<1>5. ASSUME NEW i \in PPlaces
      PROVE  /\ cell'[i] = IF sent <= i /\ i < sent + n THEN PByte(use, i) ELSE cell[i]
             /\ cell'[i] \in PCell
  <2>1. i \in Nat /\ i \in DOMAIN cell /\ cell[i] \in PCell
    BY PipeAssumption DEF CellTyped, PPlaces
  <2>2. cell'[i] = IF i \in sent .. sent + n - 1 THEN PByte(use, sent + (i - sent)) ELSE cell[i]
    BY <1>1, <1>2, <2>1
  <2>3. i \in sent .. sent + n - 1 <=> sent <= i /\ i < sent + n
    BY <1>2, <1>3, <2>1
  <2>4. sent + (i - sent) = i
    BY <1>2, <2>1
  <2>5. PByte(use, i) \in PCell
    BY <1>2, <2>1 DEF PByte, PCell
  <2> QED
    BY <2>1, <2>2, <2>3, <2>4, <2>5
<1>6. CellTyped'
  <2>1. DOMAIN cell = PPlaces
    BY DEF CellTyped
  <2>2. cell' = [i \in PPlaces |-> cell'[i]]
    BY <1>1, <2>1
  <2> QED
    BY <1>5, <2>2 DEF CellTyped
<1>7. PWritten'
  <2>1. ASSUME NEW i \in PPlaces, i < pb.offW PROVE cell'[i] = PByte(use, i)
    BY <1>2, <1>5, <2>1, PipeAssumption DEF PWritten, PPlaces
  <2> QED
    BY <2>1 DEF PWritten, PWriteBlock
<1>8. PWriting'
  <2>1. \A i \in PPlaces : sent <= i /\ i < sent + n => cell'[i] = PByte(use, i)
    BY <1>5
  <2>2. pb' = pb /\ sent' = sent /\ use' = use
    BY DEF PWriteBlock
  <2> QED
    BY <1>2, <1>3, <1>4, <2>1, <2>2 DEF PWriting
<1>9. PClosed' /\ PReading'
  BY <1>4 DEF PWriteBlock, PClosed, PReading
<1> QED
  BY <1>4, <1>6, <1>7, <1>8, <1>9 DEF PWriteBlock, PbTyped, RdTyped, RestTyped, POffsets,
              PipeInOrder, PChunkEnd, PipeWakeUp

LEMMA PWriteReturnInv ==
    ASSUME PipeInv, PWriteReturn
    PROVE  PipeInv'
<1> USE PipeAssumption
<1> USE DEF PipeInv, PTyped
<1>1. /\ wr.n \in Nat /\ sent = pb.offW /\ sent + wr.n <= pb.limit /\ sent \in Nat
      /\ pb.limit \in Nat /\ pb.limit <= PipeSize /\ pb.offR \in Nat /\ pb.offW \in Nat
      /\ pb.offR <= pb.offW
  BY DEF PWriteReturn, WrTyped, PWriting, POffsets, PbTyped, RestTyped
<1>2. pb' = [pb EXCEPT !.offW = pb.offW + wr.n, !.pending = FALSE]
  BY DEF PWriteReturn
<1>3. /\ pb'.offR = pb.offR /\ pb'.limit = pb.limit /\ pb'.offW = pb.offW + wr.n
      /\ pb'.open = pb.open /\ pb'.pending = FALSE
  BY <1>2 DEF PbTyped
<1>4. PTyped'
  <2>1. pb.offW + wr.n \in 0 .. PipeSize /\ sent + wr.n \in Nat
    BY <1>1
  <2>2. PbTyped'
    BY <1>2, <2>1 DEF PbTyped
  <2>3. WrTyped'
    BY PIdleType DEF PWriteReturn, WrTyped
  <2>4. RestTyped'
    BY <2>1 DEF PWriteReturn, RestTyped
  <2> QED
    BY <2>2, <2>3, <2>4 DEF PWriteReturn, RdTyped, CellTyped
<1>5. POffsets'
  BY <1>1, <1>3 DEF PWriteReturn, POffsets
<1>6. PWritten'
  <2>1. ASSUME NEW i \in PPlaces, i < pb.offW + wr.n PROVE cell[i] = PByte(use, i)
    <3>1. i \in Nat
      BY PipeAssumption DEF PPlaces
    <3>2. CASE i < pb.offW
      BY <3>2 DEF PWritten
    <3>3. CASE pb.offW <= i
      BY <2>1, <3>3 DEF PWriting, PWriteReturn
    <3> QED
      BY <1>1, <3>1, <3>2, <3>3
  <2> QED
    BY <1>3, <2>1 DEF PWritten, PWriteReturn
<1>7. PReading'
  <2>1. rd.pc \in {"io", "ret"} => rd.off \in Nat /\ rd.n \in Nat /\ rd.off + rd.n <= pb.offW
    BY DEF RdTyped, PReading
  <2>2. rd.pc \in {"io", "ret"} => rd.off + rd.n <= pb.offW + wr.n
    BY <1>1, <2>1
  <2> QED
    BY <1>3, <2>2 DEF PReading, PWriteReturn
<1>8. PWriting' /\ PClosed'
  BY <1>3, PIdleType DEF PWriteReturn, PWriting, PClosed
<1>9. PipeWakeUp'
  BY <1>3 DEF PWriteReturn, PipeWakeUp, PWakes
<1> QED
  BY <1>3, <1>4, <1>5, <1>6, <1>7, <1>8, <1>9 DEF PWriteReturn, PipeInOrder, PChunkEnd

\* Reset, Close and the cancellation.
LEMMA PResetWaitInv ==
    ASSUME PipeInv, PResetWait
    PROVE  PipeInv'
<1> USE DEF PipeInv, PTyped
<1>1. rd' = [rd EXCEPT !.pc = "reset"]
  BY DEF PResetWait
<1>2. RdTyped' /\ rd'.pc = "reset"
  BY <1>1 DEF RdTyped
<1> QED
  BY <1>2 DEF PResetWait, PbTyped, WrTyped, CellTyped, RestTyped, POffsets, PWritten,
              PipeInOrder, PReading, PWriting, PChunkEnd, PClosed, PipeWakeUp

\* A chunk that was read to its end has no Write under way, so the next one starts
\* with nothing written.
LEMMA PResetInv ==
    ASSUME PipeInv, NEW limit \in 1 .. PipeSize + 1, PReset(limit)
    PROVE  PipeInv'
<1> USE PipeAssumption
<1> USE DEF PipeInv, PTyped
<1>1. CASE ~pb.open \/ ~PFits(limit)
  <2>1. rd' = [rd EXCEPT !.pc = "err"]
    BY <1>1 DEF PReset
  <2>2. RdTyped' /\ rd'.pc = "err"
    BY <2>1 DEF RdTyped
  <2>3. UNCHANGED <<pb, use, got, sent, signal, cell, wr, cl, pctx>>
    BY <1>1 DEF PReset
  <2> QED
    BY <2>2, <2>3 DEF PbTyped, WrTyped, CellTyped, RestTyped, POffsets, PWritten,
                PipeInOrder, PReading, PWriting, PChunkEnd, PClosed, PipeWakeUp
<1>2. CASE pb.open /\ PFits(limit)
  <2>1. /\ pb' = [pb EXCEPT !.limit = limit, !.offR = 0, !.offW = 0]
        /\ rd' = PIdle /\ use' = use + 1 /\ got' = <<>> /\ sent' = 0
        /\ UNCHANGED <<signal, cell, wr, cl, pctx>>
    BY <1>2 DEF PReset
  <2>2. limit \in 1 .. PipeSize
    BY <1>2 DEF PFits
  <2>3. /\ pb'.limit = limit /\ pb'.offR = 0 /\ pb'.offW = 0
        /\ pb'.open = pb.open /\ pb'.pending = pb.pending
    BY <2>1 DEF PbTyped
  <2>4. PTyped'
    <3>1. PbTyped'
      <4>1. 0 \in 0 .. PipeSize
        OBVIOUS
      <4> QED
        BY <2>1, <2>2, <4>1 DEF PbTyped
    <3>2. RdTyped'
      BY <2>1, PIdleType DEF RdTyped
    <3>3. RestTyped'
      BY <2>1 DEF RestTyped
    <3> QED
      BY <2>1, <3>1, <3>2, <3>3 DEF WrTyped, CellTyped
  <2>5. wr.pc \notin {"look", "io", "ret"}
    <3>1. rd.pc = "reset" /\ pb.offR = pb.limit
      BY DEF PReset, PChunkEnd
    <3>2. sent >= pb.limit
      BY <3>1 DEF POffsets, PbTyped
    <3> QED
      BY <3>2 DEF PWriting, PbTyped, RestTyped
  <2>6. PWriting'
    BY <2>1, <2>5 DEF PWriting
  <2>7. POffsets' /\ PWritten' /\ PipeInOrder'
    <3>1. Len(got') = 0 /\ got' = [i \in 1 .. 0 |-> PByte(use', i - 1)]
      BY <2>1
    <3>2. POffsets' /\ PipeInOrder'
      BY <2>1, <2>2, <2>3, <3>1 DEF POffsets, PipeInOrder
    <3>3. \A i \in PPlaces : ~(i < 0)
      BY DEF PPlaces
    <3> QED
      BY <2>1, <2>3, <3>2, <3>3 DEF PWritten
  <2> QED
    BY <2>1, <2>3, <2>4, <2>6, <2>7, PIdleType DEF PReading, PChunkEnd, PClosed, PipeWakeUp
<1> QED
  BY <1>1, <1>2

LEMMA PCloseInv ==
    ASSUME PipeInv, PClose \/ PCloseWait \/ PCancel
    PROVE  PipeInv'
<1> USE DEF PipeInv, PTyped
<1>1. CASE PClose
  <2>1. pb' = [pb EXCEPT !.open = FALSE, !.pending = FALSE]
    BY <1>1 DEF PClose
  <2>2. /\ PbTyped' /\ pb'.open = FALSE /\ pb'.pending = FALSE /\ pb'.limit = pb.limit
        /\ pb'.offR = pb.offR /\ pb'.offW = pb.offW
    BY <2>1 DEF PbTyped
  <2> QED
    BY <1>1, <2>2 DEF PClose, RdTyped, WrTyped, CellTyped, RestTyped, POffsets, PWritten,
                PipeInOrder, PReading, PWriting, PChunkEnd, PClosed, PipeWakeUp
<1>2. CASE PCloseWait
  BY <1>2 DEF PCloseWait, PInBlock, PbTyped, RdTyped, WrTyped, CellTyped, RestTyped, POffsets,
              PWritten, PipeInOrder, PReading, PWriting, PChunkEnd, PClosed, PipeWakeUp
<1>3. CASE PCancel
  BY <1>3, ZenonT(30) DEF PCancel, PbTyped, RdTyped, WrTyped, CellTyped, RestTyped, POffsets,
              PWritten, PipeInOrder, PReading, PWriting, PChunkEnd, PClosed, PipeWakeUp
<1> QED
  BY <1>1, <1>2, <1>3

LEMMA PStepInv == PipeInv /\ [PipeNext]_pipeVars => PipeInv'
<1> SUFFICES ASSUME PipeInv, [PipeNext]_pipeVars PROVE PipeInv'
  OBVIOUS
<1>1. CASE UNCHANGED pipeVars
  BY <1>1 DEF pipeVars, PipeInv, PTyped, PbTyped, RdTyped, WrTyped, CellTyped, RestTyped,
     POffsets, PWritten, PipeInOrder, PReading, PWriting, PChunkEnd, PClosed, PipeWakeUp
<1>2. CASE \E k \in 1 .. PipeSize : PReadStart(k) \/ PWriteStart(k)
  BY <1>2, PReadStartInv, PWriteStartInv
<1>3. CASE \E limit \in 1 .. PipeSize + 1 : PReset(limit)
  BY <1>3, PResetInv
<1>4. CASE PReadStep
  BY <1>4, PReadLookInv, PReadWakeInv, PReadBlockInv, PReadReturnInv DEF PReadStep
<1>5. CASE PWriteStep
  BY <1>5, PWriteLookInv, PWriteBlockInv, PWriteReturnInv DEF PWriteStep
<1>6. CASE PResetWait
  BY <1>6, PResetWaitInv
<1>7. CASE PClose \/ PCloseWait \/ PCancel
  BY <1>7, PCloseInv
<1> QED
  BY <1>1, <1>2, <1>3, <1>4, <1>5, <1>6, <1>7 DEF PipeNext

LEMMA PipeInvariant == PipeSpec => []PipeInv
<1>1. PipeInit => PipeInv
  BY PInitInv
<1>2. PipeInv /\ [PipeNext]_pipeVars => PipeInv'
  BY PStepInv
<1> QED
  BY <1>1, <1>2, PTL DEF PipeSpec

\* Read returns the bytes of the chunk in order, each once, whatever Write, Reset, Close
\* and the cancellation do meanwhile; no call is in the block once Close returned; a
\* waiting reader is recorded or has its token (pkg/buffer/pipe.go).
THEOREM PipeIsSafe == PipeSpec => []PipeSafe
<1>1. PipeInv => PipeSafe
  BY DEF PipeInv, PipeSafe, PipeTypeOK, PTyped, PbTyped, RdTyped, WrTyped, RestTyped,
         PClosed, PipeQuietAfterClose
<1> QED
  BY <1>1, PipeInvariant, PTL

-----------------------------------------------------------------------------
\* The abstract buffer: what each step of the pipe does to it.
LEMMA PInitRefines == PipeInit => PF!FifoInit
<1> SUFFICES ASSUME PipeInit PROVE PFifo = [use |-> 1, limit |-> PipeSize, in |-> 0, out |-> <<>>, open |-> TRUE]
  BY DEF PF!FifoInit
<1>1. POut = <<>>
  BY DEF PipeInit, POut
<1> QED
  BY <1>1 DEF PipeInit, PFifo

\* The bytes delivered are the first Len(got) ones of the chunk.
LEMMA POutBytes ==
    ASSUME PipeInOrder, got \in Seq(PCell)
    PROVE  POut = PF!FifoBytes(Len(got)) /\ Len(POut) = Len(got)
<1>1. Len(got) \in Nat
  OBVIOUS
<1>2. \A i \in 1 .. Len(got) : got[i][2] = i - 1
  BY DEF PipeInOrder, PByte
<1>3. POut = [i \in 1 .. Len(got) |-> i - 1]
  BY <1>2 DEF POut
<1> QED
  BY <1>1, <1>3 DEF PF!FifoBytes

LEMMA PStepRefines == PipeInv /\ PipeInv' /\ [PipeNext]_pipeVars => [PF!FifoNext]_PFifo
<1> SUFFICES ASSUME PipeInv, PipeInv', [PipeNext]_pipeVars
             PROVE  PF!FifoNext \/ UNCHANGED PFifo
  OBVIOUS
<1> USE PipeAssumption
<1>1. CASE UNCHANGED <<use, got, pb>>
  BY <1>1 DEF PFifo, POut
<1>2. CASE PReadLook
  <2>1. pb'.limit = pb.limit /\ pb'.offW = pb.offW /\ pb'.open = pb.open
    BY <1>2 DEF PReadLook, PipeInv, PTyped, PbTyped
  <2> QED
    BY <1>2, <2>1 DEF PReadLook, PFifo, POut
<1>3. CASE PReadReturn
  <2>1. PipeInOrder /\ PipeInOrder' /\ got \in Seq(PCell) /\ got' \in Seq(PCell)
    BY DEF PipeInv, PTyped, RestTyped
  <2>2. Len(got') = Len(got) + rd.n
    BY <1>3, PReadReturnInv
  <2>3. /\ rd.n \in 1 .. PipeSize /\ Len(got) + rd.n <= pb.offW
    <3>1. /\ rd.n \in Nat /\ rd.n > 0 /\ rd.off = pb.offR /\ rd.off + rd.n <= pb.offW
      BY <1>3 DEF PReadReturn, PipeInv, PTyped, RdTyped, PReading
    <3>2. pb.offR = Len(got) /\ pb.offR \in Nat /\ pb.offW \in 0 .. PipeSize
      BY DEF PipeInv, PTyped, PbTyped, POffsets
    <3> QED
      BY <3>1, <3>2
  <2>4. use' = use /\ pb'.limit = pb.limit /\ pb'.offW = pb.offW /\ pb'.open = pb.open
    BY <1>3 DEF PReadReturn, PipeInv, PTyped, PbTyped
  <2>5. Len(PFifo.out) = Len(got) /\ PFifo.in = pb.offW
    BY <2>1, POutBytes DEF PFifo
  <2>6. POut' = PF!FifoBytes(Len(got'))
    <3>1. \A i \in 1 .. Len(got') : got'[i][2] = i - 1
      BY <2>1 DEF PipeInOrder, PByte
    <3> QED
      BY <3>1 DEF POut, PF!FifoBytes
  <2>7. PFifo' = [PFifo EXCEPT !.out = PF!FifoBytes(Len(PFifo.out) + rd.n)]
    BY <2>2, <2>4, <2>5, <2>6 DEF PFifo
  <2>8. PF!FifoDeliver(rd.n)
    BY <2>3, <2>5, <2>7 DEF PF!FifoDeliver
  <2> QED
    BY <2>3, <2>8 DEF PF!FifoNext
<1>4. CASE PWriteReturn
  <2>1. wr.n \in Nat /\ pb.offW \in Nat /\ pb.offW + wr.n <= pb.limit /\ pb.limit <= PipeSize /\ pb.limit \in Nat
    BY <1>4 DEF PWriteReturn, PipeInv, PTyped, WrTyped, PbTyped, PWriting, POffsets
  <2>2. /\ pb'.limit = pb.limit /\ pb'.open = pb.open /\ pb'.offW = pb.offW + wr.n
        /\ use' = use /\ got' = got
    BY <1>4 DEF PWriteReturn, PipeInv, PTyped, PbTyped
  <2> POut' = POut
    BY <2>2 DEF POut
  <2>3. CASE wr.n = 0
    BY <2>1, <2>2, <2>3 DEF PFifo
  <2>4. CASE wr.n # 0
    <3>1. PF!FifoAccept(wr.n)
      BY <2>1, <2>2 DEF PF!FifoAccept, PFifo
    <3>2. wr.n \in 1 .. PipeSize
      BY <2>1, <2>4
    <3> QED
      BY <3>1, <3>2 DEF PF!FifoNext
  <2> QED
    BY <2>3, <2>4
<1>5. CASE \E limit \in 1 .. PipeSize + 1 : PReset(limit)
  <2> PICK limit \in 1 .. PipeSize + 1 : PReset(limit)
    BY <1>5
  <2>1. CASE ~pb.open \/ ~PFits(limit)
    BY <2>1 DEF PReset, PFifo, POut
  <2>2. CASE pb.open /\ PFits(limit)
    <3>1. /\ pb' = [pb EXCEPT !.limit = limit, !.offR = 0, !.offW = 0]
          /\ use' = use + 1 /\ got' = <<>> /\ rd.pc = "reset"
      BY <2>2 DEF PReset
    <3>2. pb'.limit = limit /\ pb'.offW = 0 /\ pb'.open = pb.open
      BY <3>1 DEF PipeInv, PTyped, PbTyped
    <3>3. limit \in 1 .. PipeSize
      BY <2>2 DEF PFits
    <3>4. use < PipeUses /\ Len(got) = pb.limit
      BY <3>1 DEF PipeInv, PChunkEnd, POffsets
    <3>5. Len(POut) = Len(got)
      BY POutBytes DEF PipeInv, PTyped, RestTyped
    <3>6. POut' = <<>>
      BY <3>1 DEF POut
    <3>7. PFifo' = [use |-> PFifo.use + 1, limit |-> limit, in |-> 0, out |-> <<>>, open |-> PFifo.open]
      <4>1. PFifo' = [use |-> use + 1, limit |-> limit, in |-> 0, out |-> <<>>, open |-> pb.open]
        BY <3>1, <3>2, <3>6, Zenon DEF PFifo
      <4>2. PFifo.use = use /\ PFifo.open = pb.open
        BY DEF PFifo
      <4> QED
        BY <4>1, <4>2, Zenon
    <3>8. PF!FifoReset(limit)
      BY <2>2, <3>4, <3>5, <3>7 DEF PF!FifoReset, PFifo
    <3> QED
      BY <3>3, <3>8 DEF PF!FifoNext
  <2> QED
    BY <2>1, <2>2
<1>6. CASE PClose
  <2>1. pb'.limit = pb.limit /\ pb'.offW = pb.offW /\ pb'.open = FALSE
    BY <1>6 DEF PClose, PipeInv, PTyped, PbTyped
  <2>2. use' = use /\ POut' = POut
    BY <1>6 DEF PClose, POut
  <2>3. PFifo' = [use |-> use, limit |-> pb.limit, in |-> pb.offW, out |-> POut, open |-> FALSE]
    BY <2>1, <2>2 DEF PFifo
  <2>4. pb.open
    BY <1>6 DEF PClose, PipeInv, PClosed
  <2>5. PF!FifoClose
    BY <2>3, <2>4 DEF PF!FifoClose, PFifo
  <2> QED
    BY <2>5 DEF PF!FifoNext
<1> QED
  BY <1>1, <1>2, <1>3, <1>4, <1>5, <1>6
     DEF PipeNext, pipeVars, PReadStep, PWriteStep, PReadStart, PReadWake, PReadBlock,
         PWriteStart, PWriteLook, PWriteBlock, PResetWait, PCloseWait, PCancel

\* The pipe buffer implements the first-in first-out buffer: every call takes effect as
\* one step of it, or as none.
THEOREM PipeImplementsFifo == PipeSpec => PipeRefines
<1>1. PipeInit => PF!FifoInit
  BY PInitRefines
<1>2. PipeInv /\ PipeInv' /\ [PipeNext]_pipeVars => [PF!FifoNext]_PFifo
  BY PStepRefines
<1> QED
  BY <1>1, <1>2, PipeInvariant, PTL DEF PipeSpec, PipeRefines, PF!FifoSpec
=============================================================================
