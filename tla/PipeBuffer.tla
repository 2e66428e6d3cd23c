------------------------------ MODULE PipeBuffer ------------------------------
(* pkg/buffer/pipe.go: a block of memory shared by one reader and one writer. *)
(* The fields of `pb` are guarded by br.rw; the block itself is read and      *)
(* written outside the lock, counted by ioWg.  Bytes are named by the use of  *)
(* the buffer (one chunk of a download) and their position in it.             *)
EXTENDS Naturals, Sequences

CONSTANTS PipeSize,     \* block.Size()
          PipeUses      \* bound: chunks that pass through the buffer

ASSUME PipeAssumption == PipeSize \in Nat \ {0} /\ PipeUses \in Nat \ {0}

VARIABLES
  pb,        \* limit, offR, offW, open (block # nil), readPending
  signal,    \* readSignal: tokens in the channel (capacity 1)
  cell,      \* the block
  rd,        \* the goroutine in Read (or in Reset between two chunks)
  wr,        \* the goroutine in Write
  cl,        \* the goroutine in Close
  pctx,      \* br.ctx is live
  use, got, sent   \* current chunk, bytes Read returned, bytes Write accepted

pipeVars == <<pb, signal, cell, rd, wr, cl, pctx, use, got, sent>>

PByte(u, i) == <<u, i>>
PUnwritten == <<0, 0>>
PIdle == [pc |-> "idle", off |-> 0, n |-> 0, data |-> <<>>]

PipeInit ==
  /\ pb = [limit |-> PipeSize, offR |-> 0, offW |-> 0, open |-> TRUE, pending |-> FALSE]
  /\ signal = 0
  /\ cell = [i \in 0 .. PipeSize - 1 |-> PUnwritten]
  /\ rd = PIdle /\ wr = PIdle /\ cl = "none"
  /\ pctx = TRUE
  /\ use = 1 /\ got = <<>> /\ sent = 0

PMin(x, y) == IF x < y THEN x ELSE y

\* ioWg: the calls that are inside the block.
PInBlock(p) == p.pc \in {"io", "ret"}

\* canRead.  (Mutant: up to the limit, written or not.)
PCanRead_Limit == pb.limit - pb.offR
PCanRead == pb.offW - pb.offR

\* Does Write send to readSignal?  (Mutant: only once the chunk is complete.)
PWakes_Late == pb.pending /\ pb.offW + wr.n = pb.limit
PWakes == pb.pending

\* Does Reset accept the limit?
PFits(limit) == limit <= PipeSize

-----------------------------------------------------------------------------
(* Read *)

PReadStart(k) ==
  /\ rd.pc = "idle"
  /\ rd' = [PIdle EXCEPT !.pc = IF ~pctx THEN "err" ELSE IF pb.offR >= pb.limit THEN "eof" ELSE "look",
                         !.n = k]
  /\ UNCHANGED <<pb, signal, cell, wr, cl, pctx, use, got, sent>>

\* Under the lock: closed, nothing to read (wait), or take what is there.
PReadLook ==
  /\ rd.pc = "look"
  /\ \/ /\ ~pb.open
        /\ rd' = [rd EXCEPT !.pc = "err"]
        /\ UNCHANGED pb
     \/ /\ pb.open /\ PCanRead = 0
        /\ rd' = [rd EXCEPT !.pc = "wait"]
        /\ pb' = [pb EXCEPT !.pending = TRUE]
     \/ /\ pb.open /\ PCanRead > 0
        /\ rd' = [rd EXCEPT !.pc = "io", !.off = pb.offR, !.n = PMin(@, PCanRead)]
        /\ UNCHANGED pb
  /\ UNCHANGED <<signal, cell, wr, cl, pctx, use, got, sent>>

\* select on ctx.Done and readSignal; a closed channel still hands out its token.
PReadWake ==
  /\ rd.pc = "wait"
  /\ \/ signal = 1 /\ rd' = [rd EXCEPT !.pc = "look"] /\ signal' = 0
     \/ signal = 0 /\ ~pb.open /\ rd' = [rd EXCEPT !.pc = "err"] /\ UNCHANGED signal
     \/ ~pctx /\ rd' = [rd EXCEPT !.pc = "err"] /\ UNCHANGED signal
  /\ UNCHANGED <<pb, cell, wr, cl, pctx, use, got, sent>>

PReadBlock ==
  /\ rd.pc = "io"
  /\ rd' = [rd EXCEPT !.pc = "ret", !.data = [i \in 1 .. rd.n |-> cell[rd.off + i - 1]]]
  /\ UNCHANGED <<pb, signal, cell, wr, cl, pctx, use, got, sent>>

PReadReturn ==
  /\ rd.pc = "ret"
  /\ pb' = [pb EXCEPT !.offR = @ + rd.n]
  /\ got' = got \o rd.data
  /\ rd' = PIdle
  /\ UNCHANGED <<signal, cell, wr, cl, pctx, use, sent>>

-----------------------------------------------------------------------------
(* Write: a download worker hands over the next k bytes of its chunk.         *)

PWriteStart(k) ==
  /\ wr.pc = "idle"
  /\ sent + k <= pb.limit
  /\ wr' = [PIdle EXCEPT !.pc = IF pctx THEN "look" ELSE "err", !.n = k]
  /\ UNCHANGED <<pb, signal, cell, rd, cl, pctx, use, got, sent>>

PWriteLook ==
  /\ wr.pc = "look"
  /\ wr' = IF ~pb.open \/ pb.limit <= pb.offW
           THEN [wr EXCEPT !.pc = "err"]
           ELSE [wr EXCEPT !.pc = "io", !.off = pb.offW, !.n = PMin(@, pb.limit - pb.offW)]
  /\ UNCHANGED <<pb, signal, cell, rd, cl, pctx, use, got, sent>>

\* The backing file may take fewer bytes than it was given.
PWriteBlock ==
  /\ wr.pc = "io"
  /\ \E n \in 0 .. wr.n :
       /\ wr' = [wr EXCEPT !.pc = "ret", !.n = n]
       /\ cell' = [i \in DOMAIN cell |->
                     IF i \in wr.off .. wr.off + n - 1 THEN PByte(use, sent + (i - wr.off)) ELSE cell[i]]
  /\ UNCHANGED <<pb, signal, rd, cl, pctx, use, got, sent>>

PWriteReturn ==
  /\ wr.pc = "ret"
  /\ pb' = [pb EXCEPT !.offW = @ + wr.n, !.pending = FALSE]
  /\ signal' = IF PWakes THEN 1 ELSE signal
  /\ sent' = sent + wr.n
  /\ wr' = PIdle
  /\ UNCHANGED <<cell, rd, cl, pctx, use, got>>

-----------------------------------------------------------------------------
(* Reset, Close and the cancellation of the context.  The downloader resets a *)
(* buffer once its reader met the end of the chunk.                           *)

PResetWait ==
  /\ rd.pc = "eof" /\ use < PipeUses
  /\ ~PInBlock(wr)
  /\ rd' = [rd EXCEPT !.pc = "reset"]
  /\ UNCHANGED <<pb, signal, cell, wr, cl, pctx, use, got, sent>>

PReset(limit) ==
  /\ rd.pc = "reset"
  /\ \/ /\ ~pb.open \/ ~PFits(limit)
        /\ rd' = [rd EXCEPT !.pc = "err"]
        /\ UNCHANGED <<pb, use, got, sent>>
     \/ /\ pb.open /\ PFits(limit)
        /\ pb' = [pb EXCEPT !.limit = limit, !.offR = 0, !.offW = 0]
        /\ rd' = PIdle
        /\ use' = use + 1 /\ got' = <<>> /\ sent' = 0
  /\ UNCHANGED <<signal, cell, wr, cl, pctx>>

PClose ==
  /\ cl = "none"
  /\ cl' = "wait"
  /\ pb' = [pb EXCEPT !.open = FALSE, !.pending = FALSE]
  /\ UNCHANGED <<signal, cell, rd, wr, pctx, use, got, sent>>

\* ioWg.Wait, after which the owner unmaps the memory of the block.
PCloseWait ==
  /\ cl = "wait"
  /\ ~PInBlock(rd) /\ ~PInBlock(wr)
  /\ cl' = "done"
  /\ UNCHANGED <<pb, signal, cell, rd, wr, pctx, use, got, sent>>

PCancel ==
  /\ pctx
  /\ pctx' = FALSE
  /\ UNCHANGED <<pb, signal, cell, rd, wr, cl, use, got, sent>>

PReadStep == PReadLook \/ PReadWake \/ PReadBlock \/ PReadReturn
PWriteStep == PWriteLook \/ PWriteBlock \/ PWriteReturn

PipeNext ==
  \/ \E k \in 1 .. PipeSize : PReadStart(k) \/ PWriteStart(k)
  \/ \E limit \in 1 .. PipeSize + 1 : PReset(limit)
  \/ PReadStep \/ PWriteStep \/ PResetWait \/ PClose \/ PCloseWait \/ PCancel

PipeSpec == PipeInit /\ [][PipeNext]_pipeVars

-----------------------------------------------------------------------------
PipeTypeOK ==
  /\ pb \in [limit : 1 .. PipeSize, offR : 0 .. PipeSize, offW : 0 .. PipeSize,
             open : BOOLEAN, pending : BOOLEAN]
  /\ signal \in {0, 1}
  /\ rd.pc \in {"idle", "look", "wait", "io", "ret", "eof", "reset", "err"}
  /\ wr.pc \in {"idle", "look", "io", "ret", "err"}
  /\ cl \in {"none", "wait", "done"}

(* Read returns the bytes of the current chunk, from its first byte on, each   *)
(* once and in order: never a byte that is still being written and never one   *)
(* left in the block by an earlier chunk (PipeBuffer.Read against Write/Reset). *)
PipeInOrder == got = [i \in 1 .. Len(got) |-> PByte(use, i - 1)]

(* Once Close has returned no call is inside the block, so the downloader may   *)
(* unmap its memory (PipeBuffer.Close and ioWg).                                *)
PipeQuietAfterClose == cl = "done" => rd.pc # "io" /\ wr.pc # "io"

(* A reader that waits in Read is either recorded in readPending or its token   *)
(* is in the channel already, unless the buffer is closed; and nobody is        *)
(* recorded once the channel is closed, so Write never sends on a closed one.   *)
PipeWakeUp ==
  /\ rd.pc = "wait" /\ pb.open => pb.pending \/ signal = 1
  /\ pb.pending => pb.open

(* No wake-up is lost: bytes that are there for a waiting reader, or the end of *)
(* the buffer, let Read go on.                                                  *)
PipeReaderWakes == (rd.pc = "wait" /\ (pb.offW > pb.offR \/ ~pb.open \/ ~pctx)) ~> rd.pc # "wait"

(* The pipe buffer implements the abstract first-in first-out buffer.          *)
POut == [i \in 1 .. Len(got) |-> got[i][2]]
PFifo == [use |-> use, limit |-> pb.limit, in |-> pb.offW, out |-> POut, open |-> pb.open]
PF == INSTANCE ByteFifo WITH FifoSize <- PipeSize, FifoUses <- PipeUses, fifo <- PFifo
PipeRefines == PF!FifoSpec

(* What the workers and the reader of a download rely on: bytes in order and    *)
(* whole, a wake-up for every wait, and no call in a block that is unmapped.    *)
PipeSafe == PipeTypeOK /\ PipeInOrder /\ PipeQuietAfterClose /\ PipeWakeUp
=============================================================================
