------------------------------ MODULE Downloader ------------------------------
(* internal/net/request.go: a range is fetched in chunks by several workers    *)
(* and put together by one reader.  The reader's goroutine calls download,     *)
(* Read, finishBuf and Close; each worker runs downloadPart.  `mu` names the   *)
(* goroutine that waits in the select of sendChunkTask with d.mu held; every   *)
(* other critical section is one step.  Bytes are offsets in the file.  The    *)
(* server never sends more bytes than it was asked for; waiting times and the  *)
(* throttle delayMu are left out.                                              *)
EXTENDS Integers, Sequences, FiniteSets

CONSTANTS DRanges,      \* what is asked for: <<start, length (< 0: to the end), file size>>
          DPartSize,    \* cfg.PartSize
          DConc,        \* cfg.Concurrency
          DRetries,     \* cfg.PartBodyMaxRetries
          DSlots,       \* ConcurrencyLimit.Limit before the download
          DFaults,      \* bound: broken bodies, fatal answers, failed allocations
          DBusys        \* bound: answers that say the server is overloaded

ASSUME DAssumption ==
  /\ \A r \in DRanges : r[1] \in 0 .. r[3] - 1 /\ r[2] \in Int \ {0} /\ r[3] \in Nat
  /\ {DPartSize, DConc} \subseteq Nat \ {0}
  /\ {DRetries, DSlots, DFaults, DBusys} \subseteq Nat

VARIABLES
  d,        \* the downloader: start and len of the range, pos, next, conc, maxPos, limit, written
  dctx,     \* d.ctx: "live", "cancelled" (by the user) or "failed" (by a worker)
  mu,       \* d.mu: DFree, or the goroutine that waits to send a chunk
  chunkCh,  \* chunks waiting for a worker
  bufMap,   \* chunk id -> buffer; -1 is the last one taken out
  bufs,     \* the pipe buffers: limit, data written, bytes read, open
  work,     \* the workers
  rdr,      \* the reader
  left      \* what is left of the bounds

dlVars == <<d, dctx, mu, chunkCh, bufMap, bufs, work, rdr, left>>

DWorkers == 1 .. DConc
DReader == 0
DFree == [by |-> -1]
NoChunk == [start |-> 0, size |-> 0, id |-> -1, buf |-> 0, new |-> FALSE]
DMax(x, y) == IF x > y THEN x ELSE y
DMin(x, y) == IF x < y THEN x ELSE y

\* Download: a length that is open or too long ends with the file.
DNormal(start, length, size) ==
  IF length < 0 \/ start + length > size THEN size - start ELSE length

DMaxPart(len) == IF len > DPartSize THEN (len + DPartSize - 1) \div DPartSize ELSE 1
DWorkerCount(len) == DMin(DMaxPart(len), DConc)

\* The first chunk is the short one, but at least half a part; the second one
\* gives back what the first took.
DChunkSize(len, id) ==
  LET first == len % DPartSize
      half == DPartSize \div 2
  IN  CASE id = 0 /\ first > 0 -> DMax(first, half)
        [] id = 1 /\ first > 0 /\ first < half -> DPartSize + first - half
        [] OTHER -> DPartSize

DInit ==
  /\ d = [start |-> 0, len |-> 0, pos |-> 0, next |-> 0, conc |-> 0, maxPos |-> 0, limit |-> DSlots, written |-> 0]
  /\ dctx = "live" /\ mu = DFree
  /\ chunkCh = <<>> /\ bufMap = <<>> /\ bufs = <<>>
  /\ work = [w \in DWorkers |-> [pc |-> "none", ch |-> NoChunk, retry |-> 0, n |-> 0]]
  /\ rdr = [pc |-> "new", pos |-> 0, cur |-> 0, got |-> <<>>, err |-> FALSE]
  /\ left = [faults |-> DFaults, busy |-> DBusys]

DFault == left.faults > 0 /\ left' = [left EXCEPT !.faults = @ - 1]
DSet(f, k, v) == [x \in DOMAIN f \cup {k} |-> IF x = k THEN v ELSE f[x]]
DDrop(f, k) == [x \in DOMAIN f \ {k} |-> f[x]]

-----------------------------------------------------------------------------
(* download *)

\* The whole range is one part: one request, without workers.
DSingle(start, len) ==
  /\ DMaxPart(len) = 1
  /\ d' = [d EXCEPT !.start = start, !.len = len, !.limit = @ - 1]
  /\ rdr' = [rdr EXCEPT !.pc = "single"]

download(start, len) ==
  /\ rdr.pc = "new"
  /\ \/ d.limit = 0 /\ rdr' = [rdr EXCEPT !.pc = "closed", !.err = TRUE] /\ UNCHANGED d
     \/ d.limit > 0 /\ DSingle(start, len)
     \/ /\ d.limit > 0 /\ DMaxPart(len) > 1
        /\ d' = [d EXCEPT !.start = start, !.len = len, !.pos = start, !.maxPos = start + len, !.conc = DWorkerCount(len), !.limit = @ - 1]
        /\ rdr' = [rdr EXCEPT !.pc = "first"]
  /\ UNCHANGED <<dctx, mu, chunkCh, bufMap, bufs, work, left>>

\* The only request failed, or its body is read and closed: the slot is released.
DSingleEnd(ok) ==
  /\ rdr.pc = "single"
  /\ ok \/ left.faults > 0
  /\ rdr' = [rdr EXCEPT !.pc = "closed", !.err = ~ok,
                        !.got = IF ok THEN [i \in 1 .. d.len |-> d.start + i - 1] ELSE <<>>]
  /\ d' = [d EXCEPT !.limit = @ + 1]
  /\ UNCHANGED <<dctx, mu, chunkCh, bufMap, bufs, work, left>>

-----------------------------------------------------------------------------
(* sendChunkTask(newConcurrency), called by p: its critical section up to the  *)
(* select, then the select, with d.mu still held.                              *)

\* The end of the range, or all workers are running already.
NothingToSend(new) == d.pos >= d.maxPos \/ (new /\ d.conc <= 0)

\* A new worker takes a slot, but for the first one, which download took.
TakesSlot(new) == new /\ d.next > 0
NoSlot(new) == TakesSlot(new) /\ d.limit = 0

\* The buffer of the next chunk: one the reader left there, or a new block.
NextBuf == IF d.next \in DOMAIN bufMap THEN bufMap[d.next] ELSE Len(bufs) + 1

\* The worker that `go d.downloadPart()` starts.
NewWorker(new) == IF new THEN {DWorkerCount(d.len) - d.conc + 1} ELSE {}

\* Where the caller goes on after sendChunkTask: download looks at the error,
\* finishBuf and tryDownloadChunk do not.
SendReturns(p, ok) ==
  IF p = DReader
  THEN /\ rdr' = [rdr EXCEPT !.pc = IF @ # "first" THEN "pop" ELSE IF ok THEN "pop" ELSE "abort"]
       /\ UNCHANGED work
  ELSE work' = [work EXCEPT ![p].pc = "copy"] /\ UNCHANGED rdr

\* Return before anything is sent; hc.NextBlock may fail.
SendSkip(p, new) ==
  /\ mu = DFree
  /\ \/ (NothingToSend(new) \/ NoSlot(new)) /\ UNCHANGED left
     \/ d.next \notin DOMAIN bufMap /\ DFault
  /\ SendReturns(p, NothingToSend(new))
  /\ UNCHANGED <<d, dctx, mu, chunkCh, bufMap, bufs>>

SendPrepare(p, new) ==
  /\ mu = DFree
  /\ ~NothingToSend(new) /\ ~NoSlot(new)
  /\ LET size == DChunkSize(d.len, d.next)
         b == NextBuf
     IN  /\ bufs' = [i \in 1 .. DMax(Len(bufs), b) |->
                       IF i = b THEN [limit |-> size, data |-> <<>>, read |-> 0, open |-> TRUE] ELSE bufs[i]]
         /\ bufMap' = DSet(bufMap, d.next, b)
         /\ mu' = [by |-> p, slot |-> TakesSlot(new),
                   ch |-> [start |-> d.pos, size |-> size, id |-> d.next, buf |-> b, new |-> new]]
         /\ d' = [d EXCEPT !.pos = @ + size, !.next = @ + 1,
                           !.limit = IF TakesSlot(new) THEN @ - 1 ELSE @,
                           !.conc = IF new THEN @ - 1 ELSE @]
  /\ work' = [w \in DWorkers |-> [work[w] EXCEPT !.pc = IF w \in NewWorker(new) THEN "recv" ELSE @]]
  /\ UNCHANGED <<dctx, chunkCh, rdr, left>>

\* A cancelled context gives back the slot, which the new worker does as well.
SendSelect(p) ==
  /\ mu.by = p
  /\ mu' = DFree
  /\ \/ /\ dctx # "live"
        /\ d' = IF mu.slot THEN [d EXCEPT !.limit = @ + 1] ELSE d
        /\ SendReturns(p, FALSE)
        /\ UNCHANGED chunkCh
     \/ /\ Len(chunkCh) < DWorkerCount(d.len)
        /\ chunkCh' = Append(chunkCh, mu.ch)
        /\ SendReturns(p, TRUE)
        /\ UNCHANGED d
  /\ UNCHANGED <<dctx, bufMap, bufs, left>>

sendChunkTask(p, new) == SendSkip(p, new) \/ SendPrepare(p, new)

-----------------------------------------------------------------------------
(* The workers: downloadPart, downloadChunk, tryDownloadChunk *)

\* downloadPart returns and releases its slot; n more bytes were counted.
WorkerEnds(w, n) ==
  /\ work' = [work EXCEPT ![w].pc = "ended", ![w].ch = NoChunk]
  /\ d' = [d EXCEPT !.limit = @ + 1, !.written = @ + n]

WorkerReceive(w) ==
  /\ work[w].pc = "recv"
  /\ \/ dctx # "live" /\ WorkerEnds(w, 0) /\ UNCHANGED chunkCh
     \/ chunkCh = <<>> /\ d.maxPos = 0 /\ WorkerEnds(w, 0) /\ UNCHANGED chunkCh
     \/ /\ chunkCh # <<>>
        /\ work' = [work EXCEPT ![w] = [pc |-> "try", ch |-> Head(chunkCh), retry |-> 0, n |-> 0]]
        /\ chunkCh' = Tail(chunkCh)
        /\ UNCHANGED d
  /\ UNCHANGED <<dctx, mu, bufMap, bufs, rdr, left>>

\* d.cancel(err): only the first cause counts.
DCancelCause == dctx' = IF dctx = "live" THEN "failed" ELSE dctx

\* errNeedRetry after n bytes: the rest of the chunk is asked for again, unless
\* the retries are used up.  (Mutant: it is asked for from its start.)
Rest_Again(ch, n) == ch
Rest(ch, n) == [ch EXCEPT !.start = @ + n, !.size = @ - n]
NeedRetry(w, n) ==
  \/ /\ work[w].retry < DRetries
     /\ work' = [work EXCEPT ![w] = [pc |-> "try", ch |-> Rest(@.ch, n), retry |-> @.retry + 1, n |-> 0]]
     /\ d' = [d EXCEPT !.written = @ + n]
     /\ UNCHANGED dctx
  \/ work[w].retry >= DRetries /\ DCancelCause /\ WorkerEnds(w, n)

\* The answer to the request is an error: of the context, fatal (no HTTP status,
\* 416, a wrong file size), or for chunk 0 one that is worth a retry.
RequestFails(w) ==
  /\ work[w].pc = "try"
  /\ \/ dctx # "live" /\ WorkerEnds(w, 0) /\ UNCHANGED <<dctx, left>>
     \/ dctx = "live" /\ DFault /\ DCancelCause /\ WorkerEnds(w, 0)
     \/ dctx = "live" /\ DFault /\ work[w].ch.id = 0 /\ NeedRetry(w, 0)
  /\ UNCHANGED <<mu, chunkCh, bufMap, bufs, rdr>>

\* Any other HTTP error of a later chunk means overload: cut the concurrency and
\* hand the chunk to another worker, or ask again (errInfiniteRetry).
CutsConcurrency(ch) == ch.new \/ d.conc > 0
Requeued(w) == Append(chunkCh, work[w].ch)

Overloaded(w) ==
  /\ work[w].pc = "try" /\ work[w].ch.id > 0
  /\ dctx = "live" /\ mu = DFree
  /\ left.busy > 0
  /\ left' = [left EXCEPT !.busy = @ - 1]
  /\ IF CutsConcurrency(work[w].ch)
     THEN /\ d' = [d EXCEPT !.conc = (IF @ > 0 THEN -@ ELSE @) - 1]
          /\ work' = [work EXCEPT ![w].pc = "requeue"]
     ELSE UNCHANGED <<d, work>>
  /\ UNCHANGED <<dctx, mu, chunkCh, bufMap, bufs, rdr>>

\* The select of tryDownloadChunk.  The interrupted downloader has closed the
\* channel, and a send on it ends the program.
Requeue(w) ==
  /\ work[w].pc = "requeue"
  /\ \/ dctx # "live" /\ WorkerEnds(w, 0) /\ UNCHANGED <<chunkCh, rdr>>
     \/ /\ d.maxPos # 0 /\ Len(chunkCh) < DWorkerCount(d.len)
        /\ chunkCh' = Requeued(w)
        /\ WorkerEnds(w, 0)
        /\ UNCHANGED rdr
     \/ d.maxPos = 0 /\ rdr' = [rdr EXCEPT !.pc = "panic"] /\ UNCHANGED <<chunkCh, d, work>>
  /\ UNCHANGED <<dctx, mu, bufMap, bufs, left>>

\* The request succeeded; every success may start another worker.
RequestOK(w) ==
  /\ work[w].pc = "try" /\ dctx = "live"
  /\ work' = [work EXCEPT ![w].pc = "more"]
  /\ UNCHANGED <<d, dctx, mu, chunkCh, bufMap, bufs, rdr, left>>

WorkerSends(w) == work[w].pc = "more" /\ mu.by # w /\ sendChunkTask(w, TRUE)
WorkerSelect(w) == work[w].pc = "more" /\ SendSelect(w)

\* CopyWithBuffer: n bytes of the body reach the buffer, all of them or as many
\* as came before the body broke, the context ended or the buffer was closed.
CopyBody(w) ==
  LET ch == work[w].ch
  IN  /\ work[w].pc = "copy"
      /\ \E n \in 0 .. ch.size :
           /\ n > 0 => bufs[ch.buf].open /\ dctx = "live"
           /\ bufs' = [bufs EXCEPT ![ch.buf].data = @ \o [i \in 1 .. n |-> ch.start + i - 1]]
           /\ \/ n = ch.size /\ UNCHANGED left
              \/ n < ch.size /\ dctx = "live" /\ DFault
              \/ n < ch.size /\ dctx # "live" /\ UNCHANGED left
           /\ work' = [work EXCEPT ![w].pc = "copied", ![w].n = n]
      /\ UNCHANGED <<d, dctx, mu, chunkCh, bufMap, rdr>>

\* The worker of a complete chunk goes on with the next.  (Mutant: it leaves.)
AfterChunk_Ends == "ended"
AfterChunk == "recv"

\* downloadChunk counts the bytes and takes the next chunk or tries again.
Copied(w) ==
  LET n == work[w].n
  IN  /\ work[w].pc = "copied"
      /\ \/ /\ n = work[w].ch.size
            /\ work' = [work EXCEPT ![w] = [pc |-> AfterChunk, ch |-> NoChunk, retry |-> 0, n |-> 0]]
            /\ d' = [d EXCEPT !.written = @ + n]
            /\ UNCHANGED dctx
         \/ n < work[w].ch.size /\ dctx # "live" /\ WorkerEnds(w, 0) /\ UNCHANGED dctx
         \/ n < work[w].ch.size /\ dctx = "live" /\ NeedRetry(w, n)
      /\ UNCHANGED <<mu, chunkCh, bufMap, bufs, rdr, left>>

WorkerStep(w) ==
  \/ WorkerReceive(w) \/ RequestFails(w) \/ Overloaded(w) \/ Requeue(w) \/ RequestOK(w)
  \/ WorkerSends(w) \/ WorkerSelect(w) \/ CopyBody(w) \/ Copied(w)

-----------------------------------------------------------------------------
(* The reader: multiReadCloser.Read, finishBuf, popBuf, interrupt *)

ReaderSends == rdr.pc \in {"first", "fsend"} /\ mu.by # DReader /\ sendChunkTask(DReader, rdr.pc = "first")
ReaderSelect == rdr.pc \in {"first", "fsend"} /\ SendSelect(DReader)

\* popBuf: the next buffer, remembered under -1 so that interrupt closes it.
PopBuf ==
  /\ rdr.pc = "pop" /\ mu = DFree
  /\ LET found == rdr.pos \in DOMAIN bufMap
     IN  /\ bufMap' = IF found THEN DSet(DDrop(bufMap, rdr.pos), -1, bufMap[rdr.pos]) ELSE bufMap
         /\ rdr' = [rdr EXCEPT !.pc = "read", !.cur = IF found THEN bufMap[rdr.pos] ELSE 0]
  /\ UNCHANGED <<d, dctx, mu, chunkCh, bufs, work, left>>

ReadBytes ==
  /\ rdr.pc = "read" /\ rdr.cur # 0 /\ dctx = "live"
  /\ LET b == bufs[rdr.cur]
     IN  /\ b.read < Len(b.data)
         /\ rdr' = [rdr EXCEPT !.got = @ \o SubSeq(b.data, b.read + 1, Len(b.data))]
         /\ bufs' = [bufs EXCEPT ![rdr.cur].read = Len(b.data)]
  /\ UNCHANGED <<d, dctx, mu, chunkCh, bufMap, work, left>>

\* Read returns io.EOF or an error.
IsLast(pos) == pos + 1 >= DMaxPart(d.len)
ReadEnds ==
  /\ rdr.pc = "read"
  /\ \/ rdr.cur = 0 /\ rdr' = [rdr EXCEPT !.pc = "eof"]
     \/ rdr.cur # 0 /\ dctx # "live" /\ rdr' = [rdr EXCEPT !.pc = "failed"]
     \/ /\ rdr.cur # 0 /\ dctx = "live"
        /\ bufs[rdr.cur].read >= bufs[rdr.cur].limit
        /\ rdr' = [rdr EXCEPT !.pos = @ + 1, !.pc = IF IsLast(rdr.pos) THEN "eof" ELSE "finish"]
  /\ UNCHANGED <<d, dctx, mu, chunkCh, bufMap, bufs, work, left>>

\* finishBuf: the buffer that was read serves the next chunk, or is closed.
FinishBuf ==
  /\ rdr.pc = "finish" /\ mu = DFree
  /\ \/ /\ d.next \notin DOMAIN bufMap
        /\ bufMap' = DSet(bufMap, d.next, rdr.cur)
        /\ rdr' = [rdr EXCEPT !.pc = "fsend"]
        /\ UNCHANGED bufs
     \/ /\ d.next \in DOMAIN bufMap
        /\ bufs' = [bufs EXCEPT ![rdr.cur].open = FALSE]
        /\ rdr' = [rdr EXCEPT !.pc = "pop"]
        /\ UNCHANGED bufMap
  /\ UNCHANGED <<d, dctx, mu, chunkCh, work, left>>

\* d.cancel(err) in interrupt.
Cancelled == IF dctx = "live" THEN "cancelled" ELSE dctx

\* interrupt, by Close or by a download that could not start: first the cancel,
\* then, with d.mu, the buffers, the cache and the channel.
Interrupt ==
  /\ rdr.pc \in {"read", "eof", "failed", "abort"}
  /\ rdr' = [rdr EXCEPT !.pc = "closing",
                        !.err = dctx = "failed" \/ (dctx = "live" /\ d.written # d.len)]
  /\ dctx' = Cancelled
  /\ d' = IF rdr.pc = "abort" THEN [d EXCEPT !.limit = @ + 1] ELSE d
  /\ UNCHANGED <<mu, chunkCh, bufMap, bufs, work, left>>

Shut == [d EXCEPT !.maxPos = 0, !.conc = IF @ > 0 THEN -@ ELSE @]
DClose ==
  /\ rdr.pc = "closing" /\ mu = DFree
  /\ rdr' = [rdr EXCEPT !.pc = "closed"]
  /\ bufs' = [b \in DOMAIN bufs |-> IF \E k \in DOMAIN bufMap : bufMap[k] = b
                                    THEN [bufs[b] EXCEPT !.open = FALSE] ELSE bufs[b]]
  /\ bufMap' = <<>>
  /\ d' = Shut
  /\ UNCHANGED <<dctx, mu, chunkCh, work, left>>

\* The client goes away.
ParentCancelled ==
  /\ rdr.pc \notin {"new", "single", "closed"} /\ dctx = "live"
  /\ DFault
  /\ dctx' = "cancelled"
  /\ UNCHANGED <<d, mu, chunkCh, bufMap, bufs, work, rdr>>

ReaderStep == ReaderSends \/ ReaderSelect \/ PopBuf \/ ReadBytes \/ ReadEnds \/ FinishBuf

DNext ==
  /\ rdr.pc # "panic"
  /\ \/ \E r \in DRanges : download(r[1], DNormal(r[1], r[2], r[3]))
     \/ \E ok \in BOOLEAN : DSingleEnd(ok)
     \/ \E w \in DWorkers : WorkerStep(w)
     \/ ReaderStep \/ Interrupt \/ DClose \/ ParentCancelled

DSpec == DInit /\ [][DNext]_dlVars

\* Goroutines are scheduled, requests are answered, and a reader reads to the
\* end before it closes.
DFairness ==
  /\ \A w \in DWorkers : WF_dlVars(WorkerStep(w) /\ rdr.pc # "panic")
  /\ WF_dlVars(ReaderStep /\ rdr.pc # "panic")
  /\ WF_dlVars(rdr.pc \in {"eof", "failed", "abort"} /\ Interrupt)
  /\ WF_dlVars(DClose)

-----------------------------------------------------------------------------
(* The reader gets the bytes of the range in order, each once, whatever order  *)
(* the workers fetched the chunks in, however often one was retried half way   *)
(* or handed to another worker, and though buffers are used again.             *)
DInOrder == rdr.got = [i \in 1 .. Len(rdr.got) |-> d.start + i - 1]

(* Read says io.EOF only when the whole range was delivered: the sizes of the  *)
(* chunks add up, and no buffer is missing from bufMap (multiReadCloser.Read). *)
DEofComplete == rdr.pc = "eof" => Len(rdr.got) = d.len

(* No slot of the shared ConcurrencyLimit is lost: when the download is closed *)
(* and its workers have ended, at least as many are free as before.            *)
DNoSlotLost ==
  (rdr.pc = "closed" /\ \A w \in DWorkers : work[w].pc \in {"none", "ended"}) => d.limit >= DSlots

(* After Close every worker ends: none stays blocked on the channel or on the  *)
(* mutex that a sender holds (interrupt against sendChunkTask and requeueing). *)
DWorkersEnd == (rdr.pc = "closing") ~> (\A w \in DWorkers : work[w].pc \in {"none", "ended"}) \/ rdr.pc = "panic"

(* A reader that keeps reading comes to the end of the range or to an error:   *)
(* no chunk is forgotten and no wake-up is missed, unless the server answered  *)
(* that it is overloaded (sendChunkTask, finishBuf, downloadPart).             *)
DReaderServed ==
  (rdr.pc = "read") ~> (rdr.pc \in {"eof", "failed", "closing", "closed", "panic"} \/ left.busy < DBusys)

(* A download delivers its range, whole and in order, and gives back what it    *)
(* took of the shared limit, whatever its workers met (request.go).             *)
DownloadSafe == DInOrder /\ DEofComplete /\ DNoSlotLost
=============================================================================
