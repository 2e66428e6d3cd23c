--------------------------- MODULE DownloaderProofs ---------------------------
(* Proofs about Downloader: a range comes whole and in order and no slot of the *)
(* shared limit is lost, for files and parts of any size, any number of workers *)
(* and of failures.  And about HybridCache, which holds what was downloaded:    *)
(* its blocks never share a byte, for any sizes and any refusals of memory.     *)
EXTENDS Downloader, HybridCache, FiniteSetTheorems, SequenceTheorems, TLAPS

\* Where chunk k begins: after the first two, whole parts are left.
DOffset(len, k) ==
  IF k = 0 THEN 0 ELSE IF k = 1 THEN DChunkSize(len, 0) ELSE len - (DMaxPart(len) - k) * DPartSize

\* s is a part of the file that begins at byte `from`.
DBytes(s, from) == s = [i \in 1 .. Len(s) |-> from + i - 1]

-----------------------------------------------------------------------------
(* Types *)

DChunks == [start : Nat, size : Nat, id : Int, buf : Nat, new : BOOLEAN]
DBuffers == [limit : Nat, data : Seq(Nat), read : Nat, open : BOOLEAN]
DWorkerPcs == {"none", "recv", "try", "more", "requeue", "copy", "copied", "ended"}
DReaderPcs == {"new", "single", "first", "abort", "pop", "read", "finish", "fsend",
               "eof", "failed", "closing", "closed", "panic"}

DTypedD == d \in [start : Nat, len : Nat, pos : Nat, next : Nat, conc : Int, maxPos : Nat, limit : Nat, written : Nat]
DTypedWork == work \in [DWorkers -> [pc : DWorkerPcs, ch : DChunks, retry : Nat, n : Nat]]
DTypedReader == rdr \in [pc : DReaderPcs, pos : Nat, cur : Nat, got : Seq(Nat), err : BOOLEAN]
DTypedMu == mu = DFree \/ mu \in [by : DWorkers \cup {DReader}, slot : BOOLEAN, ch : DChunks]
DTypedBufs ==
  /\ bufs \in Seq(DBuffers)
  /\ DOMAIN bufMap \subseteq Nat \cup {-1} /\ \A k \in DOMAIN bufMap : bufMap[k] \in DOMAIN bufs

DTyped ==
  /\ DTypedD /\ DTypedWork /\ DTypedReader /\ DTypedMu /\ DTypedBufs
  /\ dctx \in {"live", "cancelled", "failed"} /\ chunkCh \in Seq(DChunks)
  /\ left \in [faults : Nat, busy : Nat]

-----------------------------------------------------------------------------
(* The invariant *)

\* Before the workers, or without them.
DQuiet ==
  /\ rdr.pc \in {"new", "single", "closed"}
  /\ mu = DFree /\ chunkCh = <<>> /\ d.next = 0 /\ d.maxPos = 0 /\ d.pos = 0
  /\ \A w \in DWorkers : work[w].pc = "none"
  /\ rdr.pc = "new" => rdr.got = <<>> /\ rdr.pos = 0 /\ d.conc = 0 /\ bufMap = <<>> /\ bufs = <<>>
  /\ rdr.pc = "single" => rdr.got = <<>> /\ d.len > 0

\* The range is cut into chunks, of which `next` ones were sent.
DCut ==
  /\ rdr.pc \notin {"new", "single"}
  /\ d.len > 0 /\ DMaxPart(d.len) > 1
  /\ d.next \in 0 .. DMaxPart(d.len) /\ d.pos = d.start + DOffset(d.len, d.next)
  /\ d.maxPos = IF rdr.pc \in {"closed", "panic"} THEN 0 ELSE d.start + d.len

\* The workers that were started are the first ones, until the server is
\* overloaded; then no more are.
DStarted ==
  d.conc > 0 => /\ d.conc <= DWorkerCount(d.len)
                /\ \A w \in DWorkers : work[w].pc = "none" <=> w > DWorkerCount(d.len) - d.conc

DReading == rdr.pc \in {"first", "pop", "read", "finish", "fsend"}

\* Chunks that were sent and not taken out yet are in bufMap; beside them only
\* the buffer that the next chunk will use.
DMapped ==
  DReading =>
    /\ \A k \in Nat : k >= rdr.pos /\ k < d.next /\ (rdr.pc = "read" => k # rdr.pos) => k \in DOMAIN bufMap
    /\ \A k \in DOMAIN bufMap \ {-1} : k >= rdr.pos /\ k <= d.next /\ (rdr.pc = "read" => k # rdr.pos)
    /\ d.next \in DOMAIN bufMap => (rdr.pc = "fsend" /\ mu.by # DReader) \/ d.next = DMaxPart(d.len)

\* Where the reader is, and what it has got.
DPlaced ==
  /\ DBytes(rdr.got, d.start)
  /\ rdr.pc \in {"pop", "read"} => rdr.pos < d.next
  /\ rdr.pc \in {"finish", "fsend"} => rdr.pos <= d.next /\ rdr.pos < DMaxPart(d.len)
  /\ rdr.pc = "first" => rdr.pos = 0 /\ (mu.by = DReader \/ (d.next = 0 /\ d.conc = DWorkerCount(d.len)))
  /\ rdr.pc = "fsend" /\ rdr.pos = d.next => d.next \in DOMAIN bufMap
  /\ rdr.pc \in {"read", "finish"} => rdr.cur \in DOMAIN bufs
  /\ mu.by = DReader => rdr.pc \in {"first", "fsend"} /\ rdr.pos < d.next
  /\ rdr.pc \in {"first", "pop", "finish", "fsend"} => Len(rdr.got) = DOffset(d.len, rdr.pos)
  /\ rdr.pc = "eof" => Len(rdr.got) = d.len

\* The buffer of a chunk.
DBufOf(k) == IF k \in DOMAIN bufMap THEN bufMap[k] ELSE rdr.cur

DUnread == rdr.pos .. d.next - 1
DLive == dctx = "live" /\ DReading

\* Each chunk has a buffer of its own, which holds the first bytes of the chunk.
DFilled ==
  DLive =>
    /\ \A k \in DUnread :
         /\ DBufOf(k) \in DOMAIN bufs
         /\ bufs[DBufOf(k)].limit = DChunkSize(d.len, k)
         /\ DBytes(bufs[DBufOf(k)].data, d.start + DOffset(d.len, k))
         /\ Len(bufs[DBufOf(k)].data) <= DChunkSize(d.len, k)
         /\ bufs[DBufOf(k)].read <= Len(bufs[DBufOf(k)].data)
         /\ bufs[DBufOf(k)].read = IF rdr.pc = "read" /\ k = rdr.pos THEN Len(rdr.got) - DOffset(d.len, k) ELSE 0
    /\ \A j, k \in DUnread : j # k => DBufOf(j) # DBufOf(k)
    /\ d.next \in DOMAIN bufMap => \A k \in DUnread : bufMap[d.next] # DBufOf(k)
    /\ rdr.pc = "finish" => \A k \in DUnread : rdr.cur # DBufOf(k)

\* What is asked for next is what the buffer lacks, to the end of the chunk; n
\* bytes are copied and not counted yet.
DAsked(ch, n) ==
  /\ ch.id \in Nat /\ ch.id < d.next /\ n <= ch.size /\ ch.size > 0
  /\ ch.start + ch.size = d.start + DOffset(d.len, ch.id + 1)
  /\ DLive /\ n < ch.size =>
       /\ rdr.pos <= ch.id /\ ch.buf = DBufOf(ch.id)
       /\ ch.start + n = d.start + DOffset(d.len, ch.id) + Len(bufs[ch.buf].data)

\* Where chunks are: with a worker, in the channel, or with the sender in its select.
DHolds(w) == work[w].pc \in {"try", "more", "requeue", "copy", "copied"}
DCopied(w) == IF work[w].pc = "copied" THEN work[w].n ELSE 0
DSending == mu.by # -1

\* Nobody else fetches the same chunk.
DApart ==
  /\ \A v, w \in DWorkers : DHolds(v) /\ DHolds(w) /\ v # w => work[v].ch.id # work[w].ch.id
  /\ \A i, j \in DOMAIN chunkCh : i # j => chunkCh[i].id # chunkCh[j].id
  /\ \A w \in DWorkers, i \in DOMAIN chunkCh : DHolds(w) => work[w].ch.id # chunkCh[i].id
  /\ DSending => /\ \A w \in DWorkers : DHolds(w) => work[w].ch.id # mu.ch.id
                 /\ \A i \in DOMAIN chunkCh : chunkCh[i].id # mu.ch.id

DOwned ==
  /\ \A w \in DWorkers : DHolds(w) => DAsked(work[w].ch, DCopied(w))
  /\ \A i \in DOMAIN chunkCh : DAsked(chunkCh[i], 0)
  /\ DSending => DAsked(mu.ch, 0)
  /\ DApart

DRunning == DCut /\ DStarted /\ DMapped /\ DPlaced /\ DFilled /\ DOwned

\* The slots that the download holds: one for each worker and, until the first
\* worker is started, the one that download took.
DActive == {w \in DWorkers : work[w].pc \notin {"none", "ended"}}
DHeldByReader == IF rdr.pc = "single" \/ (rdr.pc \in {"first", "abort"} /\ d.next = 0) THEN 1 ELSE 0
DHeld == Cardinality(DActive) + DHeldByReader
DSlotsKept == d.limit + DHeld >= DSlots

DownInv == DTyped /\ (DQuiet \/ DRunning) /\ DBytes(rdr.got, d.start) /\ DSlotsKept

-----------------------------------------------------------------------------
(* The sizes of chunks *)

LEMMA Multiples ==
  ASSUME NEW a \in Int, NEW b \in Int, NEW p \in Nat \ {0}, a < b
  PROVE  a * p + p <= b * p
  OBVIOUS

LEMMA Ceiling ==
  ASSUME NEW a \in Nat, NEW p \in Nat \ {0}
  PROVE  /\ (a + p - 1) \div p \in Nat
         /\ ((a + p - 1) \div p) * p >= a /\ ((a + p - 1) \div p) * p < a + p
  OBVIOUS

LEMMA Remainder ==
  ASSUME NEW a \in Nat, NEW p \in Nat \ {0}
  PROVE  \E q \in Nat : a % p \in 0 .. p - 1 /\ a = q * p + (a % p)
<1>1. a % p \in 0 .. p - 1
  OBVIOUS
<1>2. \E q \in Nat, r \in 0 .. p - 1 : a % p = r /\ a = q * p + r
  OBVIOUS
<1> QED BY <1>1, <1>2

LEMMA Half ==
  ASSUME NEW p \in Nat \ {0}
  PROVE  p \div 2 \in Nat /\ p \div 2 < p
  OBVIOUS

(* What the first chunk leaves out, the second one takes: after both, whole     *)
(* parts are left.                                                              *)
LEMMA FirstTwo ==
  ASSUME NEW len \in Nat, DMaxPart(len) > 1
  PROVE  /\ DMaxPart(len) \in Nat
         /\ DChunkSize(len, 0) \in Nat \ {0} /\ DChunkSize(len, 1) \in Nat \ {0}
         /\ DChunkSize(len, 0) + DChunkSize(len, 1) = len - (DMaxPart(len) - 2) * DPartSize
<1> DEFINE K == DMaxPart(len)
           first == len % DPartSize
           half == DPartSize \div 2
<1>1. DPartSize \in Nat \ {0}
  BY DAssumption
<1>2. K = (len + DPartSize - 1) \div DPartSize /\ len > DPartSize
  BY <1>1 DEF DMaxPart
<1>3. K \in Nat /\ K * DPartSize >= len /\ K * DPartSize < len + DPartSize
  BY <1>1, <1>2, Ceiling
<1>4. PICK q \in Nat : first \in 0 .. DPartSize - 1 /\ len = q * DPartSize + first
  BY <1>1, Remainder
<1>5. half \in Nat /\ half < DPartSize
  BY <1>1, Half
<1>6. (K - 2) * DPartSize = K * DPartSize - DPartSize - DPartSize
  BY <1>1, <1>3
<1>7. DChunkSize(len, 0) = IF first > 0 THEN DMax(first, half) ELSE DPartSize
  BY DEF DChunkSize
<1>8. DChunkSize(len, 1) = IF first > 0 /\ first < half THEN DPartSize + first - half ELSE DPartSize
  BY DEF DChunkSize
<1> DEFINE kp == K * DPartSize
           qp == q * DPartSize
<1>9. kp = IF first = 0 THEN qp ELSE qp + DPartSize
  <2>1. K * DPartSize \in Nat /\ q * DPartSize \in Nat
    BY <1>1, <1>3, <1>4
  <2>2. K < q => K * DPartSize + DPartSize <= q * DPartSize
    BY <1>1, <1>3, <1>4, Multiples
  <2>3. q < K => q * DPartSize + DPartSize <= K * DPartSize
    BY <1>1, <1>3, <1>4, Multiples
  <2>4. q + 1 < K => (q + 1) * DPartSize + DPartSize <= K * DPartSize
    BY <1>1, <1>3, <1>4, Multiples
  <2>5. (q + 1) * DPartSize = q * DPartSize + DPartSize
    BY <1>1, <1>4
  <2>6. kp \in Nat /\ qp \in Nat /\ kp >= len /\ kp < len + DPartSize /\ len = qp + first
    BY <1>3, <1>4, <2>1
  <2>7. /\ K < q => kp + DPartSize <= qp
        /\ q < K => qp + DPartSize <= kp
        /\ q + 1 < K => qp + DPartSize + DPartSize <= kp
        /\ K = q => kp = qp
        /\ K = q + 1 => kp = qp + DPartSize
    BY <2>2, <2>3, <2>4, <2>5
  <2> HIDE DEF kp, qp, K, first
  <2> QED BY <1>1, <1>3, <1>4, <2>6, <2>7
<1>10. kp \in Nat /\ qp \in Nat /\ len = qp + first /\ (K - 2) * DPartSize = kp - DPartSize - DPartSize
  BY <1>1, <1>3, <1>4, <1>6
<1> HIDE DEF kp, qp, K, first, half
<1>11. DChunkSize(len, 0) \in Nat \ {0} /\ DChunkSize(len, 1) \in Nat \ {0}
  BY <1>1, <1>4, <1>5, <1>7, <1>8 DEF DMax
<1>12. DChunkSize(len, 0) + DChunkSize(len, 1) = len - (K - 2) * DPartSize
  BY <1>1, <1>4, <1>5, <1>7, <1>8, <1>9, <1>10 DEF DMax
<1> QED BY <1>3, <1>11, <1>12 DEF K

(* The chunks of a range lie end to end and fill it.                            *)
LEMMA ChunksFill ==
  ASSUME NEW len \in Nat, DMaxPart(len) > 1
  PROVE  /\ DMaxPart(len) \in Nat
         /\ DOffset(len, 0) = 0 /\ DOffset(len, DMaxPart(len)) = len
         /\ \A k \in 0 .. DMaxPart(len) : DOffset(len, k) \in Nat
         /\ \A k \in 0 .. DMaxPart(len) - 1 :
              /\ DChunkSize(len, k) \in Nat \ {0}
              /\ DOffset(len, k + 1) = DOffset(len, k) + DChunkSize(len, k)
              /\ DOffset(len, k) < len
<1> DEFINE K == DMaxPart(len)
<1>1. DPartSize \in Nat \ {0} /\ K \in Nat
  BY DAssumption, FirstTwo
<1>2. /\ DChunkSize(len, 0) \in Nat \ {0} /\ DChunkSize(len, 1) \in Nat \ {0}
      /\ DChunkSize(len, 0) + DChunkSize(len, 1) = len - (K - 2) * DPartSize
  BY FirstTwo
<1>3. K > 1
  OBVIOUS
<1> HIDE DEF K
<1>4. DOffset(len, 0) = 0 /\ DOffset(len, 1) = DChunkSize(len, 0)
  BY DEF DOffset
<1>5. \A k \in Nat : k > 1 => DOffset(len, k) = len - (K - k) * DPartSize
  BY DEF DOffset, K
<1>6. \A k \in Nat : k > 1 => DChunkSize(len, k) = DPartSize
  BY DEF DChunkSize
<1>7. DOffset(len, K) = len
  BY <1>1, <1>3, <1>5
<1>8. ASSUME NEW k \in 0 .. K - 1
      PROVE  /\ DChunkSize(len, k) \in Nat \ {0}
             /\ DOffset(len, k + 1) = DOffset(len, k) + DChunkSize(len, k)
  <2>1. CASE k = 0
    BY <1>2, <1>4, <2>1
  <2>2. CASE k = 1
    BY <1>1, <1>2, <1>4, <1>5, <2>2
  <2>3. CASE k > 1
    <3>1. (K - k) * DPartSize = (K - (k + 1)) * DPartSize + DPartSize
      BY <1>1
    <3> QED BY <1>1, <1>5, <1>6, <2>3, <3>1
  <2> QED BY <2>1, <2>2, <2>3
<1>9. ASSUME NEW k \in Nat, k > 1, k <= K
      PROVE  DOffset(len, k) \in Nat /\ DOffset(len, k) <= len /\ (k < K => DOffset(len, k) < len)
  <2>1. (K - k) * DPartSize >= 0 /\ (k < K => (K - k) * DPartSize > 0) /\ (K - k) * DPartSize \in Nat
    BY <1>1, <1>9
  <2>2. (K - 2) * DPartSize >= (K - k) * DPartSize /\ (K - 2) * DPartSize \in Nat
    BY <1>1, <1>9
  <2> QED BY <1>1, <1>2, <1>5, <1>9, <2>1, <2>2
<1>10. ASSUME NEW k \in 0 .. K PROVE DOffset(len, k) \in Nat /\ (k < K => DOffset(len, k) < len)
  <2>1. CASE k > 1
    BY <1>9, <2>1
  <2>2. CASE k \in {0, 1}
    <3>1. DOffset(len, 2) <= len /\ DOffset(len, 2) = DChunkSize(len, 0) + DChunkSize(len, 1)
      BY <1>1, <1>2, <1>3, <1>5, <1>9
    <3> QED BY <1>2, <1>4, <2>2, <3>1
  <2> QED BY <1>1, <2>1, <2>2
<1> QED BY <1>1, <1>4, <1>7, <1>8, <1>10 DEF K

-----------------------------------------------------------------------------
(* What a step leaves alone *)

DDownload == [start : Nat, len : Nat, pos : Nat, next : Nat, conc : Int, maxPos : Nat, limit : Nat, written : Nat]
DWorker == [pc : DWorkerPcs, ch : DChunks, retry : Nat, n : Nat]

\* The range stays and no chunk is prepared.
DSameRange == d'.start = d.start /\ d'.len = d.len /\ d'.pos = d.pos /\ d'.next = d.next /\ d'.maxPos = d.maxPos

\* d.mu stays as it is, or a worker releases it.
DReleased == mu' = mu \/ (mu' = DFree /\ mu.by # DReader)

LEMMA AskedStays ==
  ASSUME NEW ch, NEW n, DAsked(ch, n), DSameRange, dctx' = "live" => dctx = "live", UNCHANGED <<rdr, bufMap, bufs>>
  PROVE  DAsked(ch, n)'
  BY DEF DAsked, DSameRange, DLive, DReading, DBufOf

LEMMA WorkersFinite == IsFiniteSet(DWorkers) /\ DWorkers = 1 .. DConc /\ DConc \in Nat \ {0}
<1>1. DConc \in Nat \ {0}
  BY DAssumption
<1>2. IsFiniteSet(1 .. DConc)
  BY <1>1, FS_Interval
<1> QED BY <1>1, <1>2 DEF DWorkers

LEMMA ActiveFinite ==
  /\ IsFiniteSet(DActive) /\ Cardinality(DActive) \in Nat
  /\ IsFiniteSet(DActive)' /\ Cardinality(DActive)' \in Nat
<1>1. DActive \subseteq DWorkers /\ DActive' \subseteq DWorkers
  BY DEF DActive
<1>2. IsFiniteSet(DActive) /\ IsFiniteSet(DActive')
  BY <1>1, WorkersFinite, FS_Subset
<1> QED BY <1>2, FS_CardinalityType

(* A worker that ends is one less.                                              *)
LEMMA ActiveLess ==
  ASSUME NEW w \in DActive, DActive' = DActive \ {w}
  PROVE  Cardinality(DActive)' = Cardinality(DActive) - 1
<1>1. Cardinality(DActive \ {w}) = Cardinality(DActive) - 1
  BY ActiveFinite, FS_RemoveElement
<1> QED BY <1>1

(* A worker that begins is one more.                                            *)
LEMMA ActiveMore ==
  ASSUME NEW w, w \notin DActive, DActive' = DActive \cup {w}
  PROVE  Cardinality(DActive)' = Cardinality(DActive) + 1
<1>1. Cardinality(DActive \cup {w}) = Cardinality(DActive) + 1
  BY ActiveFinite, FS_AddElement
<1> QED BY <1>1

(* While a worker runs, the range has been cut.                                 *)
LEMMA WorkerRuns ==
  ASSUME DownInv, NEW w \in DWorkers, work[w].pc # "none"
  PROVE  DRunning
  BY DEF DownInv, DQuiet

(* A worker was started after the reader had sent the first chunk.              *)
LEMMA FirstSent ==
  ASSUME DTyped, DRunning, NEW w \in DWorkers, work[w].pc # "none"
  PROVE  rdr.pc = "first" => mu.by = DReader
<1> SUFFICES ASSUME rdr.pc = "first", d.conc = DWorkerCount(d.len) PROVE FALSE
  BY DEF DRunning, DPlaced
<1>1. DWorkerCount(d.len) >= 1 /\ DWorkerCount(d.len) \in Nat
  <2>1. d.len \in Nat /\ DMaxPart(d.len) > 1
    BY DEF DRunning, DCut, DTyped, DTypedD
  <2>2. DMaxPart(d.len) \in Nat
    BY <2>1, ChunksFill
  <2> QED BY <2>1, <2>2, WorkersFinite DEF DWorkerCount, DMin
<1>2. w > 0 /\ w \in Nat
  BY WorkersFinite
<1> QED BY <1>1, <1>2 DEF DRunning, DStarted

(* A step of a worker that touches no buffer.                                   *)
LEMMA WorkerKeeps ==
  ASSUME DownInv, DRunning, NEW w \in DWorkers, work[w].pc # "none", DTyped', DSameRange, UNCHANGED <<bufMap, bufs, rdr>>,
         dctx' = "live" => dctx = "live", DReleased, DStarted', DOwned',
         d'.limit + Cardinality(DActive)' >= d.limit + Cardinality(DActive)
  PROVE  DownInv'
<1>1. DCut'
  BY DEF DRunning, DCut, DSameRange
<1>2. mu'.by = DReader <=> mu.by = DReader
  BY DEF DReleased, DFree, DReader
<1>3. DMapped'
  BY <1>2 DEF DRunning, DMapped, DReading, DSameRange
<1>4. DPlaced'
  <2>1. rdr.pc = "first" => mu.by = DReader
    BY FirstSent DEF DownInv
  <2> QED BY <1>2, <2>1 DEF DRunning, DPlaced, DSameRange
<1>5. DFilled'
  BY DEF DRunning, DFilled, DUnread, DLive, DReading, DBufOf, DSameRange
<1>6. DBytes(rdr.got, d.start)'
  BY DEF DownInv, DSameRange
<1>7. DSlotsKept'
  <2>1. Cardinality(DActive) \in Nat /\ Cardinality(DActive)' \in Nat /\ d.limit \in Nat /\ d'.limit \in Nat
    BY ActiveFinite DEF DownInv, DTyped, DTypedD
  <2>2. DSlots \in Nat
    BY DAssumption
  <2> QED BY <2>1, <2>2 DEF DownInv, DSlotsKept, DHeld, DHeldByReader, DSameRange
<1> QED BY <1>1, <1>3, <1>4, <1>5, <1>6, <1>7 DEF DownInv, DRunning

-----------------------------------------------------------------------------
(* The steps of workers *)

\* What a worker's record says of the chunk it holds.
DHolding == {"try", "more", "requeue", "copy", "copied"}
DCounts(x) == IF x.pc = "copied" THEN x.n ELSE 0

\* The worker goes on with the chunk it has, or gives it up.
DGoesOn(w, x) ==
  x.pc \in DHolding => work[w].pc \in DHolding /\ x.ch.id = work[w].ch.id /\ DAsked(x.ch, DCounts(x))

LEMMA WorkerOwns ==
  ASSUME DTyped, DOwned, NEW w \in DWorkers, NEW x \in DWorker, work' = [work EXCEPT ![w] = x], DGoesOn(w, x),
         DSameRange, dctx' = "live" => dctx = "live", UNCHANGED <<rdr, bufMap, bufs, chunkCh>>,
         DReleased
  PROVE  DOwned'
<1>1. /\ work'[w] = x /\ \A v \in DWorkers : v # w => work'[v] = work[v]
  BY DEF DTyped, DTypedWork
<1>2. \A v \in DWorkers : DHolds(v)' => DHolds(v) /\ work'[v].ch.id = work[v].ch.id
  BY <1>1 DEF DHolds, DGoesOn, DHolding
<1>3. ASSUME NEW v \in DWorkers, DHolds(v)' PROVE DAsked(work[v].ch, DCopied(v))'
  <2>1. DAsked(work'[v].ch, DCounts(work'[v]))
    <3>1. CASE v = w
      BY <1>1, <1>3, <3>1 DEF DGoesOn, DHolds, DHolding
    <3>2. CASE v # w
      BY <1>1, <1>2, <1>3, <3>2 DEF DOwned, DCopied, DCounts
    <3> QED BY <3>1, <3>2
  <2>2. PICK ch, n : ch = work'[v].ch /\ n = DCounts(work'[v])
    OBVIOUS
  <2>3. DAsked(ch, n)'
    BY <2>1, <2>2, AskedStays
  <2>4. DCopied(v)' = n /\ work'[v].ch = ch
    BY <2>2 DEF DCopied, DCounts
  <2> QED BY <2>3, <2>4
<1>4. ASSUME NEW i \in DOMAIN chunkCh PROVE DAsked(chunkCh[i], 0)'
  <2>1. DAsked(chunkCh[i], 0)
    BY DEF DOwned
  <2> QED BY <2>1, AskedStays
<1>5. DSending' => DSending /\ mu' = mu /\ DAsked(mu.ch, 0)'
  <2>1. DSending' => DSending /\ mu' = mu
    BY DEF DSending, DFree, DReleased
  <2>2. DSending => DAsked(mu.ch, 0)
    BY DEF DOwned
  <2> QED BY <2>1, <2>2, AskedStays
<1>6. DApart'
  BY <1>2, <1>5 DEF DOwned, DApart
<1> QED BY <1>3, <1>4, <1>5, <1>6 DEF DOwned

\* The part of the invariant that counts the workers.
LEMMA StartedStays ==
  ASSUME DTyped, DStarted, DSameRange, d'.conc \in Int, d'.conc = d.conc \/ d'.conc <= 0, NEW w \in DWorkers, NEW x \in DWorker,
         work' = [work EXCEPT ![w] = x], work[w].pc # "none", x.pc # "none"
  PROVE  DStarted'
<1>1. /\ work'[w] = x /\ \A v \in DWorkers : v # w => work'[v] = work[v]
  BY DEF DTyped, DTypedWork
<1>2. \A v \in DWorkers : work'[v].pc = "none" <=> work[v].pc = "none"
  BY <1>1
<1>3. d'.len = d.len
  BY DEF DSameRange
<1>4. DWorkerCount(d.len)' = DWorkerCount(d.len)
  BY <1>3
<1>5. d.conc \in Int
  BY DEF DTyped, DTypedD
<1>6. CASE d'.conc = d.conc
  BY <1>2, <1>4, <1>6 DEF DStarted
<1>7. CASE d'.conc <= 0
  <2>1. ~(d'.conc > 0)
    BY <1>7
  <2> QED BY <2>1 DEF DStarted
<1> QED BY <1>6, <1>7

LEMMA ActiveStays ==
  ASSUME DTyped, NEW w \in DWorkers, NEW x \in DWorker, work' = [work EXCEPT ![w] = x],
         work[w].pc \notin {"none", "ended"}, x.pc # "none",
         d.limit \in Nat, d'.limit = d.limit + 1 \/ (x.pc # "ended" /\ d'.limit = d.limit)
  PROVE  d'.limit + Cardinality(DActive)' >= d.limit + Cardinality(DActive)
<1>1. /\ work'[w] = x /\ \A v \in DWorkers : v # w => work'[v] = work[v]
  BY DEF DTyped, DTypedWork
<1>2. CASE x.pc = "ended"
  <2>1. w \in DActive /\ DActive' = DActive \ {w}
    BY <1>1, <1>2 DEF DActive
  <2>2. d'.limit = d.limit + 1
    BY <1>2
  <2>3. Cardinality(DActive)' = Cardinality(DActive) - 1
    BY <2>1, ActiveLess
  <2> QED BY <2>2, <2>3, ActiveFinite
<1>3. CASE x.pc # "ended"
  <2>1. DActive' = DActive
    BY <1>1, <1>3 DEF DActive
  <2> QED BY <1>3, <2>1, ActiveFinite
<1> QED BY <1>2, <1>3

(* A step in which a worker goes on with its chunk or ends.                     *)
LEMMA OneWorkerKeeps ==
  ASSUME DownInv, NEW w \in DWorkers, work[w].pc \notin {"none", "ended"}, NEW x \in DWorker, x.pc # "none",
         work' = [work EXCEPT ![w] = x], DGoesOn(w, x), UNCHANGED <<bufMap, bufs, rdr, chunkCh>>,
         DReleased, d' \in DDownload, DSameRange, d'.conc = d.conc \/ d'.conc <= 0,
         d'.limit = d.limit + 1 \/ (x.pc # "ended" /\ d'.limit = d.limit),
         dctx' = "live" => dctx = "live", dctx' \in {"live", "cancelled", "failed"}, left' \in [faults : Nat, busy : Nat]
  PROVE  DownInv'
<1>1. DRunning /\ DTyped /\ DOwned /\ DStarted
  BY WorkerRuns DEF DownInv, DRunning
<1>2. DTyped'
  BY <1>1 DEF DTyped, DTypedD, DDownload, DTypedWork, DWorker, DTypedReader, DTypedMu, DTypedBufs, DReleased
<1>3. DOwned'
  BY <1>1, WorkerOwns
<1>4. DStarted'
  BY <1>1, StartedStays DEF DDownload
<1>5. d'.limit + Cardinality(DActive)' >= d.limit + Cardinality(DActive)
  BY <1>1, ActiveStays DEF DTyped, DTypedD
<1> QED BY <1>1, <1>2, <1>3, <1>4, <1>5, WorkerKeeps

LEMMA NoChunkTyped == NoChunk \in DChunks
  BY DEF NoChunk, DChunks

(* downloadPart returns: its slot is given back.                                *)
LEMMA EndsKeeps ==
  ASSUME DownInv, NEW w \in DWorkers, work[w].pc \notin {"none", "ended"}, NEW n \in Nat, WorkerEnds(w, n),
         UNCHANGED <<mu, bufMap, bufs, rdr, chunkCh>>,
         dctx' = "live" => dctx = "live", dctx' \in {"live", "cancelled", "failed"}, left' \in [faults : Nat, busy : Nat]
  PROVE  DownInv'
<1> DEFINE x == [work[w] EXCEPT !.pc = "ended", !.ch = NoChunk]
<1>1. work[w] \in DWorker /\ d \in DDownload
  BY DEF DownInv, DTyped, DTypedWork, DTypedD, DWorker, DDownload
<1>2. work' = [work EXCEPT ![w] = x]
  BY DEF WorkerEnds, DownInv, DTyped, DTypedWork
<1>3. x \in DWorker /\ x.pc = "ended"
  BY <1>1, NoChunkTyped DEF DWorker, DWorkerPcs
<1>4. d' \in DDownload /\ DSameRange /\ d'.conc = d.conc /\ d'.limit = d.limit + 1
  <2>1. d.limit \in Nat /\ d.written \in Nat
    BY <1>1 DEF DDownload
  <2>2. PICK l, m \in Nat : l = d.limit + 1 /\ m = d.written + n
    BY <2>1
  <2>3. d' = [d EXCEPT !.limit = l, !.written = m]
    BY <1>1, <2>2 DEF WorkerEnds, DDownload
  <2> QED BY <1>1, <2>2, <2>3 DEF DDownload, DSameRange
<1> HIDE DEF x
<1>5. DGoesOn(w, x)
  BY <1>3 DEF DGoesOn, DHolding
<1> QED BY <1>2, <1>3, <1>4, <1>5, OneWorkerKeeps DEF DReleased

\* A worker's bounds, and what its context may become.
LEMMA Bounds ==
  ASSUME DownInv
  PROVE  /\ UNCHANGED left => left' \in [faults : Nat, busy : Nat]
         /\ DFault => left' \in [faults : Nat, busy : Nat]
         /\ UNCHANGED dctx => (dctx' = "live" => dctx = "live") /\ dctx' \in {"live", "cancelled", "failed"}
         /\ DCancelCause => (dctx' = "live" => dctx = "live") /\ dctx' \in {"live", "cancelled", "failed"}
  BY DEF DownInv, DTyped, DFault, DCancelCause

(* The rest of the chunk is asked for again, or the download is cancelled.      *)
LEMMA RetryKeeps ==
  ASSUME DownInv, NEW w \in DWorkers, work[w].pc \in {"try", "copied"}, NEW n \in Nat, n = DCounts(work[w]),
         n < work[w].ch.size, NeedRetry(w, n), UNCHANGED <<mu, bufMap, bufs, rdr, chunkCh>>,
         left' \in [faults : Nat, busy : Nat]
  PROVE  DownInv'
<1> DEFINE ch == Rest(work[w].ch, n)
           x == [pc |-> "try", ch |-> ch, retry |-> work[w].retry + 1, n |-> 0]
<1>1. work[w] \in DWorker /\ d \in DDownload
  BY DEF DownInv, DTyped, DTypedWork, DTypedD, DWorker, DDownload
<1>2. CASE work' = [work EXCEPT ![w] = x] /\ d' = [d EXCEPT !.written = @ + n] /\ UNCHANGED dctx
  <2>1. work[w].ch \in DChunks /\ work[w].retry \in Nat /\ d.start \in Nat /\ d.len \in Nat
    BY <1>1 DEF DWorker, DDownload
  <2>2. /\ ch \in DChunks /\ ch.id = work[w].ch.id /\ ch.buf = work[w].ch.buf
        /\ ch.start = work[w].ch.start + n /\ ch.size = work[w].ch.size - n
    <3>1. work[w].ch.start \in Nat /\ work[w].ch.size \in Nat
      BY <2>1 DEF DChunks
    <3>2. PICK a, b \in Nat : a = work[w].ch.start + n /\ b = work[w].ch.size - n
      BY <3>1
    <3>3. ch = [work[w].ch EXCEPT !.start = a, !.size = b]
      BY <2>1, <3>2 DEF Rest, DChunks
    <3> HIDE DEF ch
    <3> QED BY <2>1, <3>2, <3>3 DEF DChunks
  <2>3. DAsked(work[w].ch, n)
    <3>1. DOwned /\ DHolds(w) /\ DCopied(w) = n
      BY WorkerRuns DEF DRunning, DHolds, DCopied, DCounts
    <3> QED BY <3>1 DEF DOwned
  <2> HIDE DEF ch
  <2>4. DAsked(ch, 0)
    <3>1. work[w].ch.start \in Nat /\ work[w].ch.size \in Nat
      BY <2>1 DEF DChunks
    <3> QED BY <2>2, <2>3, <3>1 DEF DAsked
  <2>5. x \in DWorker /\ x.pc = "try" /\ x.ch = ch
    BY <2>1, <2>2 DEF DWorker, DWorkerPcs
  <2>6. d' \in DDownload /\ DSameRange /\ d'.conc = d.conc /\ d'.limit = d.limit
    BY <1>1, <1>2 DEF DDownload, DSameRange
  <2>7. DGoesOn(w, x)
    BY <2>2, <2>4, <2>5 DEF DGoesOn, DHolding, DCounts
  <2> HIDE DEF x
  <2> QED BY <1>2, <2>5, <2>6, <2>7, Bounds, OneWorkerKeeps DEF DReleased
<1>3. CASE DCancelCause /\ WorkerEnds(w, n)
  BY <1>3, Bounds, EndsKeeps
<1> QED BY <1>2, <1>3, <1>1 DEF NeedRetry

LEMMA FailsKeeps ==
  ASSUME DownInv, NEW w \in DWorkers, RequestFails(w)
  PROVE  DownInv'
<1>1. work[w].pc = "try" /\ UNCHANGED <<mu, chunkCh, bufMap, bufs, rdr>>
  BY DEF RequestFails
<1>2. work[w].ch.size > 0
  <2>1. DOwned /\ DHolds(w)
    BY <1>1, WorkerRuns DEF DRunning, DHolds
  <2> QED BY <2>1 DEF DOwned, DAsked
<1>3. CASE WorkerEnds(w, 0) /\ UNCHANGED <<dctx, left>>
  BY <1>1, <1>3, Bounds, EndsKeeps
<1>4. CASE DFault /\ DCancelCause /\ WorkerEnds(w, 0)
  BY <1>1, <1>4, Bounds, EndsKeeps
<1>5. CASE DFault /\ NeedRetry(w, 0)
  <2>1. DCounts(work[w]) = 0
    BY <1>1 DEF DCounts
  <2> QED BY <1>1, <1>2, <1>5, <2>1, Bounds, RetryKeeps
<1> QED BY <1>3, <1>4, <1>5 DEF RequestFails

\* A worker that only goes on to its next step, and keeps its chunk.
LEMMA StepKeeps ==
  ASSUME DownInv, NEW w \in DWorkers, work[w].pc \in DHolding \ {"copied"}, NEW pc \in DHolding \ {"copied"},
         work' = [work EXCEPT ![w].pc = pc], UNCHANGED <<bufMap, bufs, rdr, chunkCh, dctx>>,
         DReleased, d' \in DDownload, DSameRange, d'.conc = d.conc \/ d'.conc <= 0, d'.limit = d.limit \/ d'.limit = d.limit + 1,
         left' \in [faults : Nat, busy : Nat]
  PROVE  DownInv'
<1> DEFINE x == [work[w] EXCEPT !.pc = pc]
<1>1. work[w] \in DWorker
  BY DEF DownInv, DTyped, DTypedWork, DWorker
<1>2. work' = [work EXCEPT ![w] = x]
  BY DEF DownInv, DTyped, DTypedWork
<1>3. x \in DWorker /\ x.pc = pc /\ x.ch = work[w].ch
  BY <1>1 DEF DWorker, DWorkerPcs, DHolding
<1> HIDE DEF x
<1>4. DAsked(work[w].ch, 0)
  <2>1. DOwned /\ DHolds(w) /\ DCopied(w) = 0
    BY WorkerRuns DEF DRunning, DHolds, DCopied, DHolding
  <2> QED BY <2>1 DEF DOwned
<1>5. DGoesOn(w, x) /\ x.pc # "none" /\ x.pc # "ended" /\ work[w].pc \notin {"none", "ended"}
  BY <1>3, <1>4 DEF DGoesOn, DHolding, DCounts
<1> QED BY <1>2, <1>3, <1>5, Bounds, OneWorkerKeeps

LEMMA OverloadedKeeps ==
  ASSUME DownInv, NEW w \in DWorkers, Overloaded(w)
  PROVE  DownInv'
<1>1. /\ work[w].pc = "try" /\ UNCHANGED <<dctx, mu, chunkCh, bufMap, bufs, rdr>>
      /\ left' = [left EXCEPT !.busy = @ - 1] /\ left.busy > 0
  BY DEF Overloaded
<1>2. d \in DDownload /\ left' \in [faults : Nat, busy : Nat]
  BY <1>1 DEF DownInv, DTyped, DTypedD, DDownload
<1>3. CASE /\ d' = [d EXCEPT !.conc = (IF @ > 0 THEN -@ ELSE @) - 1]
           /\ work' = [work EXCEPT ![w].pc = "requeue"]
  <2>1. d.conc \in Int
    BY <1>2 DEF DDownload
  <2>2. PICK c \in Int : c = (IF d.conc > 0 THEN -d.conc ELSE d.conc) - 1 /\ c <= 0
    BY <2>1
  <2>3. d' = [d EXCEPT !.conc = c]
    BY <1>2, <1>3, <2>2 DEF DDownload
  <2>4. d' \in DDownload /\ DSameRange /\ d'.conc <= 0 /\ d'.limit = d.limit
    BY <1>2, <2>2, <2>3 DEF DDownload, DSameRange
  <2> QED BY <1>1, <1>2, <1>3, <2>4, StepKeeps DEF DHolding, DReleased
<1>4. CASE UNCHANGED <<d, work>>
  <2>1. work' = [work EXCEPT ![w].pc = "try"] /\ DSameRange /\ d'.conc = d.conc
    BY <1>1, <1>4 DEF DownInv, DTyped, DTypedWork, DSameRange
  <2> QED BY <1>1, <1>2, <1>4, <2>1, StepKeeps DEF DHolding, DReleased
<1> QED BY <1>3, <1>4 DEF Overloaded

LEMMA RequestKeeps ==
  ASSUME DownInv, NEW w \in DWorkers, RequestOK(w)
  PROVE  DownInv'
<1>1. /\ work[w].pc = "try" /\ work' = [work EXCEPT ![w].pc = "more"]
      /\ UNCHANGED <<d, dctx, mu, chunkCh, bufMap, bufs, rdr, left>>
  BY DEF RequestOK
<1>2. d' \in DDownload /\ DSameRange /\ d'.conc = d.conc
  BY <1>1 DEF DownInv, DTyped, DTypedD, DDownload, DSameRange
<1> QED BY <1>1, <1>2, Bounds, StepKeeps DEF DHolding, DReleased

(* downloadChunk counts what was copied: all of the chunk, or a part.           *)
LEMMA CopiedKeeps ==
  ASSUME DownInv, NEW w \in DWorkers, Copied(w)
  PROVE  DownInv'
<1> DEFINE n == work[w].n
<1>1. work[w].pc = "copied" /\ UNCHANGED <<mu, chunkCh, bufMap, bufs, rdr, left>>
  BY DEF Copied
<1>2. work[w] \in DWorker /\ d \in DDownload /\ n \in Nat /\ n = DCounts(work[w])
  BY <1>1 DEF DownInv, DTyped, DTypedWork, DTypedD, DWorker, DDownload, DCounts
<1>3. CASE /\ work' = [work EXCEPT ![w] = [pc |-> AfterChunk, ch |-> NoChunk, retry |-> 0, n |-> 0]]
           /\ d' = [d EXCEPT !.written = @ + n] /\ UNCHANGED dctx
  <2> DEFINE x == [pc |-> "recv", ch |-> NoChunk, retry |-> 0, n |-> 0]
  <2>1. x \in DWorker /\ x.pc = "recv"
    BY NoChunkTyped DEF DWorker, DWorkerPcs
  <2>2. work' = [work EXCEPT ![w] = x]
    BY <1>3 DEF AfterChunk
  <2>3. d' \in DDownload /\ DSameRange /\ d'.conc = d.conc /\ d'.limit = d.limit
    BY <1>2, <1>3 DEF DDownload, DSameRange
  <2> HIDE DEF x, n
  <2>4. DGoesOn(w, x)
    BY <2>1 DEF DGoesOn, DHolding
  <2> QED BY <1>1, <1>3, <2>1, <2>2, <2>3, <2>4, Bounds, OneWorkerKeeps DEF DReleased
<1>4. CASE WorkerEnds(w, 0) /\ UNCHANGED dctx
  BY <1>1, <1>4, Bounds, EndsKeeps
<1>5. CASE n < work[w].ch.size /\ NeedRetry(w, n)
  BY <1>1, <1>2, <1>5, Bounds, RetryKeeps
<1> QED BY <1>3, <1>4, <1>5 DEF Copied

-----------------------------------------------------------------------------
(* The channel *)

LEMMA ChannelTail ==
  ASSUME NEW s \in Seq(DChunks), s # <<>>
  PROVE  /\ Tail(s) \in Seq(DChunks) /\ Head(s) = s[1] /\ s[1] \in DChunks /\ 1 \in DOMAIN s
         /\ \A i \in DOMAIN Tail(s) : i + 1 \in DOMAIN s /\ i + 1 # 1 /\ i \in Nat /\ Tail(s)[i] = s[i + 1]
<1>1. Len(s) \in Nat \ {0} /\ DOMAIN s = 1 .. Len(s)
  OBVIOUS
<1> QED BY <1>1

LEMMA ChannelAppend ==
  ASSUME NEW s \in Seq(DChunks), NEW ch \in DChunks
  PROVE  /\ Append(s, ch) \in Seq(DChunks)
         /\ DOMAIN Append(s, ch) = DOMAIN s \cup {Len(s) + 1} /\ Len(s) + 1 \notin DOMAIN s
         /\ \A i \in DOMAIN s : Append(s, ch)[i] = s[i]
         /\ Append(s, ch)[Len(s) + 1] = ch
  OBVIOUS

LEMMA WorkerTyped ==
  ASSUME DTyped, NEW w \in DWorkers, NEW x \in DWorker, work' = [work EXCEPT ![w] = x], d' \in DDownload,
         chunkCh' \in Seq(DChunks), UNCHANGED <<bufs, bufMap, rdr, left>>, DReleased,
         dctx' \in {"live", "cancelled", "failed"}
  PROVE  DTyped'
<1>1. DTypedWork'
  BY DEF DTyped, DTypedWork, DWorker
<1>2. DTypedReader' /\ DTypedMu' /\ DTypedBufs'
  BY DEF DTyped, DTypedReader, DTypedMu, DTypedBufs, DReleased
<1> QED BY <1>1, <1>2 DEF DTyped, DTypedD, DDownload

(* A worker takes the first chunk of the channel, or ends.                      *)
LEMMA ReceiveKeeps ==
  ASSUME DownInv, NEW w \in DWorkers, WorkerReceive(w)
  PROVE  DownInv'
<1>1. work[w].pc = "recv" /\ UNCHANGED <<dctx, mu, bufMap, bufs, rdr, left>>
  BY DEF WorkerReceive
<1>2. CASE WorkerEnds(w, 0) /\ UNCHANGED chunkCh
  BY <1>1, <1>2, Bounds, EndsKeeps
<1>3. CASE /\ chunkCh # <<>> /\ chunkCh' = Tail(chunkCh) /\ UNCHANGED d
           /\ work' = [work EXCEPT ![w] = [pc |-> "try", ch |-> Head(chunkCh), retry |-> 0, n |-> 0]]
  <2> DEFINE ch == Head(chunkCh)
             x == [pc |-> "try", ch |-> ch, retry |-> 0, n |-> 0]
  <2>1. chunkCh \in Seq(DChunks) /\ DTyped /\ DRunning /\ d.limit \in Nat
    BY <1>1, WorkerRuns DEF DownInv, DTyped, DTypedD
  <2>2. /\ chunkCh' \in Seq(DChunks) /\ ch = chunkCh[1] /\ ch \in DChunks /\ 1 \in DOMAIN chunkCh
        /\ \A i \in DOMAIN chunkCh' : i + 1 \in DOMAIN chunkCh /\ i + 1 # 1 /\ i \in Nat /\ chunkCh'[i] = chunkCh[i + 1]
    BY <1>3, <2>1, ChannelTail
  <2> HIDE DEF ch
  <2>3. x \in DWorker /\ x.pc = "try" /\ x.ch = ch
    BY <2>2 DEF DWorker, DWorkerPcs
  <2>4. work' = [work EXCEPT ![w] = x]
    BY <1>3 DEF ch
  <2> HIDE DEF x
  <2>5. /\ work'[w] = x /\ \A v \in DWorkers : v # w => work'[v] = work[v]
    BY <2>1, <2>4 DEF DTyped, DTypedWork
  <2>6. DSameRange /\ d' = d
    BY <1>3 DEF DSameRange
  <2>7. DTyped'
    <3>1. d' \in DDownload /\ dctx' \in {"live", "cancelled", "failed"}
      BY <1>1, <1>3, <2>1 DEF DTyped, DTypedD, DDownload
    <3> QED BY <1>1, <2>1, <2>2, <2>3, <2>4, <3>1, WorkerTyped DEF DReleased
  <2>8. DOwned'
    <3>1. /\ \A v \in DWorkers : DHolds(v) => DAsked(work[v].ch, DCopied(v))
          /\ \A i \in DOMAIN chunkCh : DAsked(chunkCh[i], 0)
          /\ DSending => DAsked(mu.ch, 0)
          /\ DApart /\ ~DHolds(w)
      BY <1>1, <2>1 DEF DRunning, DOwned, DHolds
    <3>2. \A c, n : DAsked(c, n) => DAsked(c, n)'
      BY <1>1, <2>6, AskedStays
    <3>3. ASSUME NEW v \in DWorkers, DHolds(v)' PROVE DAsked(work[v].ch, DCopied(v))'
      <4>1. CASE v = w
        <5>1. work'[v].ch = chunkCh[1] /\ DCopied(v)' = 0 /\ DAsked(chunkCh[1], 0)
          BY <2>2, <2>3, <2>5, <3>1, <4>1 DEF DCopied
        <5> QED BY <3>2, <5>1
      <4>2. CASE v # w
        <5>1. work'[v] = work[v] /\ DCopied(v)' = DCopied(v) /\ DHolds(v)
          BY <2>5, <3>3, <4>2 DEF DCopied, DHolds
        <5>2. DAsked(work[v].ch, DCopied(v))
          BY <3>1, <5>1
        <5>3. PICK c, n : c = work[v].ch /\ n = DCopied(v)
          OBVIOUS
        <5>4. DAsked(c, n)'
          BY <3>2, <5>2, <5>3
        <5>5. work'[v].ch = c /\ DCopied(v)' = n
          BY <5>1, <5>3
        <5> QED BY <5>4, <5>5
      <4> QED BY <4>1, <4>2
    <3>4. ASSUME NEW i \in DOMAIN chunkCh' PROVE DAsked(chunkCh[i], 0)'
      <4>1. DAsked(chunkCh[i + 1], 0) /\ chunkCh'[i] = chunkCh[i + 1]
        BY <2>2, <3>1
      <4> QED BY <3>2, <4>1
    <3>5. DSending' => DAsked(mu.ch, 0)'
      BY <1>1, <3>1, <3>2 DEF DSending
    <3>6. \A v \in DWorkers : DHolds(v)' => \/ v = w /\ work'[v].ch.id = chunkCh[1].id
                                            \/ v # w /\ DHolds(v) /\ work'[v].ch.id = work[v].ch.id
      BY <2>2, <2>3, <2>5 DEF DHolds
    <3>7. DApart'
      <4>1. \A v, u \in DWorkers : DHolds(v)' /\ DHolds(u)' /\ v # u => work'[v].ch.id # work'[u].ch.id
        BY <2>2, <3>1, <3>6 DEF DApart
      <4>2. \A i, j \in DOMAIN chunkCh' : i # j => chunkCh'[i].id # chunkCh'[j].id
        BY <2>2, <3>1 DEF DApart
      <4>3. \A v \in DWorkers, i \in DOMAIN chunkCh' : DHolds(v)' => work'[v].ch.id # chunkCh'[i].id
        BY <2>2, <3>1, <3>6 DEF DApart
      <4>4. DSending' => /\ \A v \in DWorkers : DHolds(v)' => work'[v].ch.id # mu'.ch.id
                         /\ \A i \in DOMAIN chunkCh' : chunkCh'[i].id # mu'.ch.id
        BY <1>1, <2>2, <3>1, <3>6 DEF DApart, DSending
      <4> QED BY <4>1, <4>2, <4>3, <4>4 DEF DApart
    <3> QED BY <3>3, <3>4, <3>5, <3>7 DEF DOwned
  <2>9. DStarted'
    BY <1>1, <2>1, <2>3, <2>4, <2>6, StartedStays DEF DRunning, DTyped, DTypedD
  <2>10. d'.limit + Cardinality(DActive)' >= d.limit + Cardinality(DActive)
    BY <1>1, <2>1, <2>3, <2>4, <2>6, ActiveStays
  <2> QED BY <1>1, <2>1, <2>6, <2>7, <2>8, <2>9, <2>10, WorkerKeeps DEF DReleased
<1> QED BY <1>2, <1>3 DEF WorkerReceive

\* What was asked for stays so, for every chunk.
DAskedStay == \A ch \in DChunks, n \in Nat : DAsked(ch, n) => DAsked(ch, n)'

LEMMA AskedStay ==
  ASSUME DSameRange, DLive' => DLive, rdr'.pos = rdr.pos, rdr'.cur = rdr.cur, UNCHANGED <<bufMap, bufs>>
  PROVE  DAskedStay
  BY DEF DAskedStay, DAsked, DSameRange, DBufOf

\* Workers keep what they hold, or give it up; and so does the sender.
DHoldersStay ==
  /\ \A v \in DWorkers : DHolds(v)' => DHolds(v) /\ work'[v].ch = work[v].ch /\ DCopied(v)' = DCopied(v)
  /\ DSending' => DSending /\ mu' = mu

LEMMA ChunksTyped ==
  ASSUME DTyped
  PROVE  /\ \A v \in DWorkers : work[v] \in DWorker /\ work[v].ch \in DChunks /\ DCopied(v) \in Nat
         /\ \A i \in DOMAIN chunkCh : chunkCh[i] \in DChunks
         /\ DSending => mu.ch \in DChunks
<1>1. \A v \in DWorkers : work[v] \in DWorker
  BY DEF DTyped, DTypedWork, DWorker
<1>2. \A v \in DWorkers : work[v].ch \in DChunks /\ DCopied(v) \in Nat
  BY <1>1 DEF DWorker, DCopied
<1>3. \A i \in DOMAIN chunkCh : chunkCh[i] \in DChunks
  BY DEF DTyped
<1>4. DSending => mu.ch \in DChunks
  BY DEF DTyped, DTypedMu, DSending, DFree
<1> QED BY <1>1, <1>2, <1>3, <1>4

LEMMA AskedByWorkers ==
  ASSUME DTyped, DOwned, DAskedStay, DHoldersStay
  PROVE  /\ \A v \in DWorkers : DHolds(v)' => DAsked(work[v].ch, DCopied(v))'
         /\ DSending' => DAsked(mu.ch, 0)'
         /\ \A i \in DOMAIN chunkCh : DAsked(chunkCh[i], 0)
<1>1. ASSUME NEW v \in DWorkers, DHolds(v)' PROVE DAsked(work[v].ch, DCopied(v))'
  <2>1. DHolds(v) /\ work'[v].ch = work[v].ch /\ DCopied(v)' = DCopied(v)
    BY <1>1 DEF DHoldersStay
  <2>2. PICK c, n : c = work[v].ch /\ n = DCopied(v)
    OBVIOUS
  <2>3. DAsked(c, n)
    BY <2>1, <2>2 DEF DOwned
  <2>4. DAsked(c, n)'
    BY <2>2, <2>3, ChunksTyped DEF DAskedStay
  <2>5. work'[v].ch = c /\ DCopied(v)' = n
    BY <2>1, <2>2
  <2> QED BY <2>4, <2>5
<1>2. DSending' => DAsked(mu.ch, 0)'
  <2> SUFFICES ASSUME DSending' PROVE DAsked(mu.ch, 0)'
    OBVIOUS
  <2>1. PICK c : c = mu.ch
    OBVIOUS
  <2>2. DAsked(c, 0) /\ mu'.ch = c
    BY <2>1 DEF DHoldersStay, DOwned
  <2>3. DAsked(c, 0)'
    BY <2>1, <2>2, ChunksTyped DEF DAskedStay, DHoldersStay
  <2> QED BY <2>2, <2>3
<1> QED BY <1>1, <1>2 DEF DOwned

(* Nothing moves: chunks stay where they are, or are given up.                  *)
LEMMA OwnedStays ==
  ASSUME DTyped, DOwned, DAskedStay, DHoldersStay, UNCHANGED chunkCh
  PROVE  DOwned'
<1>1. /\ \A v \in DWorkers : DHolds(v)' => DAsked(work[v].ch, DCopied(v))'
      /\ DSending' => DAsked(mu.ch, 0)'
      /\ \A i \in DOMAIN chunkCh : DAsked(chunkCh[i], 0)
  BY AskedByWorkers
<1>2. ASSUME NEW i \in DOMAIN chunkCh PROVE DAsked(chunkCh[i], 0)'
  BY <1>1, ChunksTyped DEF DAskedStay
<1>3. DApart'
  BY DEF DOwned, DApart, DHoldersStay
<1> QED BY <1>1, <1>2, <1>3 DEF DOwned

(* A chunk is sent, and its sender does not hold it any longer.                 *)
LEMMA OwnedSent ==
  ASSUME DTyped, DOwned, DAskedStay, DHoldersStay, NEW c \in DChunks, chunkCh' = Append(chunkCh, c), DAsked(c, 0),
         \A v \in DWorkers : DHolds(v)' => work[v].ch.id # c.id,
         \A i \in DOMAIN chunkCh : chunkCh[i].id # c.id,
         DSending' => mu.ch.id # c.id
  PROVE  DOwned' /\ chunkCh' \in Seq(DChunks)
<1>1. /\ \A v \in DWorkers : DHolds(v)' => DAsked(work[v].ch, DCopied(v))'
      /\ DSending' => DAsked(mu.ch, 0)'
      /\ \A i \in DOMAIN chunkCh : DAsked(chunkCh[i], 0)
  BY AskedByWorkers
<1>2. chunkCh \in Seq(DChunks)
  BY DEF DTyped
<1>3. /\ chunkCh' \in Seq(DChunks)
      /\ DOMAIN chunkCh' = DOMAIN chunkCh \cup {Len(chunkCh) + 1} /\ Len(chunkCh) + 1 \notin DOMAIN chunkCh
      /\ \A i \in DOMAIN chunkCh : chunkCh'[i] = chunkCh[i]
      /\ chunkCh'[Len(chunkCh) + 1] = c
  BY <1>2, ChannelAppend
<1>4. ASSUME NEW i \in DOMAIN chunkCh' PROVE DAsked(chunkCh[i], 0)'
  <2>1. PICK e : e = chunkCh'[i]
    OBVIOUS
  <2>2. DAsked(e, 0) /\ e \in DChunks
    BY <1>1, <1>3, <2>1, ChunksTyped
  <2>3. DAsked(e, 0)'
    BY <2>2 DEF DAskedStay
  <2> QED BY <2>1, <2>3
<1>5. \A v \in DWorkers : DHolds(v)' => DHolds(v) /\ work'[v].ch = work[v].ch
  BY DEF DHoldersStay
<1>6. DApart'
  <2>1. \A v, u \in DWorkers : DHolds(v)' /\ DHolds(u)' /\ v # u => work'[v].ch.id # work'[u].ch.id
    BY <1>5 DEF DOwned, DApart
  <2>2. \A i, j \in DOMAIN chunkCh' : i # j => chunkCh'[i].id # chunkCh'[j].id
    BY <1>3 DEF DOwned, DApart
  <2>3. \A v \in DWorkers, i \in DOMAIN chunkCh' : DHolds(v)' => work'[v].ch.id # chunkCh'[i].id
    BY <1>3, <1>5 DEF DOwned, DApart
  <2>4. DSending' => /\ \A v \in DWorkers : DHolds(v)' => work'[v].ch.id # mu'.ch.id
                     /\ \A i \in DOMAIN chunkCh' : chunkCh'[i].id # mu'.ch.id
    BY <1>3, <1>5 DEF DOwned, DApart, DHoldersStay
  <2> QED BY <2>1, <2>2, <2>3, <2>4 DEF DApart
<1> QED BY <1>1, <1>3, <1>4, <1>6 DEF DOwned

(* A chunk is handed to another worker; on the closed channel that is a panic.  *)
LEMMA RequeueKeeps ==
  ASSUME DownInv, NEW w \in DWorkers, Requeue(w)
  PROVE  DownInv'
<1>1. work[w].pc = "requeue" /\ UNCHANGED <<dctx, mu, bufMap, bufs, left>>
  BY DEF Requeue
<1>2. DRunning /\ DTyped /\ DOwned
  BY <1>1, WorkerRuns DEF DownInv, DRunning
<1>3. CASE WorkerEnds(w, 0) /\ UNCHANGED <<chunkCh, rdr>>
  BY <1>1, <1>3, Bounds, EndsKeeps
<1>4. CASE chunkCh' = Append(chunkCh, work[w].ch) /\ WorkerEnds(w, 0) /\ UNCHANGED rdr
  <2> DEFINE c == work[w].ch
             x == [work[w] EXCEPT !.pc = "ended", !.ch = NoChunk]
  <2>1. work[w] \in DWorker /\ d \in DDownload
    BY <1>2 DEF DTyped, DTypedWork, DTypedD, DWorker, DDownload
  <2>2. c \in DChunks /\ x \in DWorker /\ x.pc = "ended" /\ work' = [work EXCEPT ![w] = x]
    BY <1>2, <1>4, <2>1, NoChunkTyped DEF DWorker, DWorkerPcs, WorkerEnds, DTyped, DTypedWork
  <2>3. d' \in DDownload /\ DSameRange /\ d'.conc = d.conc /\ d'.limit = d.limit + 1
    <3>1. d.limit \in Nat /\ d.written \in Nat
      BY <2>1 DEF DDownload
    <3>2. PICK l, m \in Nat : l = d.limit + 1 /\ m = d.written + 0
      BY <3>1
    <3>3. d' = [d EXCEPT !.limit = l, !.written = m]
      BY <1>4, <2>1, <3>2 DEF WorkerEnds, DDownload
    <3> QED BY <2>1, <3>2, <3>3 DEF DDownload, DSameRange
  <2>4. DHolds(w) /\ DCopied(w) = 0
    BY <1>1 DEF DHolds, DCopied
  <2>5. DAsked(c, 0)
    BY <1>2, <2>4 DEF DOwned
  <2> HIDE DEF x
  <2>6. /\ work'[w] = x /\ \A v \in DWorkers : v # w => work'[v] = work[v]
    BY <1>2, <2>2 DEF DTyped, DTypedWork
  <2>7. DAskedStay
    BY <1>1, <1>4, <2>3, AskedStay DEF DLive, DReading
  <2>8. \A v \in DWorkers : DHolds(v)' => v # w
    BY <2>2, <2>6 DEF DHolds
  <2>9. DHoldersStay
    BY <1>1, <2>6, <2>8 DEF DHoldersStay, DHolds, DCopied, DSending
  <2>10. DOwned' /\ chunkCh' \in Seq(DChunks)
    <3>1. /\ \A v \in DWorkers : DHolds(v)' => work[v].ch.id # c.id
          /\ \A i \in DOMAIN chunkCh : chunkCh[i].id # c.id
          /\ DSending' => mu.ch.id # c.id
      BY <1>1, <1>2, <2>4, <2>8, <2>9 DEF DOwned, DApart, DHoldersStay
    <3> QED BY <1>2, <1>4, <2>2, <2>5, <2>7, <2>9, <3>1, OwnedSent
  <2>11. DTyped'
    BY <1>1, <1>2, <1>4, <2>2, <2>3, <2>10, WorkerTyped DEF DTyped, DReleased
  <2>12. DStarted'
    BY <1>1, <1>2, <2>2, <2>3, StartedStays DEF DRunning, DDownload
  <2>13. d'.limit + Cardinality(DActive)' >= d.limit + Cardinality(DActive)
    BY <1>1, <1>2, <2>1, <2>2, <2>3, ActiveStays DEF DDownload
  <2> QED BY <1>1, <1>2, <1>4, <2>3, <2>10, <2>11, <2>12, <2>13, WorkerKeeps DEF DReleased
<1>5. CASE d.maxPos = 0 /\ rdr' = [rdr EXCEPT !.pc = "panic"] /\ UNCHANGED <<chunkCh, d, work>>
  <2>1. rdr.pc \in {"closed", "panic"}
    BY <1>2, <1>5 DEF DRunning, DCut, DTyped, DTypedD
  <2>2. DTypedReader' /\ rdr'.pc = "panic" /\ rdr'.pos = rdr.pos /\ rdr'.cur = rdr.cur /\ rdr'.got = rdr.got
    BY <1>2, <1>5 DEF DTyped, DTypedReader, DReaderPcs
  <2>3. DTyped'
    BY <1>1, <1>2, <1>5, <2>2 DEF DTyped, DTypedD, DTypedWork, DTypedMu, DTypedBufs
  <2>4. ~DReading' /\ ~DLive' /\ DSameRange
    BY <1>5, <2>2 DEF DReading, DLive, DSameRange
  <2>5. DCut' /\ DStarted' /\ DMapped' /\ DFilled'
    BY <1>2, <1>5, <2>1, <2>2, <2>4 DEF DRunning, DCut, DStarted, DMapped, DFilled
  <2>6. DPlaced' /\ DBytes(rdr.got, d.start)'
    BY <1>1, <1>2, <1>5, <2>1, <2>2 DEF DRunning, DPlaced
  <2>7. DOwned'
    <3>1. DAskedStay
      BY <1>1, <2>2, <2>4, AskedStay
    <3>2. DHoldersStay
      BY <1>1, <1>5 DEF DHoldersStay, DHolds, DCopied, DSending
    <3> QED BY <1>2, <1>5, <3>1, <3>2, OwnedStays
  <2>8. DSlotsKept'
    <3>1. DActive' = DActive
      BY <1>5 DEF DActive
    <3> QED BY <1>5, <2>1, <2>2, <3>1 DEF DownInv, DSlotsKept, DHeld, DHeldByReader
  <2> QED BY <2>3, <2>5, <2>6, <2>7, <2>8 DEF DownInv, DRunning
<1> QED BY <1>3, <1>4, <1>5 DEF Requeue, Requeued

-----------------------------------------------------------------------------
(* The steps of the reader *)

LEMMA ReaderField ==
  ASSUME DTypedReader, NEW pc \in DReaderPcs, rdr' = [rdr EXCEPT !.pc = pc]
  PROVE  DTypedReader' /\ rdr'.pc = pc /\ rdr'.pos = rdr.pos /\ rdr'.cur = rdr.cur /\ rdr'.got = rdr.got
  BY DEF DTypedReader

(* What the download holds besides its workers' slots decides.                  *)
LEMMA SlotsStay ==
  ASSUME DTyped, DTyped', DSlotsKept, UNCHANGED work, d'.limit + DHeldByReader' >= d.limit + DHeldByReader
  PROVE  DSlotsKept'
<1>1. DActive' = DActive
  BY DEF DActive
<1>2. d.limit \in Nat /\ d'.limit \in Nat /\ Cardinality(DActive) \in Nat /\ DSlots \in Nat
  BY ActiveFinite, DAssumption DEF DTyped, DTypedD
<1>3. DHeldByReader \in Nat /\ DHeldByReader' \in Nat
  BY DEF DHeldByReader
<1> QED BY <1>1, <1>2, <1>3 DEF DSlotsKept, DHeld

LEMMA BufferTyped ==
  ASSUME DTyped, NEW b \in DOMAIN bufs
  PROVE  /\ bufs[b] \in DBuffers /\ b \in Nat \ {0} /\ b <= Len(bufs)
         /\ bufs[b].data \in Seq(Nat) /\ Len(bufs[b].data) \in Nat /\ bufs[b].read \in Nat
<1>1. bufs[b] \in DBuffers /\ b \in Nat \ {0} /\ b <= Len(bufs)
  BY DEF DTyped, DTypedBufs
<1>2. bufs[b].data \in Seq(Nat) /\ bufs[b].read \in Nat
  BY <1>1 DEF DBuffers
<1> QED BY <1>1, <1>2

LEMMA Unread ==
  ASSUME DTyped, DRunning, NEW k \in DUnread
  PROVE  /\ k \in Nat /\ rdr.pos <= k /\ k < d.next /\ k \in 0 .. DMaxPart(d.len) - 1 /\ rdr.pos \in Nat
         /\ DChunkSize(d.len, k) \in Nat \ {0} /\ DOffset(d.len, k) \in Nat
         /\ DOffset(d.len, k + 1) = DOffset(d.len, k) + DChunkSize(d.len, k)
         /\ DLive => bufs[DBufOf(k)] \in DBuffers /\ Len(bufs[DBufOf(k)].data) \in Nat
<1>1. rdr.pos \in Nat /\ d.next \in Nat /\ d.len \in Nat
  BY DEF DTyped, DTypedReader, DTypedD
<1>2. DMaxPart(d.len) > 1 /\ d.next \in 0 .. DMaxPart(d.len)
  BY DEF DRunning, DCut
<1>3. DMaxPart(d.len) \in Nat
  BY <1>1, <1>2, ChunksFill
<1>4. k \in Nat /\ rdr.pos <= k /\ k < d.next /\ k \in 0 .. DMaxPart(d.len) - 1
  BY <1>1, <1>2, <1>3 DEF DUnread
<1>5. /\ DChunkSize(d.len, k) \in Nat \ {0} /\ DOffset(d.len, k) \in Nat
      /\ DOffset(d.len, k + 1) = DOffset(d.len, k) + DChunkSize(d.len, k)
  BY <1>1, <1>2, <1>3, <1>4, ChunksFill
<1>6. ASSUME DLive PROVE bufs[DBufOf(k)] \in DBuffers /\ Len(bufs[DBufOf(k)].data) \in Nat
  <2>1. DBufOf(k) \in DOMAIN bufs
    BY <1>6 DEF DRunning, DFilled
  <2>2. PICK b \in DOMAIN bufs : b = DBufOf(k)
    BY <2>1
  <2>3. bufs[b] \in DBuffers /\ Len(bufs[b].data) \in Nat
    BY BufferTyped
  <2> QED BY <2>2, <2>3
<1> QED BY <1>1, <1>4, <1>5, <1>6

(* A chunk that lacks bytes keeps its buffer, and what is asked for it stays.   *)
LEMMA AskedMoves ==
  ASSUME DTyped, DTyped', DRunning, d'.start = d.start, d'.len = d.len, d.next <= d'.next, NEW j \in Int,
         DLive' => DLive,
         DLive' => \A k \in DUnread : k # j /\ Len(bufs[DBufOf(k)].data) < DChunkSize(d.len, k) =>
                      /\ rdr'.pos <= k /\ DBufOf(k)' = DBufOf(k)
                      /\ Len(bufs'[DBufOf(k)].data) = Len(bufs[DBufOf(k)].data)
  PROVE  \A c \in DChunks, m \in Nat : c.id # j /\ DAsked(c, m) => DAsked(c, m)'
<1> SUFFICES ASSUME NEW c \in DChunks, NEW m \in Nat, c.id # j, DAsked(c, m) PROVE DAsked(c, m)'
  OBVIOUS
<1>1. c.start \in Nat /\ c.size \in Nat /\ c.id \in Nat /\ d.next \in Nat /\ d'.next \in Nat /\ d.start \in Nat
  BY DEF DChunks, DAsked, DTyped, DTypedD
<1>2. c.id < d'.next
  BY <1>1 DEF DAsked
<1>3. ASSUME DLive', m < c.size
      PROVE  /\ rdr'.pos <= c.id /\ c.buf = DBufOf(c.id)'
             /\ c.start + m = d'.start + DOffset(d'.len, c.id) + Len(bufs'[c.buf].data)
  <2>1. DLive
    BY <1>3
  <2>2. /\ rdr.pos <= c.id /\ c.buf = DBufOf(c.id)
        /\ c.start + m = d.start + DOffset(d.len, c.id) + Len(bufs[c.buf].data)
        /\ c.start + c.size = d.start + DOffset(d.len, c.id + 1)
    BY <1>3, <2>1 DEF DAsked
  <2>3. c.id \in DUnread
    <3>1. rdr.pos \in Nat
      BY DEF DTyped, DTypedReader
    <3> QED BY <1>1, <2>2, <3>1 DEF DUnread, DAsked
  <2>4. /\ DChunkSize(d.len, c.id) \in Nat \ {0} /\ DOffset(d.len, c.id) \in Nat
        /\ DOffset(d.len, c.id + 1) = DOffset(d.len, c.id) + DChunkSize(d.len, c.id)
        /\ Len(bufs[DBufOf(c.id)].data) \in Nat
    BY <2>1, <2>3, Unread
  <2>5. Len(bufs[DBufOf(c.id)].data) < DChunkSize(d.len, c.id)
    <3>1. PICK l \in Nat : l = Len(bufs[DBufOf(c.id)].data)
      BY <2>4
    <3>2. PICK o \in Nat : o = DOffset(d.len, c.id)
      BY <2>4
    <3>3. PICK s \in Nat : s = DChunkSize(d.len, c.id)
      BY <2>4
    <3>4. c.start + m = d.start + o + l
      BY <2>2, <3>1, <3>2
    <3>5. c.start + c.size = d.start + (o + s)
      BY <2>2, <2>4, <3>2, <3>3
    <3>6. l < s
      BY <1>1, <1>3, <3>4, <3>5, SMTT(30)
    <3> QED BY <3>1, <3>3, <3>6
  <2>6. /\ rdr'.pos <= c.id /\ DBufOf(c.id)' = DBufOf(c.id)
        /\ Len(bufs'[DBufOf(c.id)].data) = Len(bufs[DBufOf(c.id)].data)
    BY <1>3, <2>3, <2>5
  <2> QED BY <2>2, <2>6
<1>4. c.start + c.size = d'.start + DOffset(d'.len, c.id + 1)
  BY DEF DAsked
<1> QED BY <1>1, <1>2, <1>3, <1>4 DEF DAsked

(* Nothing is asked for any more once the download is cancelled or not read.    *)
LEMMA AskedIdle ==
  ASSUME d'.start = d.start, d'.len = d.len, d'.next = d.next, ~DLive'
  PROVE  DAskedStay
  BY DEF DAskedStay, DAsked

(* sendChunkTask returns at once: the worker fetches its own chunk, the reader  *)
(* reads on.                                                                    *)
LEMMA WorkerSkipKeeps ==
  ASSUME DownInv, NEW w \in DWorkers, work[w].pc = "more", SendSkip(w, TRUE)
  PROVE  DownInv'
<1>1. /\ work' = [work EXCEPT ![w].pc = "copy"] /\ UNCHANGED <<rdr, d, dctx, mu, chunkCh, bufMap, bufs>>
      /\ UNCHANGED left \/ DFault
  <2>1. w # DReader
    BY WorkersFinite DEF DReader
  <2> QED BY <2>1 DEF SendSkip, SendReturns
<1>2. d' \in DDownload /\ DSameRange /\ d'.conc = d.conc /\ d'.limit = d.limit /\ DReleased
  BY <1>1 DEF DownInv, DTyped, DTypedD, DDownload, DSameRange, DReleased
<1> QED BY <1>1, <1>2, Bounds, StepKeeps DEF DHolding

LEMMA ReaderRuns ==
  ASSUME DownInv, rdr.pc \notin {"new", "single", "closed"}
  PROVE  DRunning /\ DTyped
  BY DEF DownInv, DQuiet

LEMMA ReaderSkipKeeps ==
  ASSUME DownInv, rdr.pc \in {"first", "fsend"}, SendSkip(DReader, rdr.pc = "first")
  PROVE  DownInv'
<1> DEFINE new == rdr.pc = "first"
           pc == IF rdr.pc # "first" THEN "pop" ELSE IF NothingToSend(new) THEN "pop" ELSE "abort"
<1>1. /\ rdr' = [rdr EXCEPT !.pc = pc] /\ mu = DFree /\ UNCHANGED <<d, dctx, mu, chunkCh, bufMap, bufs, work>>
      /\ UNCHANGED left \/ DFault
      /\ NothingToSend(new) \/ NoSlot(new) \/ d.next \notin DOMAIN bufMap
  BY DEF SendSkip, SendReturns
<1>2. DRunning /\ DTyped /\ left' \in [faults : Nat, busy : Nat]
  BY <1>1, ReaderRuns, Bounds
<1>3. /\ d.len \in Nat /\ DMaxPart(d.len) > 1 /\ d.pos \in Nat /\ d.next \in Nat /\ d.conc \in Int /\ rdr.pos \in Nat /\ d.start \in Nat
      /\ d.next \in 0 .. DMaxPart(d.len) /\ d.pos = d.start + DOffset(d.len, d.next) /\ d.maxPos = d.start + d.len
  BY <1>2 DEF DRunning, DCut, DTyped, DTypedD, DTypedReader
<1>4. /\ DMaxPart(d.len) \in Nat /\ \A k \in 0 .. DMaxPart(d.len) - 1 : DOffset(d.len, k) \in Nat /\ DOffset(d.len, k) < d.len
  BY <1>3, ChunksFill
<1>5. mu.by # DReader
  BY <1>1 DEF DFree, DReader
<1>6. /\ rdr.pc = "first" => pc = "abort"
      /\ rdr.pc = "fsend" => pc = "pop" /\ (d.next = DMaxPart(d.len) \/ d.next \notin DOMAIN bufMap)
  <2>1. d.next # DMaxPart(d.len) => ~(d.pos >= d.maxPos)
    BY <1>3, <1>4
  <2>2. rdr.pc = "first" => d.next = 0 /\ d.conc = DWorkerCount(d.len)
    BY <1>2, <1>5 DEF DRunning, DPlaced
  <2>3. DWorkerCount(d.len) >= 1
    BY <1>3, <1>4, WorkersFinite DEF DWorkerCount, DMin
  <2>4. rdr.pc = "first" => ~NothingToSend(TRUE)
    BY <1>3, <1>4, <2>1, <2>2, <2>3 DEF NothingToSend
  <2>5. rdr.pc = "fsend" => (NothingToSend(FALSE) <=> d.pos >= d.maxPos) /\ ~NoSlot(FALSE)
    BY DEF NothingToSend, NoSlot, TakesSlot
  <2>6. CASE rdr.pc = "first"
    BY <2>4, <2>6
  <2>7. CASE rdr.pc = "fsend"
    BY <1>1, <2>1, <2>5, <2>7
  <2> QED BY <2>6, <2>7
<1>7. pc \in DReaderPcs
  BY DEF DReaderPcs
<1> HIDE DEF new, pc
<1>8. DTypedReader' /\ rdr'.pc = pc /\ rdr'.pos = rdr.pos /\ rdr'.cur = rdr.cur /\ rdr'.got = rdr.got
  BY <1>1, <1>2, <1>7, ReaderField DEF DTyped
<1>9. DTyped'
  BY <1>1, <1>2, <1>8 DEF DTyped, DTypedD, DTypedWork, DTypedMu, DTypedBufs
<1>10. DCut' /\ DStarted' /\ DSameRange
  BY <1>1, <1>2, <1>6, <1>8 DEF DRunning, DCut, DStarted, DSameRange
<1>11. DMapped'
  BY <1>1, <1>2, <1>6, <1>8 DEF DRunning, DMapped, DReading
<1>12. DPlaced'
  <2>1. mu'.by # DReader
    BY <1>1, <1>5
  <2>2. CASE rdr.pc = "first"
    BY <1>1, <1>2, <1>6, <1>8, <2>1, <2>2 DEF DRunning, DPlaced
  <2>3. CASE rdr.pc = "fsend"
    <3>1. rdr.pos < d.next
      BY <1>2, <1>3, <1>4, <1>6, <2>3 DEF DRunning, DPlaced
    <3> QED BY <1>1, <1>2, <1>6, <1>8, <2>1, <2>3, <3>1 DEF DRunning, DPlaced
  <2> QED BY <2>2, <2>3
<1>13. DFilled'
  BY <1>1, <1>2, <1>6, <1>8 DEF DRunning, DFilled, DLive, DReading, DUnread, DBufOf
<1>14. DOwned'
  <2>1. DAskedStay
    BY <1>1, <1>8, <1>10, AskedStay DEF DLive, DReading
  <2>2. DHoldersStay
    BY <1>1 DEF DHoldersStay, DHolds, DCopied, DSending
  <2> QED BY <1>1, <1>2, <2>1, <2>2, OwnedStays DEF DRunning
<1>15. DSlotsKept'
  <2>1. DHeldByReader' = DHeldByReader
    BY <1>1, <1>6, <1>8 DEF DHeldByReader
  <2> QED BY <1>1, <1>2, <1>9, <2>1, SlotsStay DEF DownInv, DHeldByReader, DTyped, DTypedD
<1> QED BY <1>1, <1>8, <1>9, <1>10, <1>11, <1>12, <1>13, <1>14, <1>15 DEF DownInv, DRunning

\* A buffer for the next chunk: a new block, or one that is there.
DPut(s, b, x) == [i \in 1 .. DMax(Len(s), b) |-> IF i = b THEN x ELSE s[i]]

LEMMA BufferSet ==
  ASSUME NEW s \in Seq(DBuffers), NEW b \in 1 .. Len(s) + 1, NEW x \in DBuffers
  PROVE  /\ DPut(s, b, x) \in Seq(DBuffers) /\ DOMAIN DPut(s, b, x) = DOMAIN s \cup {b} /\ DPut(s, b, x)[b] = x
         /\ \A i \in DOMAIN s : i # b => DPut(s, b, x)[i] = s[i]
<1>1. Len(s) \in Nat /\ DOMAIN s = 1 .. Len(s) /\ \A i \in DOMAIN s : s[i] \in DBuffers
  OBVIOUS
<1>2. PICK l \in Nat : l = Len(s) /\ DOMAIN s = 1 .. l
  BY <1>1
<1>3. b \in 1 .. l + 1
  BY <1>2
<1>4. PICK n \in Nat : n = DMax(l, b) /\ 1 .. n = DOMAIN s \cup {b}
  <2>1. CASE b = l + 1
    <3>1. l + 1 = DMax(l, b) /\ 1 .. l + 1 = DOMAIN s \cup {b}
      BY <1>2, <1>3, <2>1 DEF DMax
    <3> QED BY <3>1
  <2>2. CASE b # l + 1
    <3>1. l = DMax(l, b) /\ 1 .. l = DOMAIN s \cup {b}
      BY <1>2, <1>3, <2>2 DEF DMax
    <3> QED BY <3>1
  <2> QED BY <2>1, <2>2
<1>5. PICK t : t = DPut(s, b, x)
  OBVIOUS
<1>6. t = [i \in 1 .. n |-> IF i = b THEN x ELSE s[i]]
  BY <1>2, <1>4, <1>5 DEF DPut
<1>7. \A i \in 1 .. n : (IF i = b THEN x ELSE s[i]) \in DBuffers
  BY <1>1, <1>4
<1>8. t \in [1 .. n -> DBuffers]
  BY <1>6, <1>7
<1>9. t \in Seq(DBuffers)
  BY <1>4, <1>8
<1>10. DOMAIN t = DOMAIN s \cup {b} /\ t[b] = x /\ \A i \in DOMAIN s : i # b => t[i] = s[i]
  BY <1>4, <1>6
<1> QED BY <1>5, <1>9, <1>10

LEMMA ChunkAt ==
  ASSUME NEW len \in Nat, DMaxPart(len) > 1, NEW k \in Nat, k <= DMaxPart(len), k # DMaxPart(len)
  PROVE  /\ DMaxPart(len) \in Nat /\ k < DMaxPart(len)
         /\ DChunkSize(len, k) \in Nat \ {0} /\ DOffset(len, k + 1) = DOffset(len, k) + DChunkSize(len, k)
         /\ DOffset(len, k) \in Nat /\ DOffset(len, k) < len
<1>1. DMaxPart(len) \in Nat
  BY ChunksFill
<1>2. k \in 0 .. DMaxPart(len) - 1 /\ k \in 0 .. DMaxPart(len)
  BY <1>1
<1> QED BY <1>1, <1>2, ChunksFill

(* The next chunk is cut off the range and waits to be sent; with new, one more *)
(* worker runs.                                                                 *)
LEMMA PrepareKeeps ==
  ASSUME DownInv, DRunning, NEW p \in DWorkers \cup {DReader}, NEW new \in BOOLEAN, SendPrepare(p, new), UNCHANGED rdr,
         p = DReader => rdr.pc \in {"first", "fsend"} /\ (rdr.pc = "first" => new), new \/ rdr.pc = "fsend",
         p \in DWorkers => work[p].pc = "more"
  PROVE  DownInv'
<1>0. PICK k \in Nat : k = d.next
  BY DEF DownInv, DTyped, DTypedD
<1> DEFINE size == DChunkSize(d.len, k)
           b == NextBuf
           x == [limit |-> size, data |-> <<>>, read |-> 0, open |-> TRUE]
           ch == [start |-> d.pos, size |-> size, id |-> k, buf |-> b, new |-> new]
           slot == TakesSlot(new)
           v == DWorkerCount(d.len) - d.conc + 1
<1>1. /\ mu = DFree /\ ~NothingToSend(new) /\ ~NoSlot(new) /\ UNCHANGED <<dctx, chunkCh, rdr, left>>
      /\ bufs' = [i \in 1 .. DMax(Len(bufs), b) |-> IF i = b THEN x ELSE bufs[i]]
      /\ bufMap' = DSet(bufMap, k, b)
      /\ mu' = [by |-> p, slot |-> slot, ch |-> ch]
      /\ d' = [d EXCEPT !.pos = @ + size, !.next = @ + 1, !.limit = IF slot THEN @ - 1 ELSE @, !.conc = IF new THEN @ - 1 ELSE @]
      /\ work' = [w \in DWorkers |-> [work[w] EXCEPT !.pc = IF w \in NewWorker(new) THEN "recv" ELSE @]]
  BY <1>0 DEF SendPrepare
<1>2. /\ d \in DDownload /\ DTyped /\ bufs \in Seq(DBuffers)
      /\ d.len \in Nat /\ DMaxPart(d.len) > 1 /\ d.pos \in Nat /\ k \in Nat /\ d.conc \in Int /\ rdr.pos \in Nat
      /\ d.start \in Nat /\ d.limit \in Nat
      /\ k \in 0 .. DMaxPart(d.len) /\ d.pos = d.start + DOffset(d.len, k)
      /\ d.maxPos = IF rdr.pc \in {"closed", "panic"} THEN 0 ELSE d.start + d.len
  BY <1>0 DEF DownInv, DRunning, DCut, DTyped, DTypedD, DTypedReader, DTypedBufs, DDownload
<1>3. /\ DMaxPart(d.len) \in Nat /\ k < DMaxPart(d.len)
      /\ size \in Nat \ {0} /\ DOffset(d.len, k) \in Nat /\ DOffset(d.len, k + 1) = DOffset(d.len, k) + size
      /\ rdr.pc \notin {"closed", "panic"}
  <2>1. ~(d.pos >= d.maxPos)
    BY <1>1 DEF NothingToSend
  <2>2. rdr.pc \notin {"closed", "panic"}
    BY <1>2, <2>1
  <2>3. DMaxPart(d.len) \in Nat /\ DOffset(d.len, DMaxPart(d.len)) = d.len
    BY <1>2, ChunksFill
  <2>4. k # DMaxPart(d.len)
    BY <1>2, <2>1, <2>2, <2>3
  <2>5. k <= DMaxPart(d.len)
    BY <1>2, <2>3
  <2> HIDE DEF size
  <2>6. /\ k < DMaxPart(d.len)
        /\ DChunkSize(d.len, k) \in Nat \ {0} /\ DOffset(d.len, k + 1) = DOffset(d.len, k) + DChunkSize(d.len, k)
        /\ DOffset(d.len, k) \in Nat
    BY <1>2, <2>4, <2>5, ChunkAt
  <2> QED BY <2>2, <2>3, <2>6 DEF size
<1>4. /\ b \in 1 .. Len(bufs) + 1 /\ (k \in DOMAIN bufMap => b = bufMap[k] /\ b \in DOMAIN bufs)
      /\ (k \notin DOMAIN bufMap => b \notin DOMAIN bufs)
  <2>1. \A j \in DOMAIN bufMap : bufMap[j] \in DOMAIN bufs
    BY <1>2 DEF DTyped, DTypedBufs
  <2>2. Len(bufs) \in Nat /\ DOMAIN bufs = 1 .. Len(bufs)
    BY <1>2
  <2> QED BY <1>0, <2>1, <2>2 DEF NextBuf
<1>5. x \in DBuffers /\ ch \in DChunks /\ slot \in BOOLEAN
  BY <1>2, <1>3, <1>4 DEF DBuffers, DChunks, TakesSlot
<1>8. x.limit = size /\ x.data = <<>> /\ x.read = 0
  OBVIOUS
<1>9. ch.start = d.pos /\ ch.size = size /\ ch.id = k /\ ch.buf = b
  OBVIOUS
<1>10. slot => new /\ d.limit > 0 /\ d.next > 0
  BY <1>0, <1>1, <1>2 DEF NoSlot, TakesSlot
<1>11. new /\ ~slot => d.next = 0
  BY <1>0, <1>2 DEF TakesSlot
<1>12. new => d.conc > 0 /\ NewWorker(new) = {v}
  BY <1>1, <1>2 DEF NothingToSend, NewWorker
<1>13. ~new => NewWorker(new) = {}
  BY DEF NewWorker
<1> HIDE DEF x, ch, b, size, slot
<1>6. /\ bufs' \in Seq(DBuffers) /\ DOMAIN bufs' = DOMAIN bufs \cup {b} /\ bufs'[b] = x
      /\ \A i \in DOMAIN bufs : i # b => bufs'[i] = bufs[i]
  <2>1. bufs' = DPut(bufs, b, x)
    BY <1>1 DEF DPut
  <2>2. bufs \in Seq(DBuffers) /\ b \in 1 .. Len(bufs) + 1 /\ x \in DBuffers
    BY <1>2, <1>4, <1>5
  <2>3. PICK s, c, y : s = bufs /\ c = b /\ y = x
    OBVIOUS
  <2>4. s \in Seq(DBuffers) /\ y \in DBuffers /\ c \in 1 .. Len(s) + 1
    BY <2>2, <2>3
  <2>5. /\ DPut(s, c, y) \in Seq(DBuffers) /\ DOMAIN DPut(s, c, y) = DOMAIN s \cup {c} /\ DPut(s, c, y)[c] = y
        /\ \A i \in DOMAIN s : i # c => DPut(s, c, y)[i] = s[i]
    BY <2>4, BufferSet, ZenonT(30)
  <2> QED BY <2>1, <2>3, <2>5
<1>7. /\ DOMAIN bufMap' = DOMAIN bufMap \cup {k} /\ bufMap'[k] = b
      /\ \A j \in DOMAIN bufMap : j # k => bufMap'[j] = bufMap[j]
  <2>1. bufMap' = DSet(bufMap, k, b)
    BY <1>1
  <2> QED BY <2>1 DEF DSet
<1>14. /\ d' \in DDownload /\ d'.start = d.start /\ d'.len = d.len /\ d'.pos = d.pos + size /\ d'.next = k + 1 /\ d'.maxPos = d.maxPos
       /\ d'.limit = (IF slot THEN d.limit - 1 ELSE d.limit) /\ d'.conc = (IF new THEN d.conc - 1 ELSE d.conc)
  <2>1. PICK q \in Nat : q = d.pos + size
    BY <1>2, <1>3
  <2>2. PICK n \in Nat : n = d.next + 1 /\ n = k + 1
    BY <1>0, <1>2
  <2>3. PICK l \in Nat : l = IF slot THEN d.limit - 1 ELSE d.limit
    BY <1>2, <1>10
  <2>4. PICK c \in Int : c = IF new THEN d.conc - 1 ELSE d.conc
    BY <1>2
  <2>5. d' = [d EXCEPT !.pos = q, !.next = n, !.limit = l, !.conc = c]
    BY <1>1, <1>2, <2>1, <2>2, <2>3, <2>4 DEF DDownload
  <2>6. d' \in DDownload /\ d'.start = d.start /\ d'.len = d.len /\ d'.pos = q /\ d'.next = n /\ d'.maxPos = d.maxPos /\ d'.limit = l /\ d'.conc = c
    BY <1>2, <2>5 DEF DDownload
  <2> QED BY <2>1, <2>2, <2>3, <2>4, <2>6
<1>15. /\ mu'.by = p /\ mu'.ch = ch /\ DTypedMu' /\ DSending' /\ mu.by = -1 /\ ~DSending
  BY <1>1, <1>5, WorkersFinite DEF DTypedMu, DSending, DFree, DReader
<1>16. p \in DWorkers => rdr.pc # "first"
  BY <1>1, <1>2, FirstSent DEF DFree, DReader
<1>17. DTyped'
  <2>1. DTypedWork'
    <3>1. \A w \in DWorkers : work[w] \in DWorker /\ (IF w \in NewWorker(new) THEN "recv" ELSE work[w].pc) \in DWorkerPcs
      BY <1>2, ChunksTyped DEF DWorker, DWorkerPcs
    <3>2. \A w \in DWorkers : [work[w] EXCEPT !.pc = IF w \in NewWorker(new) THEN "recv" ELSE @] \in DWorker
      BY <3>1 DEF DWorker
    <3>3. work' \in [DWorkers -> DWorker]
      BY <1>1, <3>2
    <3> QED BY <3>3 DEF DTypedWork, DWorker
  <2>2. DTypedBufs'
    <3>1. DOMAIN bufMap \subseteq Nat \cup {-1} /\ \A j \in DOMAIN bufMap : bufMap[j] \in DOMAIN bufs
      BY <1>2 DEF DTyped, DTypedBufs
    <3> QED BY <1>2, <1>6, <1>7, <3>1 DEF DTypedBufs
  <2>3. DTypedReader'
    BY <1>2 DEF DTyped, DTypedReader
  <2> QED BY <1>1, <1>2, <1>14, <1>15, <2>1, <2>2, <2>3 DEF DTyped, DTypedD, DDownload
<1>18. /\ \A w \in DWorkers : w \notin NewWorker(new) => work'[w] = work[w]
       /\ \A w \in DWorkers : w \in NewWorker(new) => work'[w].pc = "recv"
  <2>1. \A w \in DWorkers : work[w] \in DWorker
    BY <1>2, ChunksTyped
  <2>2. \A w \in DWorkers : work'[w] = [work[w] EXCEPT !.pc = IF w \in NewWorker(new) THEN "recv" ELSE @]
    BY <1>1
  <2> QED BY <2>1, <2>2 DEF DWorker
<1>19. new => v \in DWorkers /\ work[v].pc = "none" /\ d.conc <= DWorkerCount(d.len) /\ DWorkerCount(d.len) \in Nat /\ v \in Nat
  <2> SUFFICES ASSUME new PROVE v \in DWorkers /\ work[v].pc = "none" /\ d.conc <= DWorkerCount(d.len) /\ DWorkerCount(d.len) \in Nat /\ v \in Nat
    OBVIOUS
  <2>1. /\ d.conc > 0 /\ d.conc <= DWorkerCount(d.len)
        /\ \A w \in DWorkers : work[w].pc = "none" <=> w > DWorkerCount(d.len) - d.conc
    BY <1>12 DEF DRunning, DStarted
  <2>2. DWorkerCount(d.len) \in Nat /\ DWorkerCount(d.len) <= DConc
    BY <1>3, WorkersFinite DEF DWorkerCount, DMin
  <2>3. v \in 1 .. DConc /\ v > DWorkerCount(d.len) - d.conc
    BY <1>2, <2>1, <2>2, WorkersFinite, SMTT(30)
  <2> QED BY <2>1, <2>2, <2>3, WorkersFinite
<1>20. DCut'
  <2>1. DOffset(d'.len, d'.next) = DOffset(d.len, k) + size
    BY <1>3, <1>14
  <2>2. d'.pos = d'.start + DOffset(d'.len, d'.next)
    BY <1>2, <1>3, <1>14, <2>1, SMTT(30)
  <2>3. d'.next \in 0 .. DMaxPart(d'.len) /\ DMaxPart(d'.len) = DMaxPart(d.len)
    BY <1>2, <1>3, <1>14
  <2> QED BY <1>1, <1>2, <1>14, <2>2, <2>3 DEF DRunning, DCut
<1>21. DStarted'
  <2>1. CASE new
    <3> SUFFICES ASSUME d'.conc > 0
                 PROVE  /\ d'.conc <= DWorkerCount(d'.len)
                        /\ \A w \in DWorkers : work'[w].pc = "none" <=> w > DWorkerCount(d'.len) - d'.conc
      BY DEF DStarted
    <3>1. d'.conc <= DWorkerCount(d'.len) /\ DWorkerCount(d'.len) - d'.conc = v /\ DWorkerCount(d'.len) = DWorkerCount(d.len)
      BY <1>2, <1>14, <1>19, <2>1, SMTT(30)
    <3>2. ASSUME NEW w \in DWorkers PROVE work'[w].pc = "none" <=> w > v
      <4>1. work[w].pc = "none" <=> w > DWorkerCount(d.len) - d.conc
        BY <1>12, <2>1 DEF DRunning, DStarted
      <4>2. w \in Nat
        BY WorkersFinite
      <4>3. CASE w = v
        <5>1. work'[w].pc = "recv"
          BY <1>12, <1>18, <2>1, <4>3
        <5>2. ~(w > v)
          BY <4>2, <4>3
        <5> QED BY <5>1, <5>2
      <4>4. CASE w # v
        <5>1. work'[w] = work[w]
          BY <1>12, <1>18, <2>1, <4>4
        <5>2. w > v <=> w > DWorkerCount(d.len) - d.conc
          BY <1>2, <1>19, <2>1, <4>2, <4>4, SMTT(30)
        <5> QED BY <4>1, <5>1, <5>2
      <4> QED BY <4>3, <4>4
    <3> QED BY <3>1, <3>2
  <2>2. CASE ~new
    <3>1. d'.conc = d.conc /\ d'.len = d.len /\ \A w \in DWorkers : work'[w] = work[w]
      BY <1>13, <1>14, <1>18, <2>2
    <3>2. DWorkerCount(d.len)' = DWorkerCount(d.len)
      BY <3>1
    <3> QED BY <3>1, <3>2 DEF DRunning, DStarted
  <2> QED BY <2>1, <2>2
<1>22. DReading => rdr.pos <= k /\ (rdr.pc = "read" => rdr.pos # k)
  BY <1>0, <1>2, <1>16 DEF DReading, DRunning, DPlaced
<1>23. \A j \in DOMAIN bufMap \ {-1} : j \in Nat
  BY <1>2 DEF DTyped, DTypedBufs
<1>24. DMapped'
  <2> SUFFICES ASSUME DReading PROVE DMapped'
    BY <1>1 DEF DMapped, DReading
  <2>1. /\ \A j \in Nat : j >= rdr.pos /\ j < k /\ (rdr.pc = "read" => j # rdr.pos) => j \in DOMAIN bufMap
        /\ \A j \in DOMAIN bufMap \ {-1} : j >= rdr.pos /\ j <= k /\ (rdr.pc = "read" => j # rdr.pos)
    BY <1>0 DEF DRunning, DMapped
  <2>2. ASSUME NEW j \in Nat, j >= rdr.pos, j < k + 1, rdr.pc = "read" => j # rdr.pos PROVE j \in DOMAIN bufMap'
    <3>1. j = k \/ j < k
      BY <1>2, <2>2
    <3> QED BY <1>7, <2>1, <2>2, <3>1
  <2>3. ASSUME NEW j \in DOMAIN bufMap' \ {-1} PROVE j >= rdr.pos /\ j <= k + 1 /\ (rdr.pc = "read" => j # rdr.pos)
    <3>1. CASE j = k
      BY <1>2, <1>22, <3>1
    <3>2. CASE j # k
      BY <1>2, <1>7, <1>23, <2>1, <2>3, <3>2
    <3> QED BY <3>1, <3>2
  <2>4. k + 1 \notin DOMAIN bufMap'
    BY <1>2, <1>7, <2>1
  <2> QED BY <1>1, <1>14, <2>2, <2>3, <2>4 DEF DMapped
<1>25. DPlaced'
  <2>1. rdr.pc = "first" => p = DReader
    BY <1>16
  <2>2. DPlaced
    BY DEF DRunning
  <2>3. p = DReader => rdr.pc \in {"first", "fsend"} /\ rdr.pos < k + 1
    BY <1>2, <1>22 DEF DReading
  <2>4. DReading => rdr.pos < k + 1 /\ rdr.pos # k + 1
    BY <1>2, <1>22
  <2>5. rdr.pc = "first" => rdr.pos = 0 /\ mu'.by = DReader
    BY <1>15, <2>1, <2>2 DEF DPlaced
  <2>6. mu'.by = DReader => rdr.pc \in {"first", "fsend"} /\ rdr.pos < k + 1
    BY <1>15, <2>3
  <2>7. rdr' = rdr /\ d'.start = d.start /\ d'.len = d.len /\ d'.next = k + 1
    BY <1>1, <1>14
  <2>8. DBytes(rdr.got, d.start)'
    BY <2>2, <2>7 DEF DPlaced
  <2>9. rdr.pc \in {"read", "finish"} => rdr.cur \in DOMAIN bufs'
    BY <1>6, <2>2 DEF DPlaced
  <2>10. DReading => rdr.pos <= k + 1
    BY <1>2, <2>4
  <2> QED BY <2>2, <2>4, <2>5, <2>6, <2>7, <2>8, <2>9, <2>10 DEF DPlaced, DReading
\* The buffer of the new chunk is not one of an unread chunk.
<1>26. ASSUME DReading
       PROVE  /\ DUnread' = DUnread \cup {k} /\ k \notin DUnread /\ DBufOf(k)' = b
              /\ \A j \in DUnread : DBufOf(j)' = DBufOf(j)
  <2>1. DUnread' = rdr.pos .. k /\ DUnread = rdr.pos .. k - 1
    BY <1>0, <1>1, <1>2, <1>14 DEF DUnread
  <2>2. DUnread' = DUnread \cup {k} /\ k \notin DUnread
    BY <1>2, <1>22, <1>26, <2>1
  <2>3. ASSUME NEW j \in DUnread PROVE DBufOf(j)' = DBufOf(j)
    BY <1>1, <1>7, <2>2 DEF DBufOf
  <2> QED BY <1>7, <2>2, <2>3 DEF DBufOf
<1>27. ASSUME DLive PROVE /\ \A j \in DUnread : DBufOf(j) \in DOMAIN bufs /\ DBufOf(j) # b
                          /\ rdr.pc = "finish" => rdr.cur # b
  <2>1. /\ \A j \in DUnread : DBufOf(j) \in DOMAIN bufs
        /\ k \in DOMAIN bufMap => \A j \in DUnread : bufMap[k] # DBufOf(j)
    BY <1>0, <1>27 DEF DRunning, DFilled
  <2>2. rdr.pc = "finish" => rdr.cur \in DOMAIN bufs /\ k \notin DOMAIN bufMap
    BY <1>0, <1>2, <1>3, <1>27 DEF DRunning, DPlaced, DMapped, DLive
  <2> QED BY <1>4, <2>1, <2>2
<1>28. DLive' => DLive
  BY <1>1 DEF DLive, DReading
<1>29. DFilled'
  <2> SUFFICES ASSUME DLive' PROVE DFilled'
    BY DEF DFilled
  <2>1. DLive /\ DReading
    BY <1>28 DEF DLive
  <2>2. DFilled
    BY DEF DRunning
  <2>3. ASSUME NEW j \in DUnread
        PROVE  /\ DBufOf(j)' = DBufOf(j) /\ DBufOf(j) \in DOMAIN bufs' /\ bufs'[DBufOf(j)] = bufs[DBufOf(j)]
    BY <1>6, <1>26, <1>27, <2>1
  <2>4. ASSUME NEW j \in DUnread'
        PROVE  /\ DBufOf(j)' \in DOMAIN bufs'
               /\ bufs'[DBufOf(j)'].limit = DChunkSize(d'.len, j)
               /\ DBytes(bufs'[DBufOf(j)'].data, d'.start + DOffset(d'.len, j))
               /\ Len(bufs'[DBufOf(j)'].data) <= DChunkSize(d'.len, j)
               /\ bufs'[DBufOf(j)'].read <= Len(bufs'[DBufOf(j)'].data)
               /\ bufs'[DBufOf(j)'].read = IF rdr'.pc = "read" /\ j = rdr'.pos THEN Len(rdr'.got) - DOffset(d'.len, j) ELSE 0
    <3>1. CASE j = k
      <4>1. DBufOf(j)' = b /\ bufs'[b] = x /\ b \in DOMAIN bufs'
        BY <1>6, <1>26, <2>1, <3>1
      <4>2. DBytes(x.data, d'.start + DOffset(d'.len, j)) /\ Len(x.data) = 0
        BY <1>8 DEF DBytes
      <4>3. x.limit = DChunkSize(d'.len, j) /\ DChunkSize(d'.len, j) >= 0
        BY <1>3, <1>8, <1>14, <3>1 DEF size
      <4>4. ~(rdr'.pc = "read" /\ j = rdr'.pos)
        BY <1>1, <1>22, <2>1, <3>1
      <4> QED BY <1>8, <4>1, <4>2, <4>3, <4>4
    <3>2. CASE j # k
      <4>1. j \in DUnread
        BY <1>26, <2>1, <3>2
      <4>2. /\ bufs[DBufOf(j)].limit = DChunkSize(d.len, j)
            /\ DBytes(bufs[DBufOf(j)].data, d.start + DOffset(d.len, j))
            /\ Len(bufs[DBufOf(j)].data) <= DChunkSize(d.len, j)
            /\ bufs[DBufOf(j)].read <= Len(bufs[DBufOf(j)].data)
            /\ bufs[DBufOf(j)].read = IF rdr.pc = "read" /\ j = rdr.pos THEN Len(rdr.got) - DOffset(d.len, j) ELSE 0
        BY <2>1, <2>2, <4>1 DEF DFilled
      <4> QED BY <1>1, <1>14, <2>3, <4>1, <4>2
    <3> QED BY <3>1, <3>2
  <2>5. ASSUME NEW i \in DUnread', NEW j \in DUnread', i # j PROVE DBufOf(i)' # DBufOf(j)'
    <3>1. \A u \in DUnread : DBufOf(u)' = DBufOf(u) /\ DBufOf(u) # b
      BY <1>26, <1>27, <2>1
    <3>2. DBufOf(k)' = b /\ DUnread' = DUnread \cup {k}
      BY <1>26, <2>1
    <3>3. \A u, y \in DUnread : u # y => DBufOf(u) # DBufOf(y)
      BY <2>1, <2>2 DEF DFilled
    <3> QED BY <2>5, <3>1, <3>2, <3>3
  <2>6. k + 1 \notin DOMAIN bufMap'
    <3>1. \A j \in DOMAIN bufMap \ {-1} : j <= k
      BY <1>0, <2>1 DEF DRunning, DMapped
    <3> QED BY <1>2, <1>7, <3>1
  <2>7. rdr'.pc = "finish" => \A j \in DUnread' : rdr'.cur # DBufOf(j)'
    BY <1>1, <1>26, <1>27, <2>1, <2>2 DEF DFilled
  <2> QED BY <1>14, <2>4, <2>5, <2>6, <2>7 DEF DFilled
<1>30. DOwned'
  <2>1. \A c \in DChunks, m \in Nat : c.id # -1 /\ DAsked(c, m) => DAsked(c, m)'
    <3>1. DLive' => \A j \in DUnread : rdr'.pos <= j /\ DBufOf(j)' = DBufOf(j)
                                       /\ Len(bufs'[DBufOf(j)].data) = Len(bufs[DBufOf(j)].data)
      <4> SUFFICES ASSUME DLive', NEW j \in DUnread
                   PROVE  rdr'.pos <= j /\ DBufOf(j)' = DBufOf(j) /\ Len(bufs'[DBufOf(j)].data) = Len(bufs[DBufOf(j)].data)
        OBVIOUS
      <4>1. DLive /\ DReading
        BY <1>28 DEF DLive
      <4>2. rdr.pos <= j
        BY <1>2, Unread
      <4>3. bufs'[DBufOf(j)] = bufs[DBufOf(j)]
        BY <1>6, <1>27, <4>1
      <4> QED BY <1>1, <1>26, <4>1, <4>2, <4>3
    <3>2. d.next <= d'.next
      BY <1>0, <1>2, <1>14
    <3> QED BY <1>2, <1>14, <1>17, <1>28, <3>1, <3>2, AskedMoves
  <2>2. DAskedStay
    <3>1. ASSUME NEW c \in DChunks, NEW m \in Nat, DAsked(c, m) PROVE DAsked(c, m)'
      <4>1. c.id # -1
        BY <3>1 DEF DAsked
      <4> QED BY <2>1, <3>1, <4>1
    <3> QED BY <3>1 DEF DAskedStay
  <2>3. \A w \in DWorkers : DHolds(w)' => DHolds(w) /\ work'[w].ch = work[w].ch /\ DCopied(w)' = DCopied(w)
    BY <1>18 DEF DHolds, DCopied
  <2>4. ASSUME NEW w \in DWorkers, DHolds(w)' PROVE DAsked(work[w].ch, DCopied(w))'
    <3>1. PICK c, m : c = work[w].ch /\ m = DCopied(w)
      OBVIOUS
    <3>2. DAsked(c, m) /\ c \in DChunks /\ m \in Nat
      BY <1>2, <2>3, <2>4, <3>1, ChunksTyped DEF DRunning, DOwned
    <3>3. DAsked(c, m)'
      BY <2>2, <3>2 DEF DAskedStay
    <3> QED BY <2>3, <2>4, <3>1, <3>3
  <2>5. ASSUME NEW i \in DOMAIN chunkCh PROVE DAsked(chunkCh[i], 0)'
    <3>1. PICK c : c = chunkCh[i]
      OBVIOUS
    <3>2. DAsked(c, 0) /\ c \in DChunks
      BY <1>2, <3>1, ChunksTyped DEF DRunning, DOwned
    <3>3. DAsked(c, 0)'
      BY <2>2, <3>2 DEF DAskedStay
    <3> QED BY <1>1, <3>1, <3>3
  <2>6. DAsked(mu.ch, 0)'
    <3>1. PICK c : c = ch
      OBVIOUS
    <3>2. c.start = d.pos /\ c.size = size /\ c.id = k /\ c.buf = b
      BY <1>9, <3>1
    <3>3. c.start + c.size = d'.start + DOffset(d'.len, c.id + 1)
      <4>1. DOffset(d'.len, c.id + 1) = DOffset(d.len, k) + size
        BY <1>3, <1>14, <3>2
      <4> QED BY <1>2, <1>3, <1>14, <3>2, <4>1, SMTT(30)
    <3>4. ASSUME DLive' PROVE /\ rdr'.pos <= c.id /\ c.buf = DBufOf(c.id)'
                              /\ c.start + 0 = d'.start + DOffset(d'.len, c.id) + Len(bufs'[c.buf].data)
      <4>1. DReading
        BY <1>28, <3>4 DEF DLive
      <4>2. rdr'.pos <= k /\ b = DBufOf(k)'
        BY <1>1, <1>22, <1>26, <4>1
      <4>3. Len(bufs'[b].data) = 0
        BY <1>6, <1>8
      <4>4. c.start + 0 = d'.start + DOffset(d'.len, k) + 0
        BY <1>2, <1>3, <1>14, <3>2
      <4> QED BY <3>2, <4>2, <4>3, <4>4
    <3>5. c.id \in Nat /\ c.id < d'.next /\ 0 <= c.size /\ c.size > 0
      BY <1>2, <1>3, <1>14, <3>2
    <3>6. DAsked(c, 0)'
      BY <3>3, <3>4, <3>5 DEF DAsked
    <3> QED BY <1>15, <3>1, <3>6
  <2>7. DApart'
    <3>1. /\ \A w \in DWorkers : DHolds(w) => work[w].ch.id < k /\ work[w].ch.id \in Nat
          /\ \A i \in DOMAIN chunkCh : chunkCh[i].id < k /\ chunkCh[i].id \in Nat
      BY <1>0 DEF DRunning, DOwned, DAsked
    <3>2. /\ \A w \in DWorkers : DHolds(w)' => work'[w].ch.id # mu'.ch.id
          /\ \A i \in DOMAIN chunkCh' : chunkCh'[i].id # mu'.ch.id
      BY <1>1, <1>9, <1>15, <2>3, <3>1
    <3> QED BY <1>1, <2>3, <3>2 DEF DRunning, DOwned, DApart
  <2> QED BY <1>1, <2>4, <2>5, <2>6, <2>7 DEF DOwned
<1>31. DBytes(rdr.got, d.start)'
  BY <1>1, <1>14 DEF DownInv
<1>32. DSlotsKept'
  <2>1. Cardinality(DActive) \in Nat /\ Cardinality(DActive)' \in Nat /\ DSlots \in Nat /\ d'.limit \in Nat
    BY ActiveFinite, <1>14, DAssumption DEF DDownload
  <2>2. d.limit + Cardinality(DActive) + DHeldByReader >= DSlots /\ DHeldByReader' = 0
    <3>1. d.limit + Cardinality(DActive) + DHeldByReader >= DSlots
      <4>1. DHeldByReader \in Nat
        BY DEF DHeldByReader
      <4> QED BY <1>2, <2>1, <4>1 DEF DownInv, DSlotsKept, DHeld
    <3>2. d'.next # 0 /\ rdr.pc # "single"
      BY <1>2, <1>14 DEF DRunning, DCut
    <3> QED BY <1>1, <3>1, <3>2 DEF DHeldByReader
  <2>3. CASE new
    <3>1. DActive' = DActive \cup {v} /\ v \notin DActive
      BY <1>12, <1>18, <1>19, <2>3 DEF DActive
    <3>2. Cardinality(DActive)' = Cardinality(DActive) + 1
      BY <3>1, ActiveMore
    <3>3. slot => DHeldByReader = 0
      BY <1>0, <1>2, <1>10, <3>1 DEF DHeldByReader, DRunning, DCut
    <3>4. DHeldByReader \in {0, 1}
      BY DEF DHeldByReader
    <3> QED BY <1>2, <1>14, <2>1, <2>2, <3>2, <3>3, <3>4, SMTT(30) DEF DSlotsKept, DHeld
  <2>4. CASE ~new
    <3>1. DActive' = DActive
      BY <1>13, <1>18, <2>4 DEF DActive
    <3>2. DHeldByReader = 0 /\ ~slot
      BY <1>10, <2>4 DEF DHeldByReader
    <3> QED BY <1>2, <1>14, <2>1, <2>2, <3>1, <3>2 DEF DSlotsKept, DHeld
  <2> QED BY <2>3, <2>4
<1> QED BY <1>17, <1>20, <1>21, <1>24, <1>25, <1>29, <1>30, <1>31, <1>32 DEF DownInv, DRunning

\* The slot that a cancelled sender gives back.
LEMMA SlotBack ==
  ASSUME DTyped, \/ d' = d
                 \/ d' = [d EXCEPT !.limit = @ + 1]
  PROVE  d' \in DDownload /\ DSameRange /\ d'.conc = d.conc /\ (d'.limit = d.limit \/ d'.limit = d.limit + 1)
<1>1. d \in DDownload /\ d.limit \in Nat
  BY DEF DTyped, DTypedD, DDownload
<1>2. PICK l \in Nat : l = d.limit + 1
  BY <1>1
<1>3. d' = d \/ d' = [d EXCEPT !.limit = l]
  BY <1>2
<1> QED BY <1>1, <1>2, <1>3 DEF DDownload, DSameRange

(* The worker that waited for room in the channel has sent the chunk, or its    *)
(* context ended; either way it goes on with its own chunk.                     *)
LEMMA WorkerSelectKeeps ==
  ASSUME DownInv, NEW w \in DWorkers, WorkerSelect(w)
  PROVE  DownInv'
<1>1. /\ work[w].pc = "more" /\ mu.by = w /\ mu' = DFree /\ UNCHANGED <<dctx, bufMap, bufs, left, rdr>>
      /\ work' = [work EXCEPT ![w].pc = "copy"]
      /\ \/ (d' = d \/ d' = [d EXCEPT !.limit = @ + 1]) /\ UNCHANGED chunkCh
         \/ d' = d /\ chunkCh' = Append(chunkCh, mu.ch)
  <2>1. w # DReader
    BY WorkersFinite DEF DReader
  <2> QED BY <2>1 DEF WorkerSelect, SendSelect, SendReturns
<1>2. DTyped /\ DRunning /\ DOwned /\ DReleased /\ mu.by # -1 /\ w # -1
  BY <1>1, WorkerRuns, WorkersFinite DEF DownInv, DRunning, DReleased, DReader
<1>3. d' \in DDownload /\ DSameRange /\ d'.conc = d.conc /\ (d'.limit = d.limit \/ d'.limit = d.limit + 1)
  BY <1>1, <1>2, SlotBack
<1>4. CASE UNCHANGED chunkCh
  BY <1>1, <1>2, <1>3, <1>4, Bounds, StepKeeps DEF DHolding
<1>5. CASE d' = d /\ chunkCh' = Append(chunkCh, mu.ch)
  <2> DEFINE x == [work[w] EXCEPT !.pc = "copy"]
  <2>1. work[w] \in DWorker
    BY <1>2, ChunksTyped
  <2>2. x \in DWorker /\ x.pc = "copy" /\ x.ch = work[w].ch /\ work' = [work EXCEPT ![w] = x]
    BY <1>1, <1>2, <2>1 DEF DWorker, DWorkerPcs, DTyped, DTypedWork
  <2> HIDE DEF x
  <2>3. /\ work'[w] = x /\ \A v \in DWorkers : v # w => work'[v] = work[v]
    BY <1>2, <2>2 DEF DTyped, DTypedWork
  <2>4. PICK c : c = mu.ch
    OBVIOUS
  <2>5. c \in DChunks /\ DAsked(c, 0) /\ DSending
    <3>1. DSending
      BY <1>2 DEF DSending
    <3> QED BY <1>2, <2>4, <3>1, ChunksTyped DEF DOwned
  <2>6. DAskedStay
    BY <1>1, <1>3, AskedStay DEF DLive, DReading
  <2>7. ~DSending'
    BY <1>1 DEF DSending, DFree
  <2>8. DHoldersStay
    BY <1>1, <2>2, <2>3, <2>7 DEF DHoldersStay, DHolds, DCopied
  <2>9. DOwned' /\ chunkCh' \in Seq(DChunks)
    <3>1. /\ \A v \in DWorkers : DHolds(v)' => work[v].ch.id # c.id
          /\ \A i \in DOMAIN chunkCh : chunkCh[i].id # c.id
      BY <1>2, <2>4, <2>5, <2>8 DEF DOwned, DApart, DHoldersStay
    <3> QED BY <1>2, <1>5, <2>4, <2>5, <2>6, <2>7, <2>8, <3>1, OwnedSent
  <2>10. DTyped'
    BY <1>1, <1>2, <1>3, <2>2, <2>9, WorkerTyped DEF DTyped
  <2>11. DStarted'
    BY <1>1, <1>2, <1>3, <2>2, StartedStays DEF DRunning, DDownload
  <2>12. d'.limit + Cardinality(DActive)' >= d.limit + Cardinality(DActive)
    BY <1>1, <1>2, <1>5, <2>2, ActiveStays DEF DTyped, DTypedD
  <2> QED BY <1>1, <1>2, <1>3, <2>9, <2>10, <2>11, <2>12, WorkerKeeps
<1> QED BY <1>1, <1>4, <1>5

(* The reader has sent a chunk, or the context ended meanwhile.                 *)
LEMMA ReaderSelectKeeps ==
  ASSUME DownInv, ReaderSelect
  PROVE  DownInv'
<1>1. /\ rdr.pc \in {"first", "fsend"} /\ mu.by = DReader /\ mu' = DFree /\ UNCHANGED <<dctx, bufMap, bufs, left, work>>
      /\ \/ dctx # "live" /\ (d' = d \/ d' = [d EXCEPT !.limit = @ + 1]) /\ UNCHANGED chunkCh
         \/ d' = d /\ chunkCh' = Append(chunkCh, mu.ch)
      /\ rdr' = [rdr EXCEPT !.pc = "pop"] \/ (rdr.pc = "first" /\ rdr' = [rdr EXCEPT !.pc = "abort"])
  BY DEF ReaderSelect, SendSelect, SendReturns
<1>2. DTyped /\ DRunning /\ DOwned /\ mu.by # -1
  BY <1>1, ReaderRuns DEF DownInv, DRunning, DReader
<1>3. d' \in DDownload /\ DSameRange /\ d'.conc = d.conc /\ (d'.limit = d.limit \/ d'.limit = d.limit + 1)
  BY <1>1, <1>2, SlotBack
<1>4. PICK pc \in {"pop", "abort"} : rdr' = [rdr EXCEPT !.pc = pc]
  BY <1>1
<1>5. DTypedReader' /\ rdr'.pc = pc /\ rdr'.pos = rdr.pos /\ rdr'.cur = rdr.cur /\ rdr'.got = rdr.got
  BY <1>2, <1>4, ReaderField DEF DTyped, DReaderPcs
<1>6. DAskedStay
  BY <1>1, <1>3, <1>5, AskedStay DEF DLive, DReading
<1>7. DHoldersStay /\ ~DSending'
  BY <1>1 DEF DHoldersStay, DHolds, DCopied, DSending, DFree
<1>8. DOwned' /\ chunkCh' \in Seq(DChunks)
  <2>1. CASE UNCHANGED chunkCh
    BY <1>2, <1>6, <1>7, <2>1, OwnedStays DEF DTyped
  <2>2. CASE chunkCh' = Append(chunkCh, mu.ch)
    <3>1. PICK c : c = mu.ch
      OBVIOUS
    <3>2. c \in DChunks /\ DAsked(c, 0) /\ DSending
      <4>1. DSending
        BY <1>2 DEF DSending
      <4> QED BY <1>2, <3>1, <4>1, ChunksTyped DEF DOwned
    <3>3. /\ \A v \in DWorkers : DHolds(v)' => work[v].ch.id # c.id
          /\ \A i \in DOMAIN chunkCh : chunkCh[i].id # c.id
      BY <1>2, <1>7, <3>1, <3>2 DEF DOwned, DApart, DHoldersStay
    <3> QED BY <1>2, <1>6, <1>7, <2>2, <3>1, <3>2, <3>3, OwnedSent
  <2> QED BY <1>1, <2>1, <2>2
<1>9. DTyped'
  BY <1>1, <1>2, <1>3, <1>5, <1>8 DEF DTyped, DTypedD, DDownload, DTypedWork, DTypedMu, DTypedBufs
<1>10. DCut' /\ DStarted'
  BY <1>1, <1>2, <1>3, <1>5 DEF DRunning, DCut, DStarted, DSameRange
<1>11. d'.start = d.start /\ d'.len = d.len /\ d'.next = d.next /\ mu'.by # DReader
  BY <1>1, <1>3 DEF DSameRange, DFree, DReader
<1>12. DMapped'
  BY <1>1, <1>2, <1>5, <1>11 DEF DRunning, DMapped, DReading
<1>13. DPlaced'
  <2>1. /\ rdr.pos < d.next /\ Len(rdr.got) = DOffset(d.len, rdr.pos) /\ DBytes(rdr.got, d.start)
    BY <1>1, <1>2 DEF DRunning, DPlaced
  <2> QED BY <1>5, <1>11, <2>1 DEF DPlaced
<1>14. DFilled'
  BY <1>1, <1>2, <1>5, <1>11 DEF DRunning, DFilled, DLive, DReading, DUnread, DBufOf
<1>15. DSlotsKept'
  <2>1. d.next # 0 /\ d.next \in Nat /\ d.limit \in Nat
    BY <1>1, <1>2 DEF DRunning, DPlaced, DTyped, DTypedD, DTypedReader
  <2>2. DHeldByReader = 0 /\ DHeldByReader' = 0
    BY <1>1, <1>5, <1>11, <2>1 DEF DHeldByReader
  <2> QED BY <1>1, <1>2, <1>3, <1>9, <2>1, <2>2, SlotsStay DEF DownInv
<1>16. DBytes(rdr.got, d.start)'
  BY <1>5, <1>11 DEF DownInv
<1> QED BY <1>8, <1>9, <1>10, <1>12, <1>13, <1>14, <1>15, <1>16 DEF DownInv, DRunning

(* Bytes that follow bytes.                                                     *)
LEMMA BytesFollow ==
  ASSUME NEW s \in Seq(Nat), NEW from \in Nat, DBytes(s, from), NEW t \in Seq(Nat), DBytes(t, from + Len(s))
  PROVE  s \o t \in Seq(Nat) /\ DBytes(s \o t, from) /\ Len(s \o t) = Len(s) + Len(t)
<1>1. Len(s) \in Nat /\ Len(t) \in Nat
  OBVIOUS
<1>2. s \o t \in Seq(Nat) /\ Len(s \o t) = Len(s) + Len(t)
  OBVIOUS
<1>3. ASSUME NEW i \in 1 .. Len(s) + Len(t) PROVE (s \o t)[i] = from + i - 1
  <2>1. CASE i <= Len(s)
    <3>1. (s \o t)[i] = s[i] /\ i \in 1 .. Len(s)
      BY <1>1, <2>1
    <3> QED BY <3>1 DEF DBytes
  <2>2. CASE i > Len(s)
    <3>1. (s \o t)[i] = t[i - Len(s)] /\ i - Len(s) \in 1 .. Len(t)
      BY <1>1, <2>2
    <3>2. t[i - Len(s)] = from + Len(s) + (i - Len(s)) - 1
      BY <3>1 DEF DBytes
    <3> QED BY <1>1, <3>1, <3>2
  <2> QED BY <1>1, <2>1, <2>2
<1>4. s \o t = [i \in 1 .. Len(s \o t) |-> from + i - 1]
  <2>1. DOMAIN (s \o t) = 1 .. Len(s \o t)
    BY <1>2
  <2>2. PICK u : u = s \o t
    OBVIOUS
  <2>3. u \in Seq(Nat) /\ Len(u) = Len(s) + Len(t) /\ \A i \in 1 .. Len(u) : u[i] = from + i - 1
    BY <1>2, <1>3, <2>2
  <2>4. u = [i \in 1 .. Len(u) |-> from + i - 1]
    BY <2>3
  <2> QED BY <2>2, <2>4
<1> QED BY <1>2, <1>4 DEF DBytes

\* One buffer of the pool changes.
LEMMA BufferChange ==
  ASSUME NEW s \in Seq(DBuffers), NEW b \in DOMAIN s, NEW y \in DBuffers, NEW t, t = [s EXCEPT ![b] = y]
  PROVE  /\ t \in Seq(DBuffers) /\ DOMAIN t = DOMAIN s /\ t[b] = y
         /\ \A i \in DOMAIN s : i # b => t[i] = s[i]
<1>1. PICK l \in Nat : l = Len(s) /\ DOMAIN s = 1 .. l /\ s \in [1 .. l -> DBuffers]
  OBVIOUS
<1>2. t \in [1 .. l -> DBuffers]
  BY <1>1
<1>3. t \in Seq(DBuffers)
  BY <1>1, <1>2
<1> QED BY <1>1, <1>3

LEMMA RestFits ==
  ASSUME NEW a \in Nat, NEW z \in Nat, NEW f \in Nat, NEW o \in Nat, NEW l \in Nat, NEW s \in Nat,
         a = f + o + l, a + z = f + (o + s)
  PROVE  l + z = s
  OBVIOUS

LEMMA RestRead ==
  ASSUME NEW g \in Int, NEW o \in Int, NEW n \in Int, NEW s \in Int, NEW t \in Int, NEW h \in Int,
         n = g - o, t = s - n, h = g + t
  PROVE  s = h - o
  OBVIOUS

LEMMA BytesNew ==
  ASSUME NEW n \in Nat, NEW from \in Nat
  PROVE  /\ [i \in 1 .. n |-> from + i - 1] \in Seq(Nat) /\ Len([i \in 1 .. n |-> from + i - 1]) = n
         /\ DBytes([i \in 1 .. n |-> from + i - 1], from)
<1>1. \A i \in 1 .. n : from + i - 1 \in Nat
  OBVIOUS
<1>2. PICK t : t = [i \in 1 .. n |-> from + i - 1]
  OBVIOUS
<1>3. t \in [1 .. n -> Nat]
  BY <1>1, <1>2
<1>4. t \in Seq(Nat) /\ Len(t) = n
  BY <1>3
<1>5. DBytes(t, from)
  BY <1>2, <1>4 DEF DBytes
<1> QED BY <1>2, <1>4, <1>5

LEMMA RestAt ==
  ASSUME NEW s \in Seq(Nat), NEW n \in Nat, NEW i \in 1 .. Len(s) - n
  PROVE  SubSeq(s, n + 1, Len(s))[i] = s[(n + 1) + i - 1]
OBVIOUS

(* What is left of a buffer after the bytes that were read.                     *)
LEMMA BytesRest ==
  ASSUME NEW s \in Seq(Nat), NEW from \in Nat, DBytes(s, from), NEW n \in Nat, n < Len(s)
  PROVE  /\ SubSeq(s, n + 1, Len(s)) \in Seq(Nat) /\ Len(SubSeq(s, n + 1, Len(s))) = Len(s) - n
         /\ DBytes(SubSeq(s, n + 1, Len(s)), from + n)
<1>1. PICK t : t = SubSeq(s, n + 1, Len(s))
  OBVIOUS
<1>2. Len(s) \in Nat
  OBVIOUS
<1>3. t \in Seq(Nat) /\ Len(t) = Len(s) - n
  BY <1>1, <1>2
<1>4. ASSUME NEW i \in 1 .. Len(t) PROVE t[i] = from + n + i - 1
  <2>1. t[i] = s[n + i] /\ n + i \in 1 .. Len(s)
    <3>1. t[i] = s[(n + 1) + i - 1]
      <4>1. i \in 1 .. Len(s) - n /\ n + 1 \in 1 .. Len(s)
        BY <1>2, <1>3
      <4> QED BY <1>1, <4>1, RestAt
    <3>2. (n + 1) + i - 1 = n + i /\ n + i \in 1 .. Len(s)
      BY <1>2, <1>3
    <3> QED BY <3>1, <3>2
  <2>2. s[n + i] = from + (n + i) - 1
    BY <2>1 DEF DBytes
  <2> QED BY <2>1, <2>2
<1>5. t = [i \in 1 .. Len(t) |-> from + n + i - 1]
  BY <1>3, <1>4
<1> QED BY <1>1, <1>3, <1>5 DEF DBytes

(* A worker copies what it got of the body behind the bytes in the buffer.      *)
LEMMA CopyKeeps ==
  ASSUME DownInv, NEW w \in DWorkers, CopyBody(w)
  PROVE  DownInv'
<1>1. PICK ch : ch = work[w].ch
  OBVIOUS
<1>2. PICK n \in 0 .. ch.size :
        /\ bufs' = [bufs EXCEPT ![ch.buf].data = @ \o [i \in 1 .. n |-> ch.start + i - 1]]
        /\ work' = [work EXCEPT ![w].pc = "copied", ![w].n = n]
        /\ UNCHANGED left \/ DFault
  BY <1>1, ZenonT(30) DEF CopyBody
<1>3. work[w].pc = "copy" /\ UNCHANGED <<d, dctx, mu, chunkCh, bufMap, rdr>>
  BY DEF CopyBody
<1>4. DTyped /\ DRunning /\ DOwned /\ DFilled /\ work[w] \in DWorker /\ ch \in DChunks
  BY <1>1, <1>3, WorkerRuns, ChunksTyped DEF DownInv, DRunning
<1>5. ch.start \in Nat /\ ch.size \in Nat /\ ch.buf \in Nat /\ ch.id \in Int /\ n \in Nat
  BY <1>4 DEF DChunks
<1>6. DAsked(ch, 0) /\ DHolds(w)
  BY <1>1, <1>3, <1>4 DEF DOwned, DHolds, DCopied
<1> DEFINE x == [work[w] EXCEPT !.pc = "copied", !.n = n]
<1>7. x \in DWorker /\ x.pc = "copied" /\ x.ch = ch /\ x.n = n /\ work' = [work EXCEPT ![w] = x]
  BY <1>1, <1>2, <1>4, <1>5 DEF DWorker, DWorkerPcs, DTyped, DTypedWork
<1> HIDE DEF x
<1>8. /\ work'[w] = x /\ \A v \in DWorkers : v # w => work'[v] = work[v]
  BY <1>4, <1>7 DEF DTyped, DTypedWork
<1>9. PICK t \in Seq(Nat) : t = [i \in 1 .. n |-> ch.start + i - 1] /\ Len(t) = n /\ DBytes(t, ch.start)
  BY <1>5, BytesNew
\* Only the buffer of this chunk changes.
<1>10. /\ bufs' \in Seq(DBuffers) /\ DOMAIN bufs' = DOMAIN bufs
       /\ \A b \in DOMAIN bufs : b # ch.buf => bufs'[b] = bufs[b]
       /\ ch.buf \in DOMAIN bufs => /\ bufs'[ch.buf].data = bufs[ch.buf].data \o t
                                    /\ bufs'[ch.buf].limit = bufs[ch.buf].limit /\ bufs'[ch.buf].read = bufs[ch.buf].read
  <2>1. bufs \in Seq(DBuffers) /\ bufs' = [bufs EXCEPT ![ch.buf].data = @ \o t]
    BY <1>2, <1>4, <1>9 DEF DTyped, DTypedBufs
  <2>2. CASE ch.buf \in DOMAIN bufs
    <3>1. PICK b \in DOMAIN bufs : b = ch.buf
      BY <2>2
    <3>2. bufs[b] \in DBuffers /\ bufs[b].data \in Seq(Nat)
      BY <1>4, BufferTyped
    <3>3. PICK u \in Seq(Nat) : u = bufs[b].data \o t
      <4>1. PICK s \in Seq(Nat) : s = bufs[b].data
        BY <3>2
      <4>2. s \o t \in Seq(Nat)
        OBVIOUS
      <4> QED BY <4>1, <4>2
    <3>4. PICK y : y = [bufs[b] EXCEPT !.data = u]
      OBVIOUS
    <3>5. y \in DBuffers /\ y.data = u /\ y.limit = bufs[b].limit /\ y.read = bufs[b].read
      BY <3>2, <3>4 DEF DBuffers
    <3>6. bufs' = [bufs EXCEPT ![b] = y]
      <4>1. bufs' = [bufs EXCEPT ![b] = [bufs[b] EXCEPT !.data = bufs[b].data \o t]]
        BY <2>1, <3>1
      <4> QED BY <3>3, <3>4, <4>1
    <3>7. bufs' \in Seq(DBuffers) /\ DOMAIN bufs' = DOMAIN bufs /\ bufs'[b] = y /\ \A i \in DOMAIN bufs : i # b => bufs'[i] = bufs[i]
      <4>1. PICK q \in Seq(DBuffers) : q = bufs
        BY <2>1
      <4>2. b \in DOMAIN q /\ bufs' = [q EXCEPT ![b] = y]
        BY <3>6, <4>1
      <4> QED BY <3>5, <4>1, <4>2, BufferChange
    <3> QED BY <3>1, <3>3, <3>5, <3>7
  <2>3. CASE ch.buf \notin DOMAIN bufs
    <3>1. bufs' = bufs
      BY <2>1, <2>3
    <3> QED BY <2>1, <2>3, <3>1
  <2> QED BY <2>2, <2>3
<1>11. DTyped'
  <2>1. DTypedWork'
    BY <1>4, <1>7 DEF DTyped, DTypedWork, DWorker
  <2>2. DTypedBufs'
    BY <1>3, <1>4, <1>10 DEF DTyped, DTypedBufs
  <2>3. left' \in [faults : Nat, busy : Nat]
    BY <1>2, Bounds
  <2> QED BY <1>3, <1>4, <2>1, <2>2, <2>3 DEF DTyped, DTypedD, DTypedReader, DTypedMu
<1>12. DCut' /\ DMapped' /\ DBytes(rdr.got, d.start)'
  BY <1>3, <1>4 DEF DRunning, DCut, DMapped, DReading, DownInv
<1>13. DPlaced'
  BY <1>3, <1>4, <1>10 DEF DRunning, DPlaced
<1>14. DStarted'
  BY <1>3, <1>4, <1>7, StartedStays DEF DRunning, DSameRange, DTyped, DTypedD
<1>15. (DLive' <=> DLive) /\ (DUnread' = DUnread) /\ \A k \in DUnread : DBufOf(k)' = DBufOf(k)
  BY <1>3 DEF DLive, DReading, DUnread, DBufOf
\* While the chunk is live, its buffer lacks what is asked for.
<1>16. ASSUME DLive
       PROVE  /\ ch.id \in DUnread /\ ch.buf = DBufOf(ch.id) /\ ch.buf \in DOMAIN bufs
              /\ ch.start = d.start + DOffset(d.len, ch.id) + Len(bufs[ch.buf].data)
              /\ Len(bufs[ch.buf].data) + ch.size = DChunkSize(d.len, ch.id)
  <2>1. /\ ch.id \in Nat /\ ch.id < d.next /\ rdr.pos <= ch.id /\ ch.buf = DBufOf(ch.id)
        /\ ch.start + 0 = d.start + DOffset(d.len, ch.id) + Len(bufs[ch.buf].data)
        /\ ch.start + ch.size = d.start + DOffset(d.len, ch.id + 1)
    BY <1>5, <1>6, <1>16 DEF DAsked
  <2>2. ch.id \in DUnread
    <3>1. rdr.pos \in Nat /\ d.next \in Nat
      BY <1>4 DEF DTyped, DTypedReader, DTypedD
    <3> QED BY <2>1, <3>1 DEF DUnread
  <2>3. PICK o, s, l \in Nat : o = DOffset(d.len, ch.id) /\ s = DChunkSize(d.len, ch.id) /\ l = Len(bufs[DBufOf(ch.id)].data)
                               /\ DOffset(d.len, ch.id + 1) = o + s
    BY <1>4, <1>16, <2>2, Unread
  <2>4. d.start \in Nat
    BY <1>4 DEF DTyped, DTypedD
  <2>5. DBufOf(ch.id) \in DOMAIN bufs
    BY <1>4, <1>16, <2>2 DEF DFilled
  <2>6. ch.start = d.start + o + l /\ ch.start + ch.size = d.start + (o + s) /\ l = Len(bufs[ch.buf].data)
    <3>1. l = Len(bufs[ch.buf].data)
      BY <2>1, <2>3
    <3>2. ch.start + 0 = d.start + o + l /\ ch.start + ch.size = d.start + (o + s)
      BY <2>1, <2>3, <3>1
    <3> QED BY <1>5, <3>1, <3>2
  <2>7. l + ch.size = s
    <3>1. PICK a, z, f \in Nat : a = ch.start /\ z = ch.size /\ f = d.start
      BY <1>5, <2>4
    <3>2. a = f + o + l /\ a + z = f + (o + s)
      BY <2>6, <3>1
    <3>3. l + z = s
      BY <3>2, RestFits
    <3> QED BY <3>1, <3>3
  <2> QED BY <2>1, <2>2, <2>3, <2>5, <2>6, <2>7
<1>17. DFilled'
  <2> SUFFICES ASSUME DLive PROVE DFilled'
    BY <1>15 DEF DFilled
  <2>1. ASSUME NEW k \in DUnread
        PROVE  /\ bufs'[DBufOf(k)].limit = DChunkSize(d.len, k)
               /\ DBytes(bufs'[DBufOf(k)].data, d.start + DOffset(d.len, k))
               /\ Len(bufs'[DBufOf(k)].data) <= DChunkSize(d.len, k)
               /\ bufs'[DBufOf(k)].read <= Len(bufs'[DBufOf(k)].data)
               /\ bufs'[DBufOf(k)].read = IF rdr.pc = "read" /\ k = rdr.pos THEN Len(rdr.got) - DOffset(d.len, k) ELSE 0
    <3>1. /\ DBufOf(k) \in DOMAIN bufs
          /\ bufs[DBufOf(k)].limit = DChunkSize(d.len, k)
          /\ DBytes(bufs[DBufOf(k)].data, d.start + DOffset(d.len, k))
          /\ Len(bufs[DBufOf(k)].data) <= DChunkSize(d.len, k)
          /\ bufs[DBufOf(k)].read <= Len(bufs[DBufOf(k)].data)
          /\ bufs[DBufOf(k)].read = IF rdr.pc = "read" /\ k = rdr.pos THEN Len(rdr.got) - DOffset(d.len, k) ELSE 0
          /\ k # ch.id => DBufOf(k) # DBufOf(ch.id)
      BY <1>4, <1>16 DEF DFilled
    <3>2. CASE k # ch.id
      <4>1. bufs'[DBufOf(k)] = bufs[DBufOf(k)]
        BY <1>10, <1>16, <3>1, <3>2
      <4> QED BY <3>1, <4>1
    <3>3. CASE k = ch.id
      <4>1. PICK b \in DOMAIN bufs : b = ch.buf /\ b = DBufOf(k)
        BY <1>16, <3>3
      <4>2. bufs[b].data \in Seq(Nat) /\ bufs[b].read \in Nat /\ Len(bufs[b].data) \in Nat
        BY <1>4, BufferTyped
      <4>3. PICK s \in Seq(Nat) : s = bufs[b].data
        BY <4>2
      <4>4. PICK f \in Nat : f = d.start + DOffset(d.len, k)
        BY <1>4, Unread, SMTT(30) DEF DTyped, DTypedD
      <4>5. DBytes(s, f) /\ ch.start = f + Len(s) /\ Len(s) + ch.size = DChunkSize(d.len, k) /\ Len(s) \in Nat
        BY <1>16, <3>1, <3>3, <4>1, <4>2, <4>3, <4>4
      <4>6. DBytes(t, f + Len(s))
        BY <1>9, <4>5
      <4>7. DBytes(s \o t, f) /\ Len(s \o t) = Len(s) + n
        BY <1>9, <4>5, <4>6, BytesFollow
      <4>8. Len(s \o t) <= DChunkSize(d.len, k) /\ bufs[b].read <= Len(s \o t)
        BY <1>5, <3>1, <4>1, <4>2, <4>3, <4>5, <4>7, SMTT(30)
      <4>9. bufs'[b].data = s \o t /\ bufs'[b].limit = bufs[b].limit /\ bufs'[b].read = bufs[b].read
        BY <1>10, <4>1, <4>3
      <4> QED BY <3>1, <4>1, <4>4, <4>7, <4>8, <4>9
    <3> QED BY <3>2, <3>3
  <2>2. \A k \in DUnread : DBufOf(k)' = DBufOf(k) /\ DBufOf(k) \in DOMAIN bufs'
    BY <1>4, <1>10, <1>15 DEF DFilled
  <2>3. /\ \A j, k \in DUnread : j # k => DBufOf(j) # DBufOf(k)
        /\ d.next \in DOMAIN bufMap => \A k \in DUnread : bufMap[d.next] # DBufOf(k)
        /\ rdr.pc = "finish" => \A k \in DUnread : rdr.cur # DBufOf(k)
    BY <1>4 DEF DFilled
  <2> QED BY <1>3, <1>15, <2>1, <2>2, <2>3 DEF DFilled
<1>18. \A c \in DChunks, m \in Nat : c.id # ch.id /\ DAsked(c, m) => DAsked(c, m)'
  <2>1. DLive' => \A k \in DUnread : k # ch.id => rdr'.pos <= k /\ DBufOf(k)' = DBufOf(k)
                                                  /\ Len(bufs'[DBufOf(k)].data) = Len(bufs[DBufOf(k)].data)
    <3> SUFFICES ASSUME DLive, NEW k \in DUnread, k # ch.id
                 PROVE  rdr.pos <= k /\ bufs'[DBufOf(k)] = bufs[DBufOf(k)]
      BY <1>3, <1>15
    <3>1. DBufOf(k) \in DOMAIN bufs /\ DBufOf(k) # DBufOf(ch.id)
      BY <1>4, <1>16 DEF DFilled
    <3>2. rdr.pos <= k
      BY <1>4, Unread
    <3> QED BY <1>10, <1>16, <3>1, <3>2
  <2>2. d.next <= d'.next
    BY <1>3, <1>4 DEF DTyped, DTypedD
  <2> QED BY <1>3, <1>4, <1>5, <1>11, <1>15, <2>1, <2>2, AskedMoves
<1>19. DAsked(ch, n)'
  <2>1. /\ ch.id \in Nat /\ ch.id < d.next /\ n <= ch.size /\ ch.size > 0
        /\ ch.start + ch.size = d.start + DOffset(d.len, ch.id + 1)
    BY <1>5, <1>6 DEF DAsked
  <2>2. ASSUME DLive
        PROVE  /\ rdr.pos <= ch.id /\ ch.buf = DBufOf(ch.id)'
               /\ ch.start + n = d.start + DOffset(d.len, ch.id) + Len(bufs'[ch.buf].data)
    <3>1. ch.id \in DUnread /\ rdr.pos <= ch.id /\ ch.buf = DBufOf(ch.id)' /\ ch.buf \in DOMAIN bufs
      BY <1>4, <1>15, <1>16, <2>2, Unread
    <3>2. PICK s \in Seq(Nat) : s = bufs[ch.buf].data
      <4>1. PICK b \in DOMAIN bufs : b = ch.buf
        BY <3>1
      <4> QED BY <1>4, <4>1, BufferTyped
    <3>3. Len(s \o t) = Len(s) + n /\ Len(s) \in Nat /\ bufs'[ch.buf].data = s \o t
      BY <1>9, <1>10, <3>1, <3>2
    <3>4. PICK o \in Nat : o = DOffset(d.len, ch.id)
      BY <1>4, <3>1, Unread
    <3>5. ch.start = d.start + o + Len(s) /\ d.start \in Nat
      BY <1>4, <1>16, <2>2, <3>2, <3>4 DEF DTyped, DTypedD
    <3>6. ch.start + n = d.start + o + Len(s \o t)
      BY <1>5, <3>3, <3>4, <3>5
    <3> QED BY <3>1, <3>3, <3>4, <3>6
  <2> QED BY <1>3, <1>15, <2>1, <2>2 DEF DAsked
<1>20. DOwned'
  <2>1. DApart
    BY <1>4 DEF DOwned
  <2>2. ASSUME NEW v \in DWorkers, DHolds(v)' PROVE DAsked(work[v].ch, DCopied(v))'
    <3>1. CASE v = w
      <4>1. work'[v].ch = ch /\ DCopied(v)' = n
        BY <1>7, <1>8, <3>1 DEF DCopied
      <4> QED BY <1>19, <4>1
    <3>2. CASE v # w
      <4>1. PICK c, m : c = work[v].ch /\ m = DCopied(v)
        OBVIOUS
      <4>2. work'[v] = work[v] /\ DHolds(v) /\ DCopied(v)' = m /\ work'[v].ch = c
        BY <1>8, <2>2, <3>2, <4>1 DEF DHolds, DCopied
      <4>3. c \in DChunks /\ m \in Nat /\ c.id # ch.id /\ DAsked(c, m)
        BY <1>1, <1>4, <1>6, <2>1, <3>2, <4>1, <4>2, ChunksTyped DEF DOwned, DApart
      <4> QED BY <1>18, <4>2, <4>3
    <3> QED BY <3>1, <3>2
  <2>3. ASSUME NEW i \in DOMAIN chunkCh PROVE DAsked(chunkCh[i], 0)'
    <3>1. PICK c : c = chunkCh[i]
      OBVIOUS
    <3>2. c \in DChunks /\ c.id # ch.id /\ DAsked(c, 0)
      BY <1>1, <1>4, <1>6, <2>1, <3>1, ChunksTyped DEF DOwned, DApart
    <3> QED BY <1>3, <1>18, <3>1, <3>2
  <2>4. DSending' => DAsked(mu.ch, 0)'
    <3> SUFFICES ASSUME DSending PROVE DAsked(mu.ch, 0)'
      BY <1>3 DEF DSending
    <3>1. PICK c : c = mu.ch
      OBVIOUS
    <3>2. c \in DChunks /\ c.id # ch.id /\ DAsked(c, 0)
      BY <1>1, <1>4, <1>6, <2>1, <3>1, ChunksTyped DEF DOwned, DApart
    <3> QED BY <1>3, <1>18, <3>1, <3>2
  <2>5. \A v \in DWorkers : DHolds(v)' => DHolds(v) /\ work'[v].ch = work[v].ch
    BY <1>1, <1>6, <1>7, <1>8 DEF DHolds
  <2>6. DApart'
    BY <1>3, <2>1, <2>5 DEF DApart, DSending
  <2> QED BY <1>3, <2>2, <2>3, <2>4, <2>6 DEF DOwned
<1>21. DSlotsKept'
  <2>1. DActive' = DActive /\ DHeldByReader' = DHeldByReader
    BY <1>3, <1>7, <1>8 DEF DActive, DHeldByReader
  <2> QED BY <1>3, <2>1 DEF DownInv, DSlotsKept, DHeld
<1> QED BY <1>11, <1>12, <1>13, <1>14, <1>17, <1>20, <1>21 DEF DownInv, DRunning

-----------------------------------------------------------------------------
(* Read *)

\* No chunk is taken from the reader, and none changes its buffer or loses bytes.
DChunksStay ==
  DLive' => /\ DLive
            /\ \A k \in DUnread : /\ rdr'.pos <= k /\ DBufOf(k)' = DBufOf(k)
                                  /\ Len(bufs'[DBufOf(k)].data) = Len(bufs[DBufOf(k)].data)

LEMMA AskedKept ==
  ASSUME DTyped, DTyped', DRunning, d'.start = d.start, d'.len = d.len, d.next <= d'.next, DChunksStay
  PROVE  DAskedStay
<1>1. /\ DLive' => DLive
      /\ DLive' => \A k \in DUnread : k # -1 /\ Len(bufs[DBufOf(k)].data) < DChunkSize(d.len, k) =>
                      /\ rdr'.pos <= k /\ DBufOf(k)' = DBufOf(k)
                      /\ Len(bufs'[DBufOf(k)].data) = Len(bufs[DBufOf(k)].data)
  BY DEF DChunksStay
<1>2. -1 \in Int
  OBVIOUS
<1>3. \A c \in DChunks, m \in Nat : c.id # -1 /\ DAsked(c, m) => DAsked(c, m)'
  BY <1>1, <1>2, AskedMoves
<1>4. ASSUME NEW c \in DChunks, NEW m \in Nat, DAsked(c, m) PROVE DAsked(c, m)'
  <2>1. c.id # -1
    BY <1>4 DEF DAsked
  <2> QED BY <1>3, <1>4, <2>1
<1> QED BY <1>4 DEF DAskedStay

\* A step of Read touches the buffers and the reader's place only.
DReads == {"pop", "read", "finish", "fsend"}
DReadDone == {"eof", "failed"}

LEMMA ReaderKeeps ==
  ASSUME DownInv, DRunning, UNCHANGED <<d, dctx, mu, chunkCh, work, left>>, rdr.pc \in DReads, rdr'.pc \in DReads \cup DReadDone,
         DTypedReader', DTypedBufs', DMapped', DPlaced', DFilled', DAskedStay
  PROVE  DownInv'
<1>1. DTyped /\ DTyped'
  BY DEF DownInv, DTyped, DTypedD, DTypedWork, DTypedMu
<1>2. DCut' /\ DStarted'
  BY DEF DRunning, DCut, DStarted, DReads, DReadDone
<1>3. DOwned'
  <2>1. DHoldersStay
    BY DEF DHoldersStay, DHolds, DCopied, DSending
  <2> QED BY <1>1, <2>1, OwnedStays DEF DRunning
<1>4. DSlotsKept'
  <2>1. DHeldByReader = 0 /\ DHeldByReader' = 0
    BY DEF DHeldByReader, DReads, DReadDone
  <2> QED BY <1>1, <2>1, SlotsStay DEF DownInv, DTyped, DTypedD
<1> QED BY <1>1, <1>2, <1>3, <1>4 DEF DownInv, DRunning, DPlaced

(* The next buffer is there when the reader asks for it.                        *)
LEMMA PopKeeps ==
  ASSUME DownInv, PopBuf
  PROVE  DownInv'
<1>1. rdr.pc = "pop" /\ mu = DFree /\ UNCHANGED <<d, dctx, mu, chunkCh, bufs, work, left>>
  BY DEF PopBuf
<1>2. DTyped /\ DRunning /\ DMapped /\ DPlaced /\ DFilled
  BY <1>1, ReaderRuns DEF DRunning
<1>3. PICK q \in Nat : q = rdr.pos
  BY <1>2 DEF DTyped, DTypedReader
<1>4. PICK k \in Nat : k = d.next
  BY <1>2 DEF DTyped, DTypedD
<1>5. q < k /\ q \in DOMAIN bufMap /\ Len(rdr.got) = DOffset(d.len, q) /\ DBytes(rdr.got, d.start)
  <2>1. q < k /\ Len(rdr.got) = DOffset(d.len, q) /\ DBytes(rdr.got, d.start)
    BY <1>1, <1>2, <1>3, <1>4 DEF DPlaced
  <2> QED BY <1>1, <1>2, <1>3, <1>4, <2>1 DEF DMapped, DReading
<1>6. PICK b \in DOMAIN bufs : b = bufMap[q]
  BY <1>2, <1>5 DEF DTyped, DTypedBufs
<1>7. bufMap' = DSet(DDrop(bufMap, q), -1, b) /\ rdr' = [rdr EXCEPT !.pc = "read", !.cur = b]
  BY <1>3, <1>5, <1>6 DEF PopBuf
<1>8. /\ DOMAIN bufMap' = (DOMAIN bufMap \ {q}) \cup {-1} /\ bufMap'[-1] = b
      /\ \A j \in DOMAIN bufMap' : j # -1 => bufMap'[j] = bufMap[j]
  BY <1>7 DEF DSet, DDrop
<1>9. /\ DTypedReader' /\ rdr'.pc = "read" /\ rdr'.pos = q /\ rdr'.cur = b /\ rdr'.got = rdr.got
  <2>1. b \in Nat
    BY <1>2, BufferTyped
  <2> QED BY <1>2, <1>3, <1>7, <2>1 DEF DTyped, DTypedReader, DReaderPcs
<1>10. DTypedBufs'
  BY <1>1, <1>2, <1>8, <1>6 DEF DTyped, DTypedBufs
<1>11. DMapped'
  <2>1. /\ \A j \in Nat : j >= q /\ j < k => j \in DOMAIN bufMap
        /\ \A j \in DOMAIN bufMap \ {-1} : j >= q /\ j <= k
        /\ k \in DOMAIN bufMap => k = DMaxPart(d.len)
    BY <1>1, <1>2, <1>3, <1>4 DEF DMapped, DReading
  <2>2. \A j \in Nat : j >= q /\ j < k /\ j # q => j \in DOMAIN bufMap'
    BY <1>8, <2>1
  <2>3. \A j \in DOMAIN bufMap' \ {-1} : j >= q /\ j <= k /\ j # q
    BY <1>8, <2>1
  <2>4. k \in DOMAIN bufMap' => k = DMaxPart(d.len)
    BY <1>8, <2>1
  <2> QED BY <1>1, <1>4, <1>9, <2>2, <2>3, <2>4 DEF DMapped
<1>12. DPlaced'
  <2>1. mu'.by # DReader
    BY <1>1 DEF DFree, DReader
  <2> QED BY <1>1, <1>4, <1>5, <1>9, <2>1 DEF DPlaced
<1>13. \A j \in DUnread : j \in Nat /\ DBufOf(j)' = DBufOf(j)
  <2> SUFFICES ASSUME NEW j \in DUnread PROVE j \in Nat /\ DBufOf(j)' = DBufOf(j)
    OBVIOUS
  <2>1. j \in Nat /\ j >= q /\ j < k
    BY <1>3, <1>4 DEF DUnread
  <2>2. j \in DOMAIN bufMap
    BY <1>1, <1>2, <1>3, <1>4, <2>1 DEF DMapped, DReading
  <2>3. CASE j = q
    BY <1>6, <1>8, <1>9, <2>2, <2>3 DEF DBufOf
  <2>4. CASE j # q
    BY <1>8, <2>1, <2>2, <2>4 DEF DBufOf
  <2> QED BY <2>1, <2>3, <2>4
<1>14. DUnread' = DUnread /\ (DLive' <=> DLive)
  BY <1>1, <1>3, <1>9 DEF DUnread, DLive, DReading
<1>15. DFilled'
  <2> SUFFICES ASSUME DLive PROVE DFilled'
    BY <1>14 DEF DFilled
  <2>1. ASSUME NEW j \in DUnread
        PROVE  /\ DBufOf(j) \in DOMAIN bufs
               /\ bufs[DBufOf(j)].limit = DChunkSize(d.len, j)
               /\ DBytes(bufs[DBufOf(j)].data, d.start + DOffset(d.len, j))
               /\ Len(bufs[DBufOf(j)].data) <= DChunkSize(d.len, j)
               /\ bufs[DBufOf(j)].read <= Len(bufs[DBufOf(j)].data)
               /\ bufs[DBufOf(j)].read = 0
    BY <1>1, <1>2 DEF DFilled
  <2>2. \A i, j \in DUnread : i # j => DBufOf(i) # DBufOf(j)
    BY <1>2 DEF DFilled
  <2>3. k \in DOMAIN bufMap' => \A j \in DUnread : bufMap'[k] # DBufOf(j)
    BY <1>2, <1>4, <1>8 DEF DFilled
  <2>4. q \in DUnread => Len(rdr.got) - DOffset(d.len, q) = 0
    <3>1. ASSUME q \in DUnread PROVE DOffset(d.len, q) \in Nat
      BY <1>2, <3>1, Unread
    <3> QED BY <1>5, <3>1
  <2>5. ASSUME NEW j \in DUnread
        PROVE  bufs[DBufOf(j)].read = IF rdr'.pc = "read" /\ j = rdr'.pos THEN Len(rdr'.got) - DOffset(d.len, j) ELSE 0
    BY <1>9, <2>1, <2>4
  <2>6. rdr'.pc # "finish"
    BY <1>9
  <2>7. ASSUME NEW j \in DUnread'
        PROVE  /\ DBufOf(j)' \in DOMAIN bufs'
               /\ bufs'[DBufOf(j)'].limit = DChunkSize(d'.len, j)
               /\ DBytes(bufs'[DBufOf(j)'].data, d'.start + DOffset(d'.len, j))
               /\ Len(bufs'[DBufOf(j)'].data) <= DChunkSize(d'.len, j)
               /\ bufs'[DBufOf(j)'].read <= Len(bufs'[DBufOf(j)'].data)
               /\ bufs'[DBufOf(j)'].read = IF rdr'.pc = "read" /\ j = rdr'.pos THEN Len(rdr'.got) - DOffset(d'.len, j) ELSE 0
    <3>1. j \in DUnread /\ DBufOf(j)' = DBufOf(j) /\ bufs' = bufs /\ d' = d
      BY <1>1, <1>13, <1>14
    <3> QED BY <2>1, <2>5, <3>1
  <2>8. \A i, j \in DUnread' : i # j => DBufOf(i)' # DBufOf(j)'
    BY <1>13, <1>14, <2>2
  <2>9. d'.next \in DOMAIN bufMap' => \A j \in DUnread' : bufMap'[d'.next] # DBufOf(j)'
    BY <1>1, <1>4, <1>13, <1>14, <2>3
  <2> QED BY <2>6, <2>7, <2>8, <2>9 DEF DFilled
<1>16. DAskedStay
  <2>1. DChunksStay
    BY <1>1, <1>2, <1>3, <1>9, <1>13, <1>14, Unread DEF DChunksStay
  <2>2. d.next <= d'.next /\ d'.start = d.start /\ d'.len = d.len
    BY <1>1, <1>4
  <2>3. DTyped'
    BY <1>1, <1>2, <1>9, <1>10 DEF DTyped, DTypedD, DTypedWork, DTypedMu
  <2> QED BY <1>2, <2>1, <2>2, <2>3, AskedKept
<1> QED BY <1>1, <1>2, <1>9, <1>10, <1>11, <1>12, <1>15, <1>16, ReaderKeeps DEF DReads

(* What the reader reads from belongs to the chunk it is at.                    *)
LEMMA ReadsHere ==
  ASSUME DTyped, DRunning, rdr.pc = "read"
  PROVE  /\ rdr.pos \in Nat /\ rdr.pos < d.next /\ rdr.pos \in DUnread /\ DBufOf(rdr.pos) = rdr.cur
         /\ rdr.cur \in DOMAIN bufs /\ rdr.cur # 0
<1>1. rdr.pos \in Nat /\ d.next \in Nat /\ rdr.pos < d.next /\ rdr.cur \in DOMAIN bufs
  BY DEF DTyped, DTypedReader, DTypedD, DRunning, DPlaced
<1>2. rdr.pos \notin DOMAIN bufMap
  BY <1>1 DEF DRunning, DMapped, DReading
<1> QED BY <1>1, <1>2, BufferTyped DEF DUnread, DBufOf

LEMMA ReadKeeps ==
  ASSUME DownInv, ReadBytes
  PROVE  DownInv'
<1>1. rdr.pc = "read" /\ dctx = "live" /\ UNCHANGED <<d, dctx, mu, chunkCh, bufMap, work, left>>
  BY DEF ReadBytes
<1>2. DTyped /\ DRunning /\ DMapped /\ DPlaced /\ DFilled /\ DLive /\ DReading
  BY <1>1, ReaderRuns DEF DRunning, DLive, DReading
<1>3. PICK q \in Nat : q = rdr.pos
  BY <1>2 DEF DTyped, DTypedReader
<1>4. PICK k \in Nat : k = d.next
  BY <1>2 DEF DTyped, DTypedD
<1>5. PICK b \in DOMAIN bufs : b = rdr.cur /\ b = DBufOf(q) /\ q < k /\ q \in DUnread
  BY <1>1, <1>2, <1>3, <1>4, ReadsHere
<1>6. PICK s \in Seq(Nat), n \in Nat : s = bufs[b].data /\ n = bufs[b].read /\ Len(s) \in Nat /\ bufs[b] \in DBuffers
  BY <1>2, BufferTyped
<1>7. PICK t : t = SubSeq(s, n + 1, Len(s))
  OBVIOUS
<1>8. n < Len(s) /\ rdr' = [rdr EXCEPT !.got = @ \o t] /\ bufs' = [bufs EXCEPT ![b].read = Len(s)]
  BY <1>5, <1>6, <1>7 DEF ReadBytes
<1>9. PICK g \in Seq(Nat) : g = rdr.got
  BY <1>2 DEF DTyped, DTypedReader
<1>10. PICK f, o \in Nat : f = d.start /\ o = DOffset(d.len, q)
  BY <1>2, <1>5, Unread DEF DTyped, DTypedD
<1>11. DBytes(g, f) /\ DBytes(s, f + o) /\ n = Len(g) - o /\ Len(g) \in Nat /\ Len(s) <= DChunkSize(d.len, q)
       /\ bufs[b].limit = DChunkSize(d.len, q)
  <2>1. /\ bufs[DBufOf(q)].limit = DChunkSize(d.len, q)
        /\ DBytes(bufs[DBufOf(q)].data, d.start + DOffset(d.len, q))
        /\ Len(bufs[DBufOf(q)].data) <= DChunkSize(d.len, q)
        /\ bufs[DBufOf(q)].read = IF rdr.pc = "read" /\ q = rdr.pos THEN Len(rdr.got) - DOffset(d.len, q) ELSE 0
    BY <1>2, <1>5 DEF DFilled
  <2>2. bufs[b].read = Len(rdr.got) - DOffset(d.len, q)
    BY <1>1, <1>3, <1>5, <2>1
  <2>3. DBytes(rdr.got, d.start)
    BY <1>2 DEF DPlaced
  <2>4. Len(g) \in Nat
    OBVIOUS
  <2> QED BY <1>5, <1>6, <1>9, <1>10, <2>1, <2>2, <2>3, <2>4
<1>12. t \in Seq(Nat) /\ Len(t) = Len(s) - n /\ DBytes(t, f + Len(g))
  <2>1. t \in Seq(Nat) /\ Len(t) = Len(s) - n /\ DBytes(t, f + o + n)
    <3>1. PICK e \in Nat : e = f + o
      BY <1>10
    <3>2. DBytes(s, e)
      BY <1>11, <3>1
    <3>3. t \in Seq(Nat) /\ Len(t) = Len(s) - n /\ DBytes(t, e + n)
      BY <1>7, <1>8, <3>2, BytesRest
    <3> QED BY <3>1, <3>3
  <2>2. f + o + n = f + Len(g)
    BY <1>10, <1>11
  <2> QED BY <2>1, <2>2
<1>13. g \o t \in Seq(Nat) /\ DBytes(g \o t, f) /\ Len(g \o t) = Len(g) + Len(t)
  BY <1>9, <1>10, <1>11, <1>12, BytesFollow
<1>14. PICK h \in Seq(Nat) : h = g \o t /\ DBytes(h, f) /\ Len(h) = Len(g) + Len(t)
  BY <1>13
<1>15. DTypedReader' /\ rdr'.pc = "read" /\ rdr'.pos = q /\ rdr'.cur = b /\ rdr'.got = h
  <2>1. rdr' = [rdr EXCEPT !.got = h]
    BY <1>8, <1>9, <1>14
  <2> QED BY <1>1, <1>2, <1>3, <1>5, <2>1 DEF DTyped, DTypedReader
<1>16. Len(s) = Len(h) - o
  <2>1. n = Len(g) - o /\ Len(t) = Len(s) - n /\ Len(h) = Len(g) + Len(t)
    BY <1>11, <1>12, <1>14
  <2>2. Len(g) \in Int /\ Len(t) \in Int /\ Len(s) \in Int /\ Len(h) \in Int
    BY <1>6, <1>12
  <2> QED BY <2>1, <2>2, RestRead
<1> DEFINE y == [bufs[b] EXCEPT !.read = Len(s)]
<1>17. y \in DBuffers /\ y.data = s /\ y.limit = bufs[b].limit /\ y.read = Len(s)
  BY <1>6 DEF DBuffers
<1>18. bufs' = [bufs EXCEPT ![b] = y]
  BY <1>8
<1> HIDE DEF y
<1>19. /\ bufs' \in Seq(DBuffers) /\ DOMAIN bufs' = DOMAIN bufs /\ bufs'[b] = y
       /\ \A i \in DOMAIN bufs : i # b => bufs'[i] = bufs[i]
  <2>1. PICK v \in Seq(DBuffers) : v = bufs
    BY <1>2 DEF DTyped, DTypedBufs
  <2>2. PICK z \in DBuffers : z = y
    BY <1>17
  <2>3. b \in DOMAIN v /\ bufs' = [v EXCEPT ![b] = z]
    BY <1>18, <2>1, <2>2
  <2> QED BY <2>1, <2>2, <2>3, BufferChange
<1>20. DTypedBufs'
  BY <1>1, <1>2, <1>19 DEF DTyped, DTypedBufs
<1>21. DMapped'
  BY <1>1, <1>2, <1>3, <1>15 DEF DMapped, DReading
<1>22. DPlaced'
  BY <1>1, <1>2, <1>3, <1>5, <1>10, <1>14, <1>15, <1>19 DEF DPlaced
<1>23. DUnread' = DUnread /\ DLive' /\ \A j \in DUnread : DBufOf(j)' = DBufOf(j)
  BY <1>1, <1>2, <1>3, <1>5, <1>15 DEF DUnread, DLive, DReading, DBufOf
<1>24. \A j \in DUnread : j # q => DBufOf(j) \in DOMAIN bufs /\ DBufOf(j) # b
  BY <1>2, <1>5 DEF DFilled
<1>25. DFilled'
  <2>1. ASSUME NEW j \in DUnread
        PROVE  /\ DBufOf(j) \in DOMAIN bufs'
               /\ bufs'[DBufOf(j)].limit = DChunkSize(d.len, j)
               /\ DBytes(bufs'[DBufOf(j)].data, d.start + DOffset(d.len, j))
               /\ Len(bufs'[DBufOf(j)].data) <= DChunkSize(d.len, j)
               /\ bufs'[DBufOf(j)].read <= Len(bufs'[DBufOf(j)].data)
               /\ bufs'[DBufOf(j)].read = IF rdr'.pc = "read" /\ j = rdr'.pos THEN Len(rdr'.got) - DOffset(d.len, j) ELSE 0
    <3>1. CASE j = q
      <4>1. DBufOf(j) = b /\ bufs'[b] = y /\ b \in DOMAIN bufs' /\ j = rdr'.pos
        BY <1>5, <1>15, <1>19, <3>1
      <4>2. y.limit = DChunkSize(d.len, j) /\ DBytes(y.data, d.start + DOffset(d.len, j)) /\ Len(y.data) <= DChunkSize(d.len, j)
        BY <1>10, <1>11, <1>17, <3>1
      <4>3. y.read <= Len(y.data) /\ y.read = Len(rdr'.got) - DOffset(d.len, j)
        BY <1>6, <1>10, <1>15, <1>16, <1>17, <3>1
      <4> QED BY <1>15, <4>1, <4>2, <4>3
    <3>2. CASE j # q
      <4>1. bufs'[DBufOf(j)] = bufs[DBufOf(j)] /\ DBufOf(j) \in DOMAIN bufs'
        BY <1>19, <1>24, <3>2
      <4> QED BY <1>2, <1>3, <1>15, <3>2, <4>1 DEF DFilled
    <3> QED BY <3>1, <3>2
  <2>2. \A i, j \in DUnread : i # j => DBufOf(i) # DBufOf(j)
    BY <1>2 DEF DFilled
  <2>3. d.next \in DOMAIN bufMap => \A j \in DUnread : bufMap[d.next] # DBufOf(j)
    BY <1>2 DEF DFilled
  <2>4. rdr'.pc # "finish"
    BY <1>15
  <2>5. \A j \in DUnread' : j \in DUnread /\ DBufOf(j)' = DBufOf(j)
    BY <1>23
  <2>6. d' = d /\ bufMap' = bufMap
    BY <1>1
  <2>7. ASSUME NEW j \in DUnread'
        PROVE  /\ DBufOf(j)' \in DOMAIN bufs'
               /\ bufs'[DBufOf(j)'].limit = DChunkSize(d'.len, j)
               /\ DBytes(bufs'[DBufOf(j)'].data, d'.start + DOffset(d'.len, j))
               /\ Len(bufs'[DBufOf(j)'].data) <= DChunkSize(d'.len, j)
               /\ bufs'[DBufOf(j)'].read <= Len(bufs'[DBufOf(j)'].data)
               /\ bufs'[DBufOf(j)'].read = IF rdr'.pc = "read" /\ j = rdr'.pos THEN Len(rdr'.got) - DOffset(d'.len, j) ELSE 0
    BY <2>1, <2>5, <2>6
  <2>8. /\ \A i, j \in DUnread' : i # j => DBufOf(i)' # DBufOf(j)'
        /\ d'.next \in DOMAIN bufMap' => \A j \in DUnread' : bufMap'[d'.next] # DBufOf(j)'
    BY <2>2, <2>3, <2>5, <2>6
  <2> QED BY <2>4, <2>7, <2>8 DEF DFilled
<1>26. DAskedStay
  <2>1. DChunksStay
    <3> SUFFICES ASSUME NEW j \in DUnread PROVE rdr'.pos <= j /\ Len(bufs'[DBufOf(j)].data) = Len(bufs[DBufOf(j)].data)
      BY <1>2, <1>23 DEF DChunksStay
    <3>1. rdr'.pos <= j
      BY <1>2, <1>3, <1>15, Unread
    <3>2. CASE j = q
      <4>1. DBufOf(j) = b
        BY <1>5, <3>2
      <4>2. bufs'[b].data = s /\ bufs[b].data = s
        BY <1>6, <1>17, <1>19
      <4> QED BY <3>1, <4>1, <4>2
    <3>3. CASE j # q
      <4>1. bufs'[DBufOf(j)] = bufs[DBufOf(j)]
        BY <1>19, <1>24, <3>3
      <4> QED BY <3>1, <4>1
    <3> QED BY <3>1, <3>2, <3>3
  <2>2. d.next <= d'.next /\ d'.start = d.start /\ d'.len = d.len
    BY <1>1, <1>4
  <2>3. DTyped'
    BY <1>1, <1>2, <1>15, <1>20 DEF DTyped, DTypedD, DTypedWork, DTypedMu
  <2> QED BY <1>2, <2>1, <2>2, <2>3, AskedKept
<1> QED BY <1>1, <1>2, <1>15, <1>20, <1>21, <1>22, <1>25, <1>26, ReaderKeeps DEF DReads

(* The end of a buffer is the end of its chunk, and of the last one, of the     *)
(* range.                                                                       *)
LEMMA EndKeeps ==
  ASSUME DownInv, ReadEnds
  PROVE  DownInv'
<1>1. rdr.pc = "read" /\ UNCHANGED <<d, dctx, mu, chunkCh, bufMap, bufs, work, left>>
  BY DEF ReadEnds
<1>2. DTyped /\ DRunning /\ DMapped /\ DPlaced /\ DFilled /\ DReading
  BY <1>1, ReaderRuns DEF DRunning, DReading
<1>3. PICK q \in Nat : q = rdr.pos
  BY <1>2 DEF DTyped, DTypedReader
<1>4. PICK k \in Nat : k = d.next
  BY <1>2 DEF DTyped, DTypedD
<1>5. PICK b \in DOMAIN bufs : b = rdr.cur /\ b = DBufOf(q) /\ q < k /\ q \in DUnread /\ b # 0
  BY <1>1, <1>2, <1>3, <1>4, ReadsHere
<1>6. d' = d /\ bufMap' = bufMap /\ bufs' = bufs /\ DTypedBufs' /\ mu'.by # DReader
  BY <1>1, <1>2 DEF DTyped, DTypedBufs, DPlaced
<1>7. CASE dctx # "live" /\ rdr' = [rdr EXCEPT !.pc = "failed"]
  <2>1. DTypedReader' /\ rdr'.pc = "failed" /\ rdr'.got = rdr.got
    BY <1>2, <1>7, ReaderField DEF DTyped, DReaderPcs
  <2>2. ~DLive' /\ ~DReading'
    BY <2>1 DEF DLive, DReading
  <2>3. DMapped' /\ DFilled'
    BY <2>2 DEF DMapped, DFilled
  <2>4. DPlaced'
    BY <1>2, <1>6, <2>1 DEF DPlaced
  <2>5. DAskedStay
    BY <1>6, <2>2, AskedIdle
  <2> QED BY <1>1, <1>2, <1>6, <2>1, <2>3, <2>4, <2>5, ReaderKeeps DEF DReads, DReadDone
<1>8. CASE /\ dctx = "live" /\ bufs[rdr.cur].read >= bufs[rdr.cur].limit
           /\ rdr' = [rdr EXCEPT !.pos = @ + 1, !.pc = IF IsLast(rdr.pos) THEN "eof" ELSE "finish"]
  <2>1. DLive
    BY <1>2, <1>8 DEF DLive
  <2>2. PICK n, l \in Nat : n = bufs[b].read /\ l = Len(bufs[b].data)
    BY <1>2, BufferTyped
  <2>3. PICK o, z \in Nat : o = DOffset(d.len, q) /\ z = DChunkSize(d.len, q) /\ DOffset(d.len, q + 1) = o + z
    BY <1>2, <1>5, Unread
  <2>4. /\ bufs[DBufOf(q)].limit = DChunkSize(d.len, q)
        /\ Len(bufs[DBufOf(q)].data) <= DChunkSize(d.len, q)
        /\ bufs[DBufOf(q)].read <= Len(bufs[DBufOf(q)].data)
        /\ bufs[DBufOf(q)].read = IF rdr.pc = "read" /\ q = rdr.pos THEN Len(rdr.got) - DOffset(d.len, q) ELSE 0
    BY <1>2, <1>5, <2>1 DEF DFilled
  <2>5. n >= z /\ l <= z /\ n <= l /\ n = Len(rdr.got) - o
    BY <1>1, <1>3, <1>5, <1>8, <2>2, <2>3, <2>4
  <2>6. Len(rdr.got) = o + z /\ l = z
    <3>1. PICK g \in Nat : g = Len(rdr.got)
      BY <1>2 DEF DTyped, DTypedReader
    <3>2. n = g - o /\ n = z /\ l = z
      BY <2>5, <3>1
    <3>3. g = o + z
      BY <3>2
    <3> QED BY <3>1, <3>2, <3>3
  <2>7. PICK m \in Nat : m = DMaxPart(d.len) /\ k <= m /\ DOffset(d.len, m) = d.len
    BY <1>2, <1>4, ChunksFill DEF DRunning, DCut, DTyped, DTypedD
  <2>8. IsLast(q) <=> q + 1 = m
    BY <1>5, <2>7 DEF IsLast
  <2>9. PICK pc \in {"eof", "finish"} : pc = (IF IsLast(q) THEN "eof" ELSE "finish") /\ (pc = "eof" <=> q + 1 = m)
    BY <2>8
  <2>10. /\ DTypedReader' /\ rdr'.pc = pc /\ rdr'.pos = q + 1 /\ rdr'.cur = b /\ rdr'.got = rdr.got
    <3>1. PICK r \in Nat : r = q + 1
      OBVIOUS
    <3>2. rdr' = [rdr EXCEPT !.pos = r, !.pc = pc]
      BY <1>3, <1>8, <2>9, <3>1
    <3> QED BY <1>2, <1>5, <3>1, <3>2 DEF DTyped, DTypedReader, DReaderPcs
  <2>11. DTyped'
    BY <1>1, <1>2, <1>6, <2>10 DEF DTyped, DTypedD, DTypedWork, DTypedMu
  <2>12. /\ \A j \in Nat : j >= q /\ j < k /\ j # q => j \in DOMAIN bufMap
         /\ \A j \in DOMAIN bufMap \ {-1} : j >= q /\ j <= k /\ j # q /\ j \in Nat
         /\ k \in DOMAIN bufMap => k = m
    BY <1>1, <1>2, <1>3, <1>4, <2>7 DEF DMapped, DTyped, DTypedBufs
  <2>13. DMapped'
    <3>1. \A j \in Nat : j >= q + 1 /\ j < k => j \in DOMAIN bufMap
      BY <2>12
    <3>2. \A j \in DOMAIN bufMap \ {-1} : j >= q + 1 /\ j <= k
      BY <2>12
    <3>3. rdr'.pc # "read"
      BY <2>10
    <3> QED BY <1>4, <1>6, <2>7, <2>10, <2>12, <3>1, <3>2, <3>3 DEF DMapped
  <2>14. DPlaced'
    <3>1. pc = "eof" => Len(rdr.got) = d.len
      BY <2>3, <2>6, <2>7, <2>9
    <3>2. pc = "finish" => Len(rdr.got) = DOffset(d.len, q + 1) /\ q + 1 <= k /\ q + 1 < m
      BY <1>5, <2>3, <2>6, <2>7, <2>9
    <3> QED BY <1>2, <1>4, <1>5, <1>6, <2>7, <2>9, <2>10, <3>1, <3>2 DEF DPlaced
  <2>15. DUnread = q .. k - 1 /\ DUnread' = q + 1 .. k - 1
    BY <1>3, <1>4, <1>6, <2>10 DEF DUnread
  <2>16. DUnread' = DUnread \ {q} /\ \A j \in DUnread : DBufOf(j)' = DBufOf(j)
    <3>1. DUnread' = DUnread \ {q}
      BY <1>5, <2>15
    <3>2. \A j \in DUnread : DBufOf(j)' = DBufOf(j)
      BY <1>5, <1>6, <2>10 DEF DBufOf
    <3> QED BY <3>1, <3>2
  <2>17. DFilled'
    <3>1. ASSUME NEW j \in DUnread'
          PROVE  /\ DBufOf(j)' \in DOMAIN bufs'
                 /\ bufs'[DBufOf(j)'].limit = DChunkSize(d'.len, j)
                 /\ DBytes(bufs'[DBufOf(j)'].data, d'.start + DOffset(d'.len, j))
                 /\ Len(bufs'[DBufOf(j)'].data) <= DChunkSize(d'.len, j)
                 /\ bufs'[DBufOf(j)'].read <= Len(bufs'[DBufOf(j)'].data)
                 /\ bufs'[DBufOf(j)'].read = IF rdr'.pc = "read" /\ j = rdr'.pos THEN Len(rdr'.got) - DOffset(d'.len, j) ELSE 0
      <4>1. j \in DUnread /\ j # q /\ DBufOf(j)' = DBufOf(j) /\ rdr'.pc # "read"
        BY <2>9, <2>10, <2>16
      <4>2. /\ DBufOf(j) \in DOMAIN bufs
            /\ bufs[DBufOf(j)].limit = DChunkSize(d.len, j)
            /\ DBytes(bufs[DBufOf(j)].data, d.start + DOffset(d.len, j))
            /\ Len(bufs[DBufOf(j)].data) <= DChunkSize(d.len, j)
            /\ bufs[DBufOf(j)].read <= Len(bufs[DBufOf(j)].data)
            /\ bufs[DBufOf(j)].read = 0
        BY <1>2, <1>3, <2>1, <4>1 DEF DFilled
      <4> QED BY <1>6, <4>1, <4>2
    <3>2. \A i, j \in DUnread' : i # j => DBufOf(i)' # DBufOf(j)'
      BY <1>2, <2>1, <2>16 DEF DFilled
    <3>3. d'.next \in DOMAIN bufMap' => \A j \in DUnread' : bufMap'[d'.next] # DBufOf(j)'
      BY <1>2, <1>6, <2>1, <2>16 DEF DFilled
    <3>4. \A j \in DUnread' : rdr'.cur # DBufOf(j)'
      BY <1>2, <1>5, <2>1, <2>10, <2>16 DEF DFilled
    <3> QED BY <3>1, <3>2, <3>3, <3>4 DEF DFilled
  <2>18. DAskedStay
    <3>1. DLive' => DLive
      BY <2>1
    <3>2. ASSUME NEW j \in DUnread, j # -1, Len(bufs[DBufOf(j)].data) < DChunkSize(d.len, j)
          PROVE  rdr'.pos <= j /\ DBufOf(j)' = DBufOf(j) /\ Len(bufs'[DBufOf(j)].data) = Len(bufs[DBufOf(j)].data)
      <4>1. j # q
        <5>1. DBufOf(q) = b /\ Len(bufs[b].data) = z
          BY <1>5, <2>2, <2>6
        <5>2. ~(z < z)
          OBVIOUS
        <5> QED BY <2>3, <3>2, <5>1, <5>2
      <4>2. j \in Nat /\ q + 1 <= j
        BY <2>15, <4>1
      <4> QED BY <1>6, <2>10, <2>16, <4>2
    <3>3. d.next <= d'.next /\ d'.start = d.start /\ d'.len = d.len /\ -1 \in Int
      BY <1>4, <1>6
    <3>4. \A c \in DChunks, i \in Nat : c.id # -1 /\ DAsked(c, i) => DAsked(c, i)'
      BY <1>2, <2>11, <3>1, <3>2, <3>3, AskedMoves
    <3>5. ASSUME NEW c \in DChunks, NEW i \in Nat, DAsked(c, i) PROVE DAsked(c, i)'
      <4>1. c.id # -1
        BY <3>5 DEF DAsked
      <4> QED BY <3>4, <3>5, <4>1
    <3> QED BY <3>5 DEF DAskedStay
  <2> QED BY <1>1, <1>2, <1>6, <2>10, <2>13, <2>14, <2>17, <2>18, ReaderKeeps DEF DReads, DReadDone
<1>9. rdr.cur # 0
  BY <1>5
<1> QED BY <1>7, <1>8, <1>9 DEF ReadEnds

(* The buffer that was read waits for the next chunk, or is closed after the    *)
(* last one was sent.                                                           *)
LEMMA FinishKeeps ==
  ASSUME DownInv, FinishBuf
  PROVE  DownInv'
<1>1. rdr.pc = "finish" /\ mu = DFree /\ UNCHANGED <<d, dctx, mu, chunkCh, work, left>>
  BY DEF FinishBuf
<1>2. DTyped /\ DRunning /\ DMapped /\ DPlaced /\ DFilled /\ DReading
  BY <1>1, ReaderRuns DEF DRunning, DReading
<1>3. PICK q \in Nat : q = rdr.pos
  BY <1>2 DEF DTyped, DTypedReader
<1>4. PICK k \in Nat : k = d.next
  BY <1>2 DEF DTyped, DTypedD
<1>5. PICK b \in DOMAIN bufs : b = rdr.cur
  BY <1>1, <1>2 DEF DPlaced
<1>6. q <= k /\ q < DMaxPart(d.len) /\ Len(rdr.got) = DOffset(d.len, q) /\ DBytes(rdr.got, d.start)
  BY <1>1, <1>2, <1>3, <1>4 DEF DPlaced
<1>7. /\ \A j \in Nat : j >= q /\ j < k => j \in DOMAIN bufMap
      /\ \A j \in DOMAIN bufMap \ {-1} : j >= q /\ j <= k
      /\ k \in DOMAIN bufMap => k = DMaxPart(d.len)
  BY <1>1, <1>2, <1>3, <1>4 DEF DMapped
<1>8. mu'.by # DReader /\ mu.by # DReader /\ d' = d
  BY <1>1 DEF DFree, DReader
<1>9. \A j \in DUnread : j \in Nat /\ q <= j /\ j < k /\ j \in DOMAIN bufMap
  BY <1>3, <1>4, <1>7 DEF DUnread
<1>10. PICK pc \in {"fsend", "pop"} : /\ rdr' = [rdr EXCEPT !.pc = pc]
                                      /\ pc = "fsend" => k \notin DOMAIN bufMap /\ bufMap' = DSet(bufMap, k, b) /\ bufs' = bufs
                                      /\ pc = "pop" => k \in DOMAIN bufMap /\ bufs' = [bufs EXCEPT ![b].open = FALSE] /\ bufMap' = bufMap
  BY <1>4, <1>5 DEF FinishBuf
<1>11. DTypedReader' /\ rdr'.pc = pc /\ rdr'.pos = q /\ rdr'.cur = b /\ rdr'.got = rdr.got
  BY <1>2, <1>3, <1>5, <1>10, ReaderField DEF DTyped, DReaderPcs
<1>12. /\ pc = "fsend" => /\ DOMAIN bufMap' = DOMAIN bufMap \cup {k} /\ bufMap'[k] = b
                          /\ \A j \in DOMAIN bufMap : bufMap'[j] = bufMap[j]
       /\ pc = "pop" => bufMap' = bufMap /\ k = DMaxPart(d.len)
  BY <1>7, <1>10 DEF DSet
<1>13. /\ bufs' \in Seq(DBuffers) /\ DOMAIN bufs' = DOMAIN bufs
       /\ \A i \in DOMAIN bufs : /\ bufs'[i].data = bufs[i].data /\ bufs'[i].limit = bufs[i].limit /\ bufs'[i].read = bufs[i].read
  <2>1. CASE pc = "fsend"
    BY <1>2, <1>10, <2>1 DEF DTyped, DTypedBufs
  <2>2. CASE pc = "pop"
    <3>1. PICK y : y = [bufs[b] EXCEPT !.open = FALSE]
      OBVIOUS
    <3>2. bufs[b] \in DBuffers
      BY <1>2, BufferTyped
    <3>3. y \in DBuffers /\ y.data = bufs[b].data /\ y.limit = bufs[b].limit /\ y.read = bufs[b].read
      BY <3>1, <3>2 DEF DBuffers
    <3>4. PICK v \in Seq(DBuffers) : v = bufs
      BY <1>2 DEF DTyped, DTypedBufs
    <3>5. b \in DOMAIN v /\ bufs' = [v EXCEPT ![b] = y]
      BY <1>10, <2>2, <3>1, <3>4
    <3>6. /\ bufs' \in Seq(DBuffers) /\ DOMAIN bufs' = DOMAIN v /\ bufs'[b] = y
          /\ \A i \in DOMAIN v : i # b => bufs'[i] = v[i]
      BY <3>3, <3>5, BufferChange
    <3> QED BY <3>3, <3>4, <3>6
  <2> QED BY <2>1, <2>2
<1>14. DTypedBufs'
  <2>1. DOMAIN bufMap \subseteq Nat \cup {-1} /\ \A j \in DOMAIN bufMap : bufMap[j] \in DOMAIN bufs
    BY <1>2 DEF DTyped, DTypedBufs
  <2> QED BY <1>12, <1>13, <2>1 DEF DTypedBufs
<1>15. DMapped'
  <2>1. \A j \in Nat : j >= q /\ j < k => j \in DOMAIN bufMap'
    BY <1>7, <1>12
  <2>2. \A j \in DOMAIN bufMap' \ {-1} : j >= q /\ j <= k
    BY <1>6, <1>7, <1>12
  <2>3. k \in DOMAIN bufMap' => pc = "fsend" \/ k = DMaxPart(d.len)
    BY <1>12
  <2> QED BY <1>4, <1>8, <1>11, <2>1, <2>2, <2>3 DEF DMapped
<1>16. DPlaced'
  <2>1. pc = "pop" => q < k
    BY <1>6, <1>12
  <2>2. pc = "fsend" => k \in DOMAIN bufMap'
    BY <1>12
  <2> QED BY <1>4, <1>6, <1>8, <1>11, <2>1, <2>2 DEF DPlaced
<1>17. DUnread' = DUnread /\ \A j \in DUnread : DBufOf(j)' = DBufOf(j) /\ DBufOf(j) = bufMap[j]
  <2>1. DUnread' = DUnread
    BY <1>3, <1>8, <1>11 DEF DUnread
  <2> QED BY <1>9, <1>12, <2>1 DEF DBufOf
<1>18. DLive' <=> DLive
  BY <1>1, <1>2, <1>11 DEF DLive, DReading
<1>19. DFilled'
  <2> SUFFICES ASSUME DLive PROVE DFilled'
    BY <1>18 DEF DFilled
  <2>1. ASSUME NEW j \in DUnread'
        PROVE  /\ DBufOf(j)' \in DOMAIN bufs'
               /\ bufs'[DBufOf(j)'].limit = DChunkSize(d'.len, j)
               /\ DBytes(bufs'[DBufOf(j)'].data, d'.start + DOffset(d'.len, j))
               /\ Len(bufs'[DBufOf(j)'].data) <= DChunkSize(d'.len, j)
               /\ bufs'[DBufOf(j)'].read <= Len(bufs'[DBufOf(j)'].data)
               /\ bufs'[DBufOf(j)'].read = IF rdr'.pc = "read" /\ j = rdr'.pos THEN Len(rdr'.got) - DOffset(d'.len, j) ELSE 0
    <3>1. j \in DUnread /\ DBufOf(j)' = DBufOf(j) /\ rdr'.pc # "read"
      BY <1>11, <1>17
    <3>2. /\ DBufOf(j) \in DOMAIN bufs
          /\ bufs[DBufOf(j)].limit = DChunkSize(d.len, j)
          /\ DBytes(bufs[DBufOf(j)].data, d.start + DOffset(d.len, j))
          /\ Len(bufs[DBufOf(j)].data) <= DChunkSize(d.len, j)
          /\ bufs[DBufOf(j)].read <= Len(bufs[DBufOf(j)].data)
          /\ bufs[DBufOf(j)].read = 0
      BY <1>1, <1>2, <3>1 DEF DFilled
    <3>3. PICK i \in DOMAIN bufs : i = DBufOf(j)
      BY <3>2
    <3>4. bufs'[i].data = bufs[i].data /\ bufs'[i].limit = bufs[i].limit /\ bufs'[i].read = bufs[i].read /\ i \in DOMAIN bufs'
      BY <1>13
    <3> QED BY <1>8, <3>1, <3>2, <3>3, <3>4
  <2>2. \A i, j \in DUnread' : i # j => DBufOf(i)' # DBufOf(j)'
    BY <1>2, <1>17 DEF DFilled
  <2>3. d'.next \in DOMAIN bufMap' => \A j \in DUnread' : bufMap'[d'.next] # DBufOf(j)'
    <3>1. \A j \in DUnread : b # DBufOf(j)
      BY <1>1, <1>2, <1>5 DEF DFilled
    <3>2. k \in DOMAIN bufMap => \A j \in DUnread : bufMap[k] # DBufOf(j)
      BY <1>2, <1>4 DEF DFilled
    <3> QED BY <1>4, <1>8, <1>12, <1>17, <3>1, <3>2
  <2>4. rdr'.pc # "finish"
    BY <1>11
  <2> QED BY <2>1, <2>2, <2>3, <2>4 DEF DFilled
<1>20. DAskedStay
  <2>1. DChunksStay
    <3> SUFFICES ASSUME DLive, NEW j \in DUnread
                 PROVE  rdr'.pos <= j /\ DBufOf(j)' = DBufOf(j) /\ Len(bufs'[DBufOf(j)].data) = Len(bufs[DBufOf(j)].data)
      BY <1>18 DEF DChunksStay
    <3>1. rdr'.pos <= j /\ DBufOf(j)' = DBufOf(j)
      BY <1>9, <1>11, <1>17
    <3>2. PICK i \in DOMAIN bufs : i = DBufOf(j)
      BY <1>2 DEF DFilled
    <3>3. bufs'[i].data = bufs[i].data
      BY <1>13
    <3> QED BY <3>1, <3>2, <3>3
  <2>2. d.next <= d'.next /\ d'.start = d.start /\ d'.len = d.len
    BY <1>4, <1>8
  <2>3. DTyped'
    BY <1>1, <1>2, <1>11, <1>14 DEF DTyped, DTypedD, DTypedWork, DTypedMu
  <2> QED BY <1>2, <2>1, <2>2, <2>3, AskedKept
<1> QED BY <1>1, <1>2, <1>10, <1>11, <1>14, <1>15, <1>16, <1>19, <1>20, ReaderKeeps DEF DReads

-----------------------------------------------------------------------------
(* The end of a download *)

(* Whatever ends the reading leaves the workers alone: they find out later.     *)
LEMMA StopKeeps ==
  ASSUME DownInv, DRunning, DTyped', UNCHANGED <<mu, chunkCh, work>>, d'.start = d.start, d'.len = d.len, d'.next = d.next,
         DCut', DStarted', DMapped', DPlaced', ~DLive', d'.limit + DHeldByReader' >= d.limit + DHeldByReader
  PROVE  DownInv'
<1>1. DTyped
  BY DEF DownInv
<1>2. DFilled'
  BY DEF DFilled
<1>3. DOwned'
  <2>1. DAskedStay
    BY AskedIdle
  <2>2. DHoldersStay
    BY DEF DHoldersStay, DHolds, DCopied, DSending
  <2> QED BY <1>1, <2>1, <2>2, OwnedStays DEF DRunning
<1>4. DSlotsKept'
  BY <1>1, SlotsStay DEF DownInv
<1> QED BY <1>2, <1>3, <1>4 DEF DownInv, DRunning, DPlaced

(* Close and a download that could not start cancel the context; the slot that  *)
(* download took is given back.                                                 *)
LEMMA InterruptKeeps ==
  ASSUME DownInv, Interrupt
  PROVE  DownInv'
<1> DEFINE err == dctx = "failed" \/ (dctx = "live" /\ d.written # d.len)
<1>1. /\ rdr.pc \in {"read", "eof", "failed", "abort"} /\ rdr' = [rdr EXCEPT !.pc = "closing", !.err = err]
      /\ dctx' = Cancelled /\ UNCHANGED <<mu, chunkCh, bufMap, bufs, work, left>>
      /\ rdr.pc = "abort" => d' = [d EXCEPT !.limit = @ + 1]
      /\ rdr.pc # "abort" => d' = d
  BY DEF Interrupt
<1>2. DRunning /\ DTyped
  BY <1>1, ReaderRuns
<1>3. err \in BOOLEAN
  OBVIOUS
<1> HIDE DEF err
<1>4. DTypedReader' /\ rdr'.pc = "closing" /\ rdr'.pos = rdr.pos /\ rdr'.got = rdr.got
  BY <1>1, <1>2, <1>3 DEF DTyped, DTypedReader, DReaderPcs
<1>5. /\ d' \in DDownload /\ DSameRange /\ d'.conc = d.conc /\ d.limit \in Nat /\ (d'.limit = d.limit \/ d'.limit = d.limit + 1)
  BY <1>1, <1>2, SlotBack DEF DTyped, DTypedD
<1>6. rdr.pc = "abort" => d'.limit = d.limit + 1
  BY <1>1, <1>2 DEF DTyped, DTypedD
<1>7. DTyped'
  <2>1. dctx' \in {"live", "cancelled", "failed"}
    BY <1>1, <1>2 DEF DTyped, Cancelled
  <2> QED BY <1>1, <1>2, <1>4, <1>5, <2>1 DEF DTyped, DTypedD, DDownload, DTypedWork, DTypedMu, DTypedBufs
<1>8. ~DReading' /\ ~DLive'
  BY <1>4 DEF DLive, DReading
<1>9. DCut' /\ DStarted'
  BY <1>1, <1>2, <1>4, <1>5 DEF DRunning, DCut, DStarted, DSameRange
<1>10. DMapped'
  BY <1>8 DEF DMapped
<1>11. DPlaced'
  <2>1. mu'.by # DReader /\ DBytes(rdr'.got, d'.start)
    BY <1>1, <1>2, <1>4, <1>5 DEF DRunning, DPlaced, DSameRange
  <2> QED BY <1>4, <2>1 DEF DPlaced
<1>12. d'.limit + DHeldByReader' >= d.limit + DHeldByReader
  <2>1. DHeldByReader' = 0 /\ DHeldByReader \in 0 .. 1 /\ (rdr.pc # "abort" => DHeldByReader = 0)
    BY <1>1, <1>4 DEF DHeldByReader
  <2> QED BY <1>5, <1>6, <2>1
<1> QED BY <1>1, <1>2, <1>5, <1>7, <1>8, <1>9, <1>10, <1>11, <1>12, StopKeeps DEF DSameRange

(* The buffers, the cache and the channel are closed.                           *)
LEMMA CloseKeeps ==
  ASSUME DownInv, DClose
  PROVE  DownInv'
<1>1. /\ rdr.pc = "closing" /\ mu = DFree /\ rdr' = [rdr EXCEPT !.pc = "closed"]
      /\ bufMap' = <<>> /\ d' = Shut /\ UNCHANGED <<dctx, mu, chunkCh, work, left>>
  BY DEF DClose
<1>2. DRunning /\ DTyped
  BY <1>1, ReaderRuns
<1>3. DTypedReader' /\ rdr'.pc = "closed" /\ rdr'.got = rdr.got
  BY <1>1, <1>2, ReaderField DEF DTyped, DReaderPcs
<1>4. bufs' \in Seq(DBuffers)
  <2>1. PICK n \in Nat : n = Len(bufs) /\ DOMAIN bufs = 1 .. n
    BY <1>2 DEF DTyped, DTypedBufs
  <2>2. ASSUME NEW b \in 1 .. n PROVE bufs'[b] \in DBuffers
    <3>1. bufs[b] \in DBuffers /\ [bufs[b] EXCEPT !.open = FALSE] \in DBuffers
      BY <1>2, <2>1, BufferTyped DEF DBuffers
    <3>2. bufs'[b] = bufs[b] \/ bufs'[b] = [bufs[b] EXCEPT !.open = FALSE]
      BY <2>1 DEF DClose
    <3> QED BY <3>1, <3>2
  <2>3. \E f : bufs' = [b \in 1 .. n |-> f[b]]
    <3> DEFINE f == [b \in DOMAIN bufs |-> IF \E k \in DOMAIN bufMap : bufMap[k] = b
                                           THEN [bufs[b] EXCEPT !.open = FALSE] ELSE bufs[b]]
    <3>1. bufs' = f
      BY DEF DClose
    <3>2. f = [b \in 1 .. n |-> f[b]]
      BY <2>1
    <3> QED BY <3>1, <3>2
  <2>4. bufs' \in [1 .. n -> DBuffers]
    BY <2>2, <2>3
  <2> QED BY <2>1, <2>4
<1>5. DTypedBufs'
  BY <1>1, <1>4 DEF DTypedBufs
<1>6. PICK c \in Int : c = (IF d.conc > 0 THEN -d.conc ELSE d.conc) /\ c <= 0
  BY <1>2 DEF DTyped, DTypedD
<1>7. d' = [d EXCEPT !.maxPos = 0, !.conc = c]
  BY <1>1, <1>6 DEF Shut
<1>8. /\ d' \in DDownload /\ d'.start = d.start /\ d'.len = d.len /\ d'.pos = d.pos /\ d'.next = d.next /\ d'.maxPos = 0
      /\ d'.conc <= 0 /\ d'.limit = d.limit /\ d.limit \in Nat
  BY <1>2, <1>6, <1>7 DEF DTyped, DTypedD, DDownload
<1>9. DTyped'
  BY <1>1, <1>2, <1>3, <1>5, <1>8 DEF DTyped, DTypedD, DDownload, DTypedWork, DTypedMu
<1>10. ~DReading' /\ ~DLive'
  BY <1>3 DEF DLive, DReading
<1>11. DCut'
  BY <1>1, <1>2, <1>3, <1>8 DEF DRunning, DCut
<1>12. DStarted'
  <2>1. ~(d'.conc > 0)
    BY <1>6, <1>7, <1>8 DEF DDownload
  <2> QED BY <2>1 DEF DStarted
<1>13. DMapped'
  BY <1>10 DEF DMapped
<1>14. DPlaced'
  <2>1. mu'.by # DReader /\ DBytes(rdr'.got, d'.start)
    BY <1>1, <1>2, <1>3, <1>8 DEF DRunning, DPlaced, DFree, DReader
  <2> QED BY <1>3, <2>1 DEF DPlaced
<1>15. d'.limit + DHeldByReader' >= d.limit + DHeldByReader
  <2>1. DHeldByReader' = 0 /\ DHeldByReader = 0
    BY <1>1, <1>3 DEF DHeldByReader
  <2> QED BY <1>8, <2>1
<1> QED BY <1>1, <1>2, <1>8, <1>9, <1>10, <1>11, <1>12, <1>13, <1>14, <1>15, StopKeeps

(* The client goes away.                                                        *)
LEMMA ParentKeeps ==
  ASSUME DownInv, ParentCancelled
  PROVE  DownInv'
<1>1. /\ rdr.pc \notin {"new", "single", "closed"} /\ dctx' = "cancelled" /\ DFault
      /\ UNCHANGED <<d, mu, chunkCh, bufMap, bufs, work, rdr>>
  BY DEF ParentCancelled
<1>2. DRunning /\ DTyped
  BY <1>1, ReaderRuns
<1>3. left' \in [faults : Nat, busy : Nat]
  BY <1>1, Bounds DEF DownInv
<1>4. DTyped'
  BY <1>1, <1>2, <1>3 DEF DTyped, DTypedD, DTypedReader, DTypedWork, DTypedMu, DTypedBufs
<1>5. DCut' /\ DStarted' /\ DMapped' /\ DPlaced'
  BY <1>1, <1>2 DEF DRunning, DCut, DStarted, DMapped, DPlaced, DReading
<1>6. ~DLive'
  BY <1>1 DEF DLive
<1>7. d'.limit + DHeldByReader' >= d.limit + DHeldByReader
  <2>1. DHeldByReader' = DHeldByReader /\ d'.limit = d.limit /\ d.limit \in Nat /\ DHeldByReader \in Nat
    BY <1>1, <1>2 DEF DHeldByReader, DTyped, DTypedD
  <2> QED BY <2>1
<1> QED BY <1>1, <1>2, <1>4, <1>5, <1>6, <1>7, StopKeeps

-----------------------------------------------------------------------------
(* The beginning of a download, and a range that is one part *)

\* Nothing was read.
LEMMA NoBytes ==
  ASSUME NEW from
  PROVE  <<>> \in Seq(Nat) /\ Len(<<>>) = 0 /\ DBytes(<<>>, from)
<1>0. <<>> \in Seq(Nat) /\ Len(<<>>) = 0
  OBVIOUS
<1>1. PICK s : s = <<>> /\ s \in Seq(Nat) /\ Len(s) = 0
  BY <1>0
<1>2. s = [i \in 1 .. 0 |-> from + i - 1]
  BY <1>1
<1>3. DBytes(s, from)
  BY <1>1, <1>2 DEF DBytes
<1> QED BY <1>1, <1>3

(* The range is cut, and the reader is about to send its first chunk.           *)
LEMMA DownloadKeeps ==
  ASSUME DownInv, NEW r \in DRanges, download(r[1], DNormal(r[1], r[2], r[3]))
  PROVE  DownInv'
<1>1. PICK start, len \in Nat : start = r[1] /\ len = DNormal(r[1], r[2], r[3]) /\ len > 0
  BY DAssumption DEF DNormal
<1>2. /\ rdr.pc = "new" /\ UNCHANGED <<dctx, mu, chunkCh, bufMap, bufs, work, left>>
      /\ \/ d.limit = 0 /\ rdr' = [rdr EXCEPT !.pc = "closed", !.err = TRUE] /\ UNCHANGED d
         \/ d.limit > 0 /\ DSingle(start, len)
         \/ /\ d.limit > 0 /\ DMaxPart(len) > 1
            /\ d' = [d EXCEPT !.start = start, !.len = len, !.pos = start, !.maxPos = start + len, !.conc = DWorkerCount(len), !.limit = @ - 1]
            /\ rdr' = [rdr EXCEPT !.pc = "first"]
  BY <1>1 DEF download
<1>3. DQuiet /\ DTyped /\ d \in DDownload /\ d.limit \in Nat
  BY <1>2 DEF DownInv, DRunning, DCut, DTyped, DTypedD, DDownload
<1>4. /\ mu = DFree /\ chunkCh = <<>> /\ d.next = 0 /\ d.maxPos = 0 /\ d.pos = 0 /\ rdr.got = <<>> /\ rdr.pos = 0
      /\ d.conc = 0 /\ bufMap = <<>> /\ bufs = <<>>
      /\ \A w \in DWorkers : work[w].pc = "none"
  BY <1>2, <1>3 DEF DQuiet
<1>5. ASSUME DTyped', d'.limit + DHeldByReader' >= d.limit + DHeldByReader PROVE DSlotsKept'
  BY <1>2, <1>3, <1>5, SlotsStay DEF DownInv
<1>6. DHeldByReader = 0
  BY <1>2 DEF DHeldByReader
<1>7. ASSUME DTypedReader', d' \in DDownload PROVE DTyped'
  BY <1>2, <1>3, <1>7 DEF DTyped, DTypedD, DDownload, DTypedWork, DTypedMu, DTypedBufs
<1>8. CASE d.limit = 0 /\ rdr' = [rdr EXCEPT !.pc = "closed", !.err = TRUE] /\ UNCHANGED d
  <2>1. DTypedReader' /\ rdr'.pc = "closed" /\ rdr'.got = rdr.got
    BY <1>3, <1>8 DEF DTyped, DTypedReader, DReaderPcs
  <2>2. DTyped'
    BY <1>3, <1>7, <1>8, <2>1
  <2>3. DQuiet'
    BY <1>2, <1>4, <1>8, <2>1 DEF DQuiet
  <2>4. DHeldByReader' = 0
    BY <2>1 DEF DHeldByReader
  <2>5. DSlotsKept'
    BY <1>3, <1>5, <1>6, <1>8, <2>2, <2>4
  <2> QED BY <1>8, <2>1, <2>2, <2>3, <2>5 DEF DownInv
<1>9. CASE d.limit > 0 /\ DSingle(start, len)
  <2>0. PICK l \in Nat : l = d.limit - 1
    BY <1>3, <1>9
  <2>1. l = d.limit - 1 /\ d' = [d EXCEPT !.start = start, !.len = len, !.limit = l]
    BY <1>9, <2>0 DEF DSingle
  <2>2. /\ d' \in DDownload /\ d'.start = start /\ d'.len = len /\ d'.next = 0 /\ d'.maxPos = 0 /\ d'.pos = 0 /\ d'.limit = l
    BY <1>3, <1>4, <2>1 DEF DDownload
  <2>3. DTypedReader' /\ rdr'.pc = "single" /\ rdr'.got = rdr.got
    BY <1>3, <1>9, ReaderField DEF DTyped, DSingle, DReaderPcs
  <2>4. DTyped'
    BY <1>7, <2>2, <2>3
  <2>5. DQuiet'
    BY <1>1, <1>2, <1>4, <2>2, <2>3 DEF DQuiet
  <2>6. DHeldByReader' = 1
    BY <2>3 DEF DHeldByReader
  <2>7. DSlotsKept'
    BY <1>3, <1>5, <1>6, <2>1, <2>2, <2>4, <2>6
  <2> QED BY <1>4, <2>3, <2>4, <2>5, <2>7, NoBytes DEF DownInv
<1>10. CASE /\ d.limit > 0 /\ DMaxPart(len) > 1
            /\ d' = [d EXCEPT !.start = start, !.len = len, !.pos = start, !.maxPos = start + len, !.conc = DWorkerCount(len), !.limit = @ - 1]
            /\ rdr' = [rdr EXCEPT !.pc = "first"]
  <2>1. PICK l \in Nat : l = d.limit - 1
    BY <1>3, <1>10
  <2>2. PICK m \in Nat : m = start + len
    OBVIOUS
  <2>3. DMaxPart(len) \in Nat /\ DOffset(len, 0) = 0
    BY <1>10, ChunksFill
  <2>4. PICK c \in Nat : c = DWorkerCount(len)
    BY <2>3, WorkersFinite DEF DWorkerCount, DMin
  <2>5. d' = [d EXCEPT !.start = start, !.len = len, !.pos = start, !.maxPos = m, !.conc = c, !.limit = l]
    BY <1>10, <2>1, <2>2, <2>4
  <2>6. /\ d' \in DDownload /\ d'.start = start /\ d'.len = len /\ d'.next = 0 /\ d'.maxPos = m /\ d'.pos = start /\ d'.limit = l
        /\ d'.conc = c
    <3>1. PICK z \in Int : z = c
      OBVIOUS
    <3> DEFINE e == [d EXCEPT !.start = start, !.len = len, !.pos = start]
               f == [e EXCEPT !.maxPos = m]
               g == [f EXCEPT !.conc = z]
               h == [g EXCEPT !.limit = l]
    <3>2. d' = h
      BY <2>5, <3>1
    <3>3. e \in DDownload /\ e.start = start /\ e.len = len /\ e.pos = start /\ e.next = 0
      BY <1>3, <1>4 DEF DDownload
    <3>4. f = [e EXCEPT !.maxPos = m] /\ g = [f EXCEPT !.conc = z] /\ h = [g EXCEPT !.limit = l]
      OBVIOUS
    <3> HIDE DEF e, f, g, h
    <3>5. f \in DDownload /\ f.start = start /\ f.len = len /\ f.pos = start /\ f.next = 0 /\ f.maxPos = m
      BY <3>3, <3>4 DEF DDownload
    <3>6. /\ g \in DDownload /\ g.start = start /\ g.len = len /\ g.pos = start /\ g.next = 0 /\ g.maxPos = m
          /\ g.conc = z
      BY <3>4, <3>5 DEF DDownload
    <3>7. /\ h \in DDownload /\ h.start = start /\ h.len = len /\ h.pos = start /\ h.next = 0 /\ h.maxPos = m
          /\ h.conc = z /\ h.limit = l
      BY <3>4, <3>6 DEF DDownload
    <3> QED BY <3>1, <3>2, <3>7
  <2>7. DTypedReader' /\ rdr'.pc = "first" /\ rdr'.got = <<>> /\ rdr'.pos = 0
    BY <1>3, <1>4, <1>10, ReaderField DEF DTyped, DReaderPcs
  <2>8. DTyped'
    BY <1>7, <2>6, <2>7
  <2>9. DCut'
    <3>1. start = start + DOffset(len, 0)
      BY <2>3
    <3>2. 0 \in 0 .. DMaxPart(len)
      BY <1>10, <2>3
    <3> QED BY <1>1, <1>10, <2>2, <2>6, <2>7, <3>1, <3>2 DEF DCut
  <2>10. DStarted'
    <3>1. \A w \in DWorkers : work'[w].pc = "none" /\ w > c - c
      BY <1>2, <1>4, <2>4, WorkersFinite
    <3> QED BY <2>4, <2>6, <3>1 DEF DStarted
  <2>11. DMapped' /\ DPlaced'
    <3>1. DBytes(rdr'.got, d'.start) /\ Len(rdr'.got) = DOffset(d'.len, rdr'.pos)
      BY <2>3, <2>6, <2>7, NoBytes
    <3>2. DOMAIN bufMap' = {} /\ mu'.by # DReader
      BY <1>2, <1>4 DEF DFree, DReader
    <3>3. DPlaced'
      BY <2>4, <2>6, <2>7, <3>1, <3>2 DEF DPlaced
    <3>4. DMapped'
      BY <2>6, <2>7, <3>2 DEF DMapped
    <3> QED BY <3>3, <3>4
  <2>12. DUnread' = {} /\ DOMAIN bufMap' = {}
    BY <1>2, <1>4, <2>6, <2>7 DEF DUnread
  <2>13. DFilled'
    BY <2>6, <2>7, <2>12 DEF DFilled
  <2>14. DOwned'
    <3>1. \A w \in DWorkers : ~DHolds(w)'
      BY <1>2, <1>4 DEF DHolds
    <3>2. DOMAIN chunkCh' = {}
      BY <1>2, <1>4
    <3>3. ~DSending'
      BY <1>2, <1>4 DEF DSending, DFree
    <3> QED BY <3>1, <3>2, <3>3 DEF DOwned, DApart
  <2>15. DHeldByReader' = 1
    BY <2>6, <2>7 DEF DHeldByReader
  <2>16. DSlotsKept'
    BY <1>3, <1>5, <1>6, <2>1, <2>6, <2>8, <2>15
  <2> QED BY <2>8, <2>9, <2>10, <2>11, <2>13, <2>14, <2>16 DEF DownInv, DRunning, DPlaced
<1> QED BY <1>2, <1>8, <1>9, <1>10

(* The one request of a small range has ended.                                  *)
LEMMA SingleKeeps ==
  ASSUME DownInv, NEW ok \in BOOLEAN, DSingleEnd(ok)
  PROVE  DownInv'
<1>1. rdr.pc = "single" /\ d' = [d EXCEPT !.limit = @ + 1] /\ UNCHANGED <<dctx, mu, chunkCh, bufMap, bufs, work, left>>
  BY DEF DSingleEnd
<1>2. DQuiet /\ DTyped /\ d \in DDownload /\ d.limit \in Nat /\ d.len \in Nat /\ d.start \in Nat
  BY <1>1 DEF DownInv, DRunning, DCut, DTyped, DTypedD, DDownload
<1>3. /\ d' \in DDownload /\ d'.start = d.start /\ d'.next = 0 /\ d'.maxPos = 0 /\ d'.pos = 0 /\ d'.limit = d.limit + 1
  <2>1. PICK l \in Nat : l = d.limit + 1
    BY <1>2
  <2>2. d' = [d EXCEPT !.limit = l]
    BY <1>1, <2>1
  <2> QED BY <1>2, <2>1, <2>2 DEF DDownload, DQuiet
<1>4. PICK g \in Seq(Nat) : g = (IF ok THEN [i \in 1 .. d.len |-> d.start + i - 1] ELSE <<>>) /\ DBytes(g, d.start)
  BY <1>2, BytesNew, NoBytes
<1>5. PICK e \in BOOLEAN : e = ~ok
  OBVIOUS
<1>6. rdr' = [rdr EXCEPT !.pc = "closed", !.err = e, !.got = g]
  BY <1>4, <1>5 DEF DSingleEnd
<1>7. DTypedReader' /\ rdr'.pc = "closed" /\ rdr'.got = g
  BY <1>2, <1>6 DEF DTyped, DTypedReader, DReaderPcs
<1>8. DTyped'
  BY <1>1, <1>2, <1>3, <1>7 DEF DTyped, DTypedD, DDownload, DTypedWork, DTypedMu, DTypedBufs
<1>9. DQuiet'
  BY <1>1, <1>2, <1>3, <1>7 DEF DQuiet
<1>10. DSlotsKept'
  <2>1. DHeldByReader = 1 /\ DHeldByReader' = 0
    BY <1>1, <1>7 DEF DHeldByReader
  <2> QED BY <1>1, <1>2, <1>3, <1>8, <2>1, SlotsStay DEF DownInv
<1> QED BY <1>3, <1>4, <1>7, <1>8, <1>9, <1>10 DEF DownInv

LEMMA StillKeeps ==
  ASSUME DownInv, UNCHANGED dlVars
  PROVE  DownInv'
<1>1. UNCHANGED <<d, dctx, mu, chunkCh, bufMap, bufs, work, rdr, left>>
  BY DEF dlVars
<1>2. DTyped'
  BY <1>1 DEF DownInv, DTyped, DTypedD, DTypedWork, DTypedReader, DTypedMu, DTypedBufs
<1>3. DSlotsKept' /\ DBytes(rdr.got, d.start)'
  BY <1>1 DEF DownInv, DSlotsKept, DHeld, DActive, DHeldByReader
<1>4. DQuiet => DQuiet'
  BY <1>1 DEF DQuiet
<1>5. DRunning => DRunning'
  <2> SUFFICES ASSUME DRunning PROVE DRunning'
    OBVIOUS
  <2>1. DCut' /\ DStarted' /\ DMapped' /\ DPlaced'
    BY <1>1 DEF DRunning, DCut, DStarted, DMapped, DPlaced, DReading
  <2>2. DFilled'
    BY <1>1 DEF DRunning, DFilled, DLive, DReading, DUnread, DBufOf
  <2>3. DOwned'
    <3>1. DAskedStay
      BY <1>1 DEF DAskedStay, DAsked, DLive, DReading, DBufOf
    <3>2. DHoldersStay
      BY <1>1 DEF DHoldersStay, DHolds, DCopied, DSending
    <3> QED BY <1>1, <3>1, <3>2, OwnedStays DEF DRunning, DownInv
  <2> QED BY <2>1, <2>2, <2>3 DEF DRunning
<1> QED BY <1>2, <1>3, <1>4, <1>5 DEF DownInv

-----------------------------------------------------------------------------
(* The invariant holds, and a download delivers its range *)

LEMMA DownStarts ==
  ASSUME DInit
  PROVE  DownInv
<1>1. DTyped
  <2>1. DTypedWork
    <3>1. [pc |-> "none", ch |-> NoChunk, retry |-> 0, n |-> 0] \in DWorker
      BY NoChunkTyped DEF DWorker, DWorkerPcs
    <3> QED BY <3>1 DEF DInit, DTypedWork, DWorker
  <2>2. DTypedD
    BY DAssumption DEF DInit, DTypedD
  <2>3. DTypedReader
    <3>1. PICK s : s = <<>> /\ s \in Seq(Nat)
      BY NoBytes
    <3>2. rdr = [pc |-> "new", pos |-> 0, cur |-> 0, got |-> s, err |-> FALSE]
      BY <3>1 DEF DInit
    <3> QED BY <3>1, <3>2 DEF DTypedReader, DReaderPcs
  <2>4. DTypedMu /\ DTypedBufs /\ chunkCh \in Seq(DChunks)
    BY DEF DInit, DTypedMu, DTypedBufs
  <2>5. left \in [faults : Nat, busy : Nat] /\ dctx = "live"
    BY DAssumption DEF DInit
  <2> QED BY <2>1, <2>2, <2>3, <2>4, <2>5 DEF DTyped
<1>2. DQuiet
  BY DEF DInit, DQuiet
<1>3. DBytes(rdr.got, d.start)
  BY NoBytes DEF DInit
<1>4. DSlotsKept
  <2>1. DActive = {} /\ DHeldByReader = 0 /\ d.limit = DSlots
    BY DEF DInit, DActive, DHeldByReader
  <2> QED BY <2>1, FS_EmptySet, DAssumption DEF DSlotsKept, DHeld
<1> QED BY <1>1, <1>2, <1>3, <1>4 DEF DownInv

LEMMA WorkerStepKeeps ==
  ASSUME DownInv, NEW w \in DWorkers, WorkerStep(w)
  PROVE  DownInv'
<1>1. ASSUME WorkerSends(w) PROVE DownInv'
  <2>1. work[w].pc = "more" /\ (SendSkip(w, TRUE) \/ SendPrepare(w, TRUE))
    BY <1>1 DEF WorkerSends, sendChunkTask
  <2>2. ASSUME SendPrepare(w, TRUE) PROVE DownInv'
    <3>1. w # DReader /\ w \in DWorkers \cup {DReader}
      BY WorkersFinite DEF DReader
    <3>2. DRunning
      BY <2>1, WorkerRuns
    <3>3. UNCHANGED rdr
      BY <2>2 DEF SendPrepare
    <3> QED BY <2>1, <2>2, <3>1, <3>2, <3>3, PrepareKeeps
  <2> QED BY <2>1, <2>2, WorkerSkipKeeps
<1> QED BY <1>1, ReceiveKeeps, FailsKeeps, OverloadedKeeps, RequeueKeeps, RequestKeeps, WorkerSelectKeeps, CopyKeeps, CopiedKeeps
    DEF WorkerStep

LEMMA ReaderStepKeeps ==
  ASSUME DownInv, ReaderStep
  PROVE  DownInv'
<1>1. ASSUME ReaderSends PROVE DownInv'
  <2>1. /\ rdr.pc \in {"first", "fsend"}
        /\ SendSkip(DReader, rdr.pc = "first") \/ SendPrepare(DReader, rdr.pc = "first")
    BY <1>1 DEF ReaderSends, sendChunkTask
  <2>2. ASSUME SendPrepare(DReader, rdr.pc = "first") PROVE DownInv'
    <3>1. PICK new \in BOOLEAN : new = (rdr.pc = "first") /\ SendPrepare(DReader, new)
      BY <2>2
    <3>2. DRunning
      BY <2>1, ReaderRuns
    <3>3. UNCHANGED rdr
      BY <3>1 DEF SendPrepare
    <3>4. DReader \in DWorkers \cup {DReader} /\ DReader \notin DWorkers
      BY WorkersFinite DEF DReader
    <3>5. (rdr.pc = "first" => new) /\ (new \/ rdr.pc = "fsend")
      BY <2>1, <3>1
    <3> QED BY <2>1, <3>1, <3>2, <3>3, <3>4, <3>5, PrepareKeeps
  <2> QED BY <2>1, <2>2, ReaderSkipKeeps
<1> QED BY <1>1, ReaderSelectKeeps, PopKeeps, ReadKeeps, EndKeeps, FinishKeeps DEF ReaderStep

LEMMA DownStep ==
  ASSUME DownInv, [DNext]_dlVars
  PROVE  DownInv'
<1>1. ASSUME DNext PROVE DownInv'
  BY <1>1, DownloadKeeps, SingleKeeps, WorkerStepKeeps, ReaderStepKeeps, InterruptKeeps, CloseKeeps, ParentKeeps DEF DNext
<1> QED BY <1>1, StillKeeps

LEMMA DownIsSafe ==
  ASSUME DownInv
  PROVE  DownloadSafe
<1>1. DInOrder
  BY DEF DownInv, DBytes, DInOrder
<1>2. DEofComplete
  BY ReaderRuns DEF DRunning, DPlaced, DEofComplete
<1>3. DNoSlotLost
  <2> SUFFICES ASSUME rdr.pc = "closed", \A w \in DWorkers : work[w].pc \in {"none", "ended"}
               PROVE  d.limit >= DSlots
    BY DEF DNoSlotLost
  <2>1. DActive = {} /\ DHeldByReader = 0
    BY DEF DActive, DHeldByReader
  <2>2. Cardinality(DActive) = 0
    BY <2>1, FS_EmptySet
  <2>3. d.limit \in Nat
    BY DEF DownInv, DTyped, DTypedD
  <2> QED BY <2>1, <2>2, <2>3 DEF DownInv, DSlotsKept, DHeld
<1> QED BY <1>1, <1>2, <1>3 DEF DownloadSafe

(* A reader of a range gets its bytes in order and each once, is told of the    *)
(* end only when it has all of them, and no slot of the shared limit is lost,   *)
(* for every part size, concurrency and number of retries, whatever the workers *)
(* met (request.go: downloadPart, sendChunkTask, multiReadCloser.Read).         *)
THEOREM RangeIsSafe == DSpec => []DownloadSafe
<1>1. DInit => DownInv
  BY DownStarts
<1>2. DownInv /\ [DNext]_dlVars => DownInv'
  BY DownStep
<1>3. DownInv => DownloadSafe
  BY DownIsSafe
<1> QED BY <1>1, <1>2, <1>3, PTL DEF DSpec

-----------------------------------------------------------------------------
(* The hybrid cache *)

\* Sizes are rounded up to whole pages.
LEMMA RoundedUp ==
  ASSUME NEW n \in Nat
  PROVE  /\ RoundUp(n) \in Nat /\ n <= RoundUp(n)
         /\ \E k \in Nat : RoundUp(n) = k * HPage
         /\ \A k \in Nat : n <= k * HPage => RoundUp(n) <= k * HPage
  <1> DEFINE a == n + HPage - 1
             q == a \div HPage
  <1>1. HPage \in Nat \ {0}
    BY HAssumption
  <1>2. a \in Nat /\ a = n + HPage - 1
    BY <1>1
  <1> HIDE DEF a
  <1>3. q \in Nat /\ q * HPage <= a /\ a < q * HPage + HPage
    BY <1>1, <1>2
  <1> HIDE DEF q
  <1>4. RoundUp(n) = q * HPage
    BY DEF RoundUp, q, a
  <1>5. q * HPage \in Nat
    BY <1>1, <1>3
  <1>6. n <= q * HPage
    BY <1>1, <1>2, <1>3, <1>5
  <1>7. ASSUME NEW k \in Nat, n <= k * HPage PROVE q * HPage <= k * HPage
    <2>1. k * HPage \in Nat
      BY <1>1
    <2>2. q * HPage < k * HPage + HPage
      BY <1>1, <1>2, <1>3, <1>5, <1>7, <2>1
    <2>3. k * HPage + HPage = (k + 1) * HPage
      BY <1>1
    <2>4. ~(q >= k + 1)
      <3>1. SUFFICES ASSUME q >= k + 1 PROVE FALSE
        OBVIOUS
      <3>2. q * HPage >= (k + 1) * HPage
        BY <1>1, <1>3, <3>1
      <3> QED
        BY <2>1, <2>2, <2>3, <3>2, <1>1, <1>5
    <2>5. q <= k
      BY <1>3, <2>4
    <2> QED
      BY <1>1, <1>3, <2>5
  <1> QED
    BY <1>3, <1>4, <1>5, <1>6, <1>7

\* A backing store is a record of three fields; what is in its pieces is not looked at.
HBacking(b) == b = [kind |-> b.kind, pieces |-> b.pieces, off |-> b.off] /\ b.off \in Nat
HMemories == [on : BOOLEAN, com : Nat, res : Nat, off : Nat, cell : Seq(Nat)]
HMemOK(m) == /\ m \in HMemories /\ m.off <= m.com /\ m.com <= m.res /\ Len(m.cell) = m.com
             /\ \E k \in Nat : m.res = k * HPage
HBlocks == [addr : Nat, size : Nat, mem : BOOLEAN, base : Nat]
\* Where a block really is: in memory at its own address, or as far into the backing
\* store as it is behind the end of the memory.
HLies(b, mem, back) ==
  /\ b \in HBlocks /\ b.addr + b.size <= mem.off + back.off
  /\ b.mem => b.base = b.addr /\ b.addr + b.size <= mem.off
  /\ ~b.mem => back.kind # "none" /\ b.addr = mem.off + b.base
HParted(bs) == \A b, c \in bs : b # c => b.addr + b.size <= c.addr \/ c.addr + c.size <= b.addr
HStoreInd ==
  /\ HMemOK(hmem) /\ HBacking(hback) /\ stamp \in Nat
  /\ hback.kind = "none" => hback.off = 0
  /\ \A b \in hblocks : HLies(b, hmem, hback)
  /\ HParted(hblocks)

LEMMA ZerosAre == \A n \in Nat : Zeros(n) \in Seq(Nat) /\ Len(Zeros(n)) = n
  BY DEF Zeros

LEMMA Concatenated == ASSUME NEW S, NEW a \in Seq(S), NEW b \in Seq(S) PROVE a \o b \in Seq(S) /\ Len(a \o b) = Len(a) + Len(b)
  OBVIOUS

LEMMA FunctionIsSeq == ASSUME NEW n \in Nat, NEW f \in [1 .. n -> Nat] PROVE f \in Seq(Nat) /\ Len(f) = n
  OBVIOUS

LEMMA NoMemOK == HMemOK(NoMem)
  <1>1. HPage \in Nat \ {0}
    BY HAssumption
  <1>2. NoMem \in HMemories /\ NoMem.off = 0 /\ NoMem.com = 0 /\ NoMem.res = 0 /\ NoMem.cell = <<>> /\ 0 = 0 * HPage
    BY <1>1 DEF NoMem, HMemories
  <1> QED
    BY <1>2 DEF HMemOK

\* Memory that grows stays within what is reserved and holds what was asked for.
LEMMA Reallocation ==
  ASSUME HMemOK(hmem), NEW size \in Nat, Reallocates(size, TRUE)
  PROVE  HMemOK(Reallocated(size)) /\ Reallocated(size).off = hmem.off /\ size <= Reallocated(size).com
  <1>1. CASE size <= hmem.com
    BY <1>1 DEF Reallocated
  <1>2. CASE ~(size <= hmem.com)
    <2> DEFINE x == HMin(HMax(size, hmem.com + hmem.com \div 8), hmem.res)
               m == Reallocated(size)
    <2>1. /\ size <= hmem.res /\ hmem.com \in Nat /\ hmem.res \in Nat /\ hmem.off \in Nat /\ hmem.off <= hmem.com
          /\ hmem.cell \in Seq(Nat) /\ Len(hmem.cell) = hmem.com
      BY <1>2 DEF Reallocates, HMemOK, HMemories
    <2>2. PICK k \in Nat : hmem.res = k * HPage
      BY DEF HMemOK
    <2>3. x \in Nat /\ x <= hmem.res /\ size <= x
      <3>1. PICK e \in Nat : e = hmem.com \div 8
        BY <2>1
      <3>2. PICK c \in Nat : c = HMax(size, hmem.com + e)
        BY <2>1 DEF HMax
      <3>3. size <= c
        BY <2>1, <3>2 DEF HMax
      <3>4. PICK r \in Nat : r = hmem.res /\ size <= r
        BY <2>1
      <3>5. HMin(c, r) \in Nat /\ HMin(c, r) <= r /\ size <= HMin(c, r)
        BY <3>3, <3>4 DEF HMin
      <3> QED
        BY <3>1, <3>2, <3>4, <3>5
    <2>4. Committed(size) = RoundUp(x)
      BY DEF Committed
    <2> HIDE DEF x
    <2>5. Committed(size) \in Nat /\ size <= Committed(size) /\ Committed(size) <= hmem.res
      <3>1. x <= k * HPage
        BY <2>2, <2>3
      <3>2. RoundUp(x) \in Nat /\ x <= RoundUp(x) /\ RoundUp(x) <= k * HPage
        BY <2>3, <3>1, RoundedUp
      <3> DEFINE y == RoundUp(x)
                 res == hmem.res
                 p == k * HPage
      <3>3. y \in Nat /\ x <= y /\ y <= p /\ res = p /\ x \in Nat /\ size <= x /\ res \in Nat /\ Committed(size) = y
        BY <2>1, <2>2, <2>3, <2>4, <3>2
      <3> HIDE DEF p, y
      <3> QED
        BY <3>3
    <2>6. m = [hmem EXCEPT !.com = Committed(size), !.cell = hmem.cell \o Zeros(Committed(size) - hmem.com)]
      BY <1>2 DEF Reallocated
    <2> DEFINE z == Zeros(Committed(size) - hmem.com)
    <2>7. z \in Seq(Nat) /\ Len(z) = Committed(size) - hmem.com
      <3>1. Committed(size) - hmem.com \in Nat
        BY <2>1, <2>5, <1>2
      <3> QED
        BY <3>1, ZerosAre
    <2> HIDE DEF z
    <2>8. hmem.cell \o z \in Seq(Nat) /\ Len(hmem.cell \o z) = Committed(size)
      <3>1. hmem.cell \o z \in Seq(Nat) /\ Len(hmem.cell \o z) = Len(hmem.cell) + Len(z)
        BY <2>1, <2>7, Concatenated
      <3> QED
        BY <3>1, <2>1, <2>5, <2>7
    <2>9. /\ m \in HMemories /\ m.com = Committed(size) /\ m.res = hmem.res /\ m.off = hmem.off /\ Len(m.cell) = m.com
      <3> DEFINE c == hmem.cell \o z
      <3> HIDE DEF c
      <3>1. c \in Seq(Nat) /\ Len(c) = Committed(size) /\ m = [hmem EXCEPT !.com = Committed(size), !.cell = c]
        BY <2>6, <2>8 DEF c, z
      <3> QED
        BY <2>5, <3>1 DEF HMemOK, HMemories
    <2> HIDE DEF m
    <2>10. m.off <= m.com /\ m.com <= m.res /\ size <= m.com
      BY <1>2, <2>1, <2>5, <2>9
    <2>11. HMemOK(m)
      BY <2>2, <2>9, <2>10 DEF HMemOK
    <2> QED
      BY <2>9, <2>10, <2>11 DEF m
  <1> QED
    BY <1>1, <1>2

\* Writing changes cells only.
LEMMA MemWriteOK ==
  ASSUME NEW m, HMemOK(m), NEW off \in Nat, NEW data \in Seq(Nat)
  PROVE  HMemOK(MemWrite(m, off, data)) /\ MemWrite(m, off, data).off = m.off
  <1> DEFINE c == [i \in 1 .. m.com |-> IF i \in off + 1 .. off + Len(data) THEN data[i - off] ELSE m.cell[i]]
             w == MemWrite(m, off, data)
  <1>1. m \in HMemories /\ m.com \in Nat /\ m.cell \in Seq(Nat) /\ Len(m.cell) = m.com
    BY DEF HMemOK, HMemories
  <1>2. \A i \in 1 .. m.com : (IF i \in off + 1 .. off + Len(data) THEN data[i - off] ELSE m.cell[i]) \in Nat
    <2>1. ASSUME NEW i \in 1 .. m.com PROVE (IF i \in off + 1 .. off + Len(data) THEN data[i - off] ELSE m.cell[i]) \in Nat
      <3>1. CASE i \in off + 1 .. off + Len(data)
        <4>1. i - off \in 1 .. Len(data)
          BY <3>1, <1>1
        <4> QED
          BY <3>1, <4>1
      <3>2. CASE ~(i \in off + 1 .. off + Len(data))
        BY <3>2, <1>1
      <3> QED
        BY <3>1, <3>2
    <2> QED
      BY <2>1
  <1>3. c \in Seq(Nat) /\ Len(c) = m.com
    <2>1. c \in [1 .. m.com -> Nat]
      BY <1>2
    <2> HIDE DEF c
    <2> QED
      BY <1>1, <2>1, FunctionIsSeq
  <1>4. w = [m EXCEPT !.cell = c]
    BY DEF MemWrite
  <1> HIDE DEF c
  <1>5. w \in HMemories /\ w.off = m.off /\ w.com = m.com /\ w.res = m.res /\ w.cell = c
    BY <1>1, <1>3, <1>4 DEF HMemories
  <1> HIDE DEF w
  <1> QED
    BY <1>3, <1>5 DEF HMemOK, w

LEMMA StampsAre == ASSUME stamp \in Nat, NEW n \in Nat PROVE Stamps(n) \in Seq(Nat)
  BY DEF Stamps

\* What allocating does: the memory grows while there is no backing store, and from then on
\* the backing store does.
HGrown(mem, back, size) ==
  /\ HMemOK(mem) /\ HBacking(back)
  /\ \/ hback.kind = "none" /\ back = hback /\ mem.off = hmem.off + size
     \/ mem = hmem /\ back.kind # "none" /\ back.off = hback.off + size
LEMMA Allocation ==
  ASSUME HStoreInd, NEW size \in Nat, NEW a \in Alloc(size)
  PROVE  HGrown(a.mem, a.back, size) /\ (hback.kind # "none" => a.back.kind # "none")
  <1>1. HMemOK(hmem) /\ HBacking(hback) /\ (hback.kind = "none" => hback.off = 0) /\ hmem.off \in Nat /\ hback.off \in Nat
    BY DEF HStoreInd, HMemOK, HMemories, HBacking
  <1>2. ASSUME NEW b, HBacking(b) PROVE HBacking(AllocBacking(b, size)) /\ AllocBacking(b, size).kind = b.kind /\ AllocBacking(b, size).off = b.off + size
    <2> DEFINE pieces == GrowTo(b, b.off + size)
    <2>1. AllocBacking(b, size) = [b EXCEPT !.pieces = pieces, !.off = b.off + size]
      BY DEF AllocBacking
    <2> DEFINE k == b.kind
               o == b.off
               ps == b.pieces
    <2>2. b = [kind |-> k, pieces |-> ps, off |-> o] /\ o \in Nat
      BY <1>2 DEF HBacking
    <2> HIDE DEF pieces, k, o, ps
    <2>3. AllocBacking(b, size) = [kind |-> k, pieces |-> pieces, off |-> o + size]
      <3>1. AllocBacking(b, size) = [b EXCEPT !.pieces = pieces, !.off = o + size]
        BY <2>1 DEF o
      <3> QED
        BY <2>2, <3>1
    <2>4. o + size \in Nat
      BY <2>2
    <2> QED
      BY <2>3, <2>4 DEF HBacking, k, o
  <1>3. CASE hback.kind # "none"
    <2>1. a = [mem |-> hmem, back |-> AllocBacking(hback, size)]
      BY <1>3 DEF Alloc
    <2>2. a.mem = hmem /\ a.back = AllocBacking(hback, size)
      BY <2>1
    <2> QED
      BY <1>1, <1>2, <1>3, <2>2 DEF HGrown
  <1>4. CASE hback.kind = "none"
    <2>1. \/ Reallocates(hmem.off + size, TRUE) /\ a = [mem |-> [Reallocated(hmem.off + size) EXCEPT !.off = @ + size], back |-> hback]
          \/ \E k \in FileKinds : a = [mem |-> hmem, back |-> AllocBacking(FileStore(k), size)]
      BY <1>4 DEF Alloc
    <2>2. CASE Reallocates(hmem.off + size, TRUE) /\ a = [mem |-> [Reallocated(hmem.off + size) EXCEPT !.off = @ + size], back |-> hback]
      <3> DEFINE m == Reallocated(hmem.off + size)
      <3>1. HMemOK(m) /\ m.off = hmem.off /\ hmem.off + size <= m.com
        <4>1. hmem.off + size \in Nat
          BY <1>1
        <4> QED
          BY <1>1, <2>2, <4>1, Reallocation
      <3> HIDE DEF m
      <3>2. a.mem = [m EXCEPT !.off = m.off + size] /\ a.back = hback
        BY <2>2 DEF m
      <3>3. /\ a.mem \in HMemories /\ a.mem.off = hmem.off + size /\ a.mem.com = m.com /\ a.mem.res = m.res /\ a.mem.cell = m.cell
        <4>1. m.off + size \in Nat /\ m \in HMemories
          BY <1>1, <3>1 DEF HMemOK, HMemories
        <4> QED
          BY <3>1, <3>2, <4>1 DEF HMemories
      <3>4. HMemOK(a.mem)
        BY <3>1, <3>3 DEF HMemOK
      <3> QED
        BY <1>1, <1>4, <3>2, <3>3, <3>4 DEF HGrown
    <2>3. CASE \E k \in FileKinds : a = [mem |-> hmem, back |-> AllocBacking(FileStore(k), size)]
      <3>1. PICK k \in FileKinds : a = [mem |-> hmem, back |-> AllocBacking(FileStore(k), size)]
        BY <2>3
      <3>2. HBacking(FileStore(k)) /\ FileStore(k).kind # "none" /\ FileStore(k).off = 0
        BY DEF FileStore, HBacking, FileKinds
      <3>3. a.mem = hmem /\ a.back = AllocBacking(FileStore(k), size)
        BY <3>1
      <3> QED
        BY <1>1, <1>2, <1>4, <3>2, <3>3 DEF HGrown
    <2> QED
      BY <2>1, <2>2, <2>3
  <1> QED
    BY <1>3, <1>4

\* The blocks stay where they are when the store grows behind them.
LEMMA GrowthKeeps ==
  ASSUME HStoreInd, NEW size \in Nat, NEW mem, NEW back, HGrown(mem, back, size),
         NEW b \in hblocks
  PROVE  HLies(b, mem, back) /\ b.addr + b.size <= HSize
  <1>1. HLies(b, hmem, hback) /\ hmem.off \in Nat /\ hback.off \in Nat /\ (hback.kind = "none" => hback.off = 0)
    BY DEF HStoreInd, HMemOK, HMemories, HBacking
  <1> QED
    BY <1>1 DEF HGrown, HLies, HBlocks, HSize

LEMMA CacheStarts == ASSUME HInit PROVE HStoreInd
  <1>1. HBacking(NoBack) /\ NoBack.off = 0
    BY DEF NoBack, HBacking
  <1> QED
    BY <1>1, NoMemOK DEF HInit, HStoreInd, HParted

LEMMA NewKeeps == ASSUME HStoreInd, NEW max \in HMaxMemories, NewHybridCache(max), hblocks = {} PROVE HStoreInd'
  <1>1. max \in Nat /\ HBlockSize \in Nat
    BY HAssumption
  <1>2. /\ hblocks' = {} /\ stamp' \in Nat /\ hmem \in HMemories
        /\ HMemOK(hmem) /\ HBacking(hback) /\ (hback.kind = "none" => hback.off = 0)
    BY DEF HStoreInd, NewHybridCache, HMemOK
  <1>3. CASE hback' = [kind |-> "buffer", pieces |-> <<>>, off |-> 0] /\ UNCHANGED hmem
    <2>1. HBacking(hback') /\ hback'.kind # "none"
      BY <1>3 DEF HBacking
    <2> QED
      BY <1>2, <1>3, <2>1 DEF HStoreInd, HParted
  <1>4. CASE (\E k \in FileKinds : hback' = FileStore(k)) /\ UNCHANGED hmem
    <2>1. HBacking(hback') /\ hback'.kind # "none"
      BY <1>4 DEF HBacking, FileStore, FileKinds
    <2> QED
      BY <1>2, <1>4, <2>1 DEF HStoreInd, HParted
  <1>5. ASSUME NEW com, com = IF HBlockSize < max THEN 0 ELSE RoundUp(max),
               hmem' = [on |-> TRUE, com |-> com, res |-> RoundUp(max), off |-> 0, cell |-> Zeros(com)], UNCHANGED hback
        PROVE  HStoreInd'
    <2>1. RoundUp(max) \in Nat /\ \E k \in Nat : RoundUp(max) = k * HPage
      BY <1>1, RoundedUp
    <2>2. com \in Nat /\ com <= RoundUp(max)
      BY <1>5, <2>1
    <2>3. Zeros(com) \in Seq(Nat) /\ Len(Zeros(com)) = com
      BY <2>2, ZerosAre
    <2> DEFINE z == Zeros(com)
               res == RoundUp(max)
    <2>4. hmem' = [on |-> TRUE, com |-> com, res |-> res, off |-> 0, cell |-> z]
      BY <1>5
    <2> HIDE DEF z, res
    <2>5. hmem' \in HMemories /\ hmem'.com = com /\ hmem'.res = res /\ hmem'.off = 0 /\ hmem'.cell = z
      BY <2>1, <2>2, <2>3, <2>4 DEF HMemories, z, res
    <2>6. HMemOK(hmem')
      BY <2>1, <2>2, <2>3, <2>5 DEF HMemOK, z, res
    <2> QED
      BY <1>2, <1>5, <2>6 DEF HStoreInd, HParted
  <1> QED
    BY <1>3, <1>4, <1>5 DEF NewHybridCache

LEMMA AllocKeeps == ASSUME HStoreInd, NEW size \in Nat, AllocBlock(size) PROVE HStoreInd'
  <1>1. PICK a \in Alloc(size) :
          LET inMem == a.back.kind = "none"
          IN  /\ hmem' = a.mem /\ hback' = a.back
              /\ hblocks' = hblocks \cup {[addr |-> HSize, size |-> size, mem |-> inMem,
                                           base |-> IF inMem THEN hmem.off ELSE BackingBase(a.back, size)]}
    BY DEF AllocBlock
  <1>2. HGrown(hmem', hback', size) /\ (hback.kind # "none" => hback'.kind # "none") /\ stamp' \in Nat
    BY <1>1, Allocation DEF AllocBlock, HStoreInd
  <1>3. hmem.off \in Nat /\ hback.off \in Nat /\ (hback.kind = "none" => hback.off = 0)
    BY DEF HStoreInd, HMemOK, HMemories, HBacking
  <1> DEFINE base == IF hback'.kind = "none" THEN hmem.off ELSE BackingBase(hback', size)
             new == [addr |-> HSize, size |-> size, mem |-> hback'.kind = "none", base |-> base]
  <1>4. hblocks' = hblocks \cup {new}
    BY <1>1
  <1>5. HSize \in Nat /\ HSize = hmem.off + hback.off
    BY <1>3 DEF HSize
  <1>6. /\ hback'.kind = "none" => base = HSize /\ hmem'.off = HSize + size /\ hback'.off = 0
        /\ hback'.kind # "none" => hmem' = hmem /\ base = hback.off /\ hback'.off = hback.off + size
    BY <1>2, <1>3, <1>5 DEF HGrown, BackingBase
  <1> HIDE DEF base
  <1>7. new \in HBlocks /\ new.addr = HSize /\ new.size = size /\ new.base = base /\ (new.mem <=> hback'.kind = "none")
    BY <1>3, <1>5, <1>6 DEF HBlocks
  <1> HIDE DEF new
  <1>8. HLies(new, hmem', hback')
    BY <1>3, <1>5, <1>6, <1>7 DEF HLies
  <1>9. \A b \in hblocks : HLies(b, hmem', hback') /\ b.addr + b.size <= HSize
    BY <1>2, GrowthKeeps
  <1>10. HParted(hblocks')
    BY <1>4, <1>7, <1>9 DEF HParted, HStoreInd
  <1> QED
    BY <1>2, <1>4, <1>6, <1>8, <1>9, <1>10 DEF HStoreInd, HGrown

\* Writing into the pieces of a backing store moves nothing.
LEMMA StoreWriteOK ==
  ASSUME NEW b, HBacking(b), NEW off, NEW data
  PROVE  /\ HBacking(StoreWriteAt(b, off, data)) /\ StoreWriteAt(b, off, data).off = b.off
         /\ StoreWriteAt(b, off, data).kind = b.kind
  <1>1. \E pieces : StoreWriteAt(b, off, data) = [b EXCEPT !.pieces = pieces]
    BY DEF StoreWriteAt
  <1>2. PICK pieces : StoreWriteAt(b, off, data) = [b EXCEPT !.pieces = pieces]
    BY <1>1
  <1> DEFINE k == b.kind
             o == b.off
             ps == b.pieces
  <1>3. b = [kind |-> k, pieces |-> ps, off |-> o] /\ o \in Nat
    BY DEF HBacking
  <1> HIDE DEF k, o, ps
  <1>4. StoreWriteAt(b, off, data) = [kind |-> k, pieces |-> pieces, off |-> o]
    BY <1>2, <1>3
  <1> QED
    BY <1>3, <1>4 DEF HBacking, k, o

\* Steps that write but do not allocate.
LEMMA WriteStays ==
  ASSUME HStoreInd, HMemOK(hmem'), hmem'.off = hmem.off, HBacking(hback'), hback'.off = hback.off, hback'.kind = hback.kind,
         UNCHANGED hblocks, stamp' \in Nat
  PROVE  HStoreInd'
  <1>1. \A b \in hblocks : HLies(b, hmem', hback')
    BY DEF HStoreInd, HLies
  <1> QED
    BY <1>1 DEF HStoreInd

LEMMA CacheCopyKeeps == ASSUME HStoreInd, NEW n \in Nat, NEW got \in Nat, CopyFromN(n, got) PROVE HStoreInd'
  <1> DEFINE size == CopyTurn(n)
  <1>1. size \in Nat
    BY HAssumption DEF CopyTurn, HMin
  <1> HIDE DEF size
  <1>2. PICK a \in Alloc(size) :
           IF a.back.kind = "none"
           THEN hmem' = MemWrite(a.mem, hmem.off, Stamps(got)) /\ hback' = a.back
           ELSE hmem' = a.mem /\ hback' = StoreWriteAt(a.back, BackingBase(a.back, size), Stamps(got))
    BY DEF CopyFromN, size
  <1>3. HGrown(a.mem, a.back, size) /\ (hback.kind # "none" => a.back.kind # "none")
    BY <1>1, Allocation
  <1>4. hmem.off \in Nat /\ hback.off \in Nat /\ stamp \in Nat /\ stamp' \in Nat /\ Stamps(got) \in Seq(Nat)
        /\ (hback.kind = "none" => hback.off = 0)
    <2>1. stamp \in Nat /\ (hback.kind = "none" => hback.off = 0)
      BY DEF HStoreInd
    <2>2. hmem.off \in Nat
      BY DEF HStoreInd, HMemOK, HMemories
    <2>3. hback.off \in Nat
      BY DEF HStoreInd, HBacking
    <2>4. stamp' = stamp + 1
      BY DEF CopyFromN, CanOperate
    <2>5. Stamps(got) \in Seq(Nat)
      BY <2>1, StampsAre
    <2> QED
      BY <2>1, <2>2, <2>3, <2>4, <2>5
  <1>5. /\ HMemOK(hmem') /\ hmem'.off = a.mem.off /\ HBacking(hback') /\ hback'.off = a.back.off /\ hback'.kind = a.back.kind
    <2>1. HMemOK(a.mem) /\ HBacking(a.back)
      BY <1>3 DEF HGrown
    <2>2. PICK m, k, data : m = a.mem /\ k = a.back /\ data = Stamps(got)
      OBVIOUS
    <2>3. CASE k.kind = "none"
      <3>1. HMemOK(MemWrite(m, hmem.off, data)) /\ MemWrite(m, hmem.off, data).off = m.off
        BY <1>4, <2>1, <2>2, MemWriteOK
      <3> QED
        BY <1>2, <2>1, <2>2, <2>3, <3>1
    <2>4. CASE k.kind # "none"
      <3>1. PICK base : base = BackingBase(a.back, size)
        OBVIOUS
      <3>2. /\ HBacking(StoreWriteAt(k, base, data)) /\ StoreWriteAt(k, base, data).off = k.off
            /\ StoreWriteAt(k, base, data).kind = k.kind
        BY <2>1, <2>2, StoreWriteOK
      <3>3. hmem' = m /\ hback' = StoreWriteAt(k, base, data)
        BY <1>2, <2>2, <2>4, <3>1
      <3> QED
        BY <2>1, <2>2, <3>2, <3>3
    <2> QED
      BY <2>3, <2>4
  <1>6. \A b \in hblocks : HLies(b, a.mem, a.back)
    BY <1>1, <1>3, GrowthKeeps
  <1>7. \A b \in hblocks : HLies(b, hmem', hback')
    BY <1>5, <1>6 DEF HLies
  <1>8. hblocks' = hblocks
    BY DEF CopyFromN
  <1>9. hback'.kind = "none" => hback'.off = 0
    BY <1>3, <1>4, <1>5 DEF HGrown
  <1> QED
    BY <1>4, <1>5, <1>7, <1>8, <1>9 DEF HStoreInd

LEMMA BlockWriteKeeps ==
  ASSUME HStoreInd, NEW b \in hblocks, NEW off \in Nat, NEW n \in Nat, BlockWrite(b, off, n)
  PROVE  HStoreInd'
  <1>1. HMemOK(hmem) /\ HBacking(hback) /\ b.base \in Nat /\ stamp \in Nat /\ stamp' \in Nat /\ hblocks' = hblocks
    BY DEF HStoreInd, HLies, HBlocks, BlockWrite, CanOperate
  <1>2. b.base + off \in Nat /\ Stamps(n) \in Seq(Nat)
    <2>1. Stamps(n) \in Seq(Nat)
      BY <1>1, StampsAre
    <2>2. b.base + off \in Nat
      BY <1>1
    <2> QED
      BY <2>1, <2>2
  <1>3. \/ hmem' = MemWrite(hmem, b.base + off, Stamps(n)) /\ hback' = hback
        \/ hback' = StoreWriteAt(hback, b.base + off, Stamps(n)) /\ hmem' = hmem
    BY DEF BlockWrite
  <1>4. HMemOK(hmem') /\ hmem'.off = hmem.off /\ HBacking(hback') /\ hback'.off = hback.off /\ hback'.kind = hback.kind
    <2> DEFINE at == b.base + off
               data == Stamps(n)
    <2> HIDE DEF at, data
    <2>1. CASE hmem' = MemWrite(hmem, at, data) /\ hback' = hback
      BY <1>1, <1>2, <2>1, MemWriteOK DEF at, data
    <2>2. CASE hback' = StoreWriteAt(hback, at, data) /\ hmem' = hmem
      BY <1>1, <2>2, StoreWriteOK
    <2> QED
      BY <1>3, <2>1, <2>2 DEF at, data
  <1> QED
    BY <1>1, <1>4, WriteStays

LEMMA WriteAtKeeps == ASSUME HStoreInd, NEW off \in Nat, NEW n \in Nat, HWriteAt(off, n) PROVE HStoreInd'
  <1> DEFINE m == InMemory(off, n)
             rest == HMin(n, HSize - off) - m
  <1>1. HMemOK(hmem) /\ HBacking(hback) /\ stamp \in Nat /\ hmem.off \in Nat
    BY DEF HStoreInd, HMemOK, HMemories
  <1>2. stamp' \in Nat /\ hblocks' = hblocks
    BY <1>1 DEF HWriteAt, CanOperate
  <1>3. m \in Nat
    BY <1>1 DEF InMemory, HMin
  <1>4. /\ hmem' \in {hmem, MemWrite(hmem, off, Stamps(m))}
        /\ hback' \in {hback, StoreWriteAt(hback, off + m - hmem.off, Stamps(rest))}
    BY DEF HWriteAt
  <1>5. Stamps(m) \in Seq(Nat)
    BY <1>1, <1>3, StampsAre
  <1> HIDE DEF m, rest
  <1>6. HMemOK(hmem') /\ hmem'.off = hmem.off /\ HBacking(hback') /\ hback'.off = hback.off /\ hback'.kind = hback.kind
    <2>1. PICK base, data, rdata : base = off + m - hmem.off /\ data = Stamps(m) /\ rdata = Stamps(rest)
      OBVIOUS
    <2>2. HMemOK(MemWrite(hmem, off, data)) /\ MemWrite(hmem, off, data).off = hmem.off
      BY <1>1, <1>5, <2>1, MemWriteOK
    <2>3. /\ HBacking(StoreWriteAt(hback, base, rdata)) /\ StoreWriteAt(hback, base, rdata).off = hback.off
          /\ StoreWriteAt(hback, base, rdata).kind = hback.kind
      BY <1>1, <2>1, StoreWriteOK
    <2>4. hmem' \in {hmem, MemWrite(hmem, off, data)} /\ hback' \in {hback, StoreWriteAt(hback, base, rdata)}
      BY <1>4, <2>1
    <2>5. HMemOK(hmem') /\ hmem'.off = hmem.off
      BY <1>1, <2>2, <2>4
    <2>6. HBacking(hback') /\ hback'.off = hback.off /\ hback'.kind = hback.kind
      BY <1>1, <2>3, <2>4
    <2> QED
      BY <2>5, <2>6
  <1> QED
    BY <1>2, <1>6, WriteStays

\* What is left after a rewind lies where it lay: the backing store shrinks first.
LEMMA RewindKeeps == ASSUME HStoreInd, NEW size \in Nat, RewindBySize(size) PROVE HStoreInd'
  <1> DEFINE cut == HMin(size, hback.off)
             less == FromMemory(size)
  <1>1. /\ HMemOK(hmem) /\ hmem \in HMemories /\ hmem.off \in Nat /\ HBacking(hback) /\ hback.off \in Nat /\ stamp' \in Nat
        /\ HSize = hmem.off + hback.off /\ size <= HSize
    BY DEF HStoreInd, HMemOK, HMemories, HBacking, RewindBySize, CanOperate, HSize
  <1>2. /\ cut \in Nat /\ less \in Nat /\ cut <= hback.off /\ less <= hmem.off /\ cut + less = size
        /\ (less > 0 => cut = hback.off)
    BY <1>1 DEF HMin, FromMemory
  <1>3. /\ hback' = [hback EXCEPT !.off = @ - cut] /\ hmem' = [hmem EXCEPT !.off = @ - less]
        /\ hblocks' = {b \in hblocks : b.addr + b.size <= HSize - size}
    BY DEF RewindBySize
  <1> HIDE DEF cut, less
  <1>4. hmem' \in HMemories /\ hmem'.off = hmem.off - less /\ hmem'.com = hmem.com /\ hmem'.res = hmem.res /\ hmem'.cell = hmem.cell
    <2> DEFINE o == hmem.off - less
    <2>1. o \in Nat
      BY <1>1, <1>2
    <2>2. hmem' = [hmem EXCEPT !.off = o]
      BY <1>3
    <2> HIDE DEF o
    <2> QED
      BY <1>1, <2>1, <2>2 DEF HMemories, o
  <1>5. HMemOK(hmem')
    <2>1. hmem.com \in Nat /\ hmem'.off <= hmem.off
      BY <1>1, <1>2, <1>4 DEF HMemories
    <2> QED
      BY <1>1, <1>2, <1>4, <2>1 DEF HMemOK
  <1>6. HBacking(hback') /\ hback'.off = hback.off - cut /\ hback'.kind = hback.kind
    <2> DEFINE k == hback.kind
               o == hback.off
               ps == hback.pieces
    <2>1. hback = [kind |-> k, pieces |-> ps, off |-> o] /\ o \in Nat
      BY <1>1 DEF HBacking
    <2>2. hback' = [hback EXCEPT !.off = o - cut] /\ o - cut \in Nat
      BY <1>2, <1>3, <1>1
    <2> HIDE DEF k, o, ps
    <2>3. hback' = [kind |-> k, pieces |-> ps, off |-> o - cut]
      BY <2>1, <2>2
    <2> QED
      BY <2>2, <2>3 DEF HBacking, k, o
  <1>7. ASSUME NEW b \in hblocks' PROVE b \in hblocks /\ HLies(b, hmem', hback')
    <2>1. b \in hblocks /\ b.addr + b.size <= HSize - size /\ HLies(b, hmem, hback)
      BY <1>3 DEF HStoreInd
    <2>2. b.addr \in Nat /\ b.size \in Nat /\ b.base \in Nat
      BY <2>1 DEF HLies, HBlocks
    <2>3. b.addr + b.size <= hmem'.off + hback'.off
      BY <1>1, <1>2, <1>4, <1>6, <2>1, <2>2
    <2>4. CASE less = 0
      BY <1>1, <1>4, <1>6, <2>1, <2>3, <2>4 DEF HLies
    <2>5. CASE less > 0
      <3>1. hback'.off = 0 /\ b.addr + b.size <= hmem'.off /\ hmem'.off < hmem.off
        BY <1>1, <1>2, <1>4, <1>6, <2>2, <2>3, <2>5
      <3>2. b.mem
        BY <1>1, <1>4, <2>1, <2>2, <3>1, <1>2 DEF HLies
      <3> QED
        BY <2>1, <2>3, <3>1, <3>2 DEF HLies
    <2> QED
      BY <1>2, <2>1, <2>4, <2>5
  <1>8. HParted(hblocks')
    BY <1>7 DEF HParted, HStoreInd
  <1>9. hback'.kind = "none" => hback'.off = 0
    BY <1>1, <1>2, <1>6 DEF HStoreInd
  <1> QED
    BY <1>1, <1>5, <1>6, <1>7, <1>8, <1>9 DEF HStoreInd

LEMMA CacheCloseKeeps == ASSUME HStoreInd, HClose PROVE HStoreInd'
  <1>1. HBacking(NoBack) /\ NoBack.off = 0
    BY DEF NoBack, HBacking
  <1> QED
    BY <1>1, NoMemOK DEF HClose, HStoreInd, HParted

LEMMA CacheStep == ASSUME HStoreInd, hstate = "new" => hblocks = {}, [HNext]_hcVars PROVE HStoreInd' /\ (hstate' = "new" => hblocks' = {})
  <1>1. 1 \in Nat /\ HBlockSize \in Nat /\ 1 .. HBlockSize + 1 \subseteq Nat /\ 0 .. HBlockSize + 1 \subseteq Nat
        /\ 0 .. HBlockSize - 1 \subseteq Nat /\ 1 .. HBlockSize \subseteq Nat /\ 0 .. HBound - 1 \subseteq Nat /\ HBlockSize + 1 \in Nat
    BY HAssumption
  <1>2. ASSUME NEW max \in HMaxMemories, NewHybridCache(max) PROVE HStoreInd' /\ hstate' # "new"
    <2>1. hblocks = {} /\ hstate' = "open"
      BY <1>2 DEF NewHybridCache
    <2> QED
      BY <1>2, <2>1, NewKeeps
  <1>3. ASSUME NEW n \in {1, HBlockSize}, AllocBlock(n) PROVE HStoreInd' /\ hstate' # "new"
    BY <1>1, <1>3, AllocKeeps DEF AllocBlock
  <1>4. ASSUME NEW n \in {1, HBlockSize}, RewindBySize(n) PROVE HStoreInd' /\ hstate' # "new"
    BY <1>1, <1>4, RewindKeeps DEF RewindBySize, CanOperate
  <1>5. ASSUME NEW n \in 1 .. HBlockSize + 1, NEW got \in 0 .. HBlockSize + 1, CopyFromN(n, got) PROVE HStoreInd' /\ hstate' # "new"
    <2>1. n \in Nat /\ got \in Nat
      BY <1>1
    <2> QED
      BY <1>5, <2>1, CacheCopyKeeps DEF CopyFromN, CanOperate
  <1>6. ASSUME NEW b \in hblocks, NEW off \in 0 .. HBlockSize - 1, NEW n \in 1 .. HBlockSize, BlockWrite(b, off, n)
        PROVE  HStoreInd' /\ hstate' # "new"
    <2>1. n \in Nat /\ off \in Nat
      BY <1>1
    <2> QED
      BY <1>6, <2>1, BlockWriteKeeps DEF BlockWrite, CanOperate
  <1>7. ASSUME NEW off \in 0 .. HBound - 1, NEW n \in {1, HBlockSize + 1}, HWriteAt(off, n) PROVE HStoreInd' /\ hstate' # "new"
    <2>1. n \in Nat /\ off \in Nat
      BY <1>1
    <2> QED
      BY <1>7, <2>1, WriteAtKeeps DEF HWriteAt, CanOperate
  <1>8. CASE HClose
    BY <1>8, CacheCloseKeeps DEF HClose
  <1>9. CASE UNCHANGED hcVars
    <2>1. hmem' = hmem /\ hback' = hback /\ hblocks' = hblocks /\ stamp' = stamp /\ hstate' = hstate
      BY <1>9 DEF hcVars
    <2> QED
      BY <2>1 DEF HStoreInd
  <1> QED
    BY <1>2, <1>3, <1>4, <1>5, <1>6, <1>7, <1>8, <1>9 DEF HNext

\* Whatever the sizes, the bounds and the refusals of memory: the blocks of the hybrid cache
\* that were handed out and not rewound never share a byte, in memory or in the backing
\* store, and memory is used only where it is committed (hybrid_cache.go, mem).
THEOREM BlocksStayApart == HSpec => [](HBlocksApart /\ HMemoryCommitted)
  <1> DEFINE Inv == HStoreInd /\ (hstate = "new" => hblocks = {})
  <1>1. HInit => Inv
    BY CacheStarts DEF HInit
  <1>2. Inv /\ [HNext]_hcVars => Inv'
    BY CacheStep
  <1>3. Inv => HBlocksApart /\ HMemoryCommitted
    <2>1. SUFFICES ASSUME HStoreInd PROVE HBlocksApart /\ HMemoryCommitted
      OBVIOUS
    <2>2. HMemoryCommitted
      BY <2>1 DEF HStoreInd, HMemOK, HMemoryCommitted
    <2>3. ASSUME NEW b \in hblocks, NEW c \in hblocks, b # c
          PROVE  /\ b.addr + b.size <= c.addr \/ c.addr + c.size <= b.addr
                 /\ b.mem = c.mem => b.base + b.size <= c.base \/ c.base + c.size <= b.base
      <3>1. b.addr + b.size <= c.addr \/ c.addr + c.size <= b.addr
        BY <2>1, <2>3 DEF HStoreInd, HParted
      <3>2. /\ b.addr \in Nat /\ b.size \in Nat /\ b.base \in Nat /\ c.addr \in Nat /\ c.size \in Nat /\ c.base \in Nat /\ hmem.off \in Nat
            /\ (b.mem => b.base = b.addr) /\ (~b.mem => b.addr = hmem.off + b.base)
            /\ (c.mem => c.base = c.addr) /\ (~c.mem => c.addr = hmem.off + c.base)
        BY <2>1 DEF HStoreInd, HLies, HBlocks, HMemOK, HMemories
      <3>3. CASE b.mem /\ c.mem
        BY <3>1, <3>2, <3>3
      <3>4. CASE ~b.mem /\ ~c.mem
        BY <3>1, <3>2, <3>4
      <3> QED
        BY <3>1, <3>3, <3>4
    <2> QED
      BY <2>2, <2>3 DEF HBlocksApart
  <1> HIDE DEF Inv
  <1> QED
    BY <1>1, <1>2, <1>3, PTL DEF HSpec
=============================================================================
