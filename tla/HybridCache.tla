----------------------------- MODULE HybridCache -----------------------------
(* internal/hybrid_cache and internal/mem: a growing store of bytes that begins *)
(* in mapped memory and goes on in a backing store (Go memory, one file, or one *)
(* file per growth where truncating is refused).  One goroutine at a time.      *)
(* `flat` is what the owner of the store remembers of it: the address of the    *)
(* store as one block, and the last value written there.                        *)
EXTENDS Naturals, Sequences, FiniteSets

CONSTANTS HBlockSize,    \* blockSize
          HMaxMemories,  \* values of maxMemorySize
          HAutoLimit,    \* conf.AutoMemoryLimit
          HBlockLimit,   \* conf.MaxBlockLimit
          HPage,         \* the page size
          HBound,        \* bound: bytes in the store
          HOps           \* bound: writes and rewinds

ASSUME HAssumption ==
  /\ HMaxMemories \cup {HBlockSize, HPage, HBlockLimit} \subseteq Nat \ {0}
  /\ {HAutoLimit, HBound, HOps} \subseteq Nat

VARIABLES
  hmem,    \* memoryStore: in use, committed and reserved bytes, memoryOffset, cells
  hback,   \* backingStore: its kind, its pieces (size, written, cells), backingOffset
  hblocks, \* blocks handed out: address, size, and where they really are
  flat,    \* address -> value remembered; 0 where nothing is
  stamp,   \* the next value to write
  hstate   \* "new", "open" or "closed"

hcVars == <<hmem, hback, hblocks, flat, stamp, hstate>>

HMin(x, y) == IF x < y THEN x ELSE y
HMax(x, y) == IF x > y THEN x ELSE y
RoundUp(n) == ((n + HPage - 1) \div HPage) * HPage

Zeros(n) == [i \in 1 .. n |-> 0]
NoMem == [on |-> FALSE, com |-> 0, res |-> 0, off |-> 0, cell |-> <<>>]
NoBack == [kind |-> "none", pieces |-> <<>>, off |-> 0]
Piece(n) == [size |-> n, written |-> 0, cell |-> Zeros(n)]

\* Size()
HSize == hmem.off + hback.off

HInit ==
  /\ hmem = NoMem /\ hback = NoBack /\ hblocks = {}
  /\ flat = <<>> /\ stamp = 1 /\ hstate = "new"

-----------------------------------------------------------------------------
(* BufferStore, singleFileStore and MultiFileStore *)

StoreSize(pieces) ==
  LET sum[i \in 0 .. Len(pieces)] == IF i = 0 THEN 0 ELSE sum[i - 1] + pieces[i].size
  IN  sum[Len(pieces)]

\* GrowTo: one file is truncated to the new size, the others get another piece.
GrowTo(b, size) ==
  LET old == StoreSize(b.pieces)
  IN  IF size <= old THEN b.pieces
      ELSE IF b.kind = "single"
      THEN <<[b.pieces[1] EXCEPT !.size = size, !.cell = @ \o Zeros(size - old)]>>
      ELSE Append(b.pieces, Piece(size - old))

\* The pieces are files or slices; a file of a MultiFileStore is only as long
\* as what was written to it, and the rest reads as zeros.
PieceRead(kind, p, off, n) ==
  [i \in 1 .. n |-> IF kind = "multi" /\ off + i > p.written THEN 0 ELSE p.cell[off + i]]

\* ReadAt: skip the pieces before off, then read on from the start of each.
StoreReadAt(b, off, n) ==
  LET r[i \in 1 .. Len(b.pieces) + 1, o \in 0 .. HBound, m \in 0 .. HBound] ==
        IF i > Len(b.pieces) \/ m = 0 THEN <<>>
        ELSE LET p == b.pieces[i]
                 can == HMin(m, p.size - o)
             IN  IF o >= p.size THEN r[i + 1, o - p.size, m]
                 ELSE PieceRead(b.kind, p, o, can) \o r[i + 1, 0, m - can]
  IN  r[1, off, n]

\* WriteAt, piece by piece in the same way; `written` is a high-water mark.
Mark(p, end) == HMax(p.written, end)
PieceWrite(p, off, data) ==
  [p EXCEPT !.written = Mark(p, off + Len(data)),
            !.cell = [i \in 1 .. p.size |-> IF i \in off + 1 .. off + Len(data) THEN data[i - off] ELSE p.cell[i]]]
StoreWritten(b, off, data) ==
  LET w[i \in 1 .. Len(b.pieces) + 1, o \in 0 .. HBound, k \in 0 .. Len(data)] ==
        IF i > Len(b.pieces) THEN <<>>
        ELSE LET p == b.pieces[i]
                 can == HMin(Len(data) - k, p.size - o)
             IN  IF k = Len(data) THEN <<p>> \o w[i + 1, 0, k]
                 ELSE IF o >= p.size THEN <<p>> \o w[i + 1, o - p.size, k]
                 ELSE <<PieceWrite(p, o, SubSeq(data, k + 1, k + can))>> \o w[i + 1, 0, k + can]
  IN  w[1, off, 0]
StoreWriteAt(b, off, data) == [b EXCEPT !.pieces = StoreWritten(b, off, data)]

-----------------------------------------------------------------------------
(* mmappedMemory.Reallocate *)

\* What the committed memory grows to: by an eighth at least, whole pages, and
\* within what is reserved.
Committed(size) == RoundUp(HMin(HMax(size, hmem.com + hmem.com \div 8), hmem.res))

\* May memory of this size be had?  The check of free memory and mprotect may
\* refuse any growth, but never one that is committed already.
Reallocates(size, granted) == size <= hmem.com \/ (size <= hmem.res /\ granted)

Reallocated(size) ==
  IF size <= hmem.com THEN hmem
  ELSE [hmem EXCEPT !.com = Committed(size), !.cell = @ \o Zeros(Committed(size) - hmem.com)]

-----------------------------------------------------------------------------
(* HybridCache *)

\* NewFileStore: truncating to the block size may be refused.
FileStore(kind) == [kind |-> kind, pieces |-> <<Piece(HBlockSize)>>, off |-> 0]
FileKinds == {"single", "multi"}

\* NewHybridCache: Go memory for small stores, mapped memory, or a file.
NewHybridCache(max) ==
  /\ hstate = "new" /\ hstate' = "open"
  /\ \/ /\ max <= HAutoLimit
        /\ hback' = [kind |-> "buffer", pieces |-> <<>>, off |-> 0]
        /\ UNCHANGED hmem
     \/ /\ max > HAutoLimit /\ max >= HBlockSize
        /\ LET com == IF HBlockSize < max THEN 0 ELSE RoundUp(max)
           IN  hmem' = [on |-> TRUE, com |-> com, res |-> RoundUp(max), off |-> 0, cell |-> Zeros(com)]
        /\ UNCHANGED hback
     \/ max > HAutoLimit /\ (\E k \in FileKinds : hback' = FileStore(k)) /\ UNCHANGED hmem
  /\ UNCHANGED <<hblocks, flat, stamp>>

AllocBacking(b, size) == [b EXCEPT !.pieces = GrowTo(b, b.off + size), !.off = @ + size]

\* The memory and the backing store after size bytes are allocated: in the
\* backing store as soon as there is one, in memory while it grows, else in a
\* new file (initFileCache).
Alloc(size) ==
  IF hback.kind # "none" THEN {[mem |-> hmem, back |-> AllocBacking(hback, size)]}
  ELSE {[mem |-> [Reallocated(hmem.off + size) EXCEPT !.off = @ + size], back |-> hback]
          : x \in {y \in {0} : Reallocates(hmem.off + size, TRUE)}}
       \cup
       {[mem |-> hmem, back |-> AllocBacking(FileStore(k), size)]
          : k \in {y \in FileKinds : ~Reallocates(hmem.off + size, FALSE)}}

\* The values that one operation writes; every operation has its own.
Stamps(n) == [i \in 1 .. n |-> stamp]
CanOperate == hstate = "open" /\ stamp <= HOps /\ stamp' = stamp + 1
MemWrite(m, off, data) ==
  [m EXCEPT !.cell = [i \in 1 .. m.com |-> IF i \in off + 1 .. off + Len(data) THEN data[i - off] ELSE @[i]]]
Remember(off, n) == [i \in 1 .. Len(flat) |-> IF i \in off + 1 .. off + n THEN stamp ELSE flat[i]]

\* Where the bytes that were just allocated begin.  (Mutant: where they end.)
BackingBase_End(b, size) == b.off
BackingBase(b, size) == b.off - size

\* AllocBlock: the block's bytes are at a base of the part it was taken from.
AllocBlock(size) ==
  /\ hstate = "open" /\ HSize + size <= HBound
  /\ \E a \in Alloc(size) :
       LET inMem == a.back.kind = "none"
       IN  /\ hmem' = a.mem /\ hback' = a.back
           /\ hblocks' = hblocks \cup {[addr |-> HSize, size |-> size, mem |-> inMem,
                                        base |-> IF inMem THEN hmem.off ELSE BackingBase(a.back, size)]}
  /\ flat' = flat \o Zeros(size)
  /\ UNCHANGED <<stamp, hstate>>

\* One turn of CopyFromN, for n more bytes of which the source gives got: the
\* memory is taken in pieces of MaxBlockLimit (allocWriteAtSeeker).
CopyTurn(n) == IF hback.kind = "none" THEN HMin(n, HBlockLimit) ELSE n
CopyFromN(n, got) ==
  LET size == CopyTurn(n)
  IN  /\ CanOperate
      /\ got <= size /\ HSize + size <= HBound
      /\ \E a \in Alloc(size) :
           IF a.back.kind = "none"
           THEN hmem' = MemWrite(a.mem, hmem.off, Stamps(got)) /\ hback' = a.back
           ELSE hmem' = a.mem /\ hback' = StoreWriteAt(a.back, BackingBase(a.back, size), Stamps(got))
      /\ flat' = flat \o Stamps(got) \o Zeros(size - got)
      /\ UNCHANGED <<hblocks, hstate>>

\* A block's own WriteAt, within its size.
BlockWrite(b, off, n) ==
  /\ CanOperate
  /\ off + n <= b.size
  /\ IF b.mem THEN hmem' = MemWrite(hmem, b.base + off, Stamps(n)) /\ UNCHANGED hback
     ELSE hback' = StoreWriteAt(hback, b.base + off, Stamps(n)) /\ UNCHANGED hmem
  /\ flat' = Remember(b.addr + off, n)
  /\ UNCHANGED <<hblocks, hstate>>

\* WriteAt and ReadAt of the whole store: the part in memory, then the rest.
InMemory(off, n) == IF off < hmem.off THEN HMin(n, hmem.off - off) ELSE 0

HWriteAt(off, n) ==
  LET m == InMemory(off, n)
      rest == HMin(n, HSize - off) - m
  IN  /\ CanOperate
      /\ off < HSize
      /\ hmem' = IF m > 0 THEN MemWrite(hmem, off, Stamps(m)) ELSE hmem
      /\ hback' = IF rest > 0 THEN StoreWriteAt(hback, off + m - hmem.off, Stamps(rest)) ELSE hback
      /\ flat' = Remember(off, HMin(n, HSize - off))
      /\ UNCHANGED <<hblocks, hstate>>

BackingOff(off, m) == off + m - hmem.off
HReadAt(off, n) ==
  LET m == InMemory(off, n)
      rest == HMin(n - m, HSize - (off + m))
  IN  IF off >= HSize THEN <<>>
      ELSE SubSeq(hmem.cell, off + 1, off + m)
           \o (IF rest > 0 THEN StoreReadAt(hback, BackingOff(off, m), rest) ELSE <<>>)

\* RewindBySize: the backing store first, then the memory.
FromMemory(size) == size - HMin(size, hback.off)
RewindBySize(size) ==
  /\ CanOperate /\ size <= HSize
  /\ hback' = [hback EXCEPT !.off = @ - HMin(size, hback.off)]
  /\ hmem' = [hmem EXCEPT !.off = @ - FromMemory(size)]
  /\ flat' = SubSeq(flat, 1, HSize - size)
  /\ hblocks' = {b \in hblocks : b.addr + b.size <= HSize - size}
  /\ UNCHANGED hstate

HClose ==
  /\ hstate = "open"
  /\ hstate' = "closed"
  /\ hmem' = NoMem /\ hback' = NoBack /\ hblocks' = {} /\ flat' = <<>>
  /\ UNCHANGED stamp

HNext ==
  \/ \E max \in HMaxMemories : NewHybridCache(max)
  \/ \E n \in {1, HBlockSize} : AllocBlock(n) \/ RewindBySize(n)
  \/ \E n \in 1 .. HBlockSize + 1, got \in 0 .. HBlockSize + 1 : CopyFromN(n, got)
  \/ \E b \in hblocks, off \in 0 .. HBlockSize - 1, n \in 1 .. HBlockSize : BlockWrite(b, off, n)
  \/ \E off \in 0 .. HBound - 1, n \in {1, HBlockSize + 1} : HWriteAt(off, n)
  \/ HClose
HSpec == HInit /\ [][HNext]_hcVars

-----------------------------------------------------------------------------
(* The store reads back what was written: wherever a range begins and ends, in *)
(* memory, in the backing store, across both or across several pieces, ReadAt  *)
(* returns as many bytes as there are and each is the last one written there,  *)
(* through a block or through the store (HybridCache.ReadAt, MultiFileStore).  *)
HReadsBack ==
  \A off \in 0 .. HBound - 1, n \in 1 .. HBound :
    LET r == HReadAt(off, n)
    IN  off < HSize =>
          /\ Len(r) = HMin(n, HSize - off)
          /\ \A i \in 1 .. Len(r) : flat[off + i] # 0 => r[i] = flat[off + i]

(* Blocks that were handed out and not rewound never share a byte: neither by  *)
(* their address nor in the part that holds them (AllocBlock, RewindBySize).   *)
HBlocksApart ==
  \A b, c \in hblocks : b # c =>
    /\ b.addr + b.size <= c.addr \/ c.addr + c.size <= b.addr
    /\ b.mem = c.mem => b.base + b.size <= c.base \/ c.base + c.size <= b.base

(* Memory is used only where it is committed, and committed only where it is   *)
(* reserved (mmappedMemory.Reallocate).                                        *)
HMemoryCommitted ==
  /\ hmem.off <= hmem.com /\ hmem.com <= hmem.res
  /\ Len(hmem.cell) = hmem.com

(* The cache is one store, though it lies in memory and in files and its blocks *)
(* come and go: what was written is read, by those who own it (HybridCache).    *)
CacheSafe == HReadsBack /\ HBlocksApart /\ HMemoryCommitted
=============================================================================
