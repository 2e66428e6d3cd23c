------------------------------ MODULE FileStream ------------------------------
(* internal/stream/stream.go: an upload whose beginning can be looked at more   *)
(* than once.  The source can be read only once; what RangeRead and             *)
(* CacheFullAndWriter need of it is copied to a hybrid cache (peek), and Read   *)
(* goes on with the cache and then with the source.  Bytes are offsets in the   *)
(* file.  One goroutine uses a stream.                                          *)
EXTENDS Integers, Sequences

CONSTANTS FSize,      \* bytes in the source
          FLimit,     \* conf.MaxBlockLimit
          FFails,     \* bound: failures of the source
          FCalls      \* bound: calls

ASSUME FAssumption == {FSize, FLimit} \subseteq Nat \ {0} /\ {FFails, FCalls} \subseteq Nat

VARIABLES
  fs,      \* size, Reader, oriReader and peek of the stream
  fsrc,    \* bytes the source has given so far
  fcache,  \* the bytes in the hybrid cache
  fgot,    \* bytes that Read returned since the start of the stream
  fres,    \* the last result of RangeRead, and what a caching writer saw
  fghost   \* raw: Read went past the cache; mixed: cached after that; lost: see Kept

fsVars == <<fs, fsrc, fcache, fgot, fres, fghost>>

FMin(x, y) == IF x < y THEN x ELSE y
FUnwritten == [i \in 1 .. FSize + 1 |-> -1]
FBytes(from, n) == [i \in 1 .. n |-> from + i - 1]

FInit ==
  /\ fs = [size |-> -2, reader |-> "none", peekPos |-> 0, mem |-> TRUE, calls |-> 0]
  /\ fsrc = 0 /\ fcache = <<>> /\ fgot = <<>>
  /\ fres = [start |-> 0, data |-> <<>>, tee |-> <<>>, clean |-> FALSE]
  /\ fghost = [raw |-> FALSE, mixed |-> FALSE, lost |-> FALSE, fails |-> 0]

\* A stream of known or unknown (-1) size, cached in memory or in a file.
FNew(size, mem) ==
  /\ fs.size = -2
  /\ fs' = [fs EXCEPT !.size = size, !.reader = "source", !.mem = mem]
  /\ UNCHANGED <<fsrc, fcache, fgot, fres, fghost>>

FCall == fs.size # -2 /\ fs.calls < FCalls

\* The callers look at the stream before they read it, and no copy lost bytes.
FClean(g) == ~g.mixed /\ ~g.lost
FResult(start, data, tee) == fres' = [start |-> start, data |-> data, tee |-> tee, clean |-> FClean(fghost')]

\* GetFile: the whole stream is cached.
HasFile == fs.reader = "file"
HasPeek == fs.reader \in {"peek", "rest", "file"}

-----------------------------------------------------------------------------
\* DynamicReadAtSeeker.Read of k bytes.
FromPeek(k) == FMin(k, Len(fcache) - fs.peekPos)

\* Read: of the source, of MultiReader(peek, source), which leaves the cache for
\* good at its end, or of the cached file.
Leaves(k) == fs.reader = "peek" /\ FromPeek(k) < k
FRead(k) ==
  LET c == IF HasPeek /\ fs.reader # "rest" THEN FromPeek(k) ELSE 0
      s == IF fs.reader \in {"source", "rest"} \/ (Leaves(k) /\ c = 0) THEN FMin(k, FSize - fsrc) ELSE 0
  IN  /\ FCall
      /\ fgot' = fgot \o SubSeq(fcache, fs.peekPos + 1, fs.peekPos + c) \o FBytes(fsrc, s)
      /\ fsrc' = fsrc + s
      /\ fs' = [fs EXCEPT !.peekPos = @ + c, !.reader = IF Leaves(k) THEN "rest" ELSE @, !.calls = @ + 1]
      /\ fghost' = [fghost EXCEPT !.raw = @ \/ s > 0 \/ Leaves(k)]
      /\ UNCHANGED <<fcache, fres>>

-----------------------------------------------------------------------------
(* ensureCache(size): copy what is missing from the source                     *)

\* CopyFromN in memory takes blocks of FLimit; a failure after w of n bytes
\* leaves the last block, and RewindBySize(n - w) takes off as if all n bytes
\* had been allocated.
FAllocated(n, w) == IF fs.mem THEN FMin(n, ((w \div FLimit) + 1) * FLimit) ELSE n
Kept(n, w) == LET end == Len(fcache) + FAllocated(n, w) - (n - w) IN IF end < 0 THEN 0 ELSE end

\* The cache and the reader once ensureCache(size) returned, with peek moved to
\* pos; ok says whether the source gave everything.
Missing(size) == size - Len(fcache)
EnsureCache(size, pos, ok) ==
  LET n == Missing(size)
      opened == [fs EXCEPT !.reader = IF HasPeek THEN @ ELSE "peek", !.peekPos = pos, !.calls = @ + 1]
  IN  \/ n <= 0 /\ ok /\ fs' = opened /\ UNCHANGED <<fsrc, fcache, fghost>>
      \/ /\ n > 0 /\ ok
         /\ n <= FSize - fsrc
         /\ fsrc' = fsrc + n
         /\ fcache' = fcache \o FBytes(fsrc, n)
         /\ fs' = IF Len(fcache') >= fs.size THEN [opened EXCEPT !.reader = "file"] ELSE opened
         /\ fghost' = [fghost EXCEPT !.mixed = @ \/ fghost.raw]
      \/ \E w \in 0 .. FMin(n - 1, FSize - fsrc) :
           /\ n > 0 /\ ~ok
           /\ fghost.fails < FFails
           /\ fsrc' = fsrc + w
           /\ fcache' = SubSeq(fcache \o FBytes(fsrc, w) \o FUnwritten, 1, Kept(n, w))
           /\ fs' = opened
           /\ fghost' = [fghost EXCEPT !.fails = @ + 1, !.mixed = @ \/ fghost.raw, !.lost = @ \/ FAllocated(n, w) < n]

\* RangeRead(start, length): a section of the cache; the stream is not consumed.
FLength(start, length) == IF length < 0 \/ start + length > fs.size THEN fs.size - start ELSE length
RangeReadPos(start) == fs.peekPos
FRangeRead(start, length) ==
  LET n == FLength(start, length)
  IN  /\ FCall /\ fs.size >= 0 /\ start <= fs.size
      /\ \/ /\ HasFile
            /\ fs' = [fs EXCEPT !.calls = @ + 1]
            /\ UNCHANGED <<fsrc, fcache, fghost>>
            /\ FResult(start, SubSeq(fcache, start + 1, start + n), <<>>)
         \/ /\ ~HasFile /\ EnsureCache(start + n, RangeReadPos(start), TRUE)
            /\ FResult(start, SubSeq(fcache', start + 1, start + n), <<>>)
         \/ ~HasFile /\ EnsureCache(start + n, RangeReadPos(start), FALSE) /\ UNCHANGED fres
      /\ UNCHANGED fgot

\* CacheFullAndWriter, with a writer that sees every byte (a hash): a cached
\* file is copied to it; else first what is in the cache, then the source.  The
\* stream then starts again.
CacheFullAndWriter ==
  /\ FCall
  /\ fgot' = <<>>
  /\ \/ /\ HasFile
        /\ fs' = [fs EXCEPT !.peekPos = 0, !.calls = @ + 1]
        /\ UNCHANGED <<fsrc, fcache, fghost>>
        /\ FResult(0, <<>>, fcache)
     \/ /\ ~HasFile /\ fs.size >= 0 /\ EnsureCache(fs.size, 0, TRUE)
        /\ FResult(0, <<>>, fcache \o SubSeq(fcache', Len(fcache) + 1, Len(fcache')))
     \/ ~HasFile /\ fs.size >= 0 /\ EnsureCache(fs.size, 0, FALSE) /\ UNCHANGED fres
     \/ /\ ~HasFile /\ fs.size < 0       \* unknown size: all of it to a temporary file
        /\ fs' = [fs EXCEPT !.size = FSize - fsrc, !.reader = "file", !.calls = @ + 1]
        /\ fcache' = FBytes(fsrc, FSize - fsrc)
        /\ fsrc' = FSize
        /\ fghost' = [fghost EXCEPT !.mixed = @ \/ fghost.raw]
        /\ FResult(0, <<>>, fcache')

FNext ==
  \/ \E size \in {-1, FSize - 1, FSize, FSize + 1}, mem \in BOOLEAN : FNew(size, mem)
  \/ \E k \in 1 .. FSize : FRead(k)
  \/ \E start \in 0 .. FSize, length \in {-1, 1, 2} : FRangeRead(start, length)
  \/ CacheFullAndWriter

-----------------------------------------------------------------------------
(* RangeRead returns the bytes of the file at the range it was asked for, in    *)
(* whatever order ranges are asked for and after a source that failed, as long  *)
(* as the stream was not read before (FileStream.RangeRead, ensureCache).       *)
FRangeExact == fres.clean => fres.data = FBytes(fres.start, Len(fres.data))

(* A writer given to CacheFullAndWriter sees the whole file, each byte once, no *)
(* matter what was cached before: the hash is the hash of the file.             *)
FTeeWhole == fres.clean /\ fres.tee # <<>> => fres.tee = FBytes(0, fs.size)

(* Looking at a stream does not consume it: Read returns the file from its      *)
(* first byte on, without a gap where the cache ends (RangeRead: "does not      *)
(* consume the stream").                                                        *)
FReadWhole == FClean(fghost) => fgot = FBytes(0, Len(fgot))
=============================================================================
