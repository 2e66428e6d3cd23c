----------------------------- MODULE ReadAtSeeker -----------------------------
(* internal/stream/stream.go, RangeReadReadAtSeeker: random access to a link    *)
(* that can only be read forward.  Readers that are in the middle of the file   *)
(* are kept in readerMap under their offset; ReadAt takes the nearest one       *)
(* behind the offset it needs, skips forward and puts it back.  Several         *)
(* goroutines may call ReadAt; Read, Seek and the head cache belong to one.     *)
(* A reader is the offset of its next byte.                                     *)
EXTENDS Integers, Sequences

CONSTANTS RSize,      \* ss.GetSize()
          RWindow,    \* how far a reader may be moved forward (4 MB)
          RCallers,   \* goroutines that call ReadAt
          RCalls,     \* bound: calls
          RFails      \* bound: failures of a reader

ASSUME RAssumption == {RSize, RWindow} \subseteq Nat \ {0} /\ {RCalls, RFails} \subseteq Nat

VARIABLES
  rmap,     \* readerMap: offset -> reader
  rcall,    \* the calls of ReadAt
  rhead,    \* headCache: in use, its bytes and its reader
  rmaster,  \* masterOff
  rcount, rfails

rasVars == <<rmap, rcall, rhead, rmaster, rcount, rfails>>

RIdle == [pc |-> "idle", off |-> 0, n |-> 0, cur |-> -1, rr |-> -1, data |-> <<>>, seq |-> FALSE]
RBytes(from, n) == [i \in 1 .. n |-> from + i - 1]
RMin(x, y) == IF x < y THEN x ELSE y
RStore(f, k, v) == [x \in DOMAIN f \cup {k} |-> IF x = k THEN v ELSE f[x]]
RDelete(f, k) == [x \in DOMAIN f \ {k} |-> f[x]]

\* NewReadAtSeeker(ss, 0): the stream itself is the reader at 0.
RInit ==
  /\ rmap = [x \in {0} |-> 0]
  /\ rcall = [c \in RCallers |-> RIdle]
  /\ rhead = [on |-> FALSE, data |-> <<>>, rr |-> -1]
  /\ rmaster = 0 /\ rcount = 0 /\ rfails = 0

RFailure == rfails < RFails /\ rfails' = rfails + 1
Master == CHOOSE c \in RCallers : TRUE

\* InitHeadCache takes the reader at 0 out of the map.
InitHeadCache ==
  /\ rcount = 0 /\ ~rhead.on
  /\ rhead' = [on |-> TRUE, data |-> <<>>, rr |-> rmap[0]]
  /\ rmap' = RDelete(rmap, 0)
  /\ UNCHANGED <<rcall, rmaster, rcount, rfails>>

\* ReadAt(p, off), or Read at masterOff.
ReadAtStart(c, off, n, seq) ==
  /\ rcall[c].pc = "idle" /\ rcount < RCalls
  /\ off < RSize
  /\ off = 0 => ~rhead.on
  /\ seq => c = Master /\ off = rmaster
  /\ rcall' = [rcall EXCEPT ![c] = [RIdle EXCEPT !.pc = "find", !.off = off, !.n = n, !.seq = seq]]
  /\ rcount' = rcount + 1
  /\ UNCHANGED <<rmap, rhead, rmaster, rfails>>

\* headCache.head: the kept bytes first, then the reader; what it gives is kept.
HeadRead(n) ==
  /\ rhead.on /\ rcall[Master].pc = "idle" /\ rcount < RCalls
  /\ LET from == RMin(n, Len(rhead.data))
         more == RMin(n - from, RSize - rhead.rr)
     IN  /\ rcall' = [rcall EXCEPT ![Master] = [RIdle EXCEPT !.pc = "done", !.n = n,
                        !.data = SubSeq(rhead.data, 1, from) \o RBytes(rhead.rr, more)]]
         /\ rhead' = [rhead EXCEPT !.data = @ \o RBytes(rhead.rr, more), !.rr = @ + more]
  /\ rcount' = rcount + 1
  /\ UNCHANGED <<rmap, rmaster, rfails>>

\* getReaderAtOffset: Range over the map for the nearest reader in the window.
InWindow(off, k) == off >= k /\ off - k <= RWindow
Nearest(off) ==
  LET near == {k \in DOMAIN rmap : InWindow(off, k)}
  IN  IF near = {} THEN -1 ELSE CHOOSE k \in near : \A j \in near : j <= k

Find(c) ==
  /\ rcall[c].pc = "find"
  /\ rcall' = [rcall EXCEPT ![c].cur = Nearest(rcall[c].off),
                            ![c].pc = IF Nearest(rcall[c].off) < 0 THEN "open" ELSE "take"]
  /\ UNCHANGED <<rmap, rhead, rmaster, rcount, rfails>>

\* LoadAndDelete: another goroutine may have taken it.
Taken(k) == RDelete(rmap, k)
Take(c) ==
  /\ rcall[c].pc = "take"
  /\ \/ /\ rcall[c].cur \notin DOMAIN rmap
        /\ rcall' = [rcall EXCEPT ![c].pc = "find"]
        /\ UNCHANGED rmap
     \/ /\ rcall[c].cur \in DOMAIN rmap
        /\ rmap' = Taken(rcall[c].cur)
        /\ rcall' = [rcall EXCEPT ![c].rr = rcall[c].cur,
                                  ![c].pc = IF rcall[c].off = rcall[c].cur THEN "read" ELSE "skip"]
  /\ UNCHANGED <<rhead, rmaster, rcount, rfails>>

\* CopyN moves a reader forward only.
Skipped(cur, off) == IF off > cur THEN off ELSE cur

\* Skip forward, or open another reader when that fails.
Skip(c) ==
  /\ rcall[c].pc = "skip"
  /\ \/ rcall' = [rcall EXCEPT ![c].rr = Skipped(@, rcall[c].off), ![c].pc = "read"] /\ UNCHANGED rfails
     \/ RFailure /\ rcall' = [rcall EXCEPT ![c].pc = "open"]
  /\ UNCHANGED <<rmap, rhead, rmaster, rcount>>

Open(c) ==
  /\ rcall[c].pc = "open"
  /\ \/ rcall' = [rcall EXCEPT ![c].rr = rcall[c].off, ![c].pc = "read"] /\ UNCHANGED rfails
     \/ RFailure /\ rcall' = [rcall EXCEPT ![c].pc = "done"]
  /\ UNCHANGED <<rmap, rhead, rmaster, rcount>>

\* io.ReadFull: a reader that gave everything goes back to the map.
\* (Mutant: under the offset where the call began.)
BackAt_Start(c, n) == rcall[c].off
BackAt(c, n) == rcall[c].off + n
ReadFull(c) ==
  /\ rcall[c].pc = "read"
  /\ LET can == RMin(rcall[c].n, RSize - rcall[c].rr)
     IN  \E n \in 0 .. can :
           /\ n < can => RFailure
           /\ n = can => UNCHANGED rfails
           /\ rcall' = [rcall EXCEPT ![c].pc = "done", ![c].data = RBytes(rcall[c].rr, n)]
           /\ rmap' = IF n = rcall[c].n THEN RStore(rmap, BackAt(c, n), rcall[c].rr + n) ELSE rmap
  /\ UNCHANGED <<rhead, rmaster, rcount>>

ReadAtReturn(c) ==
  /\ rcall[c].pc = "done"
  /\ rcall' = [rcall EXCEPT ![c] = RIdle]
  /\ rmaster' = IF rcall[c].seq THEN rmaster + Len(rcall[c].data) ELSE rmaster
  /\ UNCHANGED <<rmap, rhead, rcount, rfails>>

RSeek(off) ==
  /\ rcall[Master].pc = "idle" /\ off # rmaster /\ rcount < RCalls
  /\ rmaster' = off
  /\ rcount' = rcount + 1
  /\ UNCHANGED <<rmap, rcall, rhead, rfails>>

RStep(c) == Find(c) \/ Take(c) \/ Skip(c) \/ Open(c) \/ ReadFull(c) \/ ReadAtReturn(c)

RNext ==
  \/ InitHeadCache
  \/ \E n \in 1 .. RSize : HeadRead(n)
  \/ \E c \in RCallers : RStep(c)
  \/ \E c \in RCallers, off \in 0 .. RSize - 1, n \in 1 .. RSize, seq \in BOOLEAN : ReadAtStart(c, off, n, seq)
  \/ \E off \in 0 .. RSize : RSeek(off)

(* ReadAt returns the bytes of the file at its offset, though goroutines take   *)
(* readers from the map, move them and put them back at the same time, and      *)
(* though a reader may fail while it is moved (getReaderAtOffset, ReadAt).       *)
RReadExact == \A c \in RCallers : rcall[c].data = RBytes(rcall[c].off, Len(rcall[c].data))

(* A reader in the map stands where its key says and belongs to nobody else:    *)
(* no goroutine is reading from it.                                             *)
RReadersAligned == \A k \in DOMAIN rmap : rmap[k] = k
=============================================================================
