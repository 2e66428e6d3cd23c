------------------------------- MODULE ByteFifo -------------------------------
(* What a pipe buffer promises to the downloader: the bytes that were written *)
(* since the last reset come out once, in order, and never more than `limit`  *)
(* of them.  Each step below is one call that took effect.                    *)
EXTENDS Naturals, Sequences

CONSTANTS FifoSize, FifoUses

VARIABLES fifo     \* [limit, in, out, open]: bytes accepted and bytes delivered

FifoBytes(n) == [i \in 1 .. n |-> i - 1]

FifoInit == fifo = [use |-> 1, limit |-> FifoSize, in |-> 0, out |-> <<>>, open |-> TRUE]

FifoAccept(n) ==
  /\ fifo.in + n <= fifo.limit
  /\ fifo' = [fifo EXCEPT !.in = @ + n]

FifoDeliver(n) ==
  /\ Len(fifo.out) + n <= fifo.in
  /\ fifo' = [fifo EXCEPT !.out = FifoBytes(Len(fifo.out) + n)]

FifoReset(limit) ==
  /\ fifo.open
  /\ fifo.use < FifoUses
  /\ Len(fifo.out) = fifo.limit
  /\ fifo' = [use |-> fifo.use + 1, limit |-> limit, in |-> 0, out |-> <<>>, open |-> fifo.open]

FifoClose ==
  /\ fifo.open
  /\ fifo' = [use |-> fifo.use, limit |-> fifo.limit, in |-> fifo.in, out |-> fifo.out, open |-> FALSE]

FifoNext ==
  \/ \E n \in 1 .. FifoSize : FifoAccept(n) \/ FifoDeliver(n) \/ FifoReset(n)
  \/ FifoClose

FifoSpec == FifoInit /\ [][FifoNext]_fifo
=============================================================================
