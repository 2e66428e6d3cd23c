---------------------------- MODULE SectionReader ----------------------------
(* internal/stream/util.go: a stream is handed out in sections that uploading  *)
(* goroutines read and seek in at the same time; the block of a section that   *)
(* was freed serves a later one.  Sections have one length, the last may be    *)
(* shorter.  Bytes are offsets in the file.                                    *)
EXTENDS Naturals, Sequences

CONSTANTS SSize,     \* file.GetSize()
          SLen,      \* length of a section
          SFails     \* bound: failures of the source

ASSUME SAssumption == {SSize, SLen} \subseteq Nat \ {0} /\ SFails \in Nat

VARIABLES
  soff,     \* fileOffset: what was taken from the stream
  shc,      \* the hybrid cache: address -> byte
  sfree,    \* ss.cache: the stack of blocks to use again
  slive,    \* sections handed out: [off, len, block]
  sfails

secVars == <<soff, shc, sfree, slive, sfails>>

SecInit == soff = 0 /\ shc = <<>> /\ sfree = <<>> /\ slive = {} /\ sfails = 0

SecLen(off) == IF SSize - off < SLen THEN SSize - off ELSE SLen
SecBytes(off, n) == [i \in 1 .. n |-> off + i - 1]

\* The cache after bytes were written to a block.
SecWrite(b, data) ==
  [i \in 1 .. Len(shc) |-> IF i \in b.addr + 1 .. b.addr + Len(data) THEN data[i - b.addr] ELSE shc[i]]

\* GetSectionReader: the next section, in a block used before or in a new one
\* (CopyFromN).  A source that fails after n bytes has given them up, and the
\* block is not returned to the stack.
GetSectionReader(n) ==
  LET len == SecLen(soff)
      data == SecBytes(soff, n)
      reuse == sfree # <<>>
      b == IF reuse THEN sfree[Len(sfree)] ELSE [addr |-> Len(shc), size |-> len]
  IN  /\ len > 0
      /\ soff' = soff + n
      /\ sfree' = IF reuse THEN SubSeq(sfree, 1, Len(sfree) - 1) ELSE sfree
      /\ shc' = IF reuse THEN SecWrite(b, data) ELSE shc \o data \o [i \in 1 .. len - n |-> 0]
      /\ \/ n = len /\ slive' = slive \cup {[off |-> soff, len |-> len, block |-> b]} /\ UNCHANGED sfails
         \/ n < len /\ sfails < SFails /\ sfails' = sfails + 1 /\ UNCHANGED slive

\* DiscardSection: skip a section of the stream.
DiscardSection(n) ==
  /\ n <= SecLen(soff) /\ n > 0
  /\ n < SecLen(soff) => sfails < SFails
  /\ sfails' = IF n < SecLen(soff) THEN sfails + 1 ELSE sfails
  /\ soff' = soff + n
  /\ UNCHANGED <<shc, sfree, slive>>

\* FreeSectionReader, by any of the uploading goroutines.
FreeSectionReader(s) ==
  /\ s \in slive
  /\ slive' = slive \ {s}
  /\ sfree' = Append(sfree, s.block)
  /\ UNCHANGED <<soff, shc, sfails>>

SecNext ==
  \/ \E n \in 0 .. SLen : GetSectionReader(n) \/ DiscardSection(n)
  \/ \E s \in slive : FreeSectionReader(s)

(* A section that was handed out and not freed reads the bytes of the file at   *)
(* its offset, whatever sections are taken, skipped and freed meanwhile, and    *)
(* also after a source that failed in the middle of one.                        *)
SSectionExact ==
  \A s \in slive : \A i \in 1 .. s.len : shc[s.block.addr + i] = s.off + i - 1
=============================================================================
