------------------------------ MODULE SearchPages ------------------------------
(* A page of search results, of which the user may see only some               *)
(* (search.SearchFiltered and the SearchFiltered of Bleve and of NoIndex).  The *)
(* matches are fetched in batches, filtered, counted, and the ones that fall    *)
(* into the page are kept.  The searchers differ in how they go on: by page     *)
(* number, after the last match seen, or by a walk that stops at a limit and is *)
(* sorted at its end.  A match is its rank in the order of the results.         *)
EXTENDS Integers, Sequences, FiniteSets, SequencesExt

CONSTANTS VMax,        \* the matches are 1..VMax
          VBatch,      \* searchBatchSize
          VLimit,      \* maxResults of a walk
          VReqs        \* requests: [page, per]

ASSUME VAssumption == VMax \in Nat /\ VBatch \in Nat \ {0} /\ VLimit \in Nat \ {0}
                      /\ \A r \in VReqs : r.page \in Nat \ {0} /\ r.per \in Nat

VARIABLES
  vkind,      \* "pages", "bleve" or "walk"
  vreq,
  vrows,      \* the matches that are indexed
  vshown,     \* those that the filter lets through
  vpage,      \* pages: the batches fetched
  vafter,     \* bleve: the last match seen; walk: not used
  vleft,      \* walk: the matches not yet met
  vresult, vtotal, vdone,
  vgrown      \* ghost: a match was added during the search

pageVars == <<vkind, vreq, vrows, vshown, vpage, vafter, vleft, vresult, vtotal, vdone, vgrown>>

VInit ==
  /\ vkind \in {"pages", "bleve", "walk"} /\ vreq \in VReqs
  /\ vrows \in SUBSET (1..VMax) /\ vshown \in SUBSET (1..VMax)
  /\ vpage = 0 /\ vafter = 0 /\ vleft = vrows
  /\ vresult = <<>> /\ vtotal = 0 /\ vdone = FALSE /\ vgrown = FALSE

-----------------------------------------------------------------------------
VSorted(S) == SetToSortSeq(S, <)
VSlice(s, m, n) == SubSeq(s, m, IF n > Len(s) THEN Len(s) ELSE n)
VFrom == (vreq.page - 1) * vreq.per
VInPage(n) == n >= VFrom /\ n < VFrom + vreq.per

\* The loop over a batch: count what the filter lets through, keep what is in the page.
VKept(batch) ==
  LET seen == SelectSeq(batch, LAMBDA x : x \in vshown)
      kept == {seen[i] : i \in {j \in DOMAIN seen : VInPage(vtotal + j - 1)}}
  IN  vtotal' = vtotal + Len(seen) /\ vresult' = vresult \o SelectSeq(seen, LAMBDA x : x \in kept)

\* External: a page of the searcher's own.
VFetched == VSlice(VSorted(vrows), vpage * VBatch + 1, (vpage + 1) * VBatch)
SearchFilteredBatch ==
  /\ vkind = "pages" /\ ~vdone
  /\ VKept(VFetched) /\ vpage' = vpage + 1
  /\ vdone' = (VFetched = <<>> \/ vpage * VBatch + Len(VFetched) >= Cardinality(vrows))
  /\ UNCHANGED <<vkind, vreq, vrows, vshown, vafter, vleft, vgrown>>

\* Bleve continues after the last match; a short batch is the last one.
VAfter == VSorted({x \in vrows : x > vafter})
VHits == VSlice(VAfter, 1, VBatch)
\* (Mutant: it continues with the last match.)
VContinue_Same(hits) == hits[Len(hits)] - 1
VContinue(hits) == hits[Len(hits)]
BleveBatch ==
  /\ vkind = "bleve" /\ ~vdone
  /\ VKept(VHits)
  /\ IF Len(VHits) < VBatch THEN vdone' = TRUE /\ UNCHANGED vafter ELSE vafter' = VContinue(VHits) /\ UNCHANGED vdone
  /\ UNCHANGED <<vkind, vreq, vrows, vshown, vpage, vleft, vgrown>>

\* NoIndex meets the matches in the order of its walk, up to the limit.
Walk ==
  /\ vkind = "walk" /\ ~vdone /\ vleft # {} /\ vtotal < VLimit
  /\ \E x \in vleft :
       /\ vleft' = vleft \ {x}
       /\ vtotal' = vtotal + (IF x \in vshown THEN 1 ELSE 0)
       /\ vresult' = IF x \in vshown THEN VSorted({x} \cup {vresult[i] : i \in DOMAIN vresult}) ELSE vresult
  /\ UNCHANGED <<vkind, vreq, vrows, vshown, vpage, vafter, vdone, vgrown>>
WalkEnds ==
  /\ vkind = "walk" /\ ~vdone /\ (vleft = {} \/ vtotal = VLimit) /\ vdone' = TRUE
  /\ vresult' = [i \in 1..Cardinality({n \in 0..(vtotal - 1) : VInPage(n)}) |-> vresult[VFrom + i]]
  /\ UNCHANGED <<vkind, vreq, vrows, vshown, vpage, vafter, vleft, vtotal, vgrown>>

\* An update of the index between two batches.
VGrow ==
  /\ ~vdone /\ vkind # "walk" /\ ~vgrown /\ vgrown' = TRUE
  /\ \E x \in (1..VMax) \ vrows : vrows' = vrows \cup {x}
  /\ UNCHANGED <<vkind, vreq, vshown, vpage, vafter, vleft, vresult, vtotal, vdone>>

VNext == SearchFilteredBatch \/ BleveBatch \/ Walk \/ WalkEnds \/ VGrow

-----------------------------------------------------------------------------
\* The page is that part of the sequence of visible matches, wherever the batches end,
\* and the total counts the visible ones only; a walk that met its limit has that many.
VPage ==
  vdone /\ ~vgrown =>
    LET all == VSorted(vrows \cap vshown)
    IN  IF vkind = "walk" /\ Len(all) >= VLimit THEN vtotal = VLimit
        ELSE vtotal = Len(all) /\ vresult = VSlice(all, VFrom + 1, VFrom + vreq.per)

\* A search that continues after the last match shows no match twice and counts none
\* twice although the index grows between two batches (Bleve.SearchFiltered).
VNoneTwice ==
  vkind = "bleve" => /\ \A i, j \in DOMAIN vresult : i < j => vresult[i] < vresult[j]
                     /\ vtotal <= Cardinality(vrows \cap vshown)

\* A page of a search shows each visible match in its place, once (search/search.go).
SearchExact == VPage /\ VNoneTwice
=============================================================================
