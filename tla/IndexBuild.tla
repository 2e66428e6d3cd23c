------------------------------ MODULE IndexBuild ------------------------------
(* Building the search index (search/build.go, handles/index.go).  A handler     *)
(* starts a goroutine that clears a part of the index and then walks the tree.   *)
(* What it meets goes into a queue that a second goroutine, the consumer, writes *)
(* to the index, until a token on the build's own channel tells it to quit:      *)
(* from the walker, which has ended, or from StopIndex.                          *)
EXTENDS Integers, Sequences, FiniteSets, SequencesExt

CONSTANTS IReqs,       \* goroutines of the handlers
          ITree,       \* path -> is it a directory; a path is a sequence of names
          IIgnored,    \* the paths with an ignored prefix or in a storage that is not indexed
          IUpdates,    \* the paths that UpdateIndex is asked for
          IStops, IFaults   \* bounds: builds that are stopped; calls that fail

INone == "none"

\* What is above a path is a directory of the tree.
ASSUME IAssumption ==
  /\ IsFiniteSet(DOMAIN ITree) /\ ITree \in [DOMAIN ITree -> BOOLEAN]
  /\ <<>> \in DOMAIN ITree /\ IIgnored \subseteq DOMAIN ITree /\ IUpdates \subseteq DOMAIN ITree
  /\ \A p \in DOMAIN ITree : p \in Seq(STRING) /\ \A n \in 0..(Len(p) - 1) : SubSeq(p, 1, n) \in DOMAIN ITree /\ ITree[SubSeq(p, 1, n)]
  /\ INone \notin IReqs /\ IStops \in Nat /\ IFaults \in Nat

VARIABLES
  iquit,      \* the build whose channel Quit points to, or INone
  iindex,     \* the indexed paths
  idone,      \* the saved progress says that the index is done
  ireq,       \* request -> [pc, kind, start, walk]
  icons,      \* request -> [pc, running, token, queue]: its consumer and what they share
  istop,      \* the channel that StopIndex has loaded, or INone
  iasked,     \* ghost: the builds that StopIndex was called for
  itorn,      \* ghost: the builds that met a failure or whose part of the index another request has cleared
  iearly,     \* ghost: StopIndex was called for a build before it saved its first progress
  ifaults

indexVars == <<iquit, iindex, idone, ireq, icons, istop, iasked, itorn, iearly, ifaults>>

IIdle == [pc |-> "idle", kind |-> INone, start |-> <<>>, walk |-> <<>>]
INoConsumer == [pc |-> "off", running |-> FALSE, token |-> FALSE, queue |-> {}]

IInit ==
  /\ iquit = INone /\ iindex = {} /\ idone = TRUE
  /\ ireq = [r \in IReqs |-> IIdle] /\ icons = [r \in IReqs |-> INoConsumer]
  /\ istop = INone /\ iasked = {} /\ itorn = {} /\ iearly = FALSE /\ ifaults = 0

-----------------------------------------------------------------------------
ITo(r, pc) == ireq' = [ireq EXCEPT ![r].pc = pc]
IIsFile(p) == ~ITree[p]
IMembers(p) == SetToSeq({c \in DOMAIN ITree : c # <<>> /\ Front(c) = p})
IFault(r) == ifaults < IFaults /\ ifaults' = ifaults + 1 /\ itorn' = itorn \cup {r}
INoFault == UNCHANGED <<ifaults, itorn>>

\* What Clear removes, and what Del removes in the database: everything under the
\* path, and its own row when it is a member of the root (the row of a deeper path
\* is looked for with a parent that ends in "/").
IUnder(p) == {q \in DOMAIN ITree : IsStrictPrefix(p, q) \/ (q = p /\ Len(p) = 1)}
ICut(r) == /\ iindex' = iindex \ IUnder(ireq[r].start)
           /\ itorn' = itorn \cup {q \in IReqs \ {r} : ireq[q].pc # "idle"}

\* Which of the idle ones a request is does not matter.
IFirst(r) == ireq[r].pc = "idle" /\ r = CHOOSE q \in IReqs : ireq[q].pc = "idle"
\* BuildIndex, UpdateIndex and ClearIndex: refused while a build is running.
IRequest(r, kind, start) ==
  /\ IFirst(r) /\ iquit = INone
  /\ ireq' = [ireq EXCEPT ![r] = [IIdle EXCEPT !.pc = "clear", !.kind = kind, !.start = start]]
  /\ UNCHANGED <<iquit, iindex, idone, icons, istop, iasked, iearly>> /\ INoFault
IClear(r) ==
  /\ ireq[r].pc = "clear"
  /\ \/ /\ ICut(r) /\ UNCHANGED ifaults
        /\ ireq' = [ireq EXCEPT ![r].pc = IF ireq[r].kind = "clear" THEN "report" ELSE "cas"]
     \/ IFault(r) /\ ITo(r, IF ireq[r].kind = "clear" THEN "report" ELSE "ended") /\ UNCHANGED iindex
  /\ UNCHANGED <<iquit, idone, icons, istop, iasked, iearly>>
IReport(r) ==
  /\ ireq[r].pc = "report"
  /\ idone' = TRUE
  /\ ITo(r, "ended")
  /\ UNCHANGED <<iquit, iindex, icons, istop, iasked, iearly>> /\ INoFault

\* The walker.
IAfter(r) == IF ireq[r].kind = "update" THEN "report" ELSE "ended"
IRefused(r) ==
  /\ ireq[r].pc = "cas" /\ iquit # INone
  /\ ITo(r, IAfter(r)) /\ itorn' = itorn \cup {r}
  /\ UNCHANGED <<iquit, iindex, idone, icons, istop, iasked, iearly, ifaults>>
IStarted(r) ==
  /\ ireq[r].pc = "cas" /\ iquit = INone
  /\ iquit' = r /\ ITo(r, "begin")
  /\ icons' = [icons EXCEPT ![r] = [INoConsumer EXCEPT !.pc = "run", !.running = TRUE]]
  /\ UNCHANGED <<iindex, idone, istop, iasked, iearly>> /\ INoFault
IBegin(r) ==
  /\ ireq[r].pc = "begin"
  /\ \/ /\ idone' = (idone /\ ireq[r].kind # "build")
        /\ \/ INoFault /\ ireq' = [ireq EXCEPT ![r].pc = "walk", ![r].walk = <<ireq[r].start>>]
           \/ IFault(r) /\ ITo(r, "leave")             \* fs.Get
     \/ IFault(r) /\ ITo(r, "leave") /\ UNCHANGED idone   \* op.GetAdmin
  /\ UNCHANGED <<iquit, iindex, icons, istop, iasked, iearly>>

\* WalkFS at the next path.  SkipDir leaves out a directory, and for a file the rest
\* of its directory: the walk goes on higher up.  A directory that cannot be listed
\* counts as empty.
ISkips(r, p) == ~icons[r].running \/ p \in IIgnored
IHigher(walk, p) == {j \in 2..Len(walk) : Len(walk[j]) < Len(p)}
IRest(walk, p) ==
  LET up == IHigher(walk, p)
  IN  IF ~IIsFile(p) THEN Tail(walk) ELSE IF up = {} THEN <<>>
      ELSE SubSeq(walk, CHOOSE j \in up : \A k \in up : j <= k, Len(walk))
IVisit(r) ==
  /\ ireq[r].pc = "walk" /\ ireq[r].walk # <<>>
  /\ LET p == Head(ireq[r].walk)
     IN  IF ISkips(r, p)
         THEN ireq' = [ireq EXCEPT ![r].walk = IRest(@, p)] /\ UNCHANGED icons /\ INoFault
         ELSE /\ icons' = [icons EXCEPT ![r].queue = IF p = <<>> THEN @ ELSE @ \cup {p}]
              /\ \/ INoFault /\ ireq' = [ireq EXCEPT ![r].walk = IMembers(p) \o Tail(@)]
                 \/ ~IIsFile(p) /\ IFault(r) /\ ireq' = [ireq EXCEPT ![r].walk = Tail(@)]
  /\ UNCHANGED <<iquit, iindex, idone, istop, iasked, iearly>>
IWalked(r) ==
  /\ ireq[r].pc = "walk" /\ ireq[r].walk = <<>> /\ ITo(r, "leave")
  /\ UNCHANGED <<iquit, iindex, idone, icons, istop, iasked, iearly>> /\ INoFault

\* The deferred function: tell the consumer to quit and wait for it, unless it has
\* quit already.
ILeave(r) ==
  /\ ireq[r].pc = "leave"
  /\ IF ~icons[r].running \/ iquit # r
     THEN ITo(r, IAfter(r)) /\ UNCHANGED icons
     ELSE ITo(r, "wait") /\ icons' = [icons EXCEPT ![r].token = TRUE]
  /\ UNCHANGED <<iquit, iindex, idone, istop, iasked, iearly>> /\ INoFault
IWaited(r) ==
  /\ ireq[r].pc = "wait" /\ icons[r].pc \in {"done", "off"} /\ ITo(r, IAfter(r))
  /\ UNCHANGED <<iquit, iindex, idone, icons, istop, iasked, iearly>> /\ INoFault

-----------------------------------------------------------------------------
\* The consumer.  BatchIndex of everything that is queued, under the queue's lock.
IBatch(r, pc) ==
  /\ \/ iindex' = iindex \cup icons[r].queue /\ INoFault
     \/ icons[r].queue # {} /\ IFault(r) /\ UNCHANGED iindex
  /\ icons' = [icons EXCEPT ![r].pc = pc, ![r].queue = {}]
IProgress(r, done) == idone' = IF ireq[r].kind = "build" THEN done ELSE idone
ITick(r) ==
  /\ icons[r].pc = "run" /\ IBatch(r, "run") /\ IProgress(r, FALSE)
  /\ UNCHANGED <<iquit, ireq, istop, iasked, iearly>>
\* (Mutant: what is still queued is dropped.)
IQuitBatch_Drop(r) == INoFault /\ UNCHANGED iindex /\ icons' = [icons EXCEPT ![r].pc = "quit"]
IQuitBatch(r) == IBatch(r, "quit")
IQuits(r) ==
  /\ icons[r].pc = "run" /\ icons[r].token /\ IQuitBatch(r) /\ IProgress(r, TRUE)
  /\ UNCHANGED <<iquit, ireq, istop, iasked, iearly>>
\* Its deferred function: Quit, the wait group and running, in this order.
IUnset(r) ==
  /\ icons[r].pc = "quit" /\ iquit' = INone /\ icons' = [icons EXCEPT ![r].pc = "unset"]
  /\ UNCHANGED <<iindex, idone, ireq, istop, iasked, iearly>> /\ INoFault
IConsumed(r) ==
  /\ \/ icons[r].pc = "unset" /\ icons' = [icons EXCEPT ![r].pc = "done"]
     \/ icons[r].pc = "done" /\ icons' = [icons EXCEPT ![r] = INoConsumer]
  /\ UNCHANGED <<iquit, iindex, idone, ireq, istop, iasked, iearly>> /\ INoFault

-----------------------------------------------------------------------------
\* StopIndex loads the channel and then sends on it, without waiting.
StopLoad ==
  /\ istop = INone /\ iquit # INone /\ Cardinality(iasked) < IStops
  /\ istop' = iquit /\ iasked' = iasked \cup {iquit}
  /\ iearly' = (iearly \/ ireq[iquit].pc = "begin")
  /\ UNCHANGED <<iquit, iindex, idone, ireq, icons>> /\ INoFault
StopSend ==
  /\ istop # INone /\ istop' = INone
  /\ icons' = IF icons[istop].pc # "off" THEN [icons EXCEPT ![istop].token = TRUE] ELSE icons
  /\ UNCHANGED <<iquit, iindex, idone, ireq, iasked, iearly>> /\ INoFault

INext ==
  \/ \E r \in IReqs :
       \/ IRequest(r, "build", <<>>) \/ IRequest(r, "clear", <<>>)
       \/ \E p \in IUpdates : IRequest(r, "update", p)
       \/ IClear(r) \/ IReport(r) \/ IRefused(r) \/ IStarted(r) \/ IBegin(r)
       \/ IVisit(r) \/ IWalked(r) \/ ILeave(r) \/ IWaited(r)
       \/ ITick(r) \/ IQuits(r) \/ IUnset(r) \/ IConsumed(r)
  \/ StopLoad \/ StopSend
ISpec == IInit /\ [][INext]_indexVars

-----------------------------------------------------------------------------
\* A build or an update that ended by itself, met no failure and had no rival that
\* cleared the index after it started has indexed everything under its path, save
\* what is ignored: nothing that the walker published last is lost when the consumer
\* is told to quit (BuildIndex, build.go:86-115).  A file that is ignored takes the
\* rest of its directory with it; what is above the path does not matter.
IHidden(start, p) == \E n \in Len(start)..Len(p) :
  LET q == SubSeq(p, 1, n)
  IN  q \in IIgnored \/ (n > Len(start) /\ \E f \in IIgnored : IIsFile(f) /\ Front(f) = Front(q))
IWanted(start) == {q \in DOMAIN ITree \ {<<>>} : IsPrefix(start, q) /\ ~IHidden(start, q)}
IComplete ==
  \A r \in IReqs : ireq[r].pc = "ended" /\ ireq[r].kind # "clear" /\ r \notin iasked \cup itorn
                     => IWanted(ireq[r].start) \subseteq iindex

\* A build is told to quit before its walk has ended only by a StopIndex that was
\* called for it, and not by one that was meant for the build before it
\* (StopIndex, handles/index.go:90-101).
IOnlyAsked ==
  \A r \in IReqs : ireq[r].pc \in {"begin", "walk"} /\ (icons[r].token \/ icons[r].pc # "run") => r \in iasked

\* Once nothing runs, the saved progress says "done", which later updates of the index
\* ask for (Update, build.go:196): however builds, updates and stops interleave, except
\* for a stop that comes before the build has saved its first progress.
IDoneAtRest ==
  (\A r \in IReqs : ireq[r].pc \in {"idle", "ended"} /\ icons[r].pc = "off") => idone \/ iearly

\* A build puts everything into the index, and the index is left as done and ready for
\* updates, by builds that end on their own or are stopped when asked (search/build.go).
BuildsEnd == IComplete /\ IOnlyAsked /\ IDoneAtRest
=============================================================================
