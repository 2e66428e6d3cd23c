------------------------------ MODULE FsHandlers ------------------------------
(* server/handles: the requests of the HTTP API that change files, with the     *)
(* rights that the metas give (server/common/check.go).  A request asks the     *)
(* storage many times, looks first and acts later; every call of the storage    *)
(* is a step, and other clients upload new files in between.  A path is a       *)
(* sequence of names.  There is one storage, mounted at the root, that behaves  *)
(* as the local driver does and has no cache.  A copy that the storage cannot   *)
(* make becomes a task, which TransferTasks is about.  Every call may fail: a   *)
(* change half way, a move or a rename as a whole.                              *)
EXTENDS Naturals, Sequences, FiniteSets, SequencesExt, Functions

CONSTANTS ENames,       \* the names of objects
          ETrees,       \* the trees to begin with
          EMetaSets,    \* the metas, a set of records
          EReqs,        \* the requests, with what their user may do and which looks fail
          EUploads,     \* paths that other clients upload to
          EFaults       \* bound: changes that fail

VARIABLES
  etree,    \* path -> "dir" or a file
  eorig,    \* the tree when the request began
  emetas,   \* the metas: [path, nowrite, wsub, noread, rsub, open, osub]
  ereq,     \* the request; may: its user has the permission, content: CanWriteContent,
            \* blind: the paths at which its fs.Get fails
  ework,    \* the handler: pc, names looked at, done, queue, names seen, paths to act on, removed, answer
  eother    \* what other clients uploaded, and failures

handlerVars == <<etree, eorig, emetas, ereq, ework, eother>>

-----------------------------------------------------------------------------
(* Rights *)

MetaCoversPath(metaPath, p, sub) == metaPath = p \/ (sub /\ IsPrefix(metaPath, p))
NearestMetas(p) ==
  {m \in emetas : IsPrefix(m.path, p) /\ \A k \in emetas : IsPrefix(k.path, p) => Len(k.path) <= Len(m.path)}
CanReadBy(ms, p) == \A m \in ms : m.noread => ~MetaCoversPath(m.path, p, m.rsub)
CanWriteBy(ms, p) == \A m \in ms : m.nowrite => ~MetaCoversPath(m.path, p, m.wsub)
CanReadPath(p) == CanReadBy(NearestMetas(p), p)
CanWritePath(p) == CanWriteBy(NearestMetas(p), p)
CanReadTree(p) == CanReadPath(p) /\ \A m \in emetas : IsPrefix(p, m.path) => ~m.noread
CanWriteTree(p) == CanWritePath(p) /\ \A m \in emetas : IsPrefix(p, m.path) => ~m.nowrite
MayAddTo(dir) ==
  /\ ereq.content \/ \E m \in NearestMetas(dir) : m.open /\ MetaCoversPath(m.path, dir, m.osub)
  /\ CanWritePath(dir)

-----------------------------------------------------------------------------
(* What the storage does *)

EIsDir(p) == p = <<>> \/ (p \in DOMAIN etree /\ etree[p] = "dir")
EMembers(p) == {q \in DOMAIN etree : q # <<>> /\ Front(q) = p}
EUnder(p) == {q \in DOMAIN etree : IsPrefix(p, q)}
EImage(q, src, dst) == dst \o SubSeq(q, Len(src) + 1, Len(q))
EPlaced(kept, src, dst) ==
  LET new == {EImage(q, src, dst) : q \in EUnder(src)}
  IN  [q \in kept \cup new |-> IF q \in new THEN etree[EImage(q, dst, src)] ELSE etree[q]]
EMoved(src, dst) == EPlaced(DOMAIN etree \ (EUnder(src) \cup EUnder(dst)), src, dst)
EMayLand(src, dst) ==
  /\ src # <<>> /\ src \in DOMAIN etree /\ EIsDir(Front(dst))
  /\ ~IsStrictPrefix(src, dst)
  /\ dst \in DOMAIN etree =>
       \/ src = dst
       \/ IF etree[src] = "dir" THEN etree[dst] = "dir" /\ EMembers(dst) = {} ELSE etree[dst] # "dir"
ERemoved(p) == Restrict(etree, DOMAIN etree \ EUnder(p))
\* What is left by a call that stops half way: some of t beside what it does not
\* touch, never without the directory that holds it.
EPartOf(t, rest) ==
  {Restrict(t, D) : D \in {rest \cup S : S \in SUBSET (DOMAIN t \ rest)} \cap
                         {D \in SUBSET DOMAIN t : \A q \in D : Front(q) = <<>> \/ Front(q) \in D}}
ERemovedPartly(p) == EPartOf(etree, DOMAIN etree \ EUnder(p))
EAncestors(p) == {SubSeq(p, 1, n) : n \in 1..Len(p)}
EDirsOn(p) == \A q \in EAncestors(p) : q \in DOMAIN etree => etree[q] = "dir"
EWithDirs(p) == [q \in DOMAIN etree \cup EAncestors(p) |-> IF q \in DOMAIN etree THEN etree[q] ELSE "dir"]
\* list: what the user may not read is left out; a file is judged by the meta of
\* the request's directory.
EListed(p) ==
  {q \in EMembers(p) : IF etree[q] = "dir" THEN CanReadPath(q) ELSE CanReadBy(NearestMetas(ereq.dir), q)}
EInSomeOrder(S) == {s \in [1..Cardinality(S) -> S] : \A m, n \in DOMAIN s : s[m] = s[n] => m = n}

-----------------------------------------------------------------------------
(* Steps of a handler *)

EAt(op, pc) == ereq.op = op /\ ework.pc = pc
EAnswer(a) == ework' = [ework EXCEPT !.pc = "done", !.ans = a] /\ UNCHANGED etree
EKeep == UNCHANGED <<eorig, emetas, ereq, eother>>
EGo(pc) == ework' = [ework EXCEPT !.pc = pc] /\ UNCHANGED etree
\* A call that changes the tree, or fails, which ends the request.
EFails == /\ eother.faults < EFaults /\ eother' = [eother EXCEPT !.faults = @ + 1]
          /\ ework' = [ework EXCEPT !.pc = "done", !.ans = "error"] /\ UNCHANGED <<eorig, emetas, ereq>>
ECall(ok, tree, then) ==
  \/ ok /\ etree' = tree /\ ework' = then /\ EKeep
  \/ ~ok /\ EAnswer("error") /\ EKeep
  \/ EFails /\ UNCHANGED etree
\* It fails half way and leaves one of the trees.
EHalf(trees) == EFails /\ etree' \in trees
ENextName == [ework EXCEPT !.i = @ + 1]
ENextOne == [ework EXCEPT !.n = @ + 1]
EAllSeen == ework.i > Len(ereq.names)
EAllDone == ework.n > Len(ework.list)
\* path.Join(dir, name): "." and ".." are resolved.
ECleanStep(p, n) == IF n = ".." THEN (IF p = <<>> THEN p ELSE Front(p)) ELSE IF n = "." THEN p ELSE Append(p, n)
EJoin(dir, name) == FoldLeft(ECleanStep, dir, name)
EInDir(dir, name) == IsPrefix(dir, EJoin(dir, name))
EPaths == Seq(ENames)
\* A tree holds the directories of its objects, but for the root.
ETreeOk(t) ==
  /\ t = [p \in DOMAIN t |-> t[p]] /\ IsFiniteSet(DOMAIN t) /\ DOMAIN t \subseteq EPaths \ {<<>>}
  /\ \A p \in DOMAIN t : Front(p) # <<>> => Front(p) \in DOMAIN t /\ t[Front(p)] = "dir"
EReqOk(r) ==
  /\ {r.dir, r.dst, r.path} \subseteq EPaths /\ r.blind \subseteq EPaths /\ (r.op = "rename" => r.name \in ENames)
  /\ r.renames \in Seq([from : ENames, to : ENames])
  /\ r.names \in Seq(Seq(ENames \cup {".", ".."}))
  /\ \A n \in DOMAIN r.names : EJoin(r.dir, r.names[n]) \in EPaths
ASSUME EAssumption ==
  /\ EFaults \in Nat /\ EUploads \subseteq EPaths \ {<<>>}
  /\ \A t \in ETrees : ETreeOk(t)
  /\ \A ms \in EMetaSets, r \in EReqs : (\A m \in ms : m.path \in EPaths) /\ EReqOk(r)

EBaseIn(dir, p) == IF p = <<>> THEN dir ELSE Append(dir, Last(p))
ERelative == "a/b"    \* a name that checkRelativePath refuses

EMkdir ==
  /\ EAt("mkdir", "start")
  /\ LET parent == IF ereq.path = <<>> THEN <<>> ELSE Front(ereq.path)
     IN  IF ~MayAddTo(parent) \/ ~CanWritePath(ereq.path) THEN EAnswer("denied") /\ EKeep
         ELSE \/ EDirsOn(ereq.path) /\ EHalf(EPartOf(EWithDirs(ereq.path), DOMAIN etree))
              \/ ECall(EDirsOn(ereq.path), EWithDirs(ereq.path), [ework EXCEPT !.pc = "done", !.ans = "ok"])

\* FsUp, then FsStream or FsForm.  op.Put removes an empty object of the name and
\* makes the directories before the driver's Put, which replaces what is there.
EUploadStart ==
  /\ ereq.op \in {"stream", "form"} /\ ework.pc = "start" /\ EKeep
  /\ IF ~MayAddTo(Front(ereq.path)) \/ ~CanWritePath(ereq.path) THEN EAnswer("denied") ELSE EGo("look")
\* The error of fs.Get is dropped: a look that fails finds nothing.
EThere(p) == p = <<>> \/ p \in DOMAIN etree
EFound(p) == EThere(p) /\ p \notin ereq.blind
ELook ==
  IF ~ereq.over /\ EFound(ereq.path) THEN EAnswer("exists") /\ EKeep
  ELSE EGo("put") /\ EKeep
EStream == EAt("stream", "look") /\ ELook
EForm == EAt("form", "look") /\ (ELook \/ (EAnswer("bad") /\ EKeep))
EPut ==
  /\ ework.pc = "put"
  /\ LET made == EWithDirs(Front(ereq.path))
         kept == {q \in DOMAIN made : ~IsPrefix(ereq.path, q)}
         ok == ereq.path # <<>> /\ EDirsOn(Front(ereq.path))
     IN  \/ ok /\ EHalf(ERemovedPartly(ereq.path) \cup EPartOf(EWithDirs(Front(ereq.path)), DOMAIN etree))
         \/ ECall(ok, [q \in kept \cup {ereq.path} |-> IF q = ereq.path THEN "new" ELSE made[q]],
                   [ework EXCEPT !.pc = "done", !.ans = "ok"])

\* FsMove and FsCopy look at every name before the first one is touched.
EMoveStart ==
  /\ EAt("move", "start") /\ EKeep
  /\ IF ~ereq.may \/ ~CanWritePath(ereq.dir) \/ ~CanWritePath(ereq.dst) THEN EAnswer("denied") ELSE EGo("check")
ETarget == EBaseIn(ereq.dst, EJoin(ereq.dir, ereq.names[ework.i]))
ENamed == EJoin(ereq.dir, ereq.names[ework.i])
EMoveCheck ==
  /\ EAt("move", "check") /\ EKeep
  /\ IF EAllSeen THEN EGo("act")
     ELSE IF ~EInDir(ereq.dir, ereq.names[ework.i]) THEN ework' = ENextName /\ UNCHANGED etree
     ELSE IF ~CanWriteTree(ENamed) \/ ~CanWriteTree(ETarget) THEN EAnswer("denied")
     ELSE IF ~ereq.over /\ ENamed = <<>> THEN EAnswer("bad")
     ELSE IF ~ereq.over /\ EFound(ETarget) THEN EAnswer("exists")
     ELSE ework' = [ENextName EXCEPT !.list = Append(@, ENamed)] /\ UNCHANGED etree
EMoveAct == EAt("move", "act") /\ ~EAllDone
EMove ==
  /\ EMoveAct
  /\ LET src == ework.list[ework.n]
         dst == EBaseIn(ereq.dst, src)
     IN  ECall(src # <<>> /\ ereq.dst # Front(src) /\ EMayLand(src, dst), EMoved(src, dst), ENextOne)

ECopyStart ==
  /\ EAt("copy", "start") /\ EKeep
  /\ IF ~ereq.may \/ ~CanReadPath(ereq.dir) \/ ~CanWritePath(ereq.dst) THEN EAnswer("denied") ELSE EGo("check")
ECopyCheck ==
  /\ EAt("copy", "check") /\ EKeep
  /\ IF EAllSeen THEN EGo("act")
     ELSE IF ~EInDir(ereq.dir, ereq.names[ework.i]) THEN ework' = ENextName /\ UNCHANGED etree
     ELSE IF ~CanReadTree(ENamed) \/ ~CanWriteTree(ETarget) THEN EAnswer("denied")
     ELSE IF ~ereq.over /\ ENamed = <<>> THEN EAnswer("bad")
     ELSE IF /\ ~ereq.over /\ EFound(ETarget)
             /\ ~(ereq.merge /\ EIsDir(ETarget)) /\ ~(ereq.skip /\ ~EIsDir(ETarget)) THEN EAnswer("exists")
     ELSE ework' = [ENextName EXCEPT !.list = Append(@, ENamed)] /\ UNCHANGED etree
\* The storage copies into free names, or a part of it until it gives up, when the
\* rest becomes a task; otherwise the file is skipped or all of it is a task, and
\* the tree stays as it is for now.
ECopy ==
  /\ EAt("copy", "act") /\ ~EAllDone
  /\ LET src == ework.list[ework.n]
         dst == EBaseIn(ereq.dst, src)
         free == \A q \in EUnder(src) : EImage(q, src, dst) \in DOMAIN etree => EIsDir(q) /\ EIsDir(EImage(q, src, dst))
         ok == EThere(src) /\ (src # <<>> => ereq.dst # Front(src)) /\ EIsDir(ereq.dst) /\ ~IsPrefix(src, dst)
     IN  \/ ECall(ok, etree, ENextOne)
         \/ ok /\ free /\ \E t \in EPartOf(EPlaced(DOMAIN etree, src, dst), DOMAIN etree) :
                            ECall(ok, t, ENextOne) \/ EHalf({t})

ERename ==
  /\ EAt("rename", "start")
  /\ IF ereq.path = <<>> THEN EAnswer("error") /\ EKeep
     ELSE LET dst == Append(Front(ereq.path), ereq.name)
          IN  IF ~ereq.may \/ ereq.name = ERelative \/ ~CanWritePath(Front(ereq.path))
                 \/ ~CanWriteTree(ereq.path) \/ ~CanWriteTree(dst) THEN EAnswer("denied") /\ EKeep
              ELSE IF ~ereq.over /\ dst # ereq.path /\ EFound(dst) THEN EAnswer("exists") /\ EKeep
              ELSE EGo("act") /\ EKeep
ERenameAct ==
  /\ EAt("rename", "act")
  /\ LET dst == Append(Front(ereq.path), ereq.name)
     IN  ECall(EMayLand(ereq.path, dst), EMoved(ereq.path, dst), [ework EXCEPT !.pc = "done", !.ans = "ok"])

ERemoveStart ==
  /\ EAt("remove", "start") /\ EKeep
  /\ IF ~ereq.may \/ ~CanWritePath(ereq.dir) THEN EAnswer("denied") ELSE EGo("check")
ERemoveCheck ==
  /\ EAt("remove", "check") /\ EKeep
  /\ IF EAllSeen THEN EGo("act")
     ELSE IF ~EInDir(ereq.dir, ereq.names[ework.i]) THEN ework' = ENextName /\ UNCHANGED etree
     ELSE IF ~CanWriteTree(ENamed) THEN EAnswer("denied")
     ELSE ework' = [ENextName EXCEPT !.list = Append(@, ENamed)] /\ UNCHANGED etree
ERemove ==
  /\ EAt("remove", "act") /\ ~EAllDone
  /\ LET p == ework.list[ework.n]
     IN  ECall(p # <<>>, ERemoved(p), ENextOne) \/ (p # <<>> /\ EHalf(ERemovedPartly(p)))

\* The loops over the names end.
EFinish ==
  /\ ereq.op \in {"move", "copy", "remove", "gather", "renames"} /\ ework.pc = "act" /\ EAllDone
  /\ EAnswer("ok") /\ EKeep

-----------------------------------------------------------------------------
(* FsRecursiveMove: the files at and below a directory are gathered, breadth    *)
(* first, and then moved one after the other.                                   *)

EGatherStart ==
  /\ EAt("gather", "start") /\ EKeep
  /\ IF ~ereq.may \/ ~CanWritePath(ereq.dir) \/ ~CanWriteTree(ereq.dir) \/ ~CanWritePath(ereq.dst) THEN EAnswer("denied")
     ELSE IF ~EIsDir(ereq.dir) THEN EAnswer("error")
     ELSE \E s \in EInSomeOrder(EListed(ereq.dir)) :
            ework' = [ework EXCEPT !.queue = s, !.pc = "listdst"] /\ UNCHANGED etree
EListDst ==
  /\ EAt("gather", "listdst") /\ EKeep
  /\ IF ereq.policy = "overwrite" THEN EGo("gather")
     ELSE IF ~EIsDir(ereq.dst) THEN EAnswer("error")
     ELSE ework' = [ework EXCEPT !.seen = {Last(q) : q \in EListed(ereq.dst)}, !.pc = "gather"] /\ UNCHANGED etree

\* The names taken so far.  (Mutant: a name that was gathered is not noted.)
ETaken_Not(name) == ework.seen
ETaken(name) == IF ereq.policy = "overwrite" THEN ework.seen ELSE ework.seen \cup {name}

EGather ==
  /\ EAt("gather", "gather") /\ EKeep
  /\ IF ework.queue = <<>> THEN EGo("act")
     ELSE LET p == Head(ework.queue)
              rest == [ework EXCEPT !.queue = Tail(@)]
          IN  IF EIsDir(p)
              THEN \E s \in EInSomeOrder(EListed(p)) :
                     ework' = [rest EXCEPT !.queue = @ \o s] /\ UNCHANGED etree
              ELSE IF Front(p) = ereq.dst THEN ework' = rest /\ UNCHANGED etree
              ELSE IF Last(p) \in ework.seen /\ ereq.policy = "cancel" THEN EAnswer("exists")
              ELSE IF Last(p) \in ework.seen /\ ereq.policy = "skip" THEN ework' = rest /\ UNCHANGED etree
              ELSE ework' = [rest EXCEPT !.seen = ETaken(Last(p)), !.list = Append(@, p)] /\ UNCHANGED etree
EGathered ==
  /\ EAt("gather", "act") /\ ~EAllDone
  /\ LET src == ework.list[ework.n]
         dst == Append(ereq.dst, Last(src))
     IN  IF ~CanWriteTree(dst) THEN EAnswer("denied") /\ EKeep
         ELSE ECall(ereq.dst # Front(src) /\ EMayLand(src, dst), EMoved(src, dst), ENextOne)

-----------------------------------------------------------------------------
(* FsRemoveEmptyDirectory: a directory that lists empty is removed, and the     *)
(* directory that holds it is looked at again.                                  *)

ESubDirs(p) == {q \in EListed(p) : etree[q] = "dir"}
EEmptyStart ==
  /\ EAt("empties", "start") /\ EKeep
  /\ IF ~ereq.may \/ ~CanWritePath(ereq.dir) \/ ~CanWriteTree(ereq.dir) THEN EAnswer("denied")
     ELSE IF ~EIsDir(ereq.dir) THEN EAnswer("error")
     ELSE \E s \in EInSomeOrder(ESubDirs(ereq.dir)) :
            ework' = [ework EXCEPT !.queue = s, !.pc = "look"] /\ UNCHANGED etree
EEmptyLook ==
  /\ EAt("empties", "look") /\ EKeep
  /\ IF ework.queue = <<>> THEN EAnswer("ok")
     ELSE LET p == Head(ework.queue)
              rest == [ework EXCEPT !.queue = Tail(@)]
          IN  IF p \in ework.gone THEN ework' = rest /\ UNCHANGED etree
              ELSE IF ~EIsDir(p) THEN EAnswer("error")
              ELSE IF EListed(p) = {} THEN ework' = [ework EXCEPT !.pc = "remove"] /\ UNCHANGED etree
              ELSE \E s \in EInSomeOrder(ESubDirs(p)) :
                     ework' = [rest EXCEPT !.queue = @ \o s] /\ UNCHANGED etree
ELookAgain(p) == IF Front(p) = ereq.dir THEN <<>> ELSE <<Front(p)>>
EEmptyRemove ==
  /\ EAt("empties", "remove")
  /\ LET p == Head(ework.queue)
     IN  \/ EHalf(ERemovedPartly(p))
         \/ ECall(TRUE, ERemoved(p), [ework EXCEPT !.pc = "look", !.gone = @ \cup {p}, !.queue = Tail(@) \o ELookAgain(p)])

-----------------------------------------------------------------------------
(* FsBatchRename and FsRegexRename *)

ERenamesStart ==
  /\ EAt("renames", "start") /\ EKeep
  /\ IF ~ereq.may \/ ~CanWritePath(ereq.dir) THEN EAnswer("denied")
     ELSE ework' = [ework EXCEPT !.list = ereq.renames, !.pc = "act"] /\ UNCHANGED etree
\* The names of the directory that match; the new name is what the expression makes of it.
ERegexStart ==
  /\ EAt("regex", "start") /\ EKeep
  /\ IF ~ereq.may \/ ~CanWritePath(ereq.dir) THEN EAnswer("denied")
     ELSE IF ~EIsDir(ereq.dir) THEN EAnswer("error")
     ELSE \E s \in EInSomeOrder({q \in EListed(ereq.dir) : \E n \in DOMAIN ereq.renames : ereq.renames[n].from = Last(q)}) :
            /\ ework' = [ework EXCEPT !.pc = "act",
                           !.list = [n \in DOMAIN s |-> CHOOSE r \in ToSet(ereq.renames) : r.from = Last(s[n])]]
            /\ UNCHANGED etree
\* checkRelativePath.
ERefused(name) == name = ERelative
ERenameOne ==
  /\ ereq.op \in {"renames", "regex"} /\ ework.pc = "act" /\ ~EAllDone
  /\ LET r == ework.list[ework.n]
         src == Append(ereq.dir, r.from)
         dst == IF r.to = ERelative THEN ereq.dir \o <<"a", "b">> ELSE Append(ereq.dir, r.to)
     IN  IF ERefused(r.from) \/ ERefused(r.to) \/ ~CanWriteTree(src) \/ ~CanWriteTree(dst) THEN EAnswer("denied") /\ EKeep
         ELSE ECall(EMayLand(src, dst), EMoved(src, dst), ENextOne)
ERegexFinish ==
  EAt("regex", "act") /\ EAllDone /\ EAnswer("ok") /\ EKeep

-----------------------------------------------------------------------------
\* Another client uploads a file under a name that is free.
EUpload(p) ==
  /\ ework.pc # "done" /\ eother.up = {}
  /\ p \notin DOMAIN etree /\ EIsDir(Front(p))
  /\ etree' = [q \in DOMAIN etree \cup {p} |-> IF q = p THEN "other" ELSE etree[q]]
  /\ eother' = [eother EXCEPT !.up = {p}]
  /\ UNCHANGED <<eorig, emetas, ereq, ework>>

EFresh == [pc |-> "start", i |-> 1, n |-> 1, queue |-> <<>>, seen |-> {}, list |-> <<>>, gone |-> {}, ans |-> "none"]
ENoOther == [up |-> {}, faults |-> 0]
EInit ==
  /\ etree \in ETrees /\ eorig = etree /\ emetas \in EMetaSets /\ ereq \in EReqs
  /\ ework = EFresh /\ eother = ENoOther

ENext ==
  \/ EMkdir \/ EUploadStart \/ EStream \/ EForm \/ EPut
  \/ EMoveStart \/ EMoveCheck \/ EMove \/ ECopyStart \/ ECopyCheck \/ ECopy
  \/ ERename \/ ERenameAct \/ ERemoveStart \/ ERemoveCheck \/ ERemove \/ EFinish
  \/ EGatherStart \/ EListDst \/ EGather \/ EGathered
  \/ EEmptyStart \/ EEmptyLook \/ EEmptyRemove
  \/ ERenamesStart \/ ERegexStart \/ ERenameOne \/ ERegexFinish
  \/ \E p \in EUploads : EUpload(p)

ESpec == EInit /\ [][ENext]_handlerVars

-----------------------------------------------------------------------------
\* The request's listings show p, if it is below the request's directory.
EShown(p) ==
  /\ \A q \in EAncestors(p) \ {p} : IsStrictPrefix(ereq.dir, q) => CanReadPath(q)
  /\ p \in DOMAIN eorig /\ eorig[p] = "dir" => CanReadPath(p)
  /\ p \in DOMAIN eorig /\ eorig[p] # "dir" => CanReadBy(NearestMetas(ereq.dir), p)
\* Two of the names lead to one name in the destination.
EAlike ==
  ereq.op = "move" /\ \E m, n \in DOMAIN ereq.names :
    m # n /\ EBaseIn(ereq.dst, EJoin(ereq.dir, ereq.names[m])) = EBaseIn(ereq.dst, EJoin(ereq.dir, ereq.names[n]))
EMayReplace == ereq.over \/ ereq.op \in {"renames", "regex"} \/ (ereq.op = "gather" /\ ereq.policy \notin {"cancel", "skip"}) \/ EAlike
EToRemove(p) == ereq.op = "remove" /\ \E n \in DOMAIN ereq.names : IsPrefix(EJoin(ereq.dir, ereq.names[n]), p)

EUnseen(p) == \E b \in ereq.blind : IsPrefix(b, p)

(* A request that was not asked to overwrite loses no file that was there when  *)
(* it began, whichever of its changes fails and whatever others upload          *)
(* meanwhile: moving, gathering, renaming, uploading and the removal of empty   *)
(* directories leave every file somewhere in the tree (fsmanage.go, fsbatch.go, *)
(* fsup.go).  It may lose what is at a path where its look failed, for the      *)
(* handlers drop that error, and files that the user may not see.               *)
EKept ==
  ~EMayReplace =>
    \A p \in DOMAIN eorig : eorig[p] # "dir" /\ EShown(p) /\ ~EToRemove(p) /\ ~EUnseen(p) =>
      \E q \in DOMAIN etree : etree[q] = eorig[p]

(* A request that is answered with "exists", or refused before its first        *)
(* change, has changed nothing: every name is looked at before one is touched.  *)
(* FsRecursiveMove and the renames judge some names only when they get there.   *)
ERefusedUntouched ==
  \/ ework.ans = "exists"
  \/ ework.ans = "denied" /\ ereq.op \notin {"gather", "renames", "regex"}
  => Restrict(etree, DOMAIN etree \ eother.up) = eorig

(* Nothing changes at a path that the metas keep the user from writing, however *)
(* deep below the named object it is (CanWriteTree).  The directories above a   *)
(* new one are made without asking, and an upload onto a directory asks about   *)
(* the directory only.                                                          *)
EWithinRights ==
  \A p \in (DOMAIN etree \cup DOMAIN eorig) \ eother.up :
    \/ p \in DOMAIN etree /\ p \in DOMAIN eorig /\ etree[p] = eorig[p]
    \/ ereq.op \in {"mkdir", "stream", "form"} /\ (IsStrictPrefix(p, ereq.path) \/ IsStrictPrefix(ereq.path, p))
    \/ CanWritePath(p)

(* When the removal of empty directories succeeds and nobody uploaded meanwhile *)
(* there is no empty directory below: also those are gone that became empty.    *)
EEmptiesGone ==
  ereq.op = "empties" /\ ework.ans = "ok" /\ eother.up = {} =>
    \A p \in DOMAIN etree : etree[p] = "dir" /\ IsStrictPrefix(ereq.dir, p) /\ EShown(p) => EListed(p) # {}

(* When FsRecursiveMove succeeds, the destination has an object of the name of  *)
(* every file that was at or below the directory, at any depth.                 *)
EAllGathered ==
  ereq.op = "gather" /\ ework.ans = "ok" =>
    \A p \in DOMAIN eorig :
      eorig[p] # "dir" /\ IsStrictPrefix(ereq.dir, p) /\ EShown(p) => Append(ereq.dst, Last(p)) \in DOMAIN etree

(* A batch of renames stays in its directory: a new name of several parts does  *)
(* not reach another one (checkRelativePath).                                   *)
ERenamesStay ==
  ereq.op \in {"renames", "regex"} =>
    \A p \in DOMAIN etree \ (DOMAIN eorig \cup eother.up) :
      etree[p] = "other" \/ \E q \in DOMAIN eorig : etree[p] = eorig[q] /\ Len(p) = Len(q)

(* The requests of the HTTP API that change files stay within the rights of the *)
(* user: what is refused is not done, and what is done may be written           *)
(* (fsmanage.go, fsbatch.go, fsup.go).                                          *)
RightsHeld == ERefusedUntouched /\ EWithinRights /\ ERenamesStay

(* They lose no file, do the whole of what they were asked, and no more         *)
(* (fsmanage.go, fsbatch.go, fsup.go).                                          *)
FilesKept == EKept /\ EEmptiesGone /\ EAllGathered /\ RightsHeld
=============================================================================
