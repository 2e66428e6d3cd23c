------------------------------- MODULE DirCache -------------------------------
(* internal/op/fs.go and cache.go: the operations on a storage, with the cache  *)
(* of directory listings and the single flights.  Calls run at the same time;   *)
(* a call is a stack of frames, and a step runs the upper frame up to its next  *)
(* look at the cache, the flights or the driver.  `ret` is what the last frame  *)
(* returned.  The driver is any that is cached (NoCache is false); it is        *)
(* modelled by how the code uses it.  Links, hooks and sorting are left out.    *)
EXTENDS Integers, Sequences, FiniteSets, SequencesExt, TLC

CONSTANTS CPaths,     \* paths that calls name (sequences of names)
          CStart,     \* disks at the start
          CConfs,     \* kinds of driver: Getter, results of writes, NoOverwriteUpload
          CProcs,     \* calls that run at the same time
          CMain,      \* the one that makes calls of every kind
          CSide,      \* paths that the others list and make while it is running
          COps,       \* bound: calls
          CFaults     \* bound: driver calls that fail and listings that expire

CTemp == "to_delete"
CNames == {CTemp} \cup UNION {Range(path) : path \in CPaths}

ASSUME CAssumption ==
  /\ CPaths \subseteq Seq(CNames) \ {<<>>}
  /\ {COps, CFaults} \subseteq Nat /\ CMain \in CProcs /\ CSide \subseteq CPaths \cup {<<>>}
  /\ CConfs \subseteq [getter : BOOLEAN, result : BOOLEAN, noOver : BOOLEAN]

VARIABLES
  cdisk,      \* what the driver has: path -> [dir, val], val 0 being an empty file
  cconf,      \* the kind of driver
  dirCache,   \* path -> set of objects [name, dir, temp, val]
  listG,      \* paths with a listing in flight
  mkdirG,     \* paths with a MakeDir in flight
  ccall,      \* process -> [stack, ret]
  cbound,     \* calls and faults so far
  cover,      \* directories whose listings the code does not keep right (see CLeft, Overlaps)
  cgood       \* path of a file -> the content that has to be kept

dirVars == <<cdisk, cconf, dirCache, listG, mkdirG, ccall, cbound, cover, cgood>>

CDir(p) == Front(p)
CName(p) == Last(p)
TempPath(p) == Append(CDir(p), CTemp)
CIsDir(p) == p = <<>> \/ (p \in DOMAIN cdisk /\ cdisk[p].dir)
CUnder(f, p) == {q \in DOMAIN f : IsPrefix(p, q)}
COnly(f, S) == [q \in S |-> f[q]]
\* GetSize: of a directory, the files below it.
CVal(p) == IF ~cdisk[p].dir THEN cdisk[p].val
           ELSE IF \E q \in CUnder(cdisk, p) : cdisk[q].val > 0 THEN 1 ELSE 0
CObj(p) == [name |-> CName(p), dir |-> cdisk[p].dir, temp |-> FALSE, val |-> CVal(p)]
CMembers(p) == {q \in DOMAIN cdisk : CDir(q) = p}

-----------------------------------------------------------------------------
(* The cache of listings *)

\* deleteDirectoryTree: the listings reached from key through cached listings.
CTree(key) ==
  {q \in CUnder(dirCache, key) :
     \A n \in Len(key)..(Len(q) - 1) :
       LET d == SubSeq(q, 1, n)
       IN  d \in DOMAIN dirCache /\ \E o \in dirCache[d] : o.dir /\ o.name = q[n + 1]}
Cut(key) == COnly(dirCache, DOMAIN dirCache \ CTree(key))

\* RemoveObject and UpdateObject: the first object of that name.
RemoveObject(cache, key, name) ==
  IF key \notin DOMAIN cache THEN {cache}
  ELSE LET old == {o \in cache[key] : o.name = name}
       IN  IF old = {} THEN {cache} ELSE {[cache EXCEPT ![key] = @ \ {o}] : o \in old}
UpdateObject(cache, key, name, obj) ==
  IF key \notin DOMAIN cache THEN {cache}
  ELSE {[c EXCEPT ![key] = @ \cup {obj}] : c \in RemoveObject(cache, key, name)}

\* removeDirectoryObject: nothing happens unless the listing is cached.
RemoveDirectoryObject(path, obj) ==
  IF CDir(path) \notin DOMAIN dirCache THEN {dirCache}
  ELSE RemoveObject(IF obj.dir THEN Cut(path) ELSE dirCache, CDir(path), CName(path))

-----------------------------------------------------------------------------
(* Calls *)

CFrame(op, src, dst) ==
  [op |-> op, src |-> src, dst |-> dst, pc |-> "start", obj |-> <<>>, refresh |-> FALSE, want |-> "",
   objs |-> {}, ok |-> TRUE, val |-> 0]
CFail == [ok |-> FALSE, obj |-> <<>>, objs |-> {}]
COk == [ok |-> TRUE, obj |-> <<>>, objs |-> {}]
CFound(o) == [ok |-> TRUE, obj |-> o, objs |-> {}]
CListing(S) == [ok |-> TRUE, obj |-> <<>>, objs |-> S]

CInit ==
  /\ cconf \in CConfs
  /\ cdisk \in CStart
  /\ dirCache \in {<<>>, [d \in {e \in {<<>>} \cup DOMAIN cdisk : CIsDir(e) /\ CMembers(e) # {}} |-> {CObj(q) : q \in CMembers(d)}]}
  /\ listG = {} /\ mkdirG = {} /\ cover = {}
  /\ ccall = [p \in CProcs |-> [stack |-> <<>>, ret |-> COk]]
  /\ cbound = [ops |-> 0, faults |-> 0]
  /\ cgood = [q \in {r \in DOMAIN cdisk : ~cdisk[r].dir /\ cdisk[r].val > 0} |-> cdisk[q].val]

Running(p) == ccall[p].stack # <<>>
CTop(p) == Last(ccall[p].stack)
CRet(p) == ccall[p].ret
CAt(p, op, pc) == Running(p) /\ CTop(p).op = op /\ CTop(p).pc = pc

Pc(f, pc) == [f EXCEPT !.pc = pc]
GetFrame(path, excl) == [CFrame("get", path, <<>>) EXCEPT !.refresh = excl]
\* Move, Rename, Copy, Remove and Put get the object of their path first.
Opened(f) == IF f.op \in {"get", "list", "mkdir"} THEN <<f>> ELSE <<Pc(f, "src"), GetFrame(f.src, TRUE)>>

\* What a step does with the stack of its process.
Goto(p, f) == ccall' = [ccall EXCEPT ![p].stack = Append(Front(@), f)]
Push(p, f, sub) == ccall' = [ccall EXCEPT ![p].stack = Append(Front(@), f) \o Opened(sub)]
Pop(p, ret) == ccall' = [ccall EXCEPT ![p] = [stack |-> Front(@.stack), ret |-> ret]]

\* singleflight.Do: the end of a flight, for the one who runs it and for those who wait.
\* (Mutant: the key stays in the map.)
Landed_Not(G, path) == G
Landed(G, path) == G \ {path}
FlightEnds(p, op, path, ret) ==
  ccall' = [q \in CProcs |->
              IF q = p \/ (CAt(q, op, "wait") /\ CTop(q).src = path)
              THEN [stack |-> Front(ccall[q].stack), ret |-> ret] ELSE ccall[q]]

CStartCall(p, op, src, dst, refresh) ==
  /\ ~Running(p) /\ cbound.ops < COps
  /\ p # CMain => Running(CMain) /\ op \in {"list", "mkdir"} /\ src \in CSide /\ ~refresh
  /\ LET f == [CFrame(op, src, dst) EXCEPT !.refresh = refresh, !.val = cbound.ops + 2]
     IN  ccall' = [ccall EXCEPT ![p] = [stack |-> Opened(f), ret |-> COk]]
  /\ cbound' = [cbound EXCEPT !.ops = @ + 1]
  /\ UNCHANGED <<cdisk, cconf, dirCache, listG, mkdirG, cover, cgood>>

\* A listing or change of p in dirs overlaps with what another call has listed, or
\* with another call that changes something there: what the other claims.
Claims(f) == CASE f.op = "get" -> {}
               [] f.op = "list" -> IF f.pc = "store" THEN {f.src} ELSE {}
               [] OTHER -> UNION {{q, CDir(q)} : q \in {f.src, f.dst} \ {<<>>}}
Overlaps(procs, dirs) ==
  LET others == UNION {Range(ccall[q].stack) : q \in procs}
  IN  UNION {Claims(f) : f \in {g \in others : Claims(g) \cap dirs # {}}}

\* A listing that need not be right: a change was missed there or above.
CMayBeWrong(d) == d \in cover \/ \E n \in 1..Len(d) : SubSeq(d, 1, n) \in cover

CSame == UNCHANGED <<cdisk, cconf, cbound, cover, cgood>>

-----------------------------------------------------------------------------
(* Get: the cached listing of the parent, the driver's Get, or a listing *)

CGet(p) ==
  LET f == CTop(p)
      par == CDir(f.src)
      cached == par \in DOMAIN dirCache
      named == {o \in dirCache[par] : o.name = CName(f.src)}
      first == IF cached /\ named # {} THEN named ELSE {<<>>}
      Ask(refresh) ==
        IF cconf.getter THEN Pop(p, IF f.src \in DOMAIN cdisk THEN CFound(CObj(f.src)) ELSE CFail)
        ELSE IF cached /\ ~refresh THEN Pop(p, CFail)
        ELSE Push(p, Pc(f, "listed"), [CFrame("list", par, <<>>) EXCEPT !.refresh = refresh, !.want = CName(f.src)])
  IN  /\ CAt(p, "get", "start")
      /\ IF f.src = <<>> THEN Pop(p, CFound([name |-> "", dir |-> TRUE, temp |-> FALSE, val |-> 0]))
         ELSE \E o \in first :
                IF o = <<>> THEN Ask(FALSE)
                ELSE IF f.refresh /\ o.temp THEN Ask(TRUE)
                ELSE Pop(p, CFound(o))
      /\ CSame /\ UNCHANGED <<dirCache, listG, mkdirG>>

CGetListed(p) ==
  LET f == CTop(p)
      named == {o \in CRet(p).objs : o.name = CName(f.src)}
  IN  /\ CAt(p, "get", "listed")
      /\ IF CRet(p).ok /\ named # {}
         THEN \E o \in named : Pop(p, IF f.refresh /\ o.temp THEN CFail ELSE CFound(o))
         ELSE Pop(p, CFail)
      /\ CSame /\ UNCHANGED <<dirCache, listG, mkdirG>>

-----------------------------------------------------------------------------
(* list *)

CList(p) ==
  LET f == CTop(p)
      hit == /\ ~f.refresh /\ f.src \in DOMAIN dirCache
             /\ \A o \in dirCache[f.src] : o.name = f.want => ~o.temp
  IN  /\ CAt(p, "list", "start")
      /\ IF hit THEN Pop(p, CListing(dirCache[f.src])) /\ UNCHANGED listG
         ELSE IF f.src \in listG THEN Goto(p, Pc(f, "wait")) /\ UNCHANGED listG
         ELSE /\ listG' = listG \cup {f.src}
              /\ Push(p, Pc(f, "dir"), GetFrame(f.src, TRUE))
      /\ CSame /\ UNCHANGED <<dirCache, mkdirG>>

CListFails(p) ==
  /\ FlightEnds(p, "list", CTop(p).src, CFail)
  /\ listG' = Landed(listG, CTop(p).src)
  /\ UNCHANGED <<dirCache, mkdirG, cdisk, cconf, cover, cgood>>

\* storage.List
CListRead(p) ==
  LET f == CTop(p)
  IN  /\ CAt(p, "list", "dir")
      /\ \/ /\ CRet(p).ok /\ CRet(p).obj.dir /\ CIsDir(f.src)
            /\ Goto(p, [f EXCEPT !.pc = "store", !.objs = {CObj(q) : q \in CMembers(f.src)}])
            /\ cover' = cover \cup Overlaps(CProcs \ {p}, {f.src})
            /\ UNCHANGED <<cdisk, cconf, cbound, cgood, dirCache, listG, mkdirG>>
         \/ /\ ~(CRet(p).ok /\ CRet(p).obj.dir /\ CIsDir(f.src))
            /\ CListFails(p) /\ UNCHANGED cbound
         \/ /\ cbound.faults < CFaults /\ CListFails(p)
            /\ cbound' = [cbound EXCEPT !.faults = @ + 1]

\* The listing is put into the cache; an empty one takes its tree out.
CListStore(p) ==
  LET f == CTop(p)
  IN  /\ CAt(p, "list", "store")
      /\ dirCache' = IF f.objs = {} THEN Cut(f.src)
                     ELSE [q \in DOMAIN dirCache \cup {f.src} |-> IF q = f.src THEN f.objs ELSE dirCache[q]]
      /\ FlightEnds(p, "list", f.src, CListing(f.objs))
      /\ listG' = Landed(listG, f.src)
      /\ cover' = cover \cup (IF f.objs = {} THEN Overlaps(CProcs \ {p}, CTree(f.src)) ELSE {})
      /\ UNCHANGED <<cdisk, cconf, cbound, cgood, mkdirG>>

\* KeyedCache: an entry expires.
CExpire(path) ==
  /\ path \in DOMAIN dirCache /\ cbound.faults < CFaults
  /\ dirCache' = COnly(dirCache, DOMAIN dirCache \ {path})
  /\ cbound' = [cbound EXCEPT !.faults = @ + 1]
  /\ cover' = cover \cup Overlaps(CProcs, {path})
  /\ UNCHANGED <<cdisk, cconf, listG, mkdirG, ccall, cgood>>

-----------------------------------------------------------------------------
(* The driver's writes *)

\* The directories that a change of the disk is about.
CTouched(disk2) ==
  LET diff == {q \in DOMAIN cdisk \cup DOMAIN disk2 :
                 ~(q \in DOMAIN cdisk /\ q \in DOMAIN disk2 /\ cdisk[q] = disk2[q])}
  IN  diff \cup {CDir(q) : q \in diff}
\* A write that succeeds, and one that fails.
DriverDoes(p, disk2, f, good) ==
  /\ cdisk' = disk2
  /\ cover' = cover \cup Overlaps(CProcs \ {p}, CTouched(disk2))
  /\ Goto(p, Pc(f, "cache"))
  /\ cgood' = good
  /\ UNCHANGED <<cconf, cbound, dirCache, listG, mkdirG>>
Faulty == cbound.faults < CFaults /\ cbound' = [cbound EXCEPT !.faults = @ + 1]

CWith(disk, path, x) == [q \in DOMAIN disk \cup {path} |-> IF q = path THEN x ELSE disk[q]]
CImage(src, dst, q) == dst \o SubSeq(q, Len(src) + 1, Len(q))
\* With src, or what is below it, at dst too.
CCopied(src, dst) ==
  LET made == {CImage(src, dst, q) : q \in CUnder(cdisk, src)}
  IN  [q \in DOMAIN cdisk \cup made |-> IF q \in made THEN cdisk[CImage(dst, src, q)] ELSE cdisk[q]]
CAway(disk, src) == COnly(disk, DOMAIN disk \ CUnder(disk, src))
\* A driver renames, copies and moves to a free name; it copies and moves a file to a file.
CMayGo(op, src, dst) ==
  /\ src \in DOMAIN cdisk /\ CIsDir(CDir(dst)) /\ ~IsPrefix(src, dst)
  /\ dst \in DOMAIN cdisk => op # "rename" /\ ~cdisk[src].dir /\ ~cdisk[dst].dir

-----------------------------------------------------------------------------
(* MakeDir *)

CMkdir(p) ==
  LET f == CTop(p)
  IN  /\ CAt(p, "mkdir", "start")
      /\ IF f.src \in mkdirG THEN Goto(p, Pc(f, "wait")) /\ UNCHANGED mkdirG
         ELSE mkdirG' = mkdirG \cup {f.src} /\ Push(p, Pc(f, "got"), GetFrame(f.src, FALSE))
      /\ CSame /\ UNCHANGED <<dirCache, listG>>
CMkdirEnds(p, ret) ==
  /\ FlightEnds(p, "mkdir", CTop(p).src, ret)
  /\ mkdirG' = Landed(mkdirG, CTop(p).src)
  /\ UNCHANGED <<listG, cdisk, cconf, cover, cgood>>
\* The object, then the parent, then the object of the parent.
CMkdirGot(p) ==
  LET f == CTop(p)
  IN  \/ /\ CAt(p, "mkdir", "got")
         /\ IF CRet(p).ok THEN /\ CMkdirEnds(p, IF CRet(p).obj.dir THEN COk ELSE CFail)
                               /\ UNCHANGED <<dirCache, cbound>>
            ELSE /\ Push(p, Pc(f, "parent"), CFrame("mkdir", CDir(f.src), <<>>))
                 /\ CSame /\ UNCHANGED <<dirCache, listG, mkdirG>>
      \/ /\ CAt(p, "mkdir", "parent")
         /\ IF CRet(p).ok THEN /\ Push(p, Pc(f, "drive"), GetFrame(CDir(f.src), TRUE))
                               /\ CSame /\ UNCHANGED <<dirCache, listG, mkdirG>>
            ELSE CMkdirEnds(p, CFail) /\ UNCHANGED <<dirCache, cbound>>
CMkdirDrive(p) ==
  LET f == CTop(p)
      may == CRet(p).ok /\ CRet(p).obj.dir /\ CIsDir(CDir(f.src)) /\ (f.src \in DOMAIN cdisk => cdisk[f.src].dir)
  IN  /\ CAt(p, "mkdir", "drive")
      /\ \/ may /\ DriverDoes(p, CWith(cdisk, f.src, [dir |-> TRUE, val |-> 0]), f, cgood)
         \/ ~may /\ CMkdirEnds(p, CFail) /\ UNCHANGED <<dirCache, cbound>>
         \/ Faulty /\ CMkdirEnds(p, CFail) /\ UNCHANGED dirCache
CMkdirCache(p) ==
  LET f == CTop(p)
      obj == [name |-> CName(f.src), dir |-> TRUE, temp |-> ~cconf.result, val |-> 0]
  IN  /\ CAt(p, "mkdir", "cache")
      /\ dirCache' \in UpdateObject(dirCache, CDir(f.src), "", obj)
      /\ CMkdirEnds(p, COk) /\ UNCHANGED cbound

-----------------------------------------------------------------------------
(* Move, Rename, Copy, Remove: the objects, the driver, the cache *)

CWrites == {"move", "rename", "copy", "remove"}
\* Nothing to remove is no error.
CWriteGot(p) ==
  LET f == CTop(p)
      g == [f EXCEPT !.obj = CRet(p).obj]
  IN  /\ Running(p) /\ f.op \in CWrites
      /\ \/ /\ f.pc = "src"
            /\ IF ~CRet(p).ok THEN Pop(p, IF f.op = "remove" THEN COk ELSE CFail)
               ELSE IF f.op \in {"move", "copy"} THEN Push(p, Pc(g, "dst"), GetFrame(CDir(f.dst), TRUE))
               ELSE Goto(p, Pc(g, "drive"))
         \/ /\ f.pc = "dst"
            /\ IF CRet(p).ok THEN Goto(p, Pc(f, "drive")) ELSE Pop(p, CFail)
      /\ CSame /\ UNCHANGED <<dirCache, listG, mkdirG>>

CWriteDrive(p) ==
  LET f == CTop(p)
      may == IF f.op = "remove" THEN f.src \in DOMAIN cdisk ELSE CMayGo(f.op, f.src, f.dst)
      \* an upload that puts the old file aside still has to keep it
      inner == Len(ccall[p].stack) > 1 /\ ~f.obj.dir
      good == IF inner THEN cgood
              ELSE COnly(cgood, (DOMAIN cgood \ CUnder(cgood, IF f.op = "copy" THEN f.dst ELSE f.src)) \ {f.dst})
  IN  /\ Running(p) /\ f.op \in CWrites /\ f.pc = "drive"
      /\ \/ /\ may
            /\ DriverDoes(p, CASE f.op = "remove" -> CAway(cdisk, f.src)
                               [] f.op = "copy" -> CCopied(f.src, f.dst)
                               [] OTHER -> CAway(CCopied(f.src, f.dst), f.src), f, good)
         \/ ~may /\ Pop(p, CFail) /\ CSame /\ UNCHANGED <<dirCache, listG, mkdirG>>
         \/ Faulty /\ Pop(p, CFail) /\ UNCHANGED <<cdisk, cconf, cover, cgood, dirCache, listG, mkdirG>>

\* The object as the cache gets it; it is temporary when the driver returns none.
CNewObj(f) == [f.obj EXCEPT !.name = CName(f.dst), !.temp = ~(cconf.result /\ CName(f.dst) = CName(f.src))]
CRenamedObj(f) == [f.obj EXCEPT !.name = CName(f.dst), !.temp = ~cconf.result]
MoveAway(f) == RemoveDirectoryObject(f.src, f.obj)
\* What each one does to the cached listings.
MoveCache(f) == UNION {UpdateObject(c, CDir(f.dst), CName(f.dst), CNewObj(f)) : c \in MoveAway(f)}
CopyCache(f) == UpdateObject(dirCache, CDir(f.dst), CName(f.dst), CNewObj(f))
\* (Mutant: the listings below a directory with a new name stay.)
RenameCache_Tree(f) == UpdateObject(dirCache, CDir(f.src), CName(f.src), CRenamedObj(f))
RenameCache(f) ==
  UpdateObject(IF CDir(f.src) \in DOMAIN dirCache /\ f.obj.dir THEN Cut(f.src) ELSE dirCache,
               CDir(f.src), CName(f.src), CRenamedObj(f))
RemoveCache(f) == RemoveDirectoryObject(f.src, f.obj)
\* Listings below a directory that goes stay if one between has expired; and what
\* came from a listing that may be wrong is used.
CLeft(f) ==
  (IF f.op = "copy" THEN {} ELSE CUnder(dirCache, f.src) \ CTree(f.src))
  \cup (IF CMayBeWrong(CDir(f.src)) THEN Claims(f) ELSE {})
CWriteCache(p) ==
  LET f == CTop(p)
  IN  /\ Running(p) /\ f.op \in CWrites /\ f.pc = "cache"
      /\ dirCache' \in CASE f.op = "move" -> MoveCache(f)
                          [] f.op = "copy" -> CopyCache(f)
                          [] f.op = "rename" -> RenameCache(f)
                          [] f.op = "remove" -> RemoveCache(f)
      /\ Pop(p, COk)
      /\ cover' = cover \cup CLeft(f)
      /\ UNCHANGED <<cdisk, cconf, cbound, cgood, listG, mkdirG>>

-----------------------------------------------------------------------------
(* Put *)

CPutMkdir(p, f) == Push(p, Pc(f, "made"), CFrame("mkdir", CDir(f.src), <<>>))
\* An empty object is removed first; a driver that cannot overwrite has the old one renamed.
CPutGot(p) ==
  LET f == CTop(p)
      g == [f EXCEPT !.obj = CRet(p).obj]
  IN  /\ Running(p) /\ f.op = "put"
      /\ \/ /\ f.pc = "src"
            /\ IF ~CRet(p).ok THEN CPutMkdir(p, f)
               ELSE IF CRet(p).obj.val = 0 THEN Push(p, Pc(g, "aside"), CFrame("remove", f.src, <<>>))
               ELSE IF cconf.noOver THEN Push(p, Pc(g, "aside"), CFrame("rename", f.src, TempPath(f.src)))
               ELSE CPutMkdir(p, g)
         \/ f.pc = "aside" /\ IF CRet(p).ok THEN CPutMkdir(p, f) ELSE Pop(p, CFail)
         \/ f.pc = "made" /\ IF CRet(p).ok THEN Push(p, Pc(f, "drive"), GetFrame(CDir(f.src), TRUE)) ELSE Pop(p, CFail)
      /\ CSame /\ UNCHANGED <<dirCache, listG, mkdirG>>

CPutDrive(p) ==
  LET f == CTop(p)
      may == /\ CRet(p).ok /\ CIsDir(CDir(f.src))
             /\ f.src \in DOMAIN cdisk => ~cdisk[f.src].dir /\ ~cconf.noOver
      failed == [f EXCEPT !.pc = "after", !.ok = FALSE]
  IN  /\ CAt(p, "put", "drive")
      /\ \/ may /\ DriverDoes(p, CWith(cdisk, f.src, [dir |-> FALSE, val |-> f.val]), f,
                              CWith(cgood, f.src, f.val))
         \/ /\ ~may
            /\ IF CRet(p).ok THEN Goto(p, failed) ELSE Pop(p, CFail)
            /\ CSame /\ UNCHANGED <<dirCache, listG, mkdirG>>
         \/ Faulty /\ Goto(p, failed) /\ UNCHANGED <<cdisk, cconf, cover, cgood, dirCache, listG, mkdirG>>
CPutCache(p) ==
  LET f == CTop(p)
      obj == [name |-> CName(f.src), dir |-> FALSE, temp |-> ~cconf.result, val |-> f.val]
  IN  /\ CAt(p, "put", "cache")
      /\ dirCache' \in UpdateObject(dirCache, CDir(f.src), CName(f.src), obj)
      /\ Goto(p, Pc(f, "after"))
      /\ CSame /\ UNCHANGED <<listG, mkdirG>>
\* The old object comes back when the upload failed, and goes away when it did not.
Restores(f) == ~f.ok
CPutAfter(p) ==
  LET f == CTop(p)
      kept == cconf.noOver /\ f.obj # <<>> /\ f.obj.val > 0
  IN  /\ \/ CAt(p, "put", "after") /\ kept /\
              Push(p, Pc(f, "end"), IF Restores(f) THEN CFrame("rename", TempPath(f.src), f.src)
                                    ELSE CFrame("remove", TempPath(f.src), <<>>))
         \/ CAt(p, "put", "after") /\ ~kept /\ Pop(p, IF f.ok THEN COk ELSE CFail)
         \/ CAt(p, "put", "end") /\ Pop(p, IF f.ok THEN CRet(p) ELSE CFail)
      /\ CSame /\ UNCHANGED <<dirCache, listG, mkdirG>>

-----------------------------------------------------------------------------
CStep(p) ==
  \/ CGet(p) \/ CGetListed(p)
  \/ CList(p) \/ CListRead(p) \/ CListStore(p)
  \/ CMkdir(p) \/ CMkdirGot(p) \/ CMkdirDrive(p) \/ CMkdirCache(p)
  \/ CWriteGot(p) \/ CWriteDrive(p) \/ CWriteCache(p)
  \/ CPutGot(p) \/ CPutDrive(p) \/ CPutCache(p) \/ CPutAfter(p)
CCalls(p) ==
  \/ \E path \in CPaths \cup {<<>>}, r \in BOOLEAN : CStartCall(p, "list", path, <<>>, r)
  \/ \E path \in CPaths, op \in {"mkdir", "remove", "put"} : CStartCall(p, op, path, <<>>, FALSE)
  \/ \E src, dst \in CPaths :
       \/ CDir(src) # CDir(dst) /\ \E op \in {"move", "copy"} : CStartCall(p, op, src, dst, FALSE)
       \/ CDir(src) = CDir(dst) /\ src # dst /\ CStartCall(p, "rename", src, dst, FALSE)
CNext == (\E p \in CProcs : CStep(p) \/ CCalls(p)) \/ \E path \in DOMAIN dirCache : CExpire(path)
CSpec == CInit /\ [][CNext]_dirVars
CFair == \A p \in CProcs : WF_dirVars(CStep(p))

-----------------------------------------------------------------------------
CQuiet == \A p \in CProcs : ~Running(p)
CSeen(o) == [name |-> o.name, dir |-> o.dir, val |-> IF o.dir THEN 0 ELSE o.val]

(* When no call is running, a cached listing shows what the driver has, also    *)
(* after listings expired, directories moved away and came back, and calls      *)
(* failed on the way; except where a change overlapped with another change, a   *)
(* listing or an expiry (cover), and for drivers with a Getter, whose listings  *)
(* do not need that of the parent (op/cache.go).                                *)
CCoherent ==
  CQuiet /\ ~cconf.getter =>
    \A d \in DOMAIN dirCache :
      CMayBeWrong(d)
      \/ (CIsDir(d) /\ {CSeen(o) : o \in dirCache[d]} = {CSeen(CObj(q)) : q \in CMembers(d)})

\* The frames that lead a flight, with their call and their place in its stack.
CLeads(f) == f.op \in {"list", "mkdir"} /\ f.pc \notin {"start", "wait"}
CLeaders(op, path) ==
  UNION {{<<p, n>> : n \in {m \in DOMAIN ccall[p].stack : LET f == ccall[p].stack[m]
                                                          IN  CLeads(f) /\ f.op = op /\ f.src = path}} : p \in CProcs}

(* No flight outlives its call, and no two calls lead the same flight: a key    *)
(* that stayed would make every later call for it wait (singleflight).          *)
CFlights ==
  \A G \in {<<"list", listG>>, <<"mkdir", mkdirG>>} :
    \A path \in G[2] \cup CPaths \cup {<<>>} :
      IF path \in G[2] THEN \E l \in CLeaders(G[1], path) : CLeaders(G[1], path) = {l}
      ELSE CLeaders(G[1], path) = {}

(* Calls do not wait in a circle, though a call leads flights while it waits    *)
(* for another: a call that made a directory waits for the one that makes the   *)
(* parent, and lists the parent, which lists its own (MakeDir, List, Get).      *)
CNoCircle == ~CQuiet => \E p \in CProcs : Running(p) /\ CTop(p).pc # "wait"

(* A file that an upload is to replace is not lost when the upload fails: it is *)
(* at its name or at the temporary one, until an upload succeeds or the file is *)
(* removed or moved by a call of its own, or with its directory; except where   *)
(* changes overlapped (Put).                                                    *)
CUploadKeeps ==
  CQuiet => \A path \in DOMAIN cgood :
    \/ {path, CDir(path)} \cap cover # {}
    \/ \E q \in {path, TempPath(path)} : q \in DOMAIN cdisk /\ cdisk[q].val = cgood[path]

(* Every call comes back, though calls wait for one another's flights.          *)
CCallsEnd == ~CQuiet ~> CQuiet

(* The comment of Put says "if file exist and size = 0, delete it".  A step of  *)
(* an upload removes no directory.                                              *)
CPutRemovesFiles ==
  [][\A p \in CProcs :
       Running(p) /\ ccall[p].stack[1].op = "put" =>
         \A q \in DOMAIN cdisk : cdisk[q].dir /\ ccall'[p] # ccall[p] => q \in DOMAIN cdisk']_dirVars

(* Calls on a storage leave its cached listings true, their flights ended and   *)
(* the files that failed uploads were to replace in place (op/fs.go, cache.go). *)
CallsSafe == CCoherent /\ CFlights /\ CNoCircle /\ CUploadKeeps
=============================================================================
