----------------------------- MODULE LocalDriver -----------------------------
(* drivers/local: a storage in a directory of the host, and the sizes of its    *)
(* directories, which are kept in DirectoryMap and refreshed after every        *)
(* change.  Calls run at the same time under a shared lock; a change of the     *)
(* disk and each refresh are steps.  A path is a sequence of names, <<>> the    *)
(* root.  The disk holds directories and files with a size; `part` is the       *)
(* temporary file of an upload, which grows and is there to see meanwhile.      *)
(* Changes may fail half way.  Symbolic links, devices and pipes are left out.  *)
EXTENDS Integers, Sequences, FiniteSets, FiniteSetsExt, SequencesExt

CONSTANTS LNames,     \* names of objects
          LDepth,     \* length of a path
          LSizes,     \* sizes of uploads
          LBin,       \* RecycleBinPath
          LProcs,     \* calls that run at the same time; also the names of their temporary files
          LOps,       \* bound: calls
          LFaults     \* bound: failures of the file system

ASSUME LAssumption == LSizes \subseteq Nat /\ {LDepth, LOps, LFaults} \subseteq Nat /\ LNames \cap LProcs = {}

VARIABLES
  disk,     \* path -> [dir, size, part]
  dmap,     \* DirectoryMap.data: path -> [file, dirs, kids]
  dirty,    \* DirectoryMap.dirty
  lopen,    \* d.root is open
  lproc,    \* the calls: pc, the directories still to refresh, the upload
  lbound,   \* calls and faults so far
  lclean    \* no directory in the map was changed without a refresh (see LCovered)

localVars == <<disk, dmap, dirty, lopen, lproc, lbound, lclean>>

LPaths == SeqOf(LNames, LDepth) \ {<<>>}
LDirOf(p) == Front(p)
LIsDir(p) == p = <<>> \/ (p \in DOMAIN disk /\ disk[p].dir)
ADir == [dir |-> TRUE, size |-> 0, part |-> FALSE]
AFile(n) == [dir |-> FALSE, size |-> n, part |-> FALSE]
LMembers(dsk, p) == {q \in DOMAIN dsk : q # <<>> /\ LDirOf(q) = p}
LUnder(f, p) == {q \in DOMAIN f : IsPrefix(p, q)}
LWithout(f, S) == [q \in DOMAIN f \ S |-> f[q]]
LSum(S, Op(_)) == MapThenSumSet(Op, S)

-----------------------------------------------------------------------------
(* DirectoryMap *)

NodeSize(n) == n.file + n.dirs
FilesIn(dsk, p) == LSum({q \in LMembers(dsk, p) : ~dsk[q].dir}, LAMBDA q : dsk[q].size)
DirsIn(dsk, p) == {q \in LMembers(dsk, p) : dsk[q].dir}

\* calculateDirSizeLocked: the directories at and below p that are not behind one
\* that is in the map already, whose node is used as it is.
LMissing(map, p) ==
  {p} \cup {q \in LUnder(disk, p) : disk[q].dir /\ \A n \in Len(p) + 1 .. Len(q) : SubSeq(q, 1, n) \notin DOMAIN map}
LCalculated(map, p) ==
  LET new == LMissing(map, p)
      known(q) == {c \in DOMAIN map : c # <<>> /\ c \in DOMAIN disk /\ LDirOf(c) \in new /\ c \notin new /\ IsPrefix(q, c)}
      total(q) == LSum({e \in new : IsPrefix(q, e)}, LAMBDA e : FilesIn(disk, e)) + LSum(known(q), LAMBDA c : NodeSize(map[c]))
  IN  [q \in DOMAIN map \cup new |->
         IF q \in new THEN [file |-> FilesIn(disk, q), dirs |-> total(q) - FilesIn(disk, q), kids |-> DirsIn(disk, q)] ELSE map[q]]

\* updateDirSizeLocked: members that are new are calculated, those that are gone
\* are dropped with their subtrees, the others count as the map has them.
Dropped(map, p) == UNION {LUnder(map, c) : c \in map[p].kids \ DirsIn(disk, p)}
RECURSIVE CalculatedAll(_, _)
CalculatedAll(map, S) ==
  IF S = {} THEN map ELSE LET c == CHOOSE c \in S : TRUE IN CalculatedAll(LCalculated(map, c), S \ {c})
LUpdated(map, p) ==
  LET full == CalculatedAll(map, DirsIn(disk, p) \ DOMAIN map)
  IN  LWithout([full EXCEPT ![p] = [file |-> FilesIn(disk, p), kids |-> DirsIn(disk, p),
                                   dirs |-> LSum(DirsIn(disk, p), LAMBDA c : NodeSize(full[c]))]],
              Dropped(map, p))

\* recalculateDirSizeLocked
Recalculated == LCalculated(<<>>, <<>>)

\* Refresh: the directory and then its ancestors; anything unexpected (a node or
\* a directory that is missing) leads to a new calculation of everything.
\* (Mutant: the ancestors are left.)
Upwards_Not(map, p) == [ok |-> TRUE, map |-> map]
RECURSIVE Upwards(_, _)
Upwards(map, p) ==
  IF p = <<>> THEN [ok |-> TRUE, map |-> map]
  ELSE IF LDirOf(p) \notin DOMAIN map \/ ~LIsDir(LDirOf(p)) THEN [ok |-> FALSE, map |-> map]
  ELSE Upwards(LUpdated(map, LDirOf(p)), LDirOf(p))
LRefreshed(p) ==
  IF dirty \/ ~LIsDir(p) THEN Recalculated
  ELSE LET up == Upwards(IF p \in DOMAIN dmap THEN LUpdated(dmap, p) ELSE LCalculated(dmap, p), p)
       IN  IF up.ok THEN up.map ELSE Recalculated

-----------------------------------------------------------------------------
LIdle == [pc |-> "idle", todo |-> <<>>, dst |-> <<>>, size |-> 0]

LInit ==
  /\ disk = <<>> /\ dmap = <<>> /\ dirty = FALSE /\ lopen = FALSE
  /\ lproc = [p \in LProcs |-> LIdle]
  /\ lbound = [ops |-> 0, faults |-> 0] /\ lclean = TRUE

LFault == lbound.faults < LFaults
\* A call starts: lockRoot.
LCall(p) == lopen /\ lproc[p].pc = "idle" /\ lbound.ops < LOps
\* Where the code refreshes enough: every directory that the map holds and that the
\* change made or filled is one of those to refresh, or above one.
LCovered(dsk, todo) ==
  \A q \in {c \in DOMAIN dmap : c = <<>> \/ (c \in DOMAIN dsk /\ dsk[c].dir)} :
    \/ \E n \in DOMAIN todo : IsPrefix(q, todo[n])
    \/ LIsDir(q) /\ FilesIn(dsk, q) = FilesIn(disk, q) /\ DirsIn(dsk, q) = DirsIn(disk, q)
\* A call changes the disk and has directories to refresh; one that fails half way
\* returns its error and refreshes nothing.
LChanged(p, dsk, todo, faults) ==
  /\ disk' = dsk
  /\ lproc' = [lproc EXCEPT ![p] = [LIdle EXCEPT !.pc = IF todo = <<>> THEN "idle" ELSE "refresh", !.todo = todo]]
  /\ lbound' = [ops |-> lbound.ops + 1, faults |-> lbound.faults + faults]
  /\ lclean' = (lclean /\ LCovered(dsk, todo) /\ \A q \in DOMAIN dsk \ DOMAIN disk : ~dsk[q].part)
  /\ UNCHANGED <<dmap, dirty, lopen>>
LChange(p, dsk, todo) == LChanged(p, dsk, todo, 0)
LHalf(p, dsk) == LFault /\ LChanged(p, dsk, <<>>, 1)

\* Init, under the exclusive lock: with DirectorySize, everything is calculated.
LOpen ==
  /\ ~lopen /\ \A p \in LProcs : lproc[p].pc = "idle"
  /\ lopen' = TRUE
  /\ dmap' = Recalculated /\ dirty' = FALSE
  /\ UNCHANGED <<disk, lproc, lbound>>
  /\ lclean' = (lclean \/ \A q \in DOMAIN disk : ~disk[q].part)
LDrop ==
  /\ lopen /\ \A p \in LProcs : lproc[p].pc = "idle"
  /\ lopen' = FALSE /\ dmap' = <<>> /\ dirty' = FALSE
  /\ UNCHANGED <<disk, lproc, lbound, lclean>>

\* refreshDirectory.  When the file system fails, nothing is known any more.
LRefresh(p) ==
  /\ lproc[p].pc = "refresh"
  /\ \/ dmap' = LRefreshed(Head(lproc[p].todo)) /\ dirty' = FALSE /\ UNCHANGED lbound
     \/ LFault /\ lbound' = [lbound EXCEPT !.faults = @ + 1] /\ dmap' = <<>> /\ dirty' = TRUE
  /\ lproc' = [lproc EXCEPT ![p].todo = Tail(@), ![p].pc = IF Len(lproc[p].todo) = 1 THEN "idle" ELSE "refresh"]
  /\ UNCHANGED <<disk, lopen, lclean>>

\* MkdirAll of a path.
LWithDirs(dsk, path) ==
  LET all == {SubSeq(path, 1, n) : n \in 1..Len(path)}
  IN  [q \in DOMAIN dsk \cup all |-> IF q \in DOMAIN dsk THEN dsk[q] ELSE ADir]
LNoFileOn(path) == \A n \in 1..Len(path) : SubSeq(path, 1, n) \in DOMAIN disk => LIsDir(SubSeq(path, 1, n))

LMakeDir(p, path) ==
  /\ LCall(p) /\ LNoFileOn(path)
  /\ \/ LChange(p, LWithDirs(disk, path), <<LDirOf(path)>>)
     \/ LHalf(p, LWithDirs(disk, LDirOf(path)))

\* rename(2): a file replaces a file, a directory an empty directory.
LMayReplace(src, dst) ==
  dst \in DOMAIN disk =>
    IF disk[src].dir THEN disk[dst].dir /\ LMembers(disk, dst) = {} ELSE ~disk[dst].dir
LRenamed(dsk, src, dst) ==
  LET to(q) == src \o SubSeq(q, Len(dst) + 1, Len(q))
      moved == {dst \o SubSeq(q, Len(src) + 1, Len(q)) : q \in LUnder(dsk, src)}
  IN  [q \in (DOMAIN dsk \ LUnder(dsk, src)) \cup moved |-> IF q \in moved THEN dsk[to(q)] ELSE dsk[q]]
LFits(src, dst) == \A q \in LUnder(disk, src) : Len(q) - Len(src) + Len(dst) <= LDepth

LMoveTo(p, src, dst) ==
  /\ LCall(p)
  /\ src \in DOMAIN disk /\ ~disk[src].part /\ ~IsPrefix(src, dst)
  /\ LIsDir(LDirOf(dst)) /\ LMayReplace(src, dst) /\ LFits(src, dst)
  /\ LChange(p, LRenamed(disk, src, dst), <<LDirOf(src), LDirOf(dst)>>)

LRename(p, src, dst) ==
  /\ LCall(p)
  /\ src \in DOMAIN disk /\ ~disk[src].part /\ src # dst /\ LDirOf(src) = LDirOf(dst)
  /\ LMayReplace(src, dst)
  /\ LChange(p, LRenamed(disk, src, dst), IF disk[src].dir THEN <<LDirOf(src)>> ELSE <<>>)

\* CopyTo: a file is cloned if nothing is there; a directory is merged, and a
\* file that cannot be cloned ends the copy (NotImplement) without a refresh.
LCopyTo(p, src, dst, done) ==
  LET image(q) == dst \o SubSeq(q, Len(src) + 1, Len(q))
      clash == {q \in LUnder(disk, src) : image(q) \in DOMAIN disk /\ ~(disk[q].dir /\ disk[image(q)].dir)}
      made == {image(q) : q \in done} \ DOMAIN disk
      origin(r) == src \o SubSeq(r, Len(dst) + 1, Len(r))
      all == done = LUnder(disk, src)
  IN  /\ LCall(p)
      /\ src \in DOMAIN disk /\ ~disk[src].part /\ ~IsPrefix(src, dst)
      /\ LIsDir(LDirOf(dst)) /\ LFits(src, dst)
      /\ done \subseteq LUnder(disk, src) \ clash
      /\ \A q \in done : q # src => LDirOf(q) \in done
      /\ LChange(p, [r \in DOMAIN disk \cup made |-> IF r \in made THEN disk[origin(r)] ELSE disk[r]],
                IF all THEN <<LDirOf(dst)>> ELSE <<>>)

\* Remove for good, Purge.  RemoveAll removes a directory after what is below it,
\* and what it removed before it fails is gone.
LRemove(p, path) ==
  /\ LCall(p)
  /\ path \in DOMAIN disk /\ ~disk[path].part
  /\ \/ LChange(p, LWithout(disk, LUnder(disk, path)), <<LDirOf(path)>>)
     \/ \E gone \in SUBSET (LUnder(disk, path) \ {path}) :
          (\A q \in gone : LUnder(disk, q) \subseteq gone) /\ LHalf(p, LWithout(disk, gone))

\* Remove to the recycle bin, to a name that is free there.  The bin is not refreshed.
LRecycle(p, path, dst) ==
  LET place == LBin \o path
  IN  /\ LCall(p)
      /\ path \in DOMAIN disk /\ ~disk[path].part /\ ~IsPrefix(path, dst)
      /\ LDirOf(dst) = LDirOf(place) /\ dst \notin DOMAIN disk /\ (dst # place => place \in DOMAIN disk)
      /\ LNoFileOn(LDirOf(dst)) /\ LFits(path, dst)
      /\ \/ LChange(p, LRenamed(LWithDirs(disk, LDirOf(dst)), path, dst), <<LDirOf(path)>>)
         \/ LHalf(p, LWithDirs(disk, LDirOf(dst)))

-----------------------------------------------------------------------------
(* Put: a temporary file, the copy, the rename, the refresh *)

LTemp(p) == Append(LDirOf(lproc[p].dst), p)
PutStart(p, dst, size) ==
  /\ LCall(p)
  /\ LIsDir(LDirOf(dst))
  /\ disk' = [q \in DOMAIN disk \cup {Append(LDirOf(dst), p)} |->
                IF q = Append(LDirOf(dst), p) THEN [dir |-> FALSE, size |-> 0, part |-> TRUE] ELSE disk[q]]
  /\ lproc' = [lproc EXCEPT ![p] = [pc |-> "copy", todo |-> <<>>, dst |-> dst, size |-> size]]
  /\ lbound' = [lbound EXCEPT !.ops = @ + 1]
  /\ UNCHANGED <<dmap, dirty, lopen, lclean>>

\* The file grows to n; refreshes of other calls count what is there.
PutCopy(p, n) ==
  /\ lproc[p].pc = "copy" /\ LTemp(p) \in DOMAIN disk
  /\ n > disk[LTemp(p)].size \/ n = lproc[p].size
  /\ disk' = [disk EXCEPT ![LTemp(p)].size = n]
  /\ lproc' = [lproc EXCEPT ![p].pc = IF n = lproc[p].size THEN "commit" ELSE "copy"]
  /\ UNCHANGED <<dmap, dirty, lopen, lbound, lclean>>

PutCommit(p) ==
  LET dst == lproc[p].dst
  IN  /\ lproc[p].pc = "commit" /\ LTemp(p) \in DOMAIN disk
      /\ dst \in DOMAIN disk => ~disk[dst].dir
      /\ disk' = [q \in (DOMAIN disk \ {LTemp(p)}) \cup {dst} |-> IF q = dst THEN AFile(lproc[p].size) ELSE disk[q]]
      /\ lproc' = [lproc EXCEPT ![p] = [LIdle EXCEPT !.pc = "refresh", !.todo = <<LDirOf(dst)>>]]
      /\ UNCHANGED <<dmap, dirty, lopen, lbound, lclean>>

\* The copy failed, the directory is gone, or a directory has the name: the
\* temporary file is removed, without a refresh, also of a size that was counted.
LCleaned(p) == LWithout(disk, {LTemp(p)})
PutFails(p) ==
  /\ lproc[p].pc \in {"copy", "commit"}
  /\ \/ /\ LTemp(p) \notin DOMAIN disk \/ (lproc[p].pc = "commit" /\ LIsDir(lproc[p].dst))
        /\ UNCHANGED lbound
     \/ LFault /\ lbound' = [lbound EXCEPT !.faults = @ + 1]
  /\ disk' = LCleaned(p)
  /\ lproc' = [lproc EXCEPT ![p] = LIdle]
  /\ LET dir == LDirOf(lproc[p].dst)
     IN  lclean' = (lclean /\ (LTemp(p) \in DOMAIN disk /\ dir \in DOMAIN dmap => dmap[dir].file = FilesIn(LCleaned(p), dir)))
  /\ UNCHANGED <<dmap, dirty, lopen>>

LNext ==
  \/ LOpen \/ LDrop
  \/ \E p \in LProcs :
       \/ LRefresh(p) \/ PutCommit(p) \/ PutFails(p)
       \/ \E n \in 0..lproc[p].size : PutCopy(p, n)
       \/ \E path \in LPaths : LMakeDir(p, path) \/ LRemove(p, path)
       \/ \E dst \in LPaths, size \in LSizes : PutStart(p, dst, size)
       \/ \E src \in DOMAIN disk, dst \in LPaths :
            \/ LMoveTo(p, src, dst) \/ LRename(p, src, dst) \/ LRecycle(p, src, dst)
            \/ \E done \in SUBSET LUnder(disk, src) : LCopyTo(p, src, dst, done)

-----------------------------------------------------------------------------
LQuiet == lopen /\ \A p \in LProcs : lproc[p].pc = "idle"
SizesRight ==
  \A p \in {<<>>} \cup {q \in DOMAIN disk : disk[q].dir} :
    p \in DOMAIN dmap /\ NodeSize(dmap[p]) = LSum(LUnder(disk, p), LAMBDA q : disk[q].size)

(* When no call is running, every directory has the size of the files below it, *)
(* whatever was made, uploaded, moved, copied and removed at the same time, and *)
(* a refresh that failed is made good by the next one; except after a change    *)
(* that the code does not refresh: one that failed half way, a failed upload    *)
(* whose temporary file was counted (lclean) (DirectoryMap.Refresh).            *)
LSizesExact == LQuiet /\ ~dirty /\ lclean => SizesRight

(* The map forgets what is gone: no node without its directory stays behind to  *)
(* be counted when a directory of the same name is made again.                  *)
LNoOrphans == LQuiet /\ ~dirty /\ lclean => \A p \in DOMAIN dmap : LIsDir(p)

(* Uploads are all or nothing: a file under its own name is never an incomplete *)
(* one, and no temporary file is left when no call is running, unless its       *)
(* directory was moved or copied meanwhile (Put).                               *)
LUploadsWhole ==
  /\ LQuiet /\ lclean => \A q \in DOMAIN disk : ~disk[q].part
  /\ \A q \in DOMAIN disk \cap LPaths : ~disk[q].part /\ (disk[q].dir \/ disk[q].size \in LSizes)

(* The local driver's view of its directories and the directories agree when it *)
(* rests, and uploads are all or nothing (driver.go, util.go).                  *)
LocalSafe == LSizesExact /\ LNoOrphans /\ LUploadsWhole
=============================================================================
