------------------------------ MODULE IndexUpdate ------------------------------
(* Update of the index after a listing (search/build.go), for the searchers that *)
(* keep their rows in the database: under the lock of the directory, which       *)
(* lockUpdate makes for its first user and drops after its last one, the rows of *)
(* the directory are compared with the names of the listing; the difference is   *)
(* deleted, one name at a time, and added, all at once.                          *)
EXTENDS Integers, Sequences, FiniteSets, SequencesExt

CONSTANTS UProcs,
          UDirs,       \* the directories that are listed: sequences of names
          UNames,
          UMounts,     \* the paths that storages are mounted on: HasStorage
          UCalls, UFaults  \* bounds: updates; statements that fail

ASSUME UAssumption ==
  IsFiniteSet(UProcs) /\ UDirs \subseteq Seq(UNames) /\ UMounts \subseteq Seq(UNames) /\ UCalls \in Nat /\ UFaults \in Nat

VARIABLES
  urows,     \* path -> how many rows it has
  ulocks,    \* the map updateLocks: directory -> lock, or 0
  ulock,     \* lock -> [refs, by]: its users and the one that holds it
  uproc,     \* process -> [pc, dir, now, old, lock]
  ulast,     \* ghost: directory -> the names of the last update that ended
  uclean,    \* ghost: directory -> no update of it has failed, and none above it has deleted it
  ucalls, ufaults

updateVars == <<urows, ulocks, ulock, uproc, ulast, uclean, ucalls, ufaults>>

ULocks == 1..(2 * Cardinality(UProcs))
UIdle == [pc |-> "idle", dir |-> <<>>, now |-> {}, old |-> {}, lock |-> 0]
UPaths == {Append(d, n) : d \in UDirs, n \in UNames}

UInit ==
  /\ urows = [p \in UPaths |-> 0] /\ ulocks = [d \in UDirs |-> 0] /\ ulock = [l \in ULocks |-> [refs |-> 0, by |-> {}]]
  /\ uproc = [p \in UProcs |-> UIdle]
  /\ ulast = [d \in UDirs |-> {}] /\ uclean = [d \in UDirs |-> TRUE]
  /\ ucalls = 0 /\ ufaults = 0

-----------------------------------------------------------------------------
UTo(p, pc) == uproc' = [uproc EXCEPT ![p].pc = pc]
UIndexed(d) == {n \in UNames : urows[Append(d, n)] > 0}
UFree == {l \in ULocks : ulock[l].refs = 0 /\ \A d \in UDirs : ulocks[d] # l}

\* Update, and the first half of lockUpdate: count a user of the directory's lock.
Update(p, d, now) ==
  /\ uproc[p].pc = "idle" /\ p = CHOOSE q \in UProcs : uproc[q].pc = "idle"   \* whichever it is
  /\ ucalls < UCalls /\ ucalls' = ucalls + 1
  /\ LET l == IF ulocks[d] # 0 THEN ulocks[d] ELSE CHOOSE f \in UFree : TRUE
     IN  /\ ulocks' = [ulocks EXCEPT ![d] = l] /\ ulock' = [ulock EXCEPT ![l].refs = @ + 1]
         /\ uproc' = [uproc EXCEPT ![p] = [pc |-> "lock", dir |-> d, now |-> now, old |-> {}, lock |-> l]]
  /\ UNCHANGED <<urows, ulast, uclean, ufaults>>
ULock(p) ==
  LET l == uproc[p].lock
  IN  /\ uproc[p].pc = "lock" /\ ulock[l].by = {}
      /\ ulock' = [ulock EXCEPT ![l].by = {p}] /\ UTo(p, "get")
      /\ UNCHANGED <<urows, ulocks, ulast, uclean, ucalls, ufaults>>

\* The rows of the directory, and what is to be deleted of them.
UGet(p) ==
  /\ uproc[p].pc = "get"
  /\ uproc' = [uproc EXCEPT ![p].pc = "del", ![p].old = UIndexed(uproc[p].dir)]
  /\ UNCHANGED <<urows, ulocks, ulock, ulast, uclean, ucalls, ufaults>>
ToDelete(p) == {n \in uproc[p].old \ uproc[p].now : Append(uproc[p].dir, n) \notin UMounts}

\* DeleteSearchNodesByParent: all rows under the path, and its own row if its parent
\* is the root: path.Split leaves a "/" at the end of every other parent.
UDeleted(q) == [r \in UPaths |-> IF IsStrictPrefix(q, r) \/ (r = q /\ Len(q) = 1) THEN 0 ELSE urows[r]]
UDel(p) ==
  /\ uproc[p].pc = "del"
  /\ \E n \in ToDelete(p) :
       LET q == Append(uproc[p].dir, n)
       IN  /\ urows' = UDeleted(q)
           /\ uclean' = [d \in UDirs |-> uclean[d] /\ ~IsPrefix(q, d)]
           /\ uproc' = [uproc EXCEPT ![p].old = @ \ {n}]
  /\ UNCHANGED <<ulocks, ulock, ulast, ucalls, ufaults>>
ToAdd(p) == uproc[p].now \ uproc[p].old
UAdd(p) ==
  /\ uproc[p].pc = "del" /\ ToDelete(p) = {}
  /\ urows' = [q \in UPaths |-> IF Front(q) = uproc[p].dir /\ Last(q) \in ToAdd(p) THEN urows[q] + 1 ELSE urows[q]]
  /\ ulast' = [ulast EXCEPT ![uproc[p].dir] = uproc[p].now]
  /\ UTo(p, "unlock")
  /\ UNCHANGED <<ulocks, ulock, uclean, ucalls, ufaults>>
UFails(p) ==
  /\ uproc[p].pc \in {"get", "del"} /\ ufaults < UFaults /\ ufaults' = ufaults + 1
  /\ uclean' = [uclean EXCEPT ![uproc[p].dir] = FALSE] /\ UTo(p, "unlock")
  /\ UNCHANGED <<urows, ulocks, ulock, ulast, ucalls>>

\* The function that lockUpdate returns.
UUnlock(p) ==
  /\ uproc[p].pc = "unlock"
  /\ ulock' = [ulock EXCEPT ![uproc[p].lock].by = {}] /\ UTo(p, "drop")
  /\ UNCHANGED <<urows, ulocks, ulast, uclean, ucalls, ufaults>>
LastUser(l) == ulock[l].refs = 1
UDrop(p) ==
  LET l == uproc[p].lock
  IN  /\ uproc[p].pc = "drop"
      /\ ulock' = [ulock EXCEPT ![l].refs = @ - 1]
      /\ ulocks' = IF LastUser(l) THEN [ulocks EXCEPT ![uproc[p].dir] = 0] ELSE ulocks
      /\ uproc' = [uproc EXCEPT ![p] = UIdle]
      /\ UNCHANGED <<urows, ulast, uclean, ucalls, ufaults>>

UNext == \E p \in UProcs :
  \/ \E d \in UDirs, now \in SUBSET UNames : Update(p, d, now)
  \/ ULock(p) \/ UGet(p) \/ UDel(p) \/ UAdd(p) \/ UFails(p) \/ UUnlock(p) \/ UDrop(p)

USpec == UInit /\ [][UNext]_updateVars

-----------------------------------------------------------------------------
\* No object has two rows, although reading the rows and adding the missing ones are
\* two statements and locks come and go with their users: two updates of one directory
\* never overlap (lockUpdate, update_lock.go:15-37).
UOneRow == \A q \in UPaths : urows[q] <= 1

\* While no update of a directory is under way, its rows are those of the last update
\* of it, and those of the storages that are mounted in it.  In a directory other than
\* the root the rows of objects that are gone may remain, because Del does not find them.
UFollows ==
  \A d \in UDirs :
    uclean[d] /\ (\A p \in UProcs : uproc[p].pc # "idle" => uproc[p].dir # d) =>
      /\ ulast[d] \subseteq UIndexed(d)
      /\ d = <<>> => \A n \in UIndexed(d) \ ulast[d] : Append(d, n) \in UMounts
=============================================================================
