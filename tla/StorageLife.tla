------------------------------ MODULE StorageLife ------------------------------
(* The life of a storage (op/storage.go): a row of the database, a driver       *)
(* object that is initialised and dropped, and the map from mount paths to      *)
(* drivers.  Several administrators call the operations at once and nothing     *)
(* locks a storage, so every access to the database, the driver or the map is   *)
(* a step of its own.  A mount path is [path, bal]: bal is its .balance suffix. *)
EXTENDS Integers, Sequences, FiniteSets, SequencesExt

CONSTANTS SIds, SMounts, SDrivers,  \* keys of rows (bound: one that was deleted is given again), mount paths, driver objects 1..n
          SAdmins, SMain,           \* bound: the other administrators only disable and delete
          SPaths,                   \* paths that are looked up
          SOps, SFaults             \* bounds: calls; failures and restarts

\* No part of a mount path is empty.
SNoMount == [path |-> <<"">>, bal |-> FALSE]
ASSUME SAssumption ==
  /\ SIds \cup SDrivers \subseteq Nat \ {0} /\ SOps \in Nat /\ SFaults \in Nat /\ SMain \in SAdmins
  /\ SNoMount \notin SMounts

VARIABLES
  srows,     \* id -> row [mount, disabled, ok], or SNoRow
  smap,      \* storagesMap: mount path -> driver, 0 for none
  sdrv,      \* driver -> [id, row, live]: its GetStorage(), and whether it is initialised
  sadm,      \* admin -> [pc, op, id, row, old, drv, todo]
  sloaded,   \* conf.StoragesLoaded
  sclean,    \* ghost: no failure, no overlapping calls and no change of Disabled by an update
  sops, sfaults

storageVars == <<srows, smap, sdrv, sadm, sloaded, sclean, sops, sfaults>>

SNoRow == [mount |-> SNoMount, disabled |-> TRUE, ok |-> FALSE]
SIdle == [pc |-> "idle", op |-> "none", id |-> 0, row |-> SNoRow, old |-> SNoRow, drv |-> 0, todo |-> {}]
SDead == [id |-> 0, row |-> SNoRow, live |-> FALSE]

SInitial ==
  /\ srows = [i \in SIds |-> SNoRow] /\ smap = [m \in SMounts |-> 0]
  /\ sdrv = [d \in SDrivers |-> SDead] /\ sadm = [p \in SAdmins |-> SIdle]
  /\ sloaded = TRUE /\ sclean = TRUE /\ sops = 0 /\ sfaults = 0

-----------------------------------------------------------------------------
SAllIdle == \A p \in SAdmins : sadm[p].pc = "idle"
SEnabledRows == {i \in SIds : srows[i] # SNoRow /\ ~srows[i].disabled}
SToLoad == {[id |-> i, row |-> srows[i]] : i \in SEnabledRows}

\* driverNew(): an object that nobody has.  (SFree # {} bounds the driver objects.)
SFree == {d \in SDrivers : sdrv[d] = SDead /\ (\A m \in SMounts : smap[m] # d) /\ \A p \in SAdmins : sadm[p].drv # d}
SFresh == CHOOSE d \in SFree : \A e \in SFree : d <= e

\* A write of a row, which the database refuses when the mount path is taken.
STaken(i, row) == \E j \in SIds \ {i} : srows[j] # SNoRow /\ srows[j].mount = row.mount

\* A call may fail; the ghost remembers it.
SWorks == UNCHANGED <<sfaults, sclean>>
SFails == sfaults < SFaults /\ sfaults' = sfaults + 1 /\ sclean' = FALSE

SSaved(i, row) == ~STaken(i, row) /\ srows' = [srows EXCEPT ![i] = row] /\ SWorks
SRefused(i, row) == UNCHANGED srows /\ IF STaken(i, row) THEN SWorks ELSE SFails

SStart(p) ==
  /\ sadm[p].pc = "idle" /\ sops < SOps /\ sops' = sops + 1
  /\ UNCHANGED sfaults
SGo(p, pc, op, i, row, old, drv) ==
  sadm' = [sadm EXCEPT ![p] = [pc |-> pc, op |-> op, id |-> i, row |-> row, old |-> old, drv |-> drv, todo |-> {}]]
SEnd(p) == sadm' = [sadm EXCEPT ![p] = SIdle]
SPc(p, pc) == sadm' = [sadm EXCEPT ![p].pc = pc]
\* The end of a storage that was loaded: the next one of the list, or the end of the call.
SAfter(p) == IF sadm[p].op \in {"boot", "loadall"} THEN SPc(p, "next") ELSE SEnd(p)
SAlone(p) == sclean' = (sclean /\ SAllIdle)

\* CreateStorage: the insert gives the storage its id.
CreateStorage(p, i, m, off) ==
  LET row == [mount |-> m, disabled |-> off, ok |-> FALSE]
  IN  /\ SStart(p)
      /\ srows[i] = SNoRow /\ (\A j \in SIds : srows[j] = SNoRow => i <= j)
      /\ ~STaken(i, row)
      /\ srows' = [srows EXCEPT ![i] = row]
      /\ sclean' = (sclean /\ SAllIdle /\ ~off)
      /\ SFree # {} /\ SGo(p, "set", "create", i, row, SNoRow, SFresh)
      /\ UNCHANGED <<smap, sdrv, sloaded>>

\* EnableStorage, DisableStorage, UpdateStorage, DeleteStorageById: the row as it is now.
EnableStorage(p, i) ==
  /\ SStart(p) /\ SAlone(p)
  /\ srows[i] # SNoRow /\ srows[i].disabled
  /\ SGo(p, "enable", "enable", i, [srows[i] EXCEPT !.disabled = FALSE], srows[i], 0)
  /\ UNCHANGED <<srows, smap, sdrv, sloaded>>
DisableStorage(p, i) ==
  /\ SStart(p) /\ SAlone(p)
  /\ i \in SEnabledRows /\ smap[srows[i].mount] # 0
  /\ SGo(p, "drop", "disable", i, [srows[i] EXCEPT !.disabled = TRUE, !.ok = FALSE], srows[i], smap[srows[i].mount])
  /\ UNCHANGED <<srows, smap, sdrv, sloaded>>
UpdateStorage(p, i, m, off) ==
  /\ SStart(p)
  /\ srows[i] # SNoRow
  /\ sclean' = (sclean /\ SAllIdle /\ off = srows[i].disabled)
  /\ SGo(p, "update", "update", i, [mount |-> m, disabled |-> off, ok |-> FALSE], srows[i], 0)
  /\ UNCHANGED <<srows, smap, sdrv, sloaded>>
DeleteStorageById(p, i) ==
  /\ SStart(p) /\ SAlone(p)
  /\ srows[i] # SNoRow
  /\ IF srows[i].disabled THEN SGo(p, "delete", "delete", i, SNoRow, srows[i], 0)
     ELSE smap[srows[i].mount] # 0 /\ SGo(p, "drop", "delete", i, SNoRow, srows[i], smap[srows[i].mount])
  /\ UNCHANGED <<srows, smap, sdrv, sloaded>>

\* EnableStorage's update of the row, and LoadStorage with a driver of its own.
EnableRow(p) ==
  LET a == sadm[p]
  IN  /\ a.pc = "enable"
      /\ \/ SSaved(a.id, a.row) /\ SFree # {} /\ SGo(p, "set", "enable", a.id, a.row, a.old, SFresh)
         \/ SRefused(a.id, a.row) /\ SEnd(p)
      /\ UNCHANGED <<smap, sdrv, sloaded, sops>>

\* UpdateStorage's: a storage that is to be disabled is left where it is; a new
\* mount path takes the old one off the map.
\* (Mutant: the old mount path stays.)
Unmounted_Not(old, new) == smap
Unmounted(old, new) == IF old = new THEN smap ELSE [smap EXCEPT ![old] = 0]
UpdateRow(p) ==
  LET a == sadm[p]
      d == smap[a.old.mount]
  IN  /\ a.pc = "update"
      /\ \/ /\ SSaved(a.id, a.row)
            /\ \/ a.row.disabled /\ SEnd(p) /\ UNCHANGED smap
               \/ /\ ~a.row.disabled
                  /\ smap' = Unmounted(a.old.mount, a.row.mount)
                  /\ IF d = 0 THEN SEnd(p) ELSE SGo(p, "drop", "update", a.id, a.row, a.old, d)
         \/ SRefused(a.id, a.row) /\ SEnd(p) /\ UNCHANGED smap
      /\ UNCHANGED <<sdrv, sloaded, sops>>

\* Drop.  Only DeleteStorageById goes on when it fails.
Drop(p) ==
  LET a == sadm[p]
  IN  /\ a.pc = "drop"
      /\ \/ /\ SWorks
            /\ sdrv' = [sdrv EXCEPT ![a.drv].live = FALSE]
            /\ \/ a.op = "disable" /\ SPc(p, "off") /\ UNCHANGED smap
               \/ a.op = "update" /\ SPc(p, "set") /\ UNCHANGED smap
               \/ a.op = "loadall" /\ SFree # {} /\ sadm' = [sadm EXCEPT ![p].pc = "set", ![p].drv = SFresh] /\ UNCHANGED smap
               \/ a.op = "delete" /\ SPc(p, "delete") /\ smap' = [smap EXCEPT ![a.old.mount] = 0]
         \/ /\ SFails /\ UNCHANGED sdrv
            /\ IF a.op = "delete" THEN SPc(p, "delete") /\ smap' = [smap EXCEPT ![a.old.mount] = 0]
               ELSE SAfter(p) /\ UNCHANGED smap
      /\ UNCHANGED <<srows, sloaded, sops>>

\* DisableStorage's update of the row, then of the map.
DisableRow(p) ==
  LET a == sadm[p]
  IN  /\ a.pc = "off"
      /\ \/ SSaved(a.id, a.row) /\ smap' = [smap EXCEPT ![a.row.mount] = 0]
         \/ SRefused(a.id, a.row) /\ UNCHANGED smap
      /\ SEnd(p)
      /\ UNCHANGED <<sdrv, sloaded, sops>>
DeleteRow(p) ==
  /\ sadm[p].pc = "delete"
  /\ \/ srows' = [srows EXCEPT ![sadm[p].id] = SNoRow] /\ SWorks
     \/ SFails /\ UNCHANGED srows
  /\ SEnd(p)
  /\ UNCHANGED <<smap, sdrv, sloaded, sops>>

\* initStorage: SetStorage; Init, which may fail or panic; the map and the status;
\* and the row once more, which db.Save inserts when it is gone.
SetStorage(p) ==
  /\ sadm[p].pc = "set"
  /\ sdrv' = [sdrv EXCEPT ![sadm[p].drv] = [@ EXCEPT !.id = sadm[p].id, !.row = sadm[p].row]]
  /\ SPc(p, "init")
  /\ UNCHANGED <<srows, smap, sloaded, sclean, sops, sfaults>>
InitDriver(p, ok) ==
  LET d == sadm[p].drv
  IN  /\ sadm[p].pc = "init"
      /\ smap' = [smap EXCEPT ![sdrv[d].row.mount] = d]
      /\ sdrv' = [sdrv EXCEPT ![d].live = ok, ![d].row.ok = ok]
      /\ SPc(p, "save")
      /\ UNCHANGED <<srows, sloaded, sclean, sops, sfaults>>
saveDriverStorage(p) ==
  LET d == sdrv[sadm[p].drv]
  IN  /\ sadm[p].pc = "save"
      /\ SSaved(d.id, d.row) \/ SRefused(d.id, d.row)
      /\ SAfter(p)
      /\ UNCHANGED <<smap, sdrv, sloaded, sops>>

\* LoadAllStorages: every enabled row, one after the other, while requests wait.
LoadAllStorages(p) ==
  /\ SStart(p) /\ SAlone(p)
  /\ sadm' = [sadm EXCEPT ![p] = [SIdle EXCEPT !.pc = "next", !.op = "loadall", !.todo = SToLoad]]
  /\ sloaded' = FALSE
  /\ UNCHANGED <<srows, smap, sdrv>>
\* The next of the rows that were read: after a restart it is loaded, otherwise its
\* driver is dropped first; one that is not mounted is left out.
LoadNext(p) == \E e \in sadm[p].todo :
  LET a == [sadm[p] EXCEPT !.todo = @ \ {e}, !.id = e.id, !.row = e.row]
      d == smap[e.row.mount]
  IN  /\ a.pc = "next" /\ (a.op = "boot" => SFree # {})
      /\ sadm' = [sadm EXCEPT ![p] = IF a.op = "boot" THEN [a EXCEPT !.pc = "set", !.drv = SFresh]
                                      ELSE IF d = 0 THEN a ELSE [a EXCEPT !.pc = "drop", !.drv = d]]
      /\ UNCHANGED <<srows, smap, sdrv, sloaded, sclean, sops, sfaults>>
SendStoragesLoadedSignal(p) ==
  /\ sadm[p].pc = "next" /\ sadm[p].todo = {}
  /\ sloaded' = TRUE /\ SEnd(p)
  /\ UNCHANGED <<srows, smap, sdrv, sclean, sops, sfaults>>

\* The process dies at any time; LoadStorages mounts what the rows say.
LoadStorages(p) ==
  /\ sfaults < SFaults /\ sfaults' = sfaults + 1
  /\ smap' = [m \in SMounts |-> 0] /\ sdrv' = [d \in SDrivers |-> SDead]
  /\ sadm' = [q \in SAdmins |-> IF q = p THEN [SIdle EXCEPT !.pc = "next", !.op = "boot", !.todo = SToLoad] ELSE SIdle]
  /\ sloaded' = FALSE /\ sclean' = TRUE
  /\ UNCHANGED <<srows, sops>>

SCall(p) ==
  \/ \E i \in SIds, m \in SMounts, off \in BOOLEAN : p = SMain /\ (CreateStorage(p, i, m, off) \/ UpdateStorage(p, i, m, off))
  \/ \E i \in SIds : (p = SMain /\ EnableStorage(p, i)) \/ DisableStorage(p, i) \/ DeleteStorageById(p, i)
  \/ p = SMain /\ LoadAllStorages(p)
SStep(p) ==
  \/ EnableRow(p) \/ UpdateRow(p) \/ Drop(p) \/ DisableRow(p) \/ DeleteRow(p) \/ SetStorage(p)
  \/ (\E ok \in BOOLEAN : InitDriver(p, ok)) \/ saveDriverStorage(p)
  \/ LoadNext(p) \/ SendStoragesLoadedSignal(p)
SNext == LoadStorages(SMain) \/ \E p \in SAdmins : SCall(p) \/ SStep(p)
SSpec == SInitial /\ [][SNext]_storageVars

-----------------------------------------------------------------------------
(* The lookups.                                                                 *)
SMounted == {m \in SMounts : smap[m] # 0}

\* getStoragesByPath, over the map in the order that Range happens to take.
Longer(st, m) == [n |-> Len(m.path), found |-> {m}]
getStoragesByPath(order, path) ==
  FoldLeft(LAMBDA st, m : IF ~IsPrefix(m.path, path) \/ Len(m.path) < st.n THEN st
                          ELSE IF Len(m.path) > st.n THEN Longer(st, m) ELSE [st EXCEPT !.found = @ \cup {m}],
           [n |-> -1, found |-> {}], order).found

\* GetBalancedStorage: the counter goes round the sorted list.
GetBalancedStorage(found, i) == SetToSeq(found)[((i + 1) % Cardinality(found)) + 1]

\* getStorageVirtualFilesByPath: the names below a path, and whether one is a mount itself.
Masked(files, name, exact) == IF exact THEN [files EXCEPT ![name] = TRUE] ELSE files
SNames == UNION {Range(m.path) : m \in SMounts}
getStorageVirtualFilesByPath(order, prefix) ==
  FoldLeft(LAMBDA files, m :
             LET name == m.path[Len(prefix) + 1]
                 exact == Len(m.path) = Len(prefix) + 1
             IN  IF ~IsStrictPrefix(prefix, m.path) THEN files
                 ELSE IF name \in DOMAIN files THEN Masked(files, name, exact)
                 ELSE [x \in DOMAIN files \cup {name} |-> IF x = name THEN exact ELSE files[x]],
           [x \in {} |-> FALSE], order)

-----------------------------------------------------------------------------
(* When no call is running, exactly the enabled rows are mounted, each by a     *)
(* driver that has the row's storage and is initialised if and only if its      *)
(* status says so; no dropped-off driver is left running; and requests are let  *)
(* in.  Calls that overlap, failures of the database or of Drop, and an update  *)
(* that changes Disabled, can break it: a restart always mends it.              *)
SMountsMatch ==
  sclean /\ SAllIdle =>
    /\ SMounted = {srows[i].mount : i \in SEnabledRows}
    /\ \A i \in SEnabledRows : LET d == sdrv[smap[srows[i].mount]] IN d.id = i /\ d.row = srows[i] /\ d.live = d.row.ok
    /\ \A d \in SDrivers : sdrv[d].live => \E m \in SMounted : smap[m] = d
    /\ sloaded

(* Whatever order the map is walked in, a path goes to the mounts with the      *)
(* longest path above it, balanced ones included, and as many calls as there    *)
(* are such mounts serve each of them once, whatever the counter was before.    *)
SLongestMatch ==
  SAllIdle => \A path \in SPaths : \A order \in SetToSeqs(SMounted) :
    LET above == {m \in Range(order) : IsPrefix(m.path, path)}
        longest == {m \in above : \A k \in above : Len(k.path) <= Len(m.path)}
        n == Cardinality(longest)
    IN  /\ getStoragesByPath(order, path) = longest
        /\ n > 0 => \A i \in 0..2 : {GetBalancedStorage(longest, (i + k) % n) : k \in 0..(n - 1)} = longest

(* The virtual files of a path are the next names of the mounts below it, once  *)
(* each, and one that is a mount itself is marked so in whatever order the      *)
(* mounts come.                                                                 *)
SVirtualFiles ==
  SAllIdle => \A path \in SPaths : \A order \in SetToSeqs(SMounted) :
    LET below == {m \in Range(order) : IsStrictPrefix(path, m.path)}
        files == getStorageVirtualFilesByPath(order, path)
    IN  /\ DOMAIN files = {m.path[Len(path) + 1] : m \in below}
        /\ \A x \in DOMAIN files : files[x] = \E m \in below : m.path = Append(path, x)
=============================================================================
