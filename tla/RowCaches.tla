------------------------------- MODULE RowCaches -------------------------------
(* Rows of the database that are cached by a key: users by name, metas by path  *)
(* and settings by key (op/user.go, op/meta.go, op/setting.go).  A read that    *)
(* misses fetches the row and stores it in two steps.  A change of a user or a  *)
(* meta clears the entry and then writes the row; a change of settings writes   *)
(* first and then clears everything.  Keys are paths, which GetNearestMeta      *)
(* climbs; for the other kinds they are only names.                             *)
EXTENDS Integers, Sequences, FiniteSets

CONSTANTS RIds, RKeys,         \* rows and their keys
          RProcs,
          ROps, RFaults        \* bounds: changes; writes that fail

RNoKey == <<"none">>

\* An id is never 0, and climbing from a key leads to keys.
ASSUME RAssumption ==
  /\ RIds \subseteq Nat \ {0} /\ ROps \in Nat /\ RFaults \in Nat
  /\ RKeys \subseteq Seq(STRING) \ {RNoKey}
  /\ \A k \in RKeys : \A n \in 0..Len(k) : SubSeq(k, 1, n) \in RKeys

VARIABLES
  rkind,     \* "user", "meta" or "setting"
  rdb,       \* id -> [key, val], or RNoRow
  rcache,    \* key -> the entry: [val] of a row, RNothing for "no such row", RMiss for none
  rhook,     \* key -> the value that the hook of a setting was last called with
  rproc,     \* process -> [pc, op, id, key, old, val]
  rlap,      \* ghost: key -> a read has overlapped with a change since the entry was last cleared
  rtorn,     \* ghost: two changes of settings have overlapped, or one has failed
  rops, rfaults

rowVars == <<rkind, rdb, rcache, rhook, rproc, rlap, rtorn, rops, rfaults>>

RMiss == -1
RNothing == 0
RNoRow == [key |-> RNoKey, val |-> RNothing]
RGone == [key |-> RNoKey, val |-> RMiss]   \* a deleted row, whose id is not given again
RIdle == [pc |-> "idle", op |-> "none", id |-> 0, key |-> RNoKey, old |-> RNoKey, val |-> RNothing]

RInit ==
  /\ rkind \in {"user", "meta", "setting"}
  /\ rdb = [i \in RIds |-> RNoRow] /\ rcache = [k \in RKeys |-> RMiss] /\ rhook = [k \in RKeys |-> RNothing]
  /\ rproc = [p \in RProcs |-> RIdle] /\ rlap = [k \in RKeys |-> FALSE] /\ rtorn = FALSE
  /\ rops = 0 /\ rfaults = 0

-----------------------------------------------------------------------------
RRow(k) == LET has == {i \in RIds : rdb[i].key = k}
           IN  IF has = {} THEN RNothing ELSE rdb[CHOOSE i \in has : TRUE].val
RReading(k) == \E p \in RProcs : rproc[p].op = "read" /\ rproc[p].key = k
RChanging(k) == \E p \in RProcs :
  /\ rproc[p].op \in {"create", "update", "delete"}
  /\ k \in {rproc[p].key, rproc[p].old} \/ (rproc[p].id # 0 /\ rdb[rproc[p].id].key = k)
RTo(p, pc) == rproc' = [rproc EXCEPT ![p].pc = pc]
RDone(p) == rproc' = [rproc EXCEPT ![p] = RIdle]
RCleared(ks) == [k \in RKeys |-> IF k \in ks THEN RMiss ELSE rcache[k]]

\* GetUserByName, GetMetaByPath, GetSettingItemByKey: a miss leads the flight of its
\* key; a hit, and a caller that joins a flight, change nothing.
RGet(p, k) ==
  /\ rproc[p].pc = "idle" /\ rcache[k] = RMiss /\ ~RReading(k)
  /\ rproc' = [rproc EXCEPT ![p] = [RIdle EXCEPT !.pc = "fetch", !.op = "read", !.key = k]]
  /\ UNCHANGED <<rdb, rcache, rhook, rtorn, rops, rfaults>>
RFetch(p) ==
  /\ rproc[p].pc = "fetch"
  /\ rproc' = [rproc EXCEPT ![p].pc = "store", ![p].val = RRow(rproc[p].key)]
  /\ UNCHANGED <<rdb, rcache, rhook, rtorn, rops, rfaults>>
\* Only a meta that is not there is remembered.
RStore(p) ==
  /\ rproc[p].pc = "store"
  /\ rcache' = IF rproc[p].val = RNothing /\ rkind # "meta" THEN rcache
               ELSE [rcache EXCEPT ![rproc[p].key] = rproc[p].val]
  /\ RDone(p)
  /\ UNCHANGED <<rdb, rhook, rtorn, rops, rfaults>>
RExpire(k) ==
  /\ rcache[k] \notin {RMiss, RNothing} /\ rcache' = RCleared({k})
  /\ UNCHANGED <<rdb, rhook, rproc, rtorn, rops, rfaults>>

\* The handlers of a change.  A setting is saved under its key, whether there or not;
\* its hook runs before the row is written.
RCanChange(p) == rproc[p].pc = "idle" /\ rops < ROps /\ rops' = rops + 1
RBegin(p, pc, op, i, k, old, v) ==
  rproc' = [rproc EXCEPT ![p] = [pc |-> pc, op |-> op, id |-> i, key |-> k, old |-> old, val |-> v]]
RTorn == rtorn' = (rtorn \/ \E q \in RProcs : rproc[q].op \in {"create", "update", "delete"})
RCreate(p, k, v) ==
  /\ RCanChange(p) /\ RTorn
  /\ RBegin(p, IF rkind = "setting" THEN "write" ELSE "clear", "create", 0, k, k, v)
  /\ rhook' = IF rkind = "setting" THEN [rhook EXCEPT ![k] = v] ELSE rhook
  /\ UNCHANGED <<rdb, rcache, rfaults>>
RUpdate(p, i, k, v) ==
  /\ RCanChange(p) /\ RTorn
  /\ rdb[i].key # RNoKey /\ rkind # "setting"
  /\ RBegin(p, "clear", "update", i, k, rdb[i].key, v)
  /\ UNCHANGED <<rdb, rcache, rhook, rfaults>>
\* DeleteSettingItemByKey clears before it deletes; no hook runs.
RDelete(p, i) ==
  /\ RCanChange(p) /\ RTorn
  /\ rdb[i].key # RNoKey
  /\ RBegin(p, "clear", "delete", i, rdb[i].key, rdb[i].key, RNothing)
  /\ UNCHANGED <<rdb, rcache, rhook, rfaults>>

\* The entries that a change clears: of a user the old name, and a new user none;
\* of a meta the old path and the new one.
\* (Mutant: of a meta the old path only.)
RStale_Old(op, old, new) == IF op = "create" THEN {} ELSE {old}
RStale(op, old, new) ==
  CASE rkind = "setting" -> RKeys
    [] rkind = "meta" -> {old, new}
    [] rkind = "user" -> IF op = "create" THEN {} ELSE {old}
RClear(p) ==
  /\ rproc[p].pc = "clear"
  /\ rcache' = RCleared(RStale(rproc[p].op, rproc[p].old, rproc[p].key))
  /\ RTo(p, "write")
  /\ UNCHANGED <<rdb, rhook, rtorn, rops, rfaults>>
\* The row that is written: a new one gets the next id, a setting has its key for one.
RTarget(w) ==
  LET same == {i \in RIds : rdb[i].key = w.key}
      new == {i \in RIds : rdb[i] = RNoRow}
  IN  IF w.op # "create" THEN {w.id} ELSE IF rkind = "setting" /\ same # {} THEN same
      ELSE {i \in new : \A j \in new : i <= j}
RUnique(w, i) == \A j \in RIds \ {i} : rdb[j].key # w.key
RAfterWrite(op) == IF rkind = "setting" /\ op # "delete" THEN "all" ELSE "idle"
RWrite(p) ==
  LET w == rproc[p]
  IN  /\ w.pc = "write"
      /\ \/ \E i \in RTarget(w) :
            /\ w.op = "delete" \/ RUnique(w, i)
            /\ rdb' = [rdb EXCEPT ![i] = IF w.op = "delete" THEN RGone ELSE [key |-> w.key, val |-> w.val]]
            /\ IF RAfterWrite(w.op) = "idle" THEN RDone(p) ELSE RTo(p, "all")
            /\ UNCHANGED <<rtorn, rfaults>>
         \/ /\ w.op # "delete" /\ \A i \in RTarget(w) : ~RUnique(w, i)
            /\ RDone(p) /\ UNCHANGED <<rdb, rtorn, rfaults>>
         \/ /\ rfaults < RFaults /\ rfaults' = rfaults + 1
            /\ rtorn' = TRUE
            /\ RDone(p) /\ UNCHANGED rdb
      /\ UNCHANGED <<rcache, rhook, rops>>
\* SettingCacheUpdate, which also clears the other caches.
SettingCacheUpdate(p) ==
  /\ rproc[p].pc = "all"
  /\ rcache' = RCleared(RKeys) /\ RDone(p)
  /\ UNCHANGED <<rdb, rhook, rtorn, rops, rfaults>>

\* The ghost: set while a read and a change are both on the way, reset with the entry.
RLap == rlap' = [k \in RKeys |-> (RReading(k)' /\ RChanging(k)')
                              \/ (rlap[k] /\ (RReading(k)' \/ RChanging(k)' \/ rcache'[k] # RMiss))]

\* Every change writes a content of its own.
RStep(p) ==
  \/ \E k \in RKeys : RGet(p, k)
  \/ RFetch(p) \/ RStore(p) \/ RClear(p) \/ RWrite(p) \/ SettingCacheUpdate(p)
  \/ \E k \in RKeys : RCreate(p, k, rops + 1)
  \/ \E i \in RIds, k \in RKeys : RUpdate(p, i, k, rops + 1)
  \/ \E i \in RIds : RDelete(p, i)
RNext == /\ (\E k \in RKeys : RExpire(k)) \/ (\E p \in RProcs : RStep(p))
         /\ RLap /\ UNCHANGED rkind
RSpec == RInit /\ [][RNext]_rowVars

-----------------------------------------------------------------------------
\* getMetaByPath as a caller sees it, and getNearestMeta, which climbs until it finds one.
RLookup(k) == IF rcache[k] # RMiss THEN rcache[k] ELSE RRow(k)
getNearestMeta(path) ==
  LET near[n \in 0..Len(path)] ==
        LET m == RLookup(SubSeq(path, 1, n))
        IN  IF m # RNothing \/ n = 0 THEN m ELSE near[n - 1]
  IN  near[Len(path)]

(* A cached row is out of date only while its key is being changed, or when a   *)
(* read overlapped with the change: the entry that a change cleared can be      *)
(* stored again, from before the write.  What a read finds that overlapped with *)
(* no change is the row, renamed and deleted rows included.                     *)
RFresh == \A k \in RKeys : ~rlap[k] /\ ~RChanging(k) => RLookup(k) = RRow(k)

(* With no read overlapping a change, the meta that applies to a path is that   *)
(* of its nearest ancestor that has one, although the caches remember which     *)
(* paths have none.                                                             *)
RNearest ==
  rkind = "meta" /\ (\A k \in RKeys : ~rlap[k] /\ ~RChanging(k)) =>
    \A path \in RKeys :
      LET have == {n \in 0..Len(path) : RRow(SubSeq(path, 1, n)) # RNothing}
      IN  getNearestMeta(path) = IF have = {} THEN RNothing
                                 ELSE RRow(SubSeq(path, 1, CHOOSE n \in have : \A j \in have : j <= n))

(* Unless two changes overlapped or a write failed, what the hook of a setting  *)
(* was told is what its row says, once the change is over.                      *)
RHooked ==
  rkind = "setting" /\ ~rtorn =>
    \A i \in RIds : rdb[i].key # RNoKey /\ ~RChanging(rdb[i].key) => rhook[rdb[i].key] = rdb[i].val

(* What is cached of users, metas and settings, and what hooks were told, are   *)
(* the rows again once the changes of them are over (op/user.go, meta.go,       *)
(* setting.go, hook.go).                                                        *)
RowsRight == RFresh /\ RNearest /\ RHooked
=============================================================================
