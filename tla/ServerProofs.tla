----------------------------- MODULE ServerProofs -----------------------------
(* Proofs about parts of the server.  RowCaches: what is cached of users, metas *)
(* and settings is what the rows say, for any number of rows, keys, readers and *)
(* changes.  LinkCache: a shared file is open while it is used and closed once, *)
(* for any number of users that the counter can tell apart.  DirCache: a flight *)
(* has one leader, and calls never wait in a circle.  IndexBuild: a             *)
(* build that nothing stops leaves every path it wants in the index, for any    *)
(* tree of paths and any requests, stops and failures before it.  IndexUpdate:  *)
(* no object gets two rows, and the rows follow the listings, for any number of *)
(* processes, directories and statements that fail.  MeiliQueue: the documents  *)
(* of Meilisearch follow the listings too, whatever the server does when.       *)
EXTENDS RowCaches, LinkCache, DirCache, IndexBuild, SearchIndex, TLAPS, WellFoundedInduction, FiniteSetTheorems

RMay == RKeys \cup {RNoKey}
RChanges == {"create", "update", "delete"}
RCalls == [pc : {"idle", "fetch", "store", "clear", "write", "all"}, op : RChanges \cup {"read", "none"},
           id : RIds \cup {0}, key : RMay, old : RMay, val : Nat]
RTyped ==
  /\ rkind \in {"user", "meta", "setting"}
  /\ rdb \in [RIds -> [key : RMay, val : Nat \cup {RMiss}]]
  /\ rcache \in [RKeys -> Nat \cup {RMiss}] /\ rhook \in [RKeys -> Nat]
  /\ rproc \in [RProcs -> RCalls]
  /\ rlap \in [RKeys -> BOOLEAN] /\ rtorn \in BOOLEAN /\ rops \in Nat /\ rfaults \in Nat

\* What a process holds at each of its steps.
RProcOK(x) ==
  /\ x.pc = "idle" => x = RIdle
  /\ x.pc # "idle" => x.key \in RKeys
  /\ x.pc \in {"fetch", "store"} <=> x.op = "read"
  /\ x.op = "none" => x.pc = "idle"
  /\ x.op = "create" => x.id = 0 /\ x.old = x.key /\ (rkind = "setting" => x.pc # "clear")
  /\ x.op \in {"update", "delete"} => x.id \in RIds /\ rdb[x.id] # RNoRow /\ x.old \in RKeys /\ x.pc # "all"
  /\ x.op \in {"create", "update"} => x.val # RNothing
  /\ x.op = "update" => rkind # "setting"
  /\ x.pc = "all" => rkind = "setting"

\* A key has one row, and a row a content.
RDistinct ==
  /\ \A i \in RIds : rdb[i].key \in RKeys => rdb[i].val \in Nat \ {RNothing}
  /\ \A i, j \in RIds : rdb[i].key = rdb[j].key /\ rdb[i].key \in RKeys => i = j

\* Only of metas an absence is cached, and a read beside a change leaves its mark.
RNoted ==
  /\ \A k \in RKeys : rcache[k] = RNothing => rkind = "meta"
  /\ \A k \in RKeys : RReading(k) /\ RChanging(k) => rlap[k]

\* Of a key that no read has overlapped with: what is read is the row, and so is what
\* is cached; an entry that a write will make wrong has gone before, for the key that
\* the change left and for the one that the row was given meanwhile.
RReads(k) == \A p \in RProcs : rproc[p].pc = "store" /\ rproc[p].key = k => rproc[p].val = RRow(k)
RHolds(k) ==
  rcache[k] # RMiss => rcache[k] = RRow(k) \/ \E p \in RProcs : rproc[p].pc = "all" /\ rproc[p].key = k
RLeft(k) ==
  \A p \in RProcs :
    rproc[p].pc = "write" /\ ((rkind = "meta" /\ k = rproc[p].key) \/ (rproc[p].op # "create" /\ k = rproc[p].old))
      => rcache[k] = RMiss
RMoved(k) ==
  \A p \in RProcs :
    rproc[p].op \in {"update", "delete"} /\ rdb[rproc[p].id].key = k /\ k # rproc[p].old => rcache[k] = RMiss
RFits(k) == RReads(k) /\ RHolds(k) /\ RLeft(k) /\ RMoved(k)

\* With one change at a time, a hook is ahead of the row only while it is written.
RTold ==
  rkind = "setting" /\ ~rtorn =>
    /\ \A p, q \in RProcs : rproc[p].op \in RChanges /\ rproc[q].op \in RChanges => p = q
    /\ \A p \in RProcs : rproc[p].op = "create" /\ rproc[p].pc = "write" => rhook[rproc[p].key] = rproc[p].val
    /\ \A i \in RIds : rdb[i].key \in RKeys =>
         \/ rhook[rdb[i].key] = rdb[i].val
         \/ \E p \in RProcs : rproc[p].op = "create" /\ rproc[p].pc = "write" /\ rproc[p].key = rdb[i].key

RInd ==
  /\ RTyped /\ RDistinct /\ RNoted /\ RTold
  /\ \A p \in RProcs : RProcOK(rproc[p])
  /\ \A k \in RKeys : ~rlap[k] => RFits(k)

-----------------------------------------------------------------------------
\* The row of a key in a table of rows.
RowIn(d, k) == LET has == {i \in RIds : d[i].key = k}
               IN  IF has = {} THEN RNothing ELSE d[CHOOSE i \in has : TRUE].val

LEMMA RowNow == \A k : RRow(k) = RowIn(rdb, k) /\ RRow(k)' = RowIn(rdb', k)
  BY DEF RRow, RowIn

LEMMA RowIsThat ==
  ASSUME NEW d, NEW k, NEW i \in RIds, d[i].key = k, \A j \in RIds : d[j].key = k => j = i
  PROVE  RowIn(d, k) = d[i].val
  <1>1. {j \in RIds : d[j].key = k} = {i}
    OBVIOUS
  <1> QED
    BY <1>1 DEF RowIn

LEMMA RowIsNone ==
  ASSUME NEW d, NEW k, \A j \in RIds : d[j].key # k
  PROVE  RowIn(d, k) = RNothing
  <1>1. {j \in RIds : d[j].key = k} = {}
    OBVIOUS
  <1> QED
    BY <1>1 DEF RowIn

\* A write to the row of another key leaves a key its row.
LEMMA RowIsSame ==
  ASSUME NEW d, NEW e, NEW i \in RIds, \A j \in RIds : j # i => e[j] = d[j],
         NEW k, d[i].key # k, e[i].key # k
  PROVE  RowIn(e, k) = RowIn(d, k)
  <1>1. \A j \in RIds : (e[j].key = k) <=> (d[j].key = k)
    OBVIOUS
  <1>2. {j \in RIds : e[j].key = k} = {j \in RIds : d[j].key = k}
    BY <1>1
  <1>4. ASSUME {j \in RIds : d[j].key = k} # {}
        PROVE  RowIn(e, k) = RowIn(d, k)
    <2> DEFINE has == {j \in RIds : d[j].key = k}
               c == CHOOSE j \in has : TRUE
    <2>1. c \in has
      BY <1>4
    <2>2. c # i /\ c \in RIds
      BY <2>1
    <2>3. e[c].val = d[c].val
      BY <2>2
    <2> QED
      BY <1>2, <1>4, <2>3 DEF RowIn
  <1> QED
    BY <1>2, <1>4 DEF RowIn

\* A key no longer marked has no reader beside a change; one that has just lost its
\* mark has neither, and no entry.
LEMMA MarkHolds ==
  ASSUME RTyped, RLap, NEW k \in RKeys, ~rlap'[k]
  PROVE  /\ ~(RReading(k)' /\ RChanging(k)')
         /\ ~rlap[k] \/ (~RReading(k)' /\ ~RChanging(k)' /\ rcache'[k] = RMiss)
  BY DEF RTyped, RLap

LEMMA CallsSet ==
  ASSUME RTyped, NEW p \in RProcs, NEW x \in RCalls, rproc' = [rproc EXCEPT ![p] = x]
  PROVE  rproc' \in [RProcs -> RCalls] /\ \A q \in RProcs : rproc'[q] = IF q = p THEN x ELSE rproc[q]
  BY DEF RTyped

LEMMA IdleIs == RIdle \in RCalls /\ RIdle.pc = "idle" /\ RIdle.op = "none" /\ RIdle.key = RNoKey
  BY DEF RIdle, RCalls, RMay, RNothing

\* What a step has to show, the marks aside.
LEMMA MarksKeep ==
  ASSUME RInd, RLap, RTyped', RDistinct', RTold', \A p \in RProcs : RProcOK(rproc[p])',
         \A k \in RKeys : rcache'[k] = RNothing => rkind' = "meta",
         \A k \in RKeys : ~rlap[k] /\ ~(RReading(k)' /\ RChanging(k)') => RFits(k)'
  PROVE  RInd'
  <1>1. RNoted'
    BY DEF RNoted, RLap
  <1>2. ASSUME NEW k \in RKeys, ~rlap'[k] PROVE RFits(k)'
    <2>1. CASE ~rlap[k]
      BY <1>2, <2>1, MarkHolds DEF RInd
    <2>2. CASE ~RReading(k)' /\ ~RChanging(k)' /\ rcache'[k] = RMiss
      <3>1. RReads(k)'
        BY <2>2 DEF RReads, RReading, RProcOK
      <3> QED
        BY <2>2, <3>1 DEF RFits, RHolds, RLeft, RMoved
    <2> QED
      BY <1>2, <2>1, <2>2, MarkHolds DEF RInd
  <1> QED
    BY <1>1, <1>2 DEF RInd

\* The steps that leave the rows and the changes alone.
LEMMA ExpireKeeps ==
  ASSUME RInd, RLap, rkind' = rkind, NEW k0 \in RKeys, RExpire(k0)
  PROVE  RInd'
  <1> USE DEF RExpire, RCleared
  <1>1. RTyped' /\ RDistinct' /\ RTold'
    BY DEF RInd, RTyped, RDistinct, RTold, RLap
  <1>2. \A p \in RProcs : RProcOK(rproc[p])'
    BY DEF RInd, RProcOK
  <1>3. \A k \in RKeys : rcache'[k] = RNothing => rkind' = "meta"
    BY DEF RInd, RNoted, RMiss, RNothing
  <1>4. \A k \in RKeys : ~rlap[k] => RFits(k)'
    <2> SUFFICES ASSUME NEW k \in RKeys, ~rlap[k] PROVE RFits(k)'
      OBVIOUS
    <2>1. RFits(k) /\ rcache'[k] \in {rcache[k], RMiss}
      BY DEF RInd
    <2>2. RRow(k)' = RRow(k)
      BY RowNow
    <2> QED
      BY <2>1, <2>2 DEF RFits, RReads, RHolds, RLeft, RMoved
  <1> QED
    BY <1>1, <1>2, <1>3, <1>4, MarksKeep

LEMMA GetKeeps ==
  ASSUME RInd, RLap, rkind' = rkind, NEW p \in RProcs, NEW k0 \in RKeys, RGet(p, k0)
  PROVE  RInd'
  <1> DEFINE x == [RIdle EXCEPT !.pc = "fetch", !.op = "read", !.key = k0]
  <1>y. x \in RCalls /\ x.pc = "fetch" /\ x.op = "read" /\ x.key = k0
    BY IdleIs DEF RCalls, RMay
  <1>0. /\ rproc' = [rproc EXCEPT ![p] = x] /\ rproc[p].pc = "idle"
        /\ UNCHANGED <<rdb, rcache, rhook, rtorn, rops, rfaults, rkind>>
    BY DEF RGet
  <1> HIDE DEF x
  <1>a. /\ rproc' \in [RProcs -> RCalls]
        /\ \A q \in RProcs : rproc'[q] = IF q = p THEN x ELSE rproc[q]
    BY <1>0, <1>y, CallsSet DEF RInd
  <1>b. rproc[p] = RIdle /\ rproc[p].op = "none"
    BY <1>0 DEF RInd, RProcOK, RIdle
  <1>1. RTyped' /\ RDistinct'
    BY <1>0, <1>a DEF RInd, RTyped, RDistinct, RLap
  <1>2. RTold'
    BY <1>0, <1>a, <1>b, <1>y DEF RInd, RTold, RChanges
  <1>3. \A q \in RProcs : RProcOK(rproc[q])'
    BY <1>0, <1>a, <1>y DEF RInd, RProcOK
  <1>4. \A k \in RKeys : rcache'[k] = RNothing => rkind' = "meta"
    BY <1>0 DEF RInd, RNoted
  <1>5. \A k \in RKeys : ~rlap[k] => RFits(k)'
    <2> SUFFICES ASSUME NEW k \in RKeys, ~rlap[k] PROVE RFits(k)'
      OBVIOUS
    <2>1. RFits(k) /\ RRow(k)' = RRow(k)
      BY <1>0, RowNow DEF RInd
    <2>2. rproc[p].pc = "idle"
      BY <1>0
    <2> QED
      BY <1>0, <1>a, <1>b, <1>y, <2>1 DEF RFits, RReads, RHolds, RLeft, RMoved
  <1> QED
    BY <1>1, <1>2, <1>3, <1>4, <1>5, MarksKeep

LEMMA RowValue == ASSUME RInd, NEW k \in RKeys PROVE RRow(k) \in Nat
  <1>1. CASE \A i \in RIds : rdb[i].key # k
    BY <1>1, RowNow, RowIsNone DEF RNothing
  <1>2. ASSUME NEW i \in RIds, rdb[i].key = k PROVE RRow(k) \in Nat
    <2>1. rdb[i].val \in Nat /\ \A j \in RIds : rdb[j].key = k => j = i
      BY <1>2 DEF RInd, RDistinct
    <2> QED
      BY <1>2, <2>1, RowNow, RowIsThat
  <1> QED
    BY <1>1, <1>2

LEMMA FetchKeeps ==
  ASSUME RInd, RLap, rkind' = rkind, NEW p \in RProcs, RFetch(p)
  PROVE  RInd'
  <1> DEFINE x == [rproc[p] EXCEPT !.pc = "store", !.val = RRow(rproc[p].key)]
  <1>0. /\ rproc' = [rproc EXCEPT ![p] = x] /\ rproc[p].pc = "fetch"
        /\ UNCHANGED <<rdb, rcache, rhook, rtorn, rops, rfaults, rkind>>
    BY DEF RFetch, RInd, RTyped, RCalls
  <1>w. rproc[p] \in RCalls /\ rproc[p].op = "read" /\ rproc[p].key \in RKeys
    BY <1>0 DEF RInd, RTyped, RProcOK
  <1>y. x \in RCalls /\ x.pc = "store" /\ x.op = "read" /\ x.key = rproc[p].key /\ x.val = RRow(rproc[p].key)
    BY <1>w, RowValue DEF RCalls
  <1> HIDE DEF x
  <1>a. /\ rproc' \in [RProcs -> RCalls]
        /\ \A q \in RProcs : rproc'[q] = IF q = p THEN x ELSE rproc[q]
    BY <1>0, <1>y, CallsSet DEF RInd
  <1>1. RTyped' /\ RDistinct'
    BY <1>0, <1>a DEF RInd, RTyped, RDistinct, RLap
  <1>2. RTold'
    BY <1>0, <1>a, <1>w, <1>y DEF RInd, RTold, RChanges
  <1>3. \A q \in RProcs : RProcOK(rproc[q])'
    BY <1>0, <1>a, <1>w, <1>y DEF RInd, RProcOK
  <1>4. \A k \in RKeys : rcache'[k] = RNothing => rkind' = "meta"
    BY <1>0 DEF RInd, RNoted
  <1>5. \A k \in RKeys : ~rlap[k] => RFits(k)'
    <2> SUFFICES ASSUME NEW k \in RKeys, ~rlap[k] PROVE RFits(k)'
      OBVIOUS
    <2>1. RFits(k) /\ RRow(k)' = RRow(k)
      BY <1>0, RowNow DEF RInd
    <2> QED
      BY <1>0, <1>a, <1>w, <1>y, <2>1 DEF RFits, RReads, RHolds, RLeft, RMoved
  <1> QED
    BY <1>1, <1>2, <1>3, <1>4, <1>5, MarksKeep

\* A key that a change is about, and one that is read: the mark is there already.
LEMMA StoreKeeps ==
  ASSUME RInd, RLap, rkind' = rkind, NEW p \in RProcs, RStore(p)
  PROVE  RInd'
  <1>0. /\ rproc' = [rproc EXCEPT ![p] = RIdle] /\ rproc[p].pc = "store"
        /\ UNCHANGED <<rdb, rhook, rtorn, rops, rfaults, rkind>>
    BY DEF RStore, RDone
  <1>w. rproc[p] \in RCalls /\ rproc[p].op = "read" /\ rproc[p].key \in RKeys /\ rproc[p].val \in Nat
    BY <1>0 DEF RInd, RTyped, RProcOK, RCalls
  <1>y. RIdle.pc = "idle" /\ RIdle.op = "none"
    BY IdleIs
  <1>a. /\ rproc' \in [RProcs -> RCalls]
        /\ \A q \in RProcs : rproc'[q] = IF q = p THEN RIdle ELSE rproc[q]
    BY <1>0, IdleIs, CallsSet DEF RInd
  <1>b. /\ rcache' \in [RKeys -> Nat \cup {RMiss}]
        /\ \A k \in RKeys : rcache'[k] = rcache[k]
                            \/ (k = rproc[p].key /\ rcache'[k] = rproc[p].val /\ (rproc[p].val = RNothing => rkind = "meta"))
    BY <1>w DEF RStore, RInd, RTyped
  <1>1. RTyped' /\ RDistinct'
    BY <1>0, <1>a, <1>b DEF RInd, RTyped, RDistinct, RLap
  <1>2. RTold'
    BY <1>0, <1>a, <1>w, <1>y DEF RInd, RTold, RChanges
  <1>3. \A q \in RProcs : RProcOK(rproc[q])'
    BY <1>0, <1>a, <1>y DEF RInd, RProcOK
  <1>4. \A k \in RKeys : rcache'[k] = RNothing => rkind' = "meta"
    BY <1>0, <1>b DEF RInd, RNoted
  <1>5. \A k \in RKeys : ~rlap[k] => RFits(k)'
    <2> SUFFICES ASSUME NEW k \in RKeys, ~rlap[k] PROVE RFits(k)'
      OBVIOUS
    <2>1. RFits(k) /\ RRow(k)' = RRow(k)
      BY <1>0, RowNow DEF RInd
    <2>2. CASE rcache'[k] = rcache[k]
      BY <1>0, <1>a, <1>w, <1>y, <2>1, <2>2 DEF RFits, RReads, RHolds, RLeft, RMoved
    <2>3. CASE k = rproc[p].key /\ rcache'[k] = rproc[p].val
      <3>1. rcache'[k] = RRow(k)'
        BY <1>0, <2>1, <2>3 DEF RFits, RReads
      <3>2. RReading(k)
        BY <1>w, <2>3 DEF RReading
      <3>3. ~RChanging(k)
        BY <3>2 DEF RInd, RNoted
      <3>4. \A q \in RProcs : rproc[q].pc = "write" => rproc[q].op \in RChanges
        BY DEF RInd, RTyped, RCalls, RProcOK
      <3>5. RLeft(k)' /\ RMoved(k)'
        BY <1>0, <1>a, <1>y, <3>3, <3>4, RAssumption DEF RLeft, RMoved, RChanging, RInd, RProcOK, RChanges
      <3>6. RReads(k)'
        BY <1>0, <1>a, <1>y, <2>1 DEF RFits, RReads
      <3> QED
        BY <3>1, <3>5, <3>6 DEF RFits, RHolds
    <2> QED
      BY <1>b, <2>2, <2>3
  <1> QED
    BY <1>1, <1>2, <1>3, <1>4, <1>5, MarksKeep

LEMMA CreateKeeps ==
  ASSUME RInd, RLap, rkind' = rkind, NEW p \in RProcs, NEW k0 \in RKeys, RCreate(p, k0, rops + 1)
  PROVE  RInd'
  <1> DEFINE x == [pc |-> IF rkind = "setting" THEN "write" ELSE "clear", op |-> "create", id |-> 0,
                   key |-> k0, old |-> k0, val |-> rops + 1]
  <1>0. /\ rproc' = [rproc EXCEPT ![p] = x] /\ rproc[p].pc = "idle"
        /\ rtorn' = (rtorn \/ \E q \in RProcs : rproc[q].op \in RChanges)
        /\ UNCHANGED <<rdb, rcache, rfaults, rkind>> /\ rops' = rops + 1
    BY DEF RCreate, RBegin, RCanChange, RTorn, RChanges
  <1>y. /\ x \in RCalls /\ x.pc \in {"write", "clear"} /\ (x.pc = "write" <=> rkind = "setting") /\ x.op = "create"
        /\ x.id = 0 /\ x.key = k0 /\ k0 \in RKeys /\ x.old = k0 /\ x.val = rops + 1 /\ x.val # RNothing
    BY DEF RCalls, RMay, RChanges, RInd, RTyped, RNothing
  <1> HIDE DEF x
  <1>a. /\ rproc' \in [RProcs -> RCalls]
        /\ \A q \in RProcs : rproc'[q] = IF q = p THEN x ELSE rproc[q]
    BY <1>0, <1>y, CallsSet DEF RInd
  <1>b. rproc[p].op = "none"
    BY <1>0, IdleIs DEF RInd, RProcOK
  <1>h. /\ rhook' \in [RKeys -> Nat]
        /\ \A k \in RKeys : rkind = "setting" => rhook'[k] = IF k = k0 THEN rops + 1 ELSE rhook[k]
    BY DEF RCreate, RInd, RTyped
  <1>1. RTyped' /\ RDistinct'
    BY <1>0, <1>a, <1>h DEF RInd, RTyped, RDistinct, RLap
  <1>2. RTold'
    <2> SUFFICES ASSUME rkind = "setting", ~rtorn' PROVE RTold'
      BY <1>0 DEF RTold
    <2>1. RTold /\ ~rtorn /\ \A q \in RProcs : rproc[q].op \notin RChanges
      BY <1>0 DEF RInd
    <2>2. \A q, r \in RProcs : rproc'[q].op \in RChanges /\ rproc'[r].op \in RChanges => q = r
      BY <1>a, <2>1
    <2>3. \A q \in RProcs : rproc'[q].op = "create" /\ rproc'[q].pc = "write" => rhook'[rproc'[q].key] = rproc'[q].val
      BY <1>a, <1>h, <1>y, <2>1 DEF RChanges
    <2>4. ASSUME NEW i \in RIds, rdb[i].key \in RKeys
          PROVE  \/ rhook'[rdb[i].key] = rdb[i].val
                 \/ \E q \in RProcs : rproc'[q].op = "create" /\ rproc'[q].pc = "write" /\ rproc'[q].key = rdb[i].key
      <3>1. CASE rdb[i].key = k0
        BY <1>a, <1>y, <3>1
      <3>2. CASE rdb[i].key # k0
        <4>1. rhook[rdb[i].key] = rdb[i].val
          BY <2>1, <2>4 DEF RTold, RChanges
        <4> QED
          BY <1>h, <2>4, <3>2, <4>1
      <3> QED
        BY <3>1, <3>2
    <2> QED
      BY <1>0, <2>2, <2>3, <2>4 DEF RTold
  <1>3. \A q \in RProcs : RProcOK(rproc[q])'
    BY <1>0, <1>a, <1>y DEF RInd, RProcOK
  <1>4. \A k \in RKeys : rcache'[k] = RNothing => rkind' = "meta"
    BY <1>0 DEF RInd, RNoted
  <1>5. \A k \in RKeys : ~rlap[k] => RFits(k)'
    <2> SUFFICES ASSUME NEW k \in RKeys, ~rlap[k] PROVE RFits(k)'
      OBVIOUS
    <2>1. RFits(k) /\ RRow(k)' = RRow(k)
      BY <1>0, RowNow DEF RInd
    <2> QED
      BY <1>0, <1>a, <1>b, <1>y, <2>1 DEF RFits, RReads, RHolds, RLeft, RMoved
  <1> QED
    BY <1>1, <1>2, <1>3, <1>4, <1>5, MarksKeep

LEMMA UpdateKeeps ==
  ASSUME RInd, RLap, rkind' = rkind, NEW p \in RProcs, NEW i \in RIds, NEW k0 \in RKeys, RUpdate(p, i, k0, rops + 1)
  PROVE  RInd'
  <1> DEFINE x == [pc |-> "clear", op |-> "update", id |-> i,
                   key |-> k0, old |-> rdb[i].key, val |-> rops + 1]
  <1>0. /\ rproc' = [rproc EXCEPT ![p] = x] /\ rproc[p].pc = "idle"
        /\ rtorn' = (rtorn \/ \E q \in RProcs : rproc[q].op \in RChanges)
        /\ UNCHANGED <<rdb, rcache, rfaults, rkind>> /\ rops' = rops + 1
    BY DEF RUpdate, RBegin, RCanChange, RTorn, RChanges
  <1>w. rkind # "setting" /\ rdb[i].key \in RKeys /\ rdb[i] # RNoRow
    BY DEF RUpdate, RInd, RTyped, RMay, RNoRow
  <1>y. /\ x \in RCalls /\ x.pc = "clear" /\ x.op = "update" /\ x.id = i /\ x.key = k0 /\ x.key \in RKeys
        /\ rkind # "setting" /\ rdb[i] # RNoRow /\ x.old = rdb[i].key /\ x.old \in RKeys /\ x.val # RNothing
    BY <1>w DEF RCalls, RMay, RChanges, RInd, RTyped, RNothing
  <1> HIDE DEF x
  <1>a. /\ rproc' \in [RProcs -> RCalls]
        /\ \A q \in RProcs : rproc'[q] = IF q = p THEN x ELSE rproc[q]
    BY <1>0, <1>y, CallsSet DEF RInd
  <1>b. rproc[p].op = "none"
    BY <1>0, IdleIs DEF RInd, RProcOK
  <1>h. rhook' = rhook
    BY DEF RUpdate
  <1>1. RTyped' /\ RDistinct'
    BY <1>0, <1>a, <1>h DEF RInd, RTyped, RDistinct, RLap
  <1>2. RTold'
    BY <1>0, <1>w DEF RTold
  <1>3. \A q \in RProcs : RProcOK(rproc[q])'
    BY <1>0, <1>a, <1>y DEF RInd, RProcOK
  <1>4. \A k \in RKeys : rcache'[k] = RNothing => rkind' = "meta"
    BY <1>0 DEF RInd, RNoted
  <1>5. \A k \in RKeys : ~rlap[k] => RFits(k)'
    <2> SUFFICES ASSUME NEW k \in RKeys, ~rlap[k] PROVE RFits(k)'
      OBVIOUS
    <2>1. RFits(k) /\ RRow(k)' = RRow(k)
      BY <1>0, RowNow DEF RInd
    <2> QED
      BY <1>0, <1>a, <1>b, <1>y, <2>1 DEF RFits, RReads, RHolds, RLeft, RMoved
  <1> QED
    BY <1>1, <1>2, <1>3, <1>4, <1>5, MarksKeep

LEMMA DeleteKeeps ==
  ASSUME RInd, RLap, rkind' = rkind, NEW p \in RProcs, NEW i \in RIds, RDelete(p, i)
  PROVE  RInd'
  <1> DEFINE x == [pc |-> "clear", op |-> "delete", id |-> i,
                   key |-> rdb[i].key, old |-> rdb[i].key, val |-> RNothing]
  <1>0. /\ rproc' = [rproc EXCEPT ![p] = x] /\ rproc[p].pc = "idle"
        /\ rtorn' = (rtorn \/ \E q \in RProcs : rproc[q].op \in RChanges)
        /\ UNCHANGED <<rdb, rcache, rfaults, rkind>> /\ rops' = rops + 1
    BY DEF RDelete, RBegin, RCanChange, RTorn, RChanges
  <1>w. rdb[i].key \in RKeys /\ rdb[i] # RNoRow
    BY DEF RDelete, RInd, RTyped, RMay, RNoRow
  <1>y. /\ x \in RCalls /\ x.pc = "clear" /\ x.op = "delete" /\ x.id = i /\ x.key = rdb[i].key /\ x.key \in RKeys
        /\ rdb[i] # RNoRow /\ x.old = rdb[i].key /\ x.old \in RKeys
    BY <1>w DEF RCalls, RMay, RChanges, RInd, RTyped, RNothing
  <1> HIDE DEF x
  <1>a. /\ rproc' \in [RProcs -> RCalls]
        /\ \A q \in RProcs : rproc'[q] = IF q = p THEN x ELSE rproc[q]
    BY <1>0, <1>y, CallsSet DEF RInd
  <1>b. rproc[p].op = "none"
    BY <1>0, IdleIs DEF RInd, RProcOK
  <1>h. rhook' = rhook
    BY DEF RDelete
  <1>1. RTyped' /\ RDistinct'
    BY <1>0, <1>a, <1>h DEF RInd, RTyped, RDistinct, RLap
  <1>2. RTold'
    <2> SUFFICES ASSUME rkind = "setting", ~rtorn' PROVE RTold'
      BY <1>0 DEF RTold
    <2>1. RTold /\ ~rtorn /\ \A q \in RProcs : rproc[q].op \notin RChanges
      BY <1>0 DEF RInd
    <2> QED
      BY <1>0, <1>a, <1>h, <1>y, <2>1 DEF RTold, RChanges
  <1>3. \A q \in RProcs : RProcOK(rproc[q])'
    BY <1>0, <1>a, <1>y DEF RInd, RProcOK
  <1>4. \A k \in RKeys : rcache'[k] = RNothing => rkind' = "meta"
    BY <1>0 DEF RInd, RNoted
  <1>5. \A k \in RKeys : ~rlap[k] => RFits(k)'
    <2> SUFFICES ASSUME NEW k \in RKeys, ~rlap[k] PROVE RFits(k)'
      OBVIOUS
    <2>1. RFits(k) /\ RRow(k)' = RRow(k)
      BY <1>0, RowNow DEF RInd
    <2> QED
      BY <1>0, <1>a, <1>b, <1>y, <2>1 DEF RFits, RReads, RHolds, RLeft, RMoved
  <1> QED
    BY <1>1, <1>2, <1>3, <1>4, <1>5, MarksKeep

\* A change clears what it will make wrong, before it writes.
LEMMA ClearKeeps ==
  ASSUME RInd, RLap, rkind' = rkind, NEW p \in RProcs, RClear(p)
  PROVE  RInd'
  <1> DEFINE w == rproc[p]
             x == [w EXCEPT !.pc = "write"]
             stale == RStale(w.op, w.old, w.key)
  <1>0. /\ rproc' = [rproc EXCEPT ![p] = x] /\ w.pc = "clear"
        /\ UNCHANGED <<rdb, rhook, rtorn, rops, rfaults, rkind>>
    BY DEF RClear, RTo
  <1>w. /\ w \in RCalls /\ w.op \in RChanges /\ RProcOK(w)
        /\ (w.op = "create" => rkind # "setting")
    BY <1>0 DEF RInd, RTyped, RProcOK, RCalls
  <1>y. /\ x \in RCalls /\ x.pc = "write" /\ x.op = w.op /\ x.id = w.id
        /\ x.key = w.key /\ x.old = w.old /\ x.val = w.val
    BY <1>w DEF RCalls
  <1> HIDE DEF x
  <1>a. /\ rproc' \in [RProcs -> RCalls]
        /\ \A q \in RProcs : rproc'[q] = IF q = p THEN x ELSE rproc[q]
    BY <1>0, <1>y, CallsSet DEF RInd
  <1>b. /\ rcache' \in [RKeys -> Nat \cup {RMiss}]
        /\ \A k \in RKeys : rcache'[k] = IF k \in stale THEN RMiss ELSE rcache[k]
    BY DEF RClear, RCleared, RInd, RTyped
  <1>c. /\ rkind = "meta" => w.key \in stale /\ w.old \in stale
        /\ w.op # "create" => (w.old \in stale)
    BY <1>w DEF RStale, RInd, RTyped, RProcOK, RChanges
  <1> HIDE DEF w, stale
  <1>1. RTyped' /\ RDistinct'
    BY <1>0, <1>a, <1>b DEF RInd, RTyped, RDistinct, RLap
  <1>2. RTold'
    BY <1>0, <1>a, <1>w, <1>y DEF RInd, RTold, RChanges, w
  <1>3. \A q \in RProcs : RProcOK(rproc[q])'
    BY <1>0, <1>a, <1>w, <1>y DEF RInd, RProcOK, w, RChanges
  <1>4. \A k \in RKeys : rcache'[k] = RNothing => rkind' = "meta"
    BY <1>0, <1>b DEF RInd, RNoted, RMiss, RNothing
  <1>5. \A k \in RKeys : ~rlap[k] => RFits(k)'
    <2> SUFFICES ASSUME NEW k \in RKeys, ~rlap[k] PROVE RFits(k)'
      OBVIOUS
    <2>1. RFits(k) /\ RRow(k)' = RRow(k)
      BY <1>0, RowNow DEF RInd
    <2>2. RReads(k)' /\ RHolds(k)'
      BY <1>0, <1>a, <1>b, <1>y, <2>1 DEF RFits, RReads, RHolds, w
    <2>3. RLeft(k)'
      BY <1>0, <1>a, <1>b, <1>c, <1>y, <2>1 DEF RFits, RLeft
    <2>4. RMoved(k)'
      BY <1>0, <1>a, <1>b, <1>y, <2>1 DEF RFits, RMoved, w
    <2> QED
      BY <2>2, <2>3, <2>4 DEF RFits
  <1> QED
    BY <1>1, <1>2, <1>3, <1>4, <1>5, MarksKeep

LEMMA UpdateAllKeeps ==
  ASSUME RInd, RLap, rkind' = rkind, NEW p \in RProcs, SettingCacheUpdate(p)
  PROVE  RInd'
  <1>0. /\ rproc' = [rproc EXCEPT ![p] = RIdle] /\ rproc[p].pc = "all"
        /\ UNCHANGED <<rdb, rhook, rtorn, rops, rfaults, rkind>>
        /\ rcache' = [k \in RKeys |-> RMiss]
    BY DEF SettingCacheUpdate, RDone, RCleared
  <1>y. RIdle.pc = "idle" /\ RIdle.op = "none"
    BY IdleIs
  <1>a. /\ rproc' \in [RProcs -> RCalls]
        /\ \A q \in RProcs : rproc'[q] = IF q = p THEN RIdle ELSE rproc[q]
    BY <1>0, IdleIs, CallsSet DEF RInd
  <1>1. RTyped' /\ RDistinct'
    BY <1>0, <1>a DEF RInd, RTyped, RDistinct, RLap
  <1>2. RTold'
    BY <1>0, <1>a, <1>y DEF RInd, RTold, RChanges
  <1>3. \A q \in RProcs : RProcOK(rproc[q])'
    BY <1>0, <1>a, <1>y DEF RInd, RProcOK
  <1>4. \A k \in RKeys : rcache'[k] = RNothing => rkind' = "meta"
    BY <1>0 DEF RMiss, RNothing
  <1>5. \A k \in RKeys : ~rlap[k] => RFits(k)'
    <2> SUFFICES ASSUME NEW k \in RKeys, ~rlap[k] PROVE RFits(k)'
      OBVIOUS
    <2>1. RFits(k) /\ RRow(k)' = RRow(k)
      BY <1>0, RowNow DEF RInd
    <2> QED
      BY <1>0, <1>a, <1>y, <2>1 DEF RFits, RReads, RHolds, RLeft, RMoved
  <1> QED
    BY <1>1, <1>2, <1>3, <1>4, <1>5, MarksKeep

\* The row that a change writes: of an id it has known, a new one or, for a setting,
\* that of its key.
LEMMA TargetIs ==
  ASSUME NEW w, NEW i \in RTarget(w), w.id \in RIds \cup {0}, w.op # "create" => w.id \in RIds
  PROVE  /\ i \in RIds
         /\ w.op # "create" => i = w.id
         /\ w.op = "create" => rdb[i] = RNoRow \/ (rkind = "setting" /\ rdb[i].key = w.key)
  BY DEF RTarget

\* Where a write changes the row of a key that no read has overlapped with, nothing is
\* cached, but for a setting that is saved.
LEMMA NothingHeld ==
  ASSUME RInd, NEW p \in RProcs, rproc[p].pc = "write", NEW i \in RTarget(rproc[p]),
         rproc[p].op = "delete" \/ RUnique(rproc[p], i), rkind = "setting" => rproc[p].op = "delete",
         NEW k \in RKeys, ~rlap[k], k = rdb[i].key \/ (rproc[p].op # "delete" /\ k = rproc[p].key)
  PROVE  rcache[k] = RMiss
  <1> DEFINE w == rproc[p]
  <1>1. /\ w \in RCalls /\ w.op \in RChanges /\ RProcOK(w) /\ RFits(k)
        /\ \A q \in RProcs : RProcOK(rproc[q])
    BY DEF RInd, RTyped, RProcOK, RCalls
  <1>2. /\ i \in RIds
        /\ w.op # "create" => i = w.id
        /\ w.op = "create" => rdb[i] = RNoRow
    BY <1>1, TargetIs DEF RCalls, RProcOK, RChanges
  <1>3. RNoRow.key = RNoKey /\ RNoKey \notin RKeys
    BY RAssumption DEF RNoRow
  <1>4. ASSUME rdb[i].key # k PROVE rcache[k] = RMiss
    <2>1. w.op # "delete" /\ k = w.key /\ rkind # "setting"
      BY <1>4
    <2>2. CASE rkind = "meta"
      BY <1>1, <2>1, <2>2 DEF RFits, RLeft
    <2>3. CASE rkind = "user"
      <3>1. \A j \in RIds : rdb[j].key # k
        BY <1>4, <2>1 DEF RUnique
      <3>2. RRow(k) = RNothing
        BY <3>1, RowNow, RowIsNone
      <3>3. \A q \in RProcs : rproc[q].pc # "all"
        BY <1>1, <2>3 DEF RProcOK
      <3>4. rcache[k] # RNothing
        BY <2>3 DEF RInd, RNoted
      <3> QED
        BY <1>1, <3>2, <3>3, <3>4 DEF RFits, RHolds
    <2> QED
      BY <2>1, <2>2, <2>3 DEF RInd, RTyped
  <1>5. ASSUME rdb[i].key = k PROVE rcache[k] = RMiss
    <2>1. w.op \in {"update", "delete"} /\ rdb[w.id].key = k
      BY <1>1, <1>2, <1>3, <1>5 DEF RChanges
    <2> QED
      BY <1>1, <2>1 DEF RFits, RLeft, RMoved
  <1> QED
    BY <1>4, <1>5

\* A write that a uniqueness check or the database refuses.
LEMMA RefusedKeeps ==
  ASSUME RInd, RLap, rkind' = rkind, NEW p \in RProcs, rproc[p].pc = "write",
         RDone(p), UNCHANGED <<rdb, rcache, rhook, rops>>, rfaults' \in Nat,
         \/ rtorn' = rtorn /\ \A i \in RTarget(rproc[p]) : ~RUnique(rproc[p], i)
         \/ rtorn' = TRUE
  PROVE  RInd'
  <1> DEFINE w == rproc[p]
  <1>w. w \in RCalls /\ w.op \in RChanges /\ RProcOK(w)
    BY DEF RInd, RTyped, RProcOK, RCalls
  <1>y. RIdle.pc = "idle" /\ RIdle.op = "none"
    BY IdleIs
  <1>a. /\ rproc' \in [RProcs -> RCalls]
        /\ \A q \in RProcs : rproc'[q] = IF q = p THEN RIdle ELSE rproc[q]
    BY IdleIs, CallsSet DEF RInd, RDone
  <1>1. RTyped' /\ RDistinct'
    BY <1>a DEF RInd, RTyped, RDistinct, RLap
  <1>2. RTold'
    <2> SUFFICES ASSUME rkind = "setting", ~rtorn' PROVE RTold'
      BY DEF RTold
    <2>1. RTold /\ ~rtorn /\ \A i \in RTarget(w) : ~RUnique(w, i)
      BY DEF RInd, RTyped
    <2>2. ASSUME NEW i \in RIds, rdb[i].key \in RKeys PROVE rhook'[rdb[i].key] = rdb[i].val
      <3>1. ASSUME NEW q \in RProcs, rproc[q].op = "create", rproc[q].pc = "write", rproc[q].key = rdb[i].key
            PROVE  FALSE
        <4>1. q = p
          BY <1>w, <2>1, <3>1 DEF RTold, RChanges
        <4>2. i \in RTarget(w)
          BY <3>1, <4>1 DEF RTarget
        <4>3. RUnique(w, i)
          BY <2>2, <3>1, <4>1 DEF RUnique, RInd, RDistinct
        <4> QED
          BY <2>1, <4>2, <4>3
      <3> QED
        BY <2>1, <2>2, <3>1 DEF RTold
    <2>3. /\ \A q, r \in RProcs : rproc'[q].op \in RChanges /\ rproc'[r].op \in RChanges => q = r
          /\ \A q \in RProcs : rproc'[q].op = "create" /\ rproc'[q].pc = "write" => rhook'[rproc'[q].key] = rproc'[q].val
      BY <1>a, <1>y, <2>1 DEF RTold, RChanges
    <2> QED
      BY <2>2, <2>3 DEF RTold
  <1>3. \A q \in RProcs : RProcOK(rproc[q])'
    BY <1>a, <1>y DEF RInd, RProcOK
  <1>4. \A k \in RKeys : rcache'[k] = RNothing => rkind' = "meta"
    BY DEF RInd, RNoted
  <1>5. \A k \in RKeys : ~rlap[k] => RFits(k)'
    <2> SUFFICES ASSUME NEW k \in RKeys, ~rlap[k] PROVE RFits(k)'
      OBVIOUS
    <2>1. RFits(k) /\ RRow(k)' = RRow(k)
      BY RowNow DEF RInd
    <2> QED
      BY <1>a, <1>y, <2>1 DEF RFits, RReads, RHolds, RLeft, RMoved
  <1> QED
    BY <1>1, <1>2, <1>3, <1>4, <1>5, MarksKeep

\* A write that succeeds.
LEMMA WrittenKeeps ==
  ASSUME RInd, RLap, rkind' = rkind, NEW p \in RProcs, rproc[p].pc = "write", NEW i \in RTarget(rproc[p]),
         rproc[p].op = "delete" \/ RUnique(rproc[p], i),
         rdb' = [rdb EXCEPT ![i] = IF rproc[p].op = "delete" THEN RGone
                                   ELSE [key |-> rproc[p].key, val |-> rproc[p].val]],
         IF RAfterWrite(rproc[p].op) = "idle" THEN RDone(p) ELSE RTo(p, "all"),
         UNCHANGED <<rcache, rhook, rtorn, rops, rfaults>>
  PROVE  RInd'
  <1> DEFINE w == rproc[p]
             x == IF RAfterWrite(w.op) = "idle" THEN RIdle ELSE [w EXCEPT !.pc = "all"]
             y == IF w.op = "delete" THEN RGone ELSE [key |-> w.key, val |-> w.val]
             saved == rkind = "setting" /\ w.op # "delete"
  <1>w. /\ w \in RCalls /\ w.op \in RChanges /\ RProcOK(w) /\ w.key \in RKeys
    BY DEF RInd, RTyped, RProcOK, RCalls
  <1>i. /\ i \in RIds
        /\ w.op # "create" => i = w.id
        /\ w.op = "create" => rdb[i] = RNoRow \/ (rkind = "setting" /\ rdb[i].key = w.key)
    BY <1>w, TargetIs DEF RCalls, RProcOK, RChanges
  <1>s. saved => w.op = "create"
    BY <1>w DEF RProcOK, RChanges
  <1>x. /\ x \in RCalls /\ rproc' = [rproc EXCEPT ![p] = x]
        /\ IF saved THEN x.pc = "all" /\ x.op = w.op /\ x.key = w.key /\ x.id = w.id /\ x.old = w.old /\ x.val = w.val
                    ELSE x = RIdle
    <2>1. CASE saved
      BY <1>w, <2>1 DEF RAfterWrite, RTo, RCalls
    <2>2. CASE ~saved
      BY <2>2, IdleIs DEF RAfterWrite, RDone
    <2> QED
      BY <2>1, <2>2
  <1>y. /\ w.op = "delete" => y.key = RNoKey /\ y.val = RMiss
        /\ w.op # "delete" => y.key = w.key /\ y.val = w.val
        /\ y \in [key : RMay, val : Nat \cup {RMiss}] /\ y # RNoRow
    BY <1>w, RAssumption DEF RGone, RNoRow, RMay, RMiss, RNothing, RCalls
  <1>k. RNoRow.key = RNoKey /\ RNoKey \notin RKeys
    BY RAssumption DEF RNoRow
  <1>z. RIdle.pc = "idle" /\ RIdle.op = "none"
    BY IdleIs
  <1>d. /\ rdb' = [rdb EXCEPT ![i] = y] /\ DOMAIN rdb = RIds
        /\ rdb' \in [RIds -> [key : RMay, val : Nat \cup {RMiss}]]
        /\ \A j \in RIds : rdb'[j] = IF j = i THEN y ELSE rdb[j]
    BY <1>i, <1>y DEF RInd, RTyped
  <1> HIDE DEF x, y
  <1>a. /\ rproc' \in [RProcs -> RCalls]
        /\ \A q \in RProcs : rproc'[q] = IF q = p THEN x ELSE rproc[q]
    BY <1>x, CallsSet DEF RInd
  <1> HIDE DEF w
  <1>1. RTyped'
    BY <1>a, <1>d DEF RInd, RTyped, RLap
  <1>2. RDistinct'
    <2>1. \A j \in RIds : rdb'[j].key \in RKeys => rdb'[j].val \in Nat \ {RNothing}
      BY <1>d, <1>k, <1>w, <1>y DEF RInd, RDistinct, RProcOK, RCalls, RChanges
    <2>2. \A j \in RIds : j # i => ~(rdb'[j].key = rdb'[i].key /\ rdb'[j].key \in RKeys)
      BY <1>d, <1>i, <1>k, <1>w, <1>y DEF RUnique, w
    <2> QED
      BY <1>d, <2>1, <2>2 DEF RInd, RDistinct
  <1>3. RTold'
    <2> SUFFICES ASSUME rkind = "setting", ~rtorn PROVE RTold'
      BY DEF RTold
    <2>1. RTold /\ \A q \in RProcs : rproc[q].op \in RChanges => q = p
      BY <1>w DEF RInd, RTold, w
    <2>2. \A q, r \in RProcs : rproc'[q].op \in RChanges /\ rproc'[r].op \in RChanges => q = r
      BY <1>a, <1>w, <1>x, <1>z, <2>1 DEF RChanges, w
    <2>3. \A q \in RProcs : ~(rproc'[q].op = "create" /\ rproc'[q].pc = "write")
      BY <1>a, <1>x, <1>z, <2>1 DEF RChanges
    <2>4. ASSUME NEW j \in RIds, rdb'[j].key \in RKeys PROVE rhook'[rdb'[j].key] = rdb'[j].val
      <3>1. CASE j = i
        <4>1. w.op = "create" /\ rdb'[j].key = w.key /\ rdb'[j].val = w.val
          BY <1>d, <1>k, <1>s, <1>y, <2>4, <3>1
        <4> QED
          BY <2>1, <4>1 DEF RTold, w
      <3>2. CASE j # i
        <4>1. rdb'[j] = rdb[j]
          BY <1>d, <3>2
        <4>2. ~\E q \in RProcs : rproc[q].op = "create" /\ rproc[q].pc = "write" /\ rproc[q].key = rdb[j].key
          BY <2>1, <3>2 DEF RUnique, RChanges
        <4> QED
          BY <2>1, <2>4, <4>1, <4>2 DEF RTold
      <3> QED
        BY <3>1, <3>2
    <2> QED
      BY <2>2, <2>3, <2>4 DEF RTold
  <1>4. \A q \in RProcs : RProcOK(rproc[q])'
    <2>1. ASSUME NEW q \in RProcs, q # p PROVE RProcOK(rproc[q])'
      BY <1>a, <1>d, <1>y, <2>1 DEF RInd, RProcOK
    <2>2. RProcOK(rproc[p])'
      <3>1. CASE saved
        BY <1>a, <1>s, <1>w, <1>x, <3>1 DEF RProcOK
      <3>2. CASE ~saved
        BY <1>a, <1>x, <1>z, <3>2 DEF RProcOK
      <3> QED
        BY <3>1, <3>2
    <2> QED
      BY <2>1, <2>2
  <1>5. \A k \in RKeys : rcache'[k] = RNothing => rkind' = "meta"
    BY DEF RInd, RNoted
  <1>6. ASSUME NEW k \in RKeys, ~rlap[k], ~(RReading(k)' /\ RChanging(k)') PROVE RFits(k)'
    <2> DEFINE struck == k = rdb[i].key \/ (w.op # "delete" /\ k = w.key)
    <2>1. RFits(k)
      BY <1>6 DEF RInd
    <2>2. struck => RChanging(k)
      <3>1. struck => k = w.key \/ (w.id # 0 /\ rdb[w.id].key = k)
        BY <1>i, <1>k, <1>w, RAssumption DEF RProcOK, RChanges
      <3> QED
        BY <1>w, <3>1 DEF RChanging, RChanges, w
    <2>3. struck => ~RReading(k)
      BY <1>6, <2>2 DEF RInd, RNoted
    <2>4. struck /\ ~saved => rcache[k] = RMiss
      BY <1>6, NothingHeld DEF w
    <2>5. struck /\ saved => k = w.key
      BY <1>i, <1>k, <1>s
    <2>6. ASSUME ~struck PROVE RRow(k)' = RRow(k)
      <3>1. rdb[i].key # k /\ rdb'[i].key # k
        BY <1>d, <1>i, <1>k, <1>y, <2>6
      <3>2. i \in RIds /\ \A j \in RIds : j # i => rdb'[j] = rdb[j]
        BY <1>d, <1>i
      <3>3. PICK d, e, c : d = rdb /\ e = rdb' /\ c = i
        OBVIOUS
      <3>5. /\ \A j \in RIds : j # c => e[j] = d[j]
            /\ c \in RIds /\ d[c].key # k /\ e[c].key # k
        BY <3>1, <3>2, <3>3
      <3> HIDE <3>1, <3>2, <2>6
      <3>4. RowIn(e, k) = RowIn(d, k)
        BY <3>5, RowIsSame
      <3> QED
        BY <3>3, <3>4, RowNow
    <2>7. \A q \in RProcs : rproc[q].pc = "store" => rproc[q].op = "read"
      BY DEF RInd, RProcOK
    <2>8. RReads(k)'
      BY <1>a, <1>x, <1>z, <2>1, <2>3, <2>6, <2>7 DEF RFits, RReads, RReading
    <2>9. RHolds(k)'
      <3>1. CASE struck /\ saved
        BY <1>a, <1>x, <2>5, <3>1 DEF RHolds
      <3>2. CASE struck /\ ~saved
        BY <2>4, <3>2 DEF RHolds
      <3>3. CASE ~struck
        BY <1>a, <2>1, <2>6, <3>3 DEF RFits, RHolds
      <3> QED
        BY <3>1, <3>2, <3>3
    <2>10. RLeft(k)'
      BY <1>a, <1>x, <1>z, <2>1 DEF RFits, RLeft
    <2>11. RMoved(k)'
      <3> SUFFICES ASSUME NEW q \in RProcs, rproc'[q].op \in {"update", "delete"}, rdb'[rproc'[q].id].key = k, k # rproc'[q].old
                   PROVE  rcache[k] = RMiss
        BY DEF RMoved
      <3>1. q # p /\ rproc'[q] = rproc[q]
        BY <1>a, <1>s, <1>x, <1>z
      <3>2. rproc[q].id \in RIds /\ rdb[rproc[q].id] # RNoRow
        BY <3>1 DEF RInd, RProcOK
      <3>3. CASE rdb[rproc[q].id].key = k
        BY <2>1, <3>1, <3>3 DEF RFits, RMoved
      <3>4. CASE rdb[rproc[q].id].key # k
        <4>1. rproc[q].id = i /\ w.op # "delete" /\ k = w.key
          BY <1>d, <1>k, <1>y, <3>1, <3>2, <3>4
        <4>2. ~saved
          BY <1>i, <1>s, <3>2, <3>4, <4>1
        <4> QED
          BY <2>4, <4>1, <4>2
      <3> QED
        BY <3>3, <3>4
    <2> QED
      BY <2>8, <2>9, <2>10, <2>11 DEF RFits
  <1> QED
    BY <1>1, <1>2, <1>3, <1>4, <1>5, <1>6, MarksKeep

LEMMA WriteKeeps ==
  ASSUME RInd, RLap, rkind' = rkind, NEW p \in RProcs, RWrite(p)
  PROVE  RInd'
  <1>1. rfaults + 1 \in Nat /\ rfaults \in Nat
    BY DEF RInd, RTyped
  <1> QED
    BY <1>1, RefusedKeeps, WrittenKeeps DEF RWrite

LEMMA RowsStart == ASSUME RInit PROVE RInd
  <1> USE DEF RInit
  <1>1. RTyped
    BY IdleIs DEF RTyped, RNoRow, RNothing, RMiss, RMay
  <1>2. /\ \A i \in RIds : rdb[i].key \notin RKeys
        /\ \A p \in RProcs : rproc[p] = RIdle /\ rproc[p].pc = "idle" /\ rproc[p].op = "none"
    BY RAssumption, IdleIs DEF RNoRow
  <1>3. RDistinct /\ RTold
    BY <1>2 DEF RDistinct, RTold, RChanges
  <1>4. RNoted
    BY <1>2 DEF RNoted, RReading, RMiss, RNothing
  <1>5. \A p \in RProcs : RProcOK(rproc[p])
    BY <1>2 DEF RProcOK
  <1>6. \A k \in RKeys : RFits(k)
    BY <1>2 DEF RFits, RReads, RHolds, RLeft, RMoved
  <1> QED
    BY <1>1, <1>3, <1>4, <1>5, <1>6 DEF RInd

LEMMA RowsStep == ASSUME RInd, [RNext]_rowVars PROVE RInd'
  <1>1. CASE RNext
    <2>1. RLap /\ rkind' = rkind
      BY <1>1 DEF RNext
    <2>2. CASE \E k \in RKeys : RExpire(k)
      BY <2>1, <2>2, ExpireKeeps
    <2>3. ASSUME NEW p \in RProcs, RStep(p) PROVE RInd'
      <3>1. CASE \E k \in RKeys : RGet(p, k)
        BY <2>1, <3>1, GetKeeps
      <3>2. CASE RFetch(p)
        BY <2>1, <3>2, FetchKeeps
      <3>3. CASE RStore(p)
        BY <2>1, <3>3, StoreKeeps
      <3>4. CASE RClear(p)
        BY <2>1, <3>4, ClearKeeps
      <3>5. CASE RWrite(p)
        BY <2>1, <3>5, WriteKeeps
      <3>6. CASE SettingCacheUpdate(p)
        BY <2>1, <3>6, UpdateAllKeeps
      <3>7. CASE \E k \in RKeys : RCreate(p, k, rops + 1)
        BY <2>1, <3>7, CreateKeeps
      <3>8. CASE \E i \in RIds, k \in RKeys : RUpdate(p, i, k, rops + 1)
        BY <2>1, <3>8, UpdateKeeps
      <3>9. CASE \E i \in RIds : RDelete(p, i)
        BY <2>1, <3>9, DeleteKeeps
      <3> QED
        BY <2>3, <3>1, <3>2, <3>3, <3>4, <3>5, <3>6, <3>7, <3>8, <3>9 DEF RStep
    <2> QED
      BY <1>1, <2>2, <2>3 DEF RNext
  <1>2. CASE UNCHANGED rowVars
    <2>1. /\ rkind' = rkind /\ rdb' = rdb /\ rcache' = rcache /\ rhook' = rhook /\ rproc' = rproc
          /\ rlap' = rlap /\ rtorn' = rtorn /\ rops' = rops /\ rfaults' = rfaults
      BY <1>2 DEF rowVars
    <2>2. RTyped' /\ RDistinct'
      BY <2>1 DEF RInd, RTyped, RDistinct
    <2>3. RNoted' /\ RTold'
      BY <2>1 DEF RInd, RNoted, RReading, RChanging, RTold
    <2>4. \A p \in RProcs : RProcOK(rproc[p])'
      BY <2>1 DEF RInd, RProcOK
    <2>5. \A k \in RKeys : RRow(k)' = RRow(k)
      BY <2>1 DEF RRow
    <2>6. \A k \in RKeys : RFits(k)' <=> RFits(k)
      <3> SUFFICES ASSUME NEW k \in RKeys PROVE RFits(k)' <=> RFits(k)
        OBVIOUS
      <3>1. (RReads(k)' <=> RReads(k)) /\ (RHolds(k)' <=> RHolds(k))
        BY <2>1, <2>5 DEF RReads, RHolds
      <3>2. (RLeft(k)' <=> RLeft(k)) /\ (RMoved(k)' <=> RMoved(k))
        BY <2>1 DEF RLeft, RMoved
      <3> QED
        BY <3>1, <3>2 DEF RFits
    <2> QED
      BY <2>1, <2>2, <2>3, <2>4, <2>6 DEF RInd
  <1> QED
    BY <1>1, <1>2

-----------------------------------------------------------------------------
\* What the invariant says of the properties.
LEMMA FreshRows == ASSUME RInd PROVE RFresh
  <1> SUFFICES ASSUME NEW k \in RKeys, ~rlap[k], ~RChanging(k) PROVE RLookup(k) = RRow(k)
    BY DEF RFresh
  <1>1. \A p \in RProcs : rproc[p].pc = "all" => rproc[p].op = "create"
    BY DEF RInd, RTyped, RCalls, RProcOK, RChanges
  <1>2. ~\E p \in RProcs : rproc[p].pc = "all" /\ rproc[p].key = k
    BY <1>1 DEF RChanging
  <1> QED
    BY <1>2 DEF RInd, RFits, RHolds, RLookup

LEMMA HookedRows == ASSUME RInd PROVE RHooked
  <1> SUFFICES ASSUME rkind = "setting", ~rtorn, NEW i \in RIds, rdb[i].key # RNoKey, ~RChanging(rdb[i].key)
               PROVE  rhook[rdb[i].key] = rdb[i].val
    BY DEF RHooked
  <1>1. rdb[i].key \in RKeys
    BY DEF RInd, RTyped, RMay
  <1>2. ~\E p \in RProcs : rproc[p].op = "create" /\ rproc[p].pc = "write" /\ rproc[p].key = rdb[i].key
    BY DEF RChanging
  <1> QED
    BY <1>1, <1>2 DEF RInd, RTold

-----------------------------------------------------------------------------
\* A set of naturals that is not empty has a smallest one.
LEMMA SmallestOf ==
  ASSUME NEW T, T \subseteq Nat, T # {}
  PROVE  \E m \in T : \A n \in T : m <= n
  <1> DEFINE R == {xy \in Nat \X Nat : xy[1] < xy[2]}
  <1>1. IsWellFoundedOn(R, Nat)
    <2>1. R = OpToRel(<, Nat)
      BY DEF OpToRel
    <2> QED
      BY <2>1, NatLessThanWellFounded
  <1>2. PICK m \in T : \A n \in T : ~(<<n, m>> \in R)
    BY <1>1, WFMin
  <1>3. \A n \in T : ~(n < m)
    BY <1>2
  <1> QED
    BY <1>3

\* The row of the nearest ancestor among the first n names of a path.
RHave(path, n) == {j \in 0..n : RRow(SubSeq(path, 1, j)) # RNothing}
RNearestRow(path, n) ==
  IF RHave(path, n) = {} THEN RNothing
  ELSE RRow(SubSeq(path, 1, CHOOSE m \in RHave(path, n) : \A j \in RHave(path, n) : j <= m))

LEMMA NearestClimbs ==
  ASSUME NEW path, NEW n \in Nat
  PROVE  RNearestRow(path, n) = IF RRow(SubSeq(path, 1, n)) # RNothing \/ n = 0 THEN RRow(SubSeq(path, 1, n))
                                ELSE RNearestRow(path, n - 1)
  <1>1. CASE RRow(SubSeq(path, 1, n)) # RNothing
    <2>1. n \in RHave(path, n) /\ \A j \in RHave(path, n) : j \in Nat /\ j <= n
      BY <1>1 DEF RHave
    <2>2. (CHOOSE m \in RHave(path, n) : \A j \in RHave(path, n) : j <= m) = n
      BY <2>1
    <2> QED
      BY <1>1, <2>1, <2>2 DEF RNearestRow
  <1>2. CASE RRow(SubSeq(path, 1, n)) = RNothing /\ n = 0
    <2>1. RHave(path, n) = {}
      BY <1>2 DEF RHave
    <2> QED
      BY <1>2, <2>1 DEF RNearestRow
  <1>3. CASE RRow(SubSeq(path, 1, n)) = RNothing /\ n # 0
    <2>1. RHave(path, n) = RHave(path, n - 1)
      BY <1>3 DEF RHave
    <2> QED
      BY <1>3, <2>1 DEF RNearestRow
  <1> QED
    BY <1>1, <1>2, <1>3

\* Climbing finds the nearest row, where each lookup on the way gives the row.
LEMMA ClimbIsNearest ==
  ASSUME NEW path, Len(path) \in Nat, \A n \in 0..Len(path) : RLookup(SubSeq(path, 1, n)) = RRow(SubSeq(path, 1, n))
  PROVE  getNearestMeta(path) = RNearestRow(path, Len(path))
  <1> DEFINE L == Len(path)
             at(n) == RLookup(SubSeq(path, 1, n))
             Climbs(f) == f = [n \in 0..L |-> IF at(n) # RNothing \/ n = 0 THEN at(n) ELSE f[n - 1]]
             g == [n \in 0..L |-> RNearestRow(path, n)]
             near == CHOOSE f : Climbs(f)
  <1>1. getNearestMeta(path) = near[L]
    BY DEF getNearestMeta
  <1>2. Climbs(g)
    <2>1. \A n \in 0..L : g[n] = IF at(n) # RNothing \/ n = 0 THEN at(n) ELSE g[n - 1]
      <3> SUFFICES ASSUME NEW n \in 0..L PROVE g[n] = IF at(n) # RNothing \/ n = 0 THEN at(n) ELSE g[n - 1]
        OBVIOUS
      <3>1. n \in Nat /\ g[n] = RNearestRow(path, n) /\ (n # 0 => g[n - 1] = RNearestRow(path, n - 1))
        OBVIOUS
      <3> HIDE DEF g
      <3> QED
        BY <3>1, NearestClimbs
    <2> HIDE DEF at
    <2> QED
      BY <2>1
  <1>3. Climbs(near)
    <2> HIDE DEF Climbs
    <2> QED
      BY <1>2
  <1>4. \A n \in 0..L : near[n] = IF at(n) # RNothing \/ n = 0 THEN at(n) ELSE near[n - 1]
    <2> HIDE DEF near, at
    <2> QED
      BY <1>3
  <1>5. \A n \in 0..L : g[n] = IF at(n) # RNothing \/ n = 0 THEN at(n) ELSE g[n - 1]
    <2> HIDE DEF g, at
    <2> QED
      BY <1>2
  <1> HIDE DEF near, g, at, Climbs
  <1>6. \A n \in 0..L : near[n] = g[n]
    <2> DEFINE wrong == {n \in 0..L : near[n] # g[n]}
    <2> SUFFICES ASSUME wrong # {} PROVE FALSE
      OBVIOUS
    <2>0. wrong \subseteq Nat
      OBVIOUS
    <2>1. PICK m \in wrong : \A n \in wrong : m <= n
      <3> HIDE DEF wrong
      <3> QED
        BY <2>0, SmallestOf
    <2>2. CASE m = 0
      BY <1>4, <1>5, <2>1, <2>2
    <2>3. CASE m # 0
      <3>1. m - 1 \in 0..L /\ near[m - 1] = g[m - 1]
        BY <2>1, <2>3
      <3> QED
        BY <1>4, <1>5, <2>1, <2>3, <3>1
    <2> QED
      BY <2>2, <2>3
  <1>7. near[L] = g[L]
    BY <1>6
  <1> QED
    BY <1>1, <1>7 DEF g

LEMMA NearestRows == ASSUME RInd PROVE RNearest
  <1> SUFFICES ASSUME \A k \in RKeys : ~rlap[k] /\ ~RChanging(k), NEW path \in RKeys
               PROVE  getNearestMeta(path) = RNearestRow(path, Len(path))
    BY DEF RNearest, RNearestRow, RHave
  <1>1. Len(path) \in Nat /\ \A n \in 0..Len(path) : SubSeq(path, 1, n) \in RKeys
    BY RAssumption
  <1>2. \A n \in 0..Len(path) : RLookup(SubSeq(path, 1, n)) = RRow(SubSeq(path, 1, n))
    BY <1>1, FreshRows DEF RFresh
  <1> QED
    BY <1>1, <1>2, ClimbIsNearest

(* What is cached of users, metas and settings is the row, once no change and   *)
(* no read beside one is on the way; the meta of a path is that of its nearest  *)
(* ancestor; what a hook was told is what the row says.                         *)
THEOREM RowsAreRight == RSpec => []RowsRight
  <1>1. RInit => RInd
    BY RowsStart
  <1>2. RInd /\ [RNext]_rowVars => RInd'
    BY RowsStep
  <1>3. RInd => RowsRight
    BY FreshRows, NearestRows, HookedRows DEF RowsRight
  <1> QED
    BY <1>1, <1>2, <1>3, PTL DEF RSpec

-----------------------------------------------------------------------------
(* LinkCache                                                                    *)

KCalls == [pc : {"idle", "fly", "make", "wait", "land", "acquire", "use", "refused", "again", "swap", "closing"},
           link : KLinks \cup {0}, ref : Int]
KTyped ==
  /\ kref \in [KLinks -> Int] /\ kclosed \in [KLinks -> Nat]
  /\ kentry \in KLinks \cup {0} /\ kuser \in [KUsers -> KCalls] /\ kkind \in BOOLEAN

\* Who has a link, and what was read of its counter.
KUserOK(x) ==
  /\ x.pc \in {"idle", "fly", "make", "wait"} <=> x.link = 0
  /\ x.pc = "swap" => x.ref \in Nat
  /\ x.pc = "refused" => kref[x.link] < 0

KRefused(l) == {u \in KUsers : kuser[u].link = l /\ kuser[u].pc = "refused"}
KClosing(l) == {u \in KUsers : kuser[u].link = l /\ kuser[u].pc = "closing"}

\* An open file counts its users; a closed one has a counter far below zero, which the
\* refused cannot lift to it, was closed once or is being closed by one user, and where
\* files are referenced has no user.  A new entry is about to be acquired.
KOpen(l) == kref[l] >= 0 => kref[l] = Cardinality(KUsing(l)) /\ kclosed[l] = 0 /\ KClosing(l) = {}
KShut(l) ==
  kref[l] < 0 =>
    /\ kref[l] <= closersClosed + Cardinality(KRefused(l))
    /\ kkind => KUsing(l) = {}
    /\ (kclosed[l] = 1 /\ KClosing(l) = {}) \/ (kclosed[l] = 0 /\ \E u \in KUsers : KClosing(l) = {u})
KNew(l) == kref[l] = 0 /\ l = kentry => \E u \in KUsers : kuser[u].link = l /\ kuser[u].pc \in {"land", "acquire"}

KInd ==
  /\ KTyped /\ \A u \in KUsers : KUserOK(kuser[u])
  /\ \A l \in KLinks : KOpen(l) /\ KShut(l) /\ KNew(l)

\* Sets of users are finite, and no larger than all of them.
LEMMA UsersCount ==
  ASSUME NEW S, S \subseteq KUsers, NEW u \in KUsers
  PROVE  /\ Cardinality(S) \in Nat /\ Cardinality(S) <= Cardinality(KUsers) /\ Cardinality(KUsers) \in Nat
         /\ Cardinality(S) = 0 <=> S = {}
         /\ u \notin S => Cardinality(S \cup {u}) = Cardinality(S) + 1
         /\ u \in S => Cardinality(S \ {u}) = Cardinality(S) - 1
  <1>1. IsFiniteSet(KUsers) /\ IsFiniteSet(S)
    BY KAssumption, FS_Subset
  <1> QED
    BY <1>1, FS_Subset, FS_CardinalityType, FS_EmptySet, FS_AddElement, FS_RemoveElement

\* What a step of one user does to the sets of users.
LEMMA OneUser ==
  ASSUME KTyped, NEW u \in KUsers, NEW x \in KCalls, kuser' = [kuser EXCEPT ![u] = x]
  PROVE  /\ kuser' \in [KUsers -> KCalls]
         /\ \A w \in KUsers : kuser'[w] = IF w = u THEN x ELSE kuser[w]
         /\ \A l : /\ KUsing(l)' = IF x.link = l /\ x.pc \in {"use", "again", "swap"} THEN KUsing(l) \cup {u} ELSE KUsing(l) \ {u}
                   /\ KRefused(l)' = IF x.link = l /\ x.pc = "refused" THEN KRefused(l) \cup {u} ELSE KRefused(l) \ {u}
                   /\ KClosing(l)' = IF x.link = l /\ x.pc = "closing" THEN KClosing(l) \cup {u} ELSE KClosing(l) \ {u}
  <1>1. /\ kuser' \in [KUsers -> KCalls]
        /\ \A w \in KUsers : kuser'[w] = IF w = u THEN x ELSE kuser[w]
    BY DEF KTyped
  <1>2. ASSUME NEW l
        PROVE  KUsing(l)' = IF x.link = l /\ x.pc \in {"use", "again", "swap"} THEN KUsing(l) \cup {u} ELSE KUsing(l) \ {u}
    BY <1>1 DEF KUsing
  <1>3. ASSUME NEW l
        PROVE  /\ KRefused(l)' = IF x.link = l /\ x.pc = "refused" THEN KRefused(l) \cup {u} ELSE KRefused(l) \ {u}
               /\ KClosing(l)' = IF x.link = l /\ x.pc = "closing" THEN KClosing(l) \cup {u} ELSE KClosing(l) \ {u}
    BY <1>1 DEF KRefused, KClosing
  <1> QED
    BY <1>1, <1>2, <1>3

\* A user that is none of them before and after changes none of the sets.
LEMMA OneUserApart ==
  ASSUME KTyped, NEW u \in KUsers, NEW x \in KCalls, kuser' = [kuser EXCEPT ![u] = x],
         kuser[u].pc \notin {"use", "again", "swap", "refused", "closing"},
         x.pc \notin {"use", "again", "swap", "refused", "closing"}
  PROVE  /\ kuser' \in [KUsers -> KCalls]
         /\ \A w \in KUsers : kuser'[w] = IF w = u THEN x ELSE kuser[w]
         /\ \A l : KUsing(l)' = KUsing(l) /\ KRefused(l)' = KRefused(l) /\ KClosing(l)' = KClosing(l)
  <1>1. \A l : u \notin KUsing(l) /\ u \notin KRefused(l) /\ u \notin KClosing(l)
    BY DEF KUsing, KRefused, KClosing
  <1>2. \A l : KUsing(l) \ {u} = KUsing(l) /\ KRefused(l) \ {u} = KRefused(l) /\ KClosing(l) \ {u} = KClosing(l)
    BY <1>1
  <1>3. \A l : KUsing(l)' = KUsing(l) \ {u} /\ KRefused(l)' = KRefused(l) \ {u} /\ KClosing(l)' = KClosing(l) \ {u}
    <2>1. \A w \in KUsers : kuser'[w] = IF w = u THEN x ELSE kuser[w]
      BY DEF KTyped
    <2>2. \A l : KUsing(l)' = KUsing(l) \ {u}
      BY <2>1 DEF KUsing
    <2>3. \A l : KRefused(l)' = KRefused(l) \ {u}
      BY <2>1 DEF KRefused
    <2>4. \A l : KClosing(l)' = KClosing(l) \ {u}
      BY <2>1 DEF KClosing
    <2> QED
      BY <2>2, <2>3, <2>4
  <1>4. /\ kuser' \in [KUsers -> KCalls]
        /\ \A w \in KUsers : kuser'[w] = IF w = u THEN x ELSE kuser[w]
    BY OneUser
  <1> QED
    BY <1>2, <1>3, <1>4

\* A step that touches neither a counter nor one of the sets.
LEMMA QuietKeeps ==
  ASSUME KInd, kref' = kref, kclosed' = kclosed, kkind' = kkind, kentry' \in KLinks \cup {0}, kuser' \in [KUsers -> KCalls],
         \A w \in KUsers : KUserOK(kuser'[w]),
         \A l : KUsing(l)' = KUsing(l) /\ KRefused(l)' = KRefused(l) /\ KClosing(l)' = KClosing(l),
         \A l \in KLinks : KNew(l)'
  PROVE  KInd'
  <1>1. KTyped' /\ \A w \in KUsers : KUserOK(kuser[w])'
    BY DEF KInd, KTyped, KUserOK
  <1>2. \A l \in KLinks : KOpen(l)' /\ KShut(l)'
    BY DEF KInd, KOpen, KShut
  <1> QED
    BY <1>1, <1>2 DEF KInd

LEMMA GetTypeKeeps == ASSUME KInd, NEW u \in KUsers, GetType(u) PROVE KInd'
  <1>1. PICK x \in KCalls : /\ kuser' = [kuser EXCEPT ![u] = x] /\ KUserOK(x)
                            /\ x.pc \in {"acquire", "fly"}
    <2>1. CASE kentry # 0 /\ ~Expired(kentry)
      <3> DEFINE x == [pc |-> "acquire", link |-> kentry, ref |-> 0]
      <3>1. x \in KCalls /\ KUserOK(x) /\ x.pc = "acquire"
        BY <2>1 DEF KCalls, KUserOK, KInd, KTyped
      <3>2. kuser' = [kuser EXCEPT ![u] = x]
        BY <2>1 DEF GetType, KGive
      <3> QED
        BY <3>1, <3>2
    <2>2. CASE ~(kentry # 0 /\ ~Expired(kentry))
      <3> DEFINE x == [kuser[u] EXCEPT !.pc = "fly"]
      <3>1. x \in KCalls /\ KUserOK(x) /\ x.pc = "fly"
        BY DEF KCalls, KUserOK, KInd, KTyped, GetType
      <3>2. kuser' = [kuser EXCEPT ![u] = x]
        BY <2>2 DEF GetType, KPc
      <3> QED
        BY <3>1, <3>2
    <2> QED
      BY <2>1, <2>2
  <1>2. /\ kuser[u].pc = "idle" /\ UNCHANGED <<kref, kclosed, kkind>> /\ kentry' \in {kentry, 0}
    BY DEF GetType
  <1>3. /\ kuser' \in [KUsers -> KCalls]
        /\ \A w \in KUsers : kuser'[w] = IF w = u THEN x ELSE kuser[w]
        /\ \A l : KUsing(l)' = KUsing(l) /\ KRefused(l)' = KRefused(l) /\ KClosing(l)' = KClosing(l)
    BY <1>1, <1>2, OneUserApart DEF KInd
  <1>4. \A l \in KLinks : KNew(l)'
    <2> SUFFICES ASSUME NEW l \in KLinks, kref'[l] = 0, l = kentry'
                 PROVE  \E w \in KUsers : kuser'[w].link = l /\ kuser'[w].pc \in {"land", "acquire"}
      BY DEF KNew
    <2>1. kref[l] = 0 /\ l = kentry
      BY <1>2, KAssumption
    <2>2. PICK w \in KUsers : kuser[w].link = l /\ kuser[w].pc \in {"land", "acquire"}
      BY <2>1 DEF KInd, KNew
    <2>3. w # u
      BY <1>2, <2>2
    <2> QED
      BY <1>3, <2>2, <2>3
  <1>5. \A w \in KUsers : KUserOK(kuser'[w])
    BY <1>1, <1>3 DEF KInd
  <1> QED
    BY <1>2, <1>3, <1>4, <1>5, QuietKeeps DEF KInd, KTyped

LEMMA FlyKeeps == ASSUME KInd, NEW u \in KUsers, KFly(u) PROVE KInd'
  <1>1. PICK x \in KCalls : /\ kuser' = [kuser EXCEPT ![u] = x] /\ KUserOK(x)
                            /\ x.pc \in {"make", "wait"}
    <2> DEFINE x(pc) == [kuser[u] EXCEPT !.pc = pc]
    <2>1. ASSUME NEW pc \in {"make", "wait"} PROVE x(pc) \in KCalls /\ KUserOK(x(pc)) /\ x(pc).pc = pc
      BY DEF KCalls, KUserOK, KInd, KTyped, KFly
    <2>2. \E pc \in {"make", "wait"} : kuser' = [kuser EXCEPT ![u] = x(pc)]
      BY DEF KFly, KPc
    <2> HIDE DEF x
    <2> QED
      BY <2>1, <2>2
  <1>2. kuser[u].pc = "fly" /\ UNCHANGED <<kref, kclosed, kkind, kentry>>
    BY DEF KFly
  <1>3. /\ kuser' \in [KUsers -> KCalls]
        /\ \A w \in KUsers : kuser'[w] = IF w = u THEN x ELSE kuser[w]
        /\ \A l : KUsing(l)' = KUsing(l) /\ KRefused(l)' = KRefused(l) /\ KClosing(l)' = KClosing(l)
    BY <1>1, <1>2, OneUserApart DEF KInd
  <1>4. \A l \in KLinks : KNew(l)'
    BY <1>2, <1>3 DEF KInd, KNew
  <1>5. \A w \in KUsers : KUserOK(kuser'[w])
    BY <1>1, <1>3 DEF KInd
  <1> QED
    BY <1>2, <1>3, <1>4, <1>5, QuietKeeps DEF KInd, KTyped

LEMMA MakeKeeps == ASSUME KInd, NEW u \in KUsers, NEW l0 \in KLinks, MakeLink(u, l0) PROVE KInd'
  <1> DEFINE x == [pc |-> "land", link |-> l0, ref |-> 0]
  <1>1. x \in KCalls /\ KUserOK(x) /\ x.pc = "land" /\ x.link = l0
    BY KAssumption DEF KCalls, KUserOK
  <1>2. /\ kuser' = [kuser EXCEPT ![u] = x]
        /\ kuser[u].pc = "make" /\ UNCHANGED <<kref, kclosed, kkind>> /\ kentry' = l0
    BY DEF MakeLink, KGive
  <1> HIDE DEF x
  <1>3. /\ kuser' \in [KUsers -> KCalls]
        /\ \A w \in KUsers : kuser'[w] = IF w = u THEN x ELSE kuser[w]
        /\ \A l : KUsing(l)' = KUsing(l) /\ KRefused(l)' = KRefused(l) /\ KClosing(l)' = KClosing(l)
    BY <1>1, <1>2, OneUserApart DEF KInd
  <1>4. \A l \in KLinks : KNew(l)'
    BY <1>1, <1>2, <1>3 DEF KNew
  <1>5. \A w \in KUsers : KUserOK(kuser'[w])
    BY <1>1, <1>3 DEF KInd
  <1> QED
    BY <1>2, <1>3, <1>4, <1>5, QuietKeeps DEF KInd, KTyped

\* A flight that ends moves those who wait for it, and they are in none of the sets.
LEMMA FlightKeeps ==
  ASSUME KInd, NEW u \in KUsers, kuser[u].pc \in {"make", "land"}, NEW x \in KCalls, KUserOK(x), x.pc \in {"idle", "acquire"},
         kuser' = [w \in KUsers |-> IF w = u \/ kuser[w].pc = "wait" THEN x ELSE kuser[w]],
         kuser[u].pc = "land" => x.pc = "acquire" /\ x.link = kuser[u].link,
         UNCHANGED <<kref, kclosed, kkind, kentry>>
  PROVE  KInd'
  <1>1. /\ kuser' \in [KUsers -> KCalls]
        /\ \A w \in KUsers : kuser'[w] = IF w = u \/ kuser[w].pc = "wait" THEN x ELSE kuser[w]
    BY DEF KInd, KTyped
  <1>2. ASSUME NEW l PROVE KUsing(l)' = KUsing(l) /\ KRefused(l)' = KRefused(l) /\ KClosing(l)' = KClosing(l)
    <2>1. \A w \in KUsers : kuser'[w] = kuser[w]
            \/ (kuser'[w].pc \in {"idle", "acquire"} /\ kuser[w].pc \in {"make", "land", "wait"})
      BY <1>1
    <2> QED
      BY <2>1 DEF KUsing, KRefused, KClosing
  <1>3. \A l \in KLinks : KNew(l)'
    BY <1>1 DEF KInd, KNew
  <1>4. \A w \in KUsers : KUserOK(kuser'[w])
    BY <1>1 DEF KInd
  <1> QED
    BY <1>1, <1>2, <1>3, <1>4, QuietKeeps DEF KInd, KTyped

LEMMA LandKeeps == ASSUME KInd, NEW u \in KUsers, LinkFails(u) \/ KLand(u) PROVE KInd'
  <1>1. CASE LinkFails(u)
    <2> DEFINE x == [pc |-> "idle", link |-> 0, ref |-> 0]
    <2>1. x \in KCalls /\ KUserOK(x) /\ x.pc = "idle"
      BY DEF KCalls, KUserOK
    <2>2. /\ kuser' = [w \in KUsers |-> IF w = u \/ kuser[w].pc = "wait" THEN x ELSE kuser[w]]
          /\ kuser[u].pc = "make" /\ UNCHANGED <<kref, kclosed, kkind, kentry>>
      BY <1>1 DEF LinkFails
    <2> HIDE DEF x
    <2> QED
      BY <2>1, <2>2, FlightKeeps
  <1>2. CASE KLand(u)
    <2> DEFINE x == [pc |-> "acquire", link |-> kuser[u].link, ref |-> 1]
    <2>1. /\ kuser' = [w \in KUsers |-> IF w = u \/ kuser[w].pc = "wait" THEN x ELSE kuser[w]]
          /\ kuser[u].pc = "land" /\ UNCHANGED <<kref, kclosed, kkind, kentry>>
      BY <1>2 DEF KLand
    <2>2. x \in KCalls /\ KUserOK(x) /\ x.pc = "acquire" /\ x.link = kuser[u].link
      BY <2>1 DEF KCalls, KUserOK, KInd, KTyped
    <2> HIDE DEF x
    <2> QED
      BY <2>1, <2>2, FlightKeeps
  <1> QED
    BY <1>1, <1>2

\* A reference that is added to an open file counts one user more; one that is added to a
\* closed file leaves its counter below zero, with one more to be refused.
LEMMA AcquireKeeps == ASSUME KInd, NEW u \in KUsers, AcquireReference(u) PROVE KInd'
  <1>0. kuser[u].pc = "acquire" /\ kuser[u] \in KCalls /\ KUserOK(kuser[u])
    BY DEF AcquireReference, KInd, KTyped
  <1>l. PICK l0 \in KLinks : kuser[u].link = l0
    BY <1>0 DEF KUserOK, KCalls
  <1> DEFINE pc == IF kref[l0] + 1 > 0 THEN "use" ELSE "refused"
             x == [kuser[u] EXCEPT !.pc = pc]
  <1>1. /\ kuser[u].pc = "acquire" /\ kref' = [kref EXCEPT ![l0] = @ + 1] /\ kuser' = [kuser EXCEPT ![u] = x]
        /\ UNCHANGED <<kclosed, kentry, kkind>>
    BY <1>l DEF AcquireReference, KPc
  <1>2. kuser[u] \in KCalls /\ KUserOK(kuser[u]) /\ l0 \in KLinks /\ kref[l0] \in Int
    BY <1>0 DEF KInd, KTyped
  <1>3. x \in KCalls /\ x.pc = pc /\ x.link = l0
    BY <1>2, <1>l DEF KCalls
  <1> HIDE DEF x
  <1>4. kref' \in [KLinks -> Int] /\ \A l \in KLinks : kref'[l] = IF l = l0 THEN kref[l] + 1 ELSE kref[l]
    BY <1>1, <1>2 DEF KInd, KTyped
  <1>5. /\ kuser' \in [KUsers -> KCalls]
        /\ \A w \in KUsers : kuser'[w] = IF w = u THEN x ELSE kuser[w]
    BY <1>1, <1>3, OneUser DEF KInd
  <1>6. \A l : u \notin KUsing(l) /\ u \notin KRefused(l) /\ u \notin KClosing(l)
    BY <1>1 DEF KUsing, KRefused, KClosing
  <1>7. /\ \A l : KClosing(l)' = KClosing(l)
        /\ \A l : KUsing(l)' = IF l = l0 /\ pc = "use" THEN KUsing(l) \cup {u} ELSE KUsing(l)
        /\ \A l : KRefused(l)' = IF l = l0 /\ pc = "refused" THEN KRefused(l) \cup {u} ELSE KRefused(l)
    <2>1. /\ \A l : KUsing(l) \ {u} = KUsing(l) /\ KRefused(l) \ {u} = KRefused(l) /\ KClosing(l) \ {u} = KClosing(l)
      BY <1>6
    <2>2. \A l : KClosing(l)' = KClosing(l) \ {u}
      BY <1>1, <1>3, OneUser DEF KInd
    <2>3. \A l : KUsing(l)' = IF l = l0 /\ pc = "use" THEN KUsing(l) \cup {u} ELSE KUsing(l) \ {u}
      BY <1>1, <1>3, OneUser DEF KInd
    <2>4. \A l : KRefused(l)' = IF l = l0 /\ pc = "refused" THEN KRefused(l) \cup {u} ELSE KRefused(l) \ {u}
      BY <1>1, <1>3, OneUser DEF KInd
    <2> QED
      BY <2>1, <2>2, <2>3, <2>4
  <1>8. KOpen(l0) /\ KShut(l0) /\ KUsing(l0) \subseteq KUsers /\ KRefused(l0) \subseteq KUsers /\ closersClosed \in Int
    BY <1>2 DEF KInd, KUsing, KRefused, closersClosed
  <1>9. CASE kref[l0] >= 0
    <2>1. pc = "use" /\ Cardinality(KUsing(l0)') = kref'[l0] /\ kref'[l0] > 0
      BY <1>2, <1>4, <1>6, <1>7, <1>8, <1>9, UsersCount DEF KOpen
    <2> HIDE DEF pc
    <2>2. KOpen(l0)' /\ KShut(l0)' /\ KNew(l0)'
      BY <1>1, <1>2, <1>4, <1>7, <1>8, <1>9, <2>1 DEF KOpen, KShut, KNew
    <2>4. \A w \in KUsers : KUserOK(kuser[w])'
      <3>1. ASSUME NEW w \in KUsers, w # u PROVE KUserOK(kuser[w])'
        BY <1>2, <1>4, <1>5, <1>9, <3>1 DEF KInd, KUserOK, KTyped, KCalls
      <3>2. KUserOK(kuser[u])'
        BY <1>0, <1>3, <1>5, <1>l, <2>1 DEF KUserOK
      <3> QED
        BY <3>1, <3>2
    <2>5. \A l \in KLinks : l # l0 => KOpen(l)' /\ KShut(l)' /\ KNew(l)'
      BY <1>1, <1>2, <1>4, <1>5, <1>7, <1>l DEF KInd, KOpen, KShut, KNew
    <2> QED
      BY <1>1, <1>4, <1>5, <2>2, <2>4, <2>5 DEF KInd, KTyped
  <1>10. CASE kref[l0] < 0
    <2>1. /\ kref[l0] <= closersClosed + Cardinality(KRefused(l0))
          /\ Cardinality(KRefused(l0) \cup {u}) = Cardinality(KRefused(l0)) + 1
          /\ Cardinality(KRefused(l0) \cup {u}) <= Cardinality(KUsers)
          /\ Cardinality(KRefused(l0)) \in Nat /\ Cardinality(KUsers) \in Nat
      <3>1. KRefused(l0) \cup {u} \subseteq KUsers
        BY <1>8
      <3> QED
        BY <1>6, <1>8, <1>10, <3>1, UsersCount DEF KShut
    <2>2. kref[l0] + 1 < 0 /\ kref[l0] + 1 <= closersClosed + Cardinality(KRefused(l0) \cup {u})
      BY <1>2, <1>8, <2>1, KAssumption
    <2>3. pc = "refused"
      BY <1>2, <2>2
    <2> HIDE DEF pc
    <2>4. KOpen(l0)' /\ KShut(l0)' /\ KNew(l0)'
      BY <1>1, <1>2, <1>4, <1>7, <1>8, <1>10, <2>2, <2>3 DEF KOpen, KShut, KNew
    <2>5. \A w \in KUsers : KUserOK(kuser[w])'
      <3>1. ASSUME NEW w \in KUsers, w # u PROVE KUserOK(kuser[w])'
        BY <1>2, <1>4, <1>5, <2>2, <3>1 DEF KInd, KUserOK, KTyped, KCalls
      <3>2. KUserOK(kuser[u])'
        BY <1>0, <1>2, <1>3, <1>4, <1>5, <1>l, <2>2, <2>3 DEF KUserOK
      <3> QED
        BY <3>1, <3>2
    <2>6. \A l \in KLinks : l # l0 => KOpen(l)' /\ KShut(l)' /\ KNew(l)'
      BY <1>1, <1>2, <1>4, <1>5, <1>7, <1>l DEF KInd, KOpen, KShut, KNew
    <2> QED
      BY <1>1, <1>4, <1>5, <2>4, <2>5, <2>6 DEF KInd, KTyped
  <1> QED
    BY <1>2, <1>9, <1>10

\* A reference that was refused sets the counter of a closed file back.
LEMMA RefuseKeeps == ASSUME KInd, NEW u \in KUsers, AcquireRefused(u) PROVE KInd'
  <1>0. kuser[u].pc = "refused" /\ kuser[u] \in KCalls /\ KUserOK(kuser[u])
    BY DEF AcquireRefused, KInd, KTyped
  <1>l. PICK l0 \in KLinks : kuser[u].link = l0 /\ l0 # 0
    BY <1>0 DEF KUserOK, KCalls
  <1> DEFINE x == IF kkind THEN [pc |-> "fly", link |-> 0, ref |-> 0] ELSE [kuser[u] EXCEPT !.pc = "use"]
  <1>1. /\ kref' = [kref EXCEPT ![l0] = closersClosed] /\ kuser' = [kuser EXCEPT ![u] = x]
        /\ UNCHANGED <<kclosed, kentry, kkind>>
    BY <1>l DEF AcquireRefused, KGive, KPc
  <1>2. kref[l0] < 0 /\ closersClosed \in Int /\ closersClosed < 0
    BY <1>0, <1>l DEF KUserOK, closersClosed
  <1>3. /\ x \in KCalls
        /\ IF kkind THEN x.pc = "fly" /\ x.link = 0 ELSE x.pc = "use" /\ x.link = l0
    <2>1. CASE kkind
      BY <2>1 DEF KCalls
    <2>2. CASE ~kkind
      BY <1>0, <1>l, <2>2 DEF KCalls
    <2> QED
      BY <2>1, <2>2
  <1> HIDE DEF x
  <1>4. kref' \in [KLinks -> Int] /\ \A l \in KLinks : kref'[l] = IF l = l0 THEN closersClosed ELSE kref[l]
    BY <1>1, <1>2 DEF KInd, KTyped
  <1>5. /\ kuser' \in [KUsers -> KCalls]
        /\ \A w \in KUsers : kuser'[w] = IF w = u THEN x ELSE kuser[w]
    BY <1>1, <1>3, OneUser DEF KInd
  <1>7. /\ \A l \in KLinks : KUsing(l)' = IF l = l0 /\ ~kkind THEN KUsing(l) \cup {u} ELSE KUsing(l)
        /\ \A l \in KLinks : KRefused(l)' = KRefused(l) \ {u}
        /\ \A l \in KLinks : KClosing(l)' = KClosing(l)
    <2>1. \A l \in KLinks : KUsing(l) \ {u} = KUsing(l) /\ KClosing(l) \ {u} = KClosing(l)
      BY <1>0 DEF KUsing, KClosing
    <2>2. \A l \in KLinks : KUsing(l)' = IF l = l0 /\ ~kkind THEN KUsing(l) \cup {u} ELSE KUsing(l) \ {u}
      <3>1. \A l \in KLinks : KUsing(l)' = IF x.link = l /\ x.pc \in {"use", "again", "swap"} THEN KUsing(l) \cup {u} ELSE KUsing(l) \ {u}
        BY <1>1, <1>3, OneUser DEF KInd
      <3> QED
        BY <1>3, <1>l, <3>1
    <2>3. \A l \in KLinks : KRefused(l)' = KRefused(l) \ {u} /\ KClosing(l)' = KClosing(l) \ {u}
      BY <1>1, <1>3, OneUser DEF KInd
    <2> QED
      BY <2>1, <2>2, <2>3
  <1>8. KOpen(l0)' /\ KShut(l0)' /\ KNew(l0)'
    <2>1. Cardinality(KRefused(l0) \ {u}) \in Nat
      <3>1. KRefused(l0) \ {u} \subseteq KUsers
        BY DEF KRefused
      <3> QED
        BY <3>1, UsersCount
    <2>2. KShut(l0)'
      <3>1. KShut(l0)
        BY DEF KInd
      <3>2. kkind => KUsing(l0)' = {}
        BY <1>2, <1>7, <3>1 DEF KShut
      <3> QED
        <4>1. kref'[l0] = closersClosed /\ kkind' = kkind /\ KRefused(l0)' = KRefused(l0) \ {u}
          BY <1>1, <1>4, <1>7
        <4>2. kref'[l0] <= closersClosed + Cardinality(KRefused(l0)')
          BY <1>2, <2>1, <4>1
        <4>3. (kclosed'[l0] = 1 /\ KClosing(l0)' = {}) \/ (kclosed'[l0] = 0 /\ \E w \in KUsers : KClosing(l0)' = {w})
          BY <1>1, <1>2, <1>7, <3>1 DEF KShut
        <4> QED
          BY <3>2, <4>1, <4>2, <4>3 DEF KShut
    <2> QED
      BY <1>2, <1>4, <2>2 DEF KOpen, KNew
  <1>9. \A l \in KLinks : l # l0 => KRefused(l) \ {u} = KRefused(l)
    BY <1>l DEF KRefused
  <1>10. ASSUME NEW l \in KLinks, l # l0 PROVE KOpen(l)' /\ KShut(l)' /\ KNew(l)'
    <2>1. kref'[l] = kref[l] /\ KUsing(l)' = KUsing(l) /\ KRefused(l)' = KRefused(l) /\ KClosing(l)' = KClosing(l)
      BY <1>4, <1>7, <1>9, <1>10
    <2>2. KOpen(l)' /\ KShut(l)'
      BY <1>1, <2>1 DEF KInd, KOpen, KShut
    <2>3. KNew(l)'
      BY <1>0, <1>1, <1>5, <1>10, <2>1 DEF KInd, KNew
    <2> QED
      BY <2>2, <2>3
  <1>11. \A w \in KUsers : KUserOK(kuser[w])'
    <2>1. ASSUME NEW w \in KUsers, w # u PROVE KUserOK(kuser[w])'
      BY <1>2, <1>4, <1>5, <2>1 DEF KInd, KUserOK, KTyped, KCalls
    <2>2. KUserOK(kuser[u])'
      BY <1>3, <1>5, <1>l DEF KUserOK
    <2> QED
      BY <2>1, <2>2
  <1> QED
    BY <1>1, <1>4, <1>5, <1>8, <1>10, <1>11 DEF KInd, KTyped

LEMMA CloseLoadKeeps == ASSUME KInd, NEW u \in KUsers, CloseLoad(u) PROVE KInd'
  <1>0. kuser[u].pc \in {"use", "again"} /\ kuser[u] \in KCalls /\ KUserOK(kuser[u])
    BY DEF CloseLoad, KInd, KTyped
  <1>l. PICK l0 \in KLinks : kuser[u].link = l0 /\ l0 # 0
    BY <1>0 DEF KUserOK, KCalls
  <1> DEFINE x == IF kref[l0] < 0 THEN [pc |-> "idle", link |-> 0, ref |-> 0]
                  ELSE [kuser[u] EXCEPT !.pc = "swap", !.ref = kref[l0]]
  <1>1. kuser' = [kuser EXCEPT ![u] = x] /\ UNCHANGED <<kref, kclosed, kentry, kkind>>
    BY <1>l DEF CloseLoad
  <1>2. kref[l0] \in Int
    BY DEF KInd, KTyped
  <1>3. /\ x \in KCalls /\ KUserOK(x)
        /\ IF kref[l0] < 0 THEN x.pc = "idle" /\ x.link = 0 ELSE x.pc = "swap" /\ x.link = l0
    <2>1. CASE kref[l0] < 0
      BY <2>1 DEF KCalls, KUserOK
    <2>2. CASE ~(kref[l0] < 0)
      <3>1. x = [kuser[u] EXCEPT !.pc = "swap", !.ref = kref[l0]]
        BY <2>2
      <3>2. x \in KCalls /\ x.pc = "swap" /\ x.link = kuser[u].link /\ x.ref = kref[l0]
        <4> HIDE DEF x
        <4> QED
          BY <1>0, <1>2, <3>1 DEF KCalls
      <3> HIDE DEF x
      <3> QED
        BY <1>2, <1>l, <2>2, <3>2 DEF KUserOK
    <2> QED
      BY <2>1, <2>2
  <1> HIDE DEF x
  <1>5. /\ kuser' \in [KUsers -> KCalls]
        /\ \A w \in KUsers : kuser'[w] = IF w = u THEN x ELSE kuser[w]
    BY <1>1, <1>3, OneUser DEF KInd
  <1>7. /\ \A l \in KLinks : KUsing(l)' = IF l = l0 /\ kref[l] < 0 THEN KUsing(l) \ {u} ELSE KUsing(l)
        /\ \A l \in KLinks : KRefused(l)' = KRefused(l)
        /\ \A l \in KLinks : KClosing(l)' = KClosing(l)
    <2>1. \A l \in KLinks : KRefused(l) \ {u} = KRefused(l) /\ KClosing(l) \ {u} = KClosing(l)
      BY <1>0 DEF KRefused, KClosing
    <2>2. /\ \A l \in KLinks : l # l0 => KUsing(l) \ {u} = KUsing(l)
          /\ KUsing(l0) \cup {u} = KUsing(l0)
      BY <1>0, <1>l DEF KUsing
    <2>3. \A l \in KLinks : KUsing(l)' = IF l = l0 /\ ~(kref[l] < 0) THEN KUsing(l) \cup {u} ELSE KUsing(l) \ {u}
      <3>1. \A l \in KLinks : KUsing(l)' = IF x.link = l /\ x.pc \in {"use", "again", "swap"} THEN KUsing(l) \cup {u} ELSE KUsing(l) \ {u}
        BY <1>1, <1>3, OneUser DEF KInd
      <3> QED
        BY <1>3, <1>l, <3>1
    <2>4. \A l \in KLinks : KRefused(l)' = KRefused(l) \ {u} /\ KClosing(l)' = KClosing(l) \ {u}
      BY <1>1, <1>3, OneUser DEF KInd
    <2> QED
      BY <2>1, <2>2, <2>3, <2>4
  <1>8. \A l \in KLinks : KOpen(l)' /\ KShut(l)'
    BY <1>1, <1>7 DEF KInd, KTyped, KOpen, KShut
  <1>9. \A l \in KLinks : KNew(l)'
    BY <1>0, <1>1, <1>5 DEF KInd, KNew
  <1>10. \A w \in KUsers : KUserOK(kuser[w])'
    BY <1>1, <1>3, <1>5 DEF KInd, KUserOK
  <1> QED
    BY <1>1, <1>5, <1>8, <1>9, <1>10 DEF KInd, KTyped

\* The last reference that is swapped closes the file, the others are given back.
LEMMA CloseSwapKeeps == ASSUME KInd, NEW u \in KUsers, CloseSwap(u) PROVE KInd'
  <1>0. kuser[u].pc = "swap" /\ kuser[u] \in KCalls /\ KUserOK(kuser[u])
    BY DEF CloseSwap, KInd, KTyped
  <1>l. PICK l0 \in KLinks : kuser[u].link = l0 /\ l0 # 0
    BY <1>0 DEF KUserOK, KCalls
  <1> DEFINE r == kuser[u].ref
  <1>2. /\ r \in Nat /\ kref[l0] \in Int /\ closersClosed \in Int /\ closersClosed < 0
        /\ UNCHANGED <<kclosed, kentry, kkind>> /\ KOpen(l0) /\ KShut(l0)
    BY <1>0 DEF KUserOK, KInd, KTyped, CloseSwap, closersClosed
  <1>s. /\ u \in KUsing(l0) /\ \A l \in KLinks : u \notin KRefused(l) /\ u \notin KClosing(l) /\ (l # l0 => u \notin KUsing(l))
    BY <1>0, <1>l DEF KUsing, KRefused, KClosing
  <1>3. CASE kref[l0] # r
    <2> DEFINE x == [kuser[u] EXCEPT !.pc = "again"]
    <2>1. kuser' = [kuser EXCEPT ![u] = x] /\ kref' = kref
      BY <1>l, <1>3 DEF CloseSwap, KPc
    <2>2. x \in KCalls /\ x.pc = "again" /\ x.link = l0
      BY <1>0, <1>l DEF KCalls
    <2> HIDE DEF x
    <2>3. /\ kuser' \in [KUsers -> KCalls]
          /\ \A w \in KUsers : kuser'[w] = IF w = u THEN x ELSE kuser[w]
      BY <2>1, <2>2, OneUser DEF KInd
    <2>4. \A l : KUsing(l)' = KUsing(l) /\ KRefused(l)' = KRefused(l) /\ KClosing(l)' = KClosing(l)
      BY <1>0, <1>l, <2>2, <2>3 DEF KUsing, KRefused, KClosing
    <2>5. \A l \in KLinks : KNew(l)'
      BY <1>0, <1>2, <2>1, <2>3 DEF KInd, KNew
    <2>6. \A w \in KUsers : KUserOK(kuser'[w])
      BY <1>l, <2>2, <2>3 DEF KInd, KUserOK
    <2> QED
      BY <1>2, <2>1, <2>3, <2>4, <2>5, <2>6, QuietKeeps DEF KInd, KTyped
  <1>4. CASE kref[l0] = r
    <2> DEFINE last == ~(r > 1)
               x == IF last THEN [kuser[u] EXCEPT !.pc = "closing"] ELSE [pc |-> "idle", link |-> 0, ref |-> 0]
    <2>1. kuser' = [kuser EXCEPT ![u] = x] /\ kref' = [kref EXCEPT ![l0] = IF last THEN closersClosed ELSE r - 1]
      BY <1>l, <1>2, <1>4 DEF CloseSwap, KPc, KGive
    <2>2. x \in KCalls /\ IF last THEN x.pc = "closing" /\ x.link = l0 ELSE x.pc = "idle" /\ x.link = 0
      <3>1. CASE last
        BY <1>0, <1>l, <3>1 DEF KCalls
      <3>2. CASE ~last
        BY <3>2 DEF KCalls
      <3> QED
        BY <3>1, <3>2
    <2> HIDE DEF x
    <2>3. /\ kuser' \in [KUsers -> KCalls]
          /\ \A w \in KUsers : kuser'[w] = IF w = u THEN x ELSE kuser[w]
      BY <2>1, <2>2, OneUser DEF KInd
    <2>4. /\ kref' \in [KLinks -> Int]
          /\ \A l \in KLinks : kref'[l] = IF l # l0 THEN kref[l] ELSE IF last THEN closersClosed ELSE r - 1
      BY <1>2, <2>1 DEF KInd, KTyped
    <2>5. /\ \A l \in KLinks : KUsing(l)' = KUsing(l) \ {u}
          /\ \A l \in KLinks : KRefused(l)' = KRefused(l)
          /\ \A l \in KLinks : KClosing(l)' = IF l = l0 /\ last THEN KClosing(l) \cup {u} ELSE KClosing(l)
      <3>1. \A l \in KLinks : KUsing(l)' = KUsing(l) \ {u}
        BY <2>2, <2>3 DEF KUsing
      <3>2. \A l \in KLinks : KRefused(l)' = KRefused(l)
        BY <1>0, <2>2, <2>3 DEF KRefused
      <3>3. \A l \in KLinks : KClosing(l)' = IF l = l0 /\ last THEN KClosing(l) \cup {u} ELSE KClosing(l)
        BY <1>0, <1>l, <2>2, <2>3 DEF KClosing
      <3> QED
        BY <3>1, <3>2, <3>3
    <2>6. /\ kref[l0] = Cardinality(KUsing(l0)) /\ kclosed[l0] = 0 /\ KClosing(l0) = {}
          /\ Cardinality(KUsing(l0) \ {u}) = kref[l0] - 1 /\ Cardinality(KUsing(l0) \ {u}) \in Nat
          /\ (Cardinality(KUsing(l0) \ {u}) = 0 <=> KUsing(l0) \ {u} = {})
          /\ Cardinality(KRefused(l0)) \in Nat
      <3>1. KUsing(l0) \subseteq KUsers /\ KUsing(l0) \ {u} \subseteq KUsers /\ KRefused(l0) \subseteq KUsers
        BY DEF KUsing, KRefused
      <3>2. kref[l0] = Cardinality(KUsing(l0)) /\ kclosed[l0] = 0 /\ KClosing(l0) = {}
        BY <1>2, <1>4 DEF KOpen
      <3>3. Cardinality(KUsing(l0) \ {u}) = Cardinality(KUsing(l0)) - 1
        BY <1>s, <3>1, UsersCount
      <3>4. /\ Cardinality(KUsing(l0) \ {u}) \in Nat /\ Cardinality(KRefused(l0)) \in Nat
            /\ (Cardinality(KUsing(l0) \ {u}) = 0 <=> KUsing(l0) \ {u} = {})
        BY <3>1, UsersCount
      <3> QED
        BY <3>2, <3>3, <3>4
    <2>7. KOpen(l0)' /\ KShut(l0)' /\ KNew(l0)'
      <3>1. CASE last
        <4>1. KUsing(l0)' = {} /\ KClosing(l0)' = {u} /\ kref'[l0] = closersClosed
          BY <1>2, <1>4, <2>4, <2>5, <2>6, <3>1
        <4> QED
          BY <1>2, <2>5, <2>6, <4>1 DEF KOpen, KShut, KNew
      <3>2. CASE ~last
        BY <1>2, <1>4, <2>4, <2>5, <2>6, <3>2 DEF KOpen, KShut, KNew
      <3> QED
        BY <3>1, <3>2
    <2>8. ASSUME NEW l \in KLinks, l # l0 PROVE KOpen(l)' /\ KShut(l)' /\ KNew(l)'
      <3>1. kref'[l] = kref[l] /\ KUsing(l)' = KUsing(l) /\ KRefused(l)' = KRefused(l) /\ KClosing(l)' = KClosing(l)
        BY <1>s, <2>4, <2>5, <2>8
      <3>2. KOpen(l)' /\ KShut(l)'
        BY <1>2, <3>1 DEF KInd, KOpen, KShut
      <3>3. KNew(l)'
        <4>1. ASSUME NEW w \in KUsers, kuser[w].pc \in {"land", "acquire"} PROVE kuser'[w] = kuser[w]
          BY <1>0, <2>3, <4>1
        <4>2. KNew(l) /\ kentry' = kentry
          BY <1>2 DEF KInd
        <4>3. SUFFICES ASSUME kref'[l] = 0, l = kentry'
                       PROVE  \E w \in KUsers : kuser'[w].link = l /\ kuser'[w].pc \in {"land", "acquire"}
          BY DEF KNew
        <4>4. PICK w \in KUsers : kuser[w].link = l /\ kuser[w].pc \in {"land", "acquire"}
          BY <3>1, <4>2, <4>3 DEF KNew
        <4> QED
          BY <4>1, <4>4
      <3> QED
        BY <3>2, <3>3
    <2>9. \A w \in KUsers : KUserOK(kuser[w])'
      <3>1. ASSUME NEW w \in KUsers, w # u PROVE KUserOK(kuser[w])'
        <4>1. kuser'[w] = kuser[w] /\ KUserOK(kuser[w]) /\ kuser[w].link \in KLinks \cup {0}
          BY <2>3, <3>1 DEF KInd, KTyped, KCalls
        <4>2. kuser[w].pc = "refused" => kuser[w].link \in KLinks /\ kref[kuser[w].link] < 0
          BY <4>1 DEF KUserOK
        <4>3. kuser[w].pc = "refused" => kref'[kuser[w].link] < 0
          BY <1>2, <1>4, <2>4, <4>2
        <4> QED
          BY <4>1, <4>3 DEF KUserOK
      <3>2. KUserOK(kuser[u])'
        BY <1>l, <2>2, <2>3 DEF KUserOK
      <3> QED
        BY <3>1, <3>2
    <2> QED
      BY <1>2, <2>3, <2>4, <2>7, <2>8, <2>9 DEF KInd, KTyped
  <1> QED
    BY <1>3, <1>4

LEMMA CloseClosersKeeps == ASSUME KInd, NEW u \in KUsers, CloseClosers(u) PROVE KInd'
  <1>0. kuser[u].pc = "closing" /\ kuser[u] \in KCalls /\ KUserOK(kuser[u])
    BY DEF CloseClosers, KInd, KTyped
  <1>l. PICK l0 \in KLinks : kuser[u].link = l0 /\ l0 # 0
    BY <1>0 DEF KUserOK, KCalls
  <1> DEFINE x == [pc |-> "idle", link |-> 0, ref |-> 0]
  <1>1. /\ kclosed' = [kclosed EXCEPT ![l0] = @ + 1] /\ kuser' = [kuser EXCEPT ![u] = x]
        /\ UNCHANGED <<kref, kentry, kkind>>
    BY <1>l DEF CloseClosers, KGive
  <1>2. x \in KCalls /\ x.pc = "idle" /\ x.link = 0 /\ KUserOK(x)
    BY DEF KCalls, KUserOK
  <1> HIDE DEF x
  <1>3. /\ kuser' \in [KUsers -> KCalls]
        /\ \A w \in KUsers : kuser'[w] = IF w = u THEN x ELSE kuser[w]
    BY <1>1, <1>2, OneUser DEF KInd
  <1>4. kclosed' \in [KLinks -> Nat] /\ \A l \in KLinks : kclosed'[l] = IF l = l0 THEN kclosed[l] + 1 ELSE kclosed[l]
    BY <1>1 DEF KInd, KTyped
  <1>5. \A l \in KLinks : KUsing(l)' = KUsing(l) /\ KRefused(l)' = KRefused(l) /\ KClosing(l)' = KClosing(l) \ {u}
    <2>1. \A l \in KLinks : KUsing(l)' = KUsing(l) /\ KRefused(l)' = KRefused(l)
      BY <1>0, <1>2, <1>3 DEF KUsing, KRefused
    <2>2. \A l \in KLinks : KClosing(l)' = KClosing(l) \ {u}
      BY <1>2, <1>3 DEF KClosing
    <2> QED
      BY <2>1, <2>2
  <1>6. u \in KClosing(l0) /\ \A l \in KLinks : l # l0 => u \notin KClosing(l)
    BY <1>0, <1>l DEF KClosing
  <1>7. kref[l0] < 0 /\ kclosed[l0] = 0 /\ KClosing(l0) = {u}
    BY <1>6 DEF KInd, KTyped, KOpen, KShut
  <1>8. KOpen(l0)' /\ KShut(l0)'
    <2>1. KClosing(l0)' = {} /\ kclosed'[l0] = 1
      BY <1>4, <1>5, <1>7
    <2> QED
      BY <1>1, <1>5, <1>7, <2>1 DEF KInd, KOpen, KShut
  <1>9. ASSUME NEW l \in KLinks, l # l0 PROVE KOpen(l)' /\ KShut(l)'
    <2>1. kclosed'[l] = kclosed[l] /\ KClosing(l)' = KClosing(l)
      BY <1>4, <1>5, <1>6, <1>9
    <2> QED
      BY <1>1, <1>5, <2>1 DEF KInd, KOpen, KShut
  <1>10. \A l \in KLinks : KNew(l)'
    BY <1>0, <1>1, <1>3 DEF KInd, KNew
  <1>11. \A w \in KUsers : KUserOK(kuser[w])'
    BY <1>1, <1>2, <1>3 DEF KInd, KUserOK
  <1> QED
    BY <1>1, <1>3, <1>4, <1>8, <1>9, <1>10, <1>11 DEF KInd, KTyped

LEMMA LinksStart == ASSUME KInit PROVE KInd
  <1> USE DEF KInit
  <1>1. KTyped /\ \A u \in KUsers : KUserOK(kuser[u])
    BY DEF KTyped, KCalls, KUserOK
  <1>2. \A l : KUsing(l) = {} /\ KClosing(l) = {}
    BY DEF KUsing, KClosing
  <1>3. Cardinality({}) = 0
    BY FS_EmptySet
  <1>4. \A l \in KLinks : KOpen(l) /\ KShut(l) /\ KNew(l)
    BY <1>2, <1>3, KAssumption DEF KOpen, KShut, KNew
  <1> QED
    BY <1>1, <1>4 DEF KInd

LEMMA LinksStep == ASSUME KInd, [KNext]_linkVars PROVE KInd'
  <1>1. CASE DeleteKey
    <2>1. kentry' = 0 /\ UNCHANGED <<kref, kclosed, kuser, kkind>>
      BY <1>1 DEF DeleteKey
    <2>2. \A l : KUsing(l)' = KUsing(l) /\ KRefused(l)' = KRefused(l) /\ KClosing(l)' = KClosing(l)
      BY <2>1 DEF KUsing, KRefused, KClosing
    <2>3. \A l \in KLinks : KNew(l)'
      BY <2>1, KAssumption DEF KNew
    <2> QED
      BY <2>1, <2>2, <2>3, QuietKeeps DEF KInd, KTyped
  <1>2. ASSUME NEW u \in KUsers, GetType(u) \/ KStep(u) PROVE KInd'
    BY <1>2, GetTypeKeeps, FlyKeeps, MakeKeeps, LandKeeps, AcquireKeeps, RefuseKeeps, CloseLoadKeeps, CloseSwapKeeps,
       CloseClosersKeeps DEF KStep
  <1>3. CASE UNCHANGED linkVars
    <2>1. UNCHANGED <<kref, kclosed, kentry, kuser, kkind>>
      BY <1>3 DEF linkVars
    <2>2. \A l : KUsing(l)' = KUsing(l) /\ KRefused(l)' = KRefused(l) /\ KClosing(l)' = KClosing(l)
      BY <2>1 DEF KUsing, KRefused, KClosing
    <2>3. \A l \in KLinks : KNew(l)'
      BY <2>1 DEF KInd, KNew
    <2> QED
      BY <2>1, <2>2, <2>3, QuietKeeps DEF KInd, KTyped
  <1> QED
    BY <1>1, <1>2, <1>3 DEF KNext

(* A file that users share is open while one of them reads from it, is closed   *)
(* at most once, and has been closed when nobody uses or gets a link.           *)
THEOREM LinksAreShared == KSpec => []LinksSafe
  <1>1. KInit => KInd
    BY LinksStart
  <1>2. KInd /\ [KNext]_linkVars => KInd'
    BY LinksStep
  <1>3. ASSUME KInd PROVE LinksSafe
    <2>1. KOpenWhileUsed
      BY <1>3 DEF KInd, KTyped, KOpen, KShut, KOpenWhileUsed
    <2>2. \A l \in KLinks : kclosed[l] <= 1
      BY <1>3 DEF KInd, KTyped, KOpen, KShut
    <2>3. ASSUME \A u \in KUsers : kuser[u].pc = "idle", NEW l \in KMade PROVE kclosed[l] = 1
      <3>1. l \in KLinks /\ KUsing(l) = {} /\ KClosing(l) = {} /\ \A u \in KUsers : kuser[u].link = 0
        BY <1>3, <2>3 DEF KMade, KUsing, KClosing, KInd, KUserOK
      <3>2. kref[l] # 0 \/ l = kentry
        BY <3>1, KAssumption DEF KMade
      <3>3. ~(kref[l] >= 0)
        <4>1. Cardinality({}) = 0
          BY FS_EmptySet
        <4> QED
          BY <1>3, <2>3, <3>1, <3>2, <4>1 DEF KInd, KOpen, KNew
      <3> QED
        <4>1. KShut(l) /\ kref[l] < 0
          BY <1>3, <3>1, <3>3 DEF KInd, KTyped
        <4> QED
          BY <3>1, <4>1 DEF KShut
    <2> QED
      BY <2>1, <2>2, <2>3 DEF LinksSafe, KNoLeak
  <1> QED
    BY <1>1, <1>2, <1>3, PTL DEF KSpec

-----------------------------------------------------------------------------
IPcs == {"idle", "clear", "report", "cas", "begin", "walk", "leave", "wait", "ended"}
IRequests == [pc : IPcs, kind : {INone, "build", "update", "clear"}, start : DOMAIN ITree, walk : Seq(DOMAIN ITree)]
IConsumers == [pc : {"off", "run", "quit", "unset", "done"}, running : BOOLEAN, token : BOOLEAN, queue : SUBSET DOMAIN ITree]
ITyped ==
  /\ iquit \in IReqs \cup {INone} /\ iindex \subseteq DOMAIN ITree /\ idone \in BOOLEAN
  /\ ireq \in [IReqs -> IRequests] /\ icons \in [IReqs -> IConsumers]
  /\ istop \in IReqs \cup {INone} /\ iasked \subseteq IReqs /\ itorn \subseteq IReqs
  /\ iearly \in BOOLEAN /\ ifaults \in Nat

\* The walk goes through what is under the start of the build, and the members of a
\* directory before anything above them.
IWalkOK(start, walk) ==
  /\ \A j \in 1..Len(walk) : IsPrefix(start, walk[j])
  /\ \A i, j \in 1..Len(walk) : i < j =>
       /\ Len(start) < Len(walk[j]) /\ Len(walk[j]) <= Len(walk[i])
       /\ Len(walk[j]) = Len(walk[i]) => Front(walk[j]) = Front(walk[i])
IAhead(q, walk) == \E j \in 1..Len(walk) : IsPrefix(walk[j], q)

\* Where a build and its consumer can be, and where what the build is to index is by then.
IBuildOK(x, c, asked, early) ==
  /\ c.pc = "run" => c.running
  /\ c.pc # "run" /\ ~asked => c.queue = {}
  /\ x.pc \in {"idle", "clear", "cas"} => c = INoConsumer /\ ~asked
  /\ x.pc \in {"begin", "walk", "leave"} /\ ~asked => c.pc = "run" /\ ~c.token
  /\ x.pc = "begin" /\ asked => early
  /\ x.pc = "walk" => IWalkOK(x.start, x.walk)
IHeld(x, queue, index) ==
  x.kind # "clear" =>
    /\ x.pc = "walk" => \A q \in IWanted(x.start) : q \in index \cup queue \/ IAhead(q, x.walk)
    /\ x.pc \in {"leave", "wait"} => IWanted(x.start) \subseteq index \cup queue
    /\ x.pc \in {"report", "ended"} => IWanted(x.start) \subseteq index
IBuilds(r) ==
  /\ IBuildOK(ireq[r], icons[r], r \in iasked, iearly)
  /\ icons[r].pc \in {"run", "quit"} <=> iquit = r
  /\ r \notin iasked \cup itorn => IHeld(ireq[r], icons[r].queue, iindex)
IAsked == istop # INone => istop \in iasked
ISettled == ~idone /\ ~iearly => \E r \in IReqs : ireq[r].kind = "build" /\ icons[r].pc = "run"
IInd == ITyped /\ IAsked /\ ISettled /\ \A r \in IReqs : IBuilds(r)

-----------------------------------------------------------------------------
\* Paths: what is cut off a path is above it.
LEMMA PathCut ==
  ASSUME NEW S, NEW t \in Seq(S), NEW n \in 0..Len(t)
  PROVE  /\ SubSeq(t, 1, n) \in Seq(S) /\ Len(SubSeq(t, 1, n)) = n
         /\ \A i \in 1..n : SubSeq(t, 1, n)[i] = t[i]
  OBVIOUS

LEMMA PathEq ==
  ASSUME NEW S, NEW s \in Seq(S), NEW t \in Seq(S), Len(s) = Len(t), \A i \in 1..Len(s) : s[i] = t[i]
  PROVE  s = t
  OBVIOUS

LEMMA PathAbove ==
  ASSUME NEW S, NEW s \in Seq(S), NEW t \in Seq(S)
  PROVE  IsPrefix(s, t) <=> Len(s) <= Len(t) /\ \A i \in 1..Len(s) : s[i] = t[i]
  <1>1. ASSUME Len(s) <= Len(t) PROVE SubSeq(s, 1, Len(s)) = SubSeq(t, 1, Len(s)) <=> \A i \in 1..Len(s) : s[i] = t[i]
    <2>1. Len(s) \in 0..Len(s) /\ Len(s) \in 0..Len(t)
      BY <1>1
    <2>2. SubSeq(s, 1, Len(s)) \in Seq(S) /\ SubSeq(t, 1, Len(s)) \in Seq(S)
          /\ Len(SubSeq(s, 1, Len(s))) = Len(s) /\ Len(SubSeq(t, 1, Len(s))) = Len(s)
          /\ (\A i \in 1..Len(s) : SubSeq(s, 1, Len(s))[i] = s[i])
          /\ (\A i \in 1..Len(s) : SubSeq(t, 1, Len(s))[i] = t[i])
      BY <2>1, PathCut
    <2> HIDE <1>1
    <2> DEFINE a == SubSeq(s, 1, Len(s))  b == SubSeq(t, 1, Len(s))
    <2>3. (\A i \in 1..Len(s) : a[i] = b[i]) => a = b
      BY <2>2, PathEq
    <2> QED
      BY <2>2, <2>3
  <1> QED
    BY <1>1 DEF IsPrefix

LEMMA PathFront ==
  ASSUME NEW S, NEW t \in Seq(S), t # <<>>
  PROVE  /\ Front(t) \in Seq(S) /\ Len(Front(t)) = Len(t) - 1
         /\ \A i \in 1..(Len(t) - 1) : Front(t)[i] = t[i]
  <1>1. Len(t) - 1 \in 0..Len(t)
    OBVIOUS
  <1> QED
    BY <1>1, PathCut DEF Front

\* Two paths of one length above a third are the same.
LEMMA PathSame ==
  ASSUME NEW S, NEW s \in Seq(S), NEW t \in Seq(S), IsPrefix(s, t)
  PROVE  Len(s) \in 0..Len(t) /\ s = SubSeq(t, 1, Len(s))
  <1>1. Len(s) \in 0..Len(t) /\ \A i \in 1..Len(s) : s[i] = t[i]
    BY PathAbove
  <1>2. SubSeq(t, 1, Len(s)) \in Seq(S) /\ Len(SubSeq(t, 1, Len(s))) = Len(s) /\ \A i \in 1..Len(s) : SubSeq(t, 1, Len(s))[i] = t[i]
    BY <1>1, PathCut
  <1> QED
    BY <1>1, <1>2, PathEq

LEMMA TreePaths == /\ DOMAIN ITree \subseteq Seq(STRING) /\ <<>> \in DOMAIN ITree
                   /\ \A p \in DOMAIN ITree : Len(p) \in Nat
                   /\ \A p \in DOMAIN ITree, n \in Nat : n <= Len(p) => SubSeq(p, 1, n) \in DOMAIN ITree
  <1>1. DOMAIN ITree \subseteq Seq(STRING) /\ <<>> \in DOMAIN ITree
    BY IAssumption
  <1>2. ASSUME NEW p \in DOMAIN ITree, NEW n \in Nat, n <= Len(p) PROVE SubSeq(p, 1, n) \in DOMAIN ITree
    <2>1. CASE n < Len(p)
      <3>1. p \in Seq(STRING) /\ n \in 0..(Len(p) - 1)
        BY <1>1, <1>2, <2>1
      <3> QED
        BY <3>1, IAssumption
    <2>2. CASE n = Len(p)
      <3>1. p \in Seq(STRING)
        BY <1>1
      <3>2. SubSeq(p, 1, Len(p)) = p
        BY <3>1
      <3> QED
        BY <3>2, <2>2
    <2> QED
      <3>1. Len(p) \in Nat
        BY <1>1
      <3> QED
        BY <3>1, <1>2, <2>1, <2>2
  <1>3. \A p \in DOMAIN ITree : Len(p) \in Nat
    <2>1. ASSUME NEW p \in DOMAIN ITree PROVE Len(p) \in Nat
      <3>1. p \in Seq(STRING)
        BY <1>1
      <3> QED
        BY <3>1
    <2> QED
      BY <2>1
  <1> QED
    BY <1>1, <1>2, <1>3

\* What a directory of the tree contains, each of its members once.
LEMMA MembersAre ==
  ASSUME NEW p
  PROVE  /\ IMembers(p) \in Seq(DOMAIN ITree)
         /\ \A j \in 1..Len(IMembers(p)) : IMembers(p)[j] # <<>> /\ Front(IMembers(p)[j]) = p
         /\ \A c \in DOMAIN ITree : c # <<>> /\ Front(c) = p => \E j \in 1..Len(IMembers(p)) : IMembers(p)[j] = c
  <1> DEFINE S == {c \in DOMAIN ITree : c # <<>> /\ Front(c) = p}
             n == Cardinality(S)
             f == CHOOSE g \in [1..n -> S] : IsInjective(g)
  <1>1. IsFiniteSet(S)
    <2>1. S \in SUBSET (DOMAIN ITree) /\ IsFiniteSet(DOMAIN ITree)
      BY IAssumption
    <2> QED
      BY <2>1, FS_Subset
  <1> HIDE DEF S
  <1>2. n \in Nat /\ ExistsBijection(1..n, S)
    BY <1>1, FS_CardinalityType
  <1> HIDE DEF n
  <1>3. \E g \in [1..n -> S] : IsInjective(g)
    BY <1>2 DEF ExistsBijection, Bijection, Injection
  <1>4. f \in [1..n -> S] /\ IsInjective(f)
    BY <1>3
  <1>5. IMembers(p) = f
    BY DEF IMembers, SetToSeq, S, n
  <1> HIDE DEF f
  <1>6. f \in Surjection(1..n, S)
    <2>1. f \in Injection(1..n, S)
      BY <1>4 DEF Injection
    <2>2. Cardinality(1..n) = Cardinality(S) /\ IsFiniteSet(1..n)
      BY <1>2, FS_Interval DEF n
    <2> QED
      BY <2>1, <2>2, <1>1, FS_Injection
  <1>7. f \in Seq(S) /\ Len(f) = n /\ \A c \in S : \E j \in 1..n : f[j] = c
    BY <1>2, <1>4, <1>6 DEF Surjection
  <1>8. f \in Seq(DOMAIN ITree) /\ \A j \in 1..n : f[j] \in S
    BY <1>7 DEF S
  <1> QED
    BY <1>5, <1>7, <1>8 DEF S

-----------------------------------------------------------------------------
LEMMA Dropped ==
  ASSUME NEW S, NEW w \in Seq(S), NEW m \in 2..(Len(w) + 1)
  PROVE  /\ SubSeq(w, m, Len(w)) \in Seq(S) /\ Len(SubSeq(w, m, Len(w))) = Len(w) + 1 - m
         /\ \A j \in 1..(Len(w) + 1 - m) : SubSeq(w, m, Len(w))[j] = w[j + m - 1]
  OBVIOUS

LEMMA TailIs ==
  ASSUME NEW S, NEW w \in Seq(S), w # <<>>
  PROVE  /\ Len(w) \in Nat \ {0} /\ Tail(w) = SubSeq(w, 2, Len(w)) /\ 2 \in 2..(Len(w) + 1)
         /\ Tail(w) \in Seq(S)
  OBVIOUS

\* Where the elements of two joined sequences are, the first of the second left out.
LEMMA Joined ==
  ASSUME NEW S, NEW a \in Seq(S), NEW w \in Seq(S), w # <<>>
  PROVE  /\ Len(a) \in Nat /\ Len(w) \in Nat /\ 1 \in 1..Len(w) /\ Head(w) = w[1] /\ Head(w) \in S
         /\ a \o Tail(w) \in Seq(S) /\ Len(a \o Tail(w)) = Len(a) + Len(w) - 1
         /\ \A j \in 1..Len(a) : (a \o Tail(w))[j] = a[j] /\ j \in 1..Len(a \o Tail(w))
         /\ \A j \in (Len(a) + 1)..Len(a \o Tail(w)) : (a \o Tail(w))[j] = w[j - Len(a) + 1] /\ j - Len(a) + 1 \in 2..Len(w)
         /\ \A j \in 2..Len(w) : (a \o Tail(w))[j + Len(a) - 1] = w[j] /\ j + Len(a) - 1 \in 1..Len(a \o Tail(w))
  <1> DEFINE t == Tail(w)
             v == a \o t
  <1>1. /\ Len(a) \in Nat /\ Len(w) \in Nat /\ Len(w) > 0 /\ Head(w) = w[1] /\ Head(w) \in S
        /\ t \in Seq(S) /\ Len(t) = Len(w) - 1 /\ \A j \in 1..Len(t) : t[j] = w[j + 1]
    OBVIOUS
  <1> HIDE DEF t
  <1>2. /\ v \in Seq(S) /\ Len(v) = Len(a) + Len(t)
        /\ \A j \in 1..Len(v) : v[j] = IF j <= Len(a) THEN a[j] ELSE t[j - Len(a)]
    <2>1. t \in Seq(S)
      BY <1>1
    <2> HIDE <1>1
    <2>2. Len(v) = Len(a) + Len(t)
      BY <2>1
    <2>3. v \in Seq(S) /\ \A j \in 1..(Len(a) + Len(t)) : v[j] = IF j <= Len(a) THEN a[j] ELSE t[j - Len(a)]
      BY <2>1
    <2> HIDE DEF v
    <2> QED
      BY <2>2, <2>3
  <1> HIDE DEF v
  <1>3. 1 \in 1..Len(w) /\ v \in Seq(S) /\ Len(v) = Len(a) + Len(w) - 1
    BY <1>1, <1>2
  <1>4. \A j \in 1..Len(a) : v[j] = a[j] /\ j \in 1..Len(v)
    BY <1>1, <1>2
  <1>5. ASSUME NEW j \in (Len(a) + 1)..Len(v) PROVE v[j] = w[j - Len(a) + 1] /\ j - Len(a) + 1 \in 2..Len(w)
    <2>1. j \in 1..Len(v) /\ ~(j <= Len(a)) /\ j - Len(a) \in 1..Len(t) /\ j - Len(a) + 1 \in 2..Len(w)
      BY <1>1, <1>2
    <2>2. v[j] = t[j - Len(a)]
      BY <1>2, <2>1
    <2>3. t[j - Len(a)] = w[j - Len(a) + 1]
      BY <1>1, <2>1
    <2> QED
      BY <2>1, <2>2, <2>3
  <1>6. ASSUME NEW j \in 2..Len(w) PROVE v[j + Len(a) - 1] = w[j] /\ j + Len(a) - 1 \in 1..Len(v)
    <2>1. /\ j + Len(a) - 1 \in (Len(a) + 1)..Len(v) /\ (j + Len(a) - 1) - Len(a) + 1 = j
          /\ j + Len(a) - 1 \in 1..Len(v)
      BY <1>1, <1>3
    <2> QED
      BY <1>5, <2>1
  <1> QED
    BY <1>1, <1>3, <1>4, <1>5, <1>6 DEF v, t

LEMMA DropWalk ==
  ASSUME NEW start, NEW w \in Seq(DOMAIN ITree), IWalkOK(start, w), NEW m \in 2..(Len(w) + 1)
  PROVE  IWalkOK(start, SubSeq(w, m, Len(w)))
  <1> DEFINE v == SubSeq(w, m, Len(w))
             k == Len(w) + 1 - m
  <1>1. Len(v) = k /\ \A j \in 1..k : v[j] = w[j + m - 1]
    BY Dropped
  <1> HIDE DEF v
  <1>2. \A j \in 1..k : j + m - 1 \in 1..Len(w)
    OBVIOUS
  <1>3. \A i, j \in 1..k : i < j => i + m - 1 < j + m - 1
    OBVIOUS
  <1> HIDE DEF k
  <1>4. \A j \in 1..Len(v) : IsPrefix(start, v[j])
    BY <1>1, <1>2 DEF IWalkOK
  <1>5. ASSUME NEW i \in 1..Len(v), NEW j \in 1..Len(v), i < j
        PROVE  /\ Len(start) < Len(v[j]) /\ Len(v[j]) <= Len(v[i])
               /\ Len(v[j]) = Len(v[i]) => Front(v[j]) = Front(v[i])
    <2>1. PICK a \in 1..Len(w), b \in 1..Len(w) : a < b /\ v[i] = w[a] /\ v[j] = w[b]
      BY <1>1, <1>2, <1>3, <1>5
    <2> QED
      BY <2>1 DEF IWalkOK
  <1> QED
    BY <1>4, <1>5 DEF IWalkOK, v

\* SkipDir leaves out the first path, and if it is a file what follows down to the
\* first path that is higher up.
LEMMA RestIs ==
  ASSUME NEW w \in Seq(DOMAIN ITree), w # <<>>
  PROVE  \E m \in 2..(Len(w) + 1) :
           /\ IRest(w, Head(w)) = SubSeq(w, m, Len(w))
           /\ \A j \in 2..(m - 1) : IIsFile(w[1]) /\ ~(Len(w[j]) < Len(w[1]))
  <1> DEFINE p == w[1]
  <1>0. Head(w) = p /\ Len(w) \in Nat \ {0} /\ Tail(w) = SubSeq(w, 2, Len(w))
    OBVIOUS
  <1>1. CASE ~IIsFile(p)
    <2>1. IRest(w, p) = SubSeq(w, 2, Len(w))
      BY <1>0, <1>1 DEF IRest
    <2>2. 2 \in 2..(Len(w) + 1) /\ 2..(2 - 1) = {}
      BY <1>0
    <2> QED
      BY <1>0, <2>1, <2>2
  <1>2. CASE IIsFile(p) /\ IHigher(w, p) = {}
    <2>1. SubSeq(w, Len(w) + 1, Len(w)) = <<>>
      BY <1>0
    <2>2. IRest(w, p) = <<>>
      BY <1>2 DEF IRest
    <2>3. \A j \in 2..Len(w) : ~(Len(w[j]) < Len(w[1]))
      BY <1>2 DEF IHigher
    <2>4. Len(w) + 1 \in 2..(Len(w) + 1) /\ Len(w) + 1 - 1 = Len(w)
      BY <1>0
    <2>5. IRest(w, Head(w)) = SubSeq(w, Len(w) + 1, Len(w))
      BY <1>0, <2>1, <2>2
    <2>6. \A j \in 2..(Len(w) + 1 - 1) : IIsFile(w[1]) /\ ~(Len(w[j]) < Len(w[1]))
      BY <1>2, <2>3, <2>4
    <2> QED
      BY <2>4, <2>5, <2>6
  <1>3. CASE IIsFile(p) /\ IHigher(w, p) # {}
    <2> DEFINE up == IHigher(w, p)
               m == CHOOSE j \in up : \A k \in up : j <= k
    <2>1. up \subseteq Nat /\ up \subseteq 2..Len(w)
      BY DEF IHigher
    <2>2. m \in up /\ \A k \in up : m <= k
      BY <2>1, <1>3, SmallestOf
    <2>3. IRest(w, p) = SubSeq(w, m, Len(w))
      BY <1>3 DEF IRest
    <2> HIDE DEF m
    <2>4. m \in 2..Len(w)
      BY <2>1, <2>2
    <2>5. \A j \in 2..(m - 1) : ~(Len(w[j]) < Len(w[1]))
      <3>1. SUFFICES ASSUME NEW j \in 2..(m - 1), Len(w[j]) < Len(w[1]) PROVE FALSE
        OBVIOUS
      <3>2. j \in up
        BY <3>1, <2>4, <1>0 DEF IHigher
      <3> QED
        BY <3>1, <3>2, <2>2, <2>4
    <2> QED
      BY <1>0, <1>3, <2>3, <2>4, <2>5
  <1> QED
    BY <1>1, <1>2, <1>3

LEMMA RestKeeps ==
  ASSUME NEW start, NEW w \in Seq(DOMAIN ITree), w # <<>>, IWalkOK(start, w)
  PROVE  IRest(w, Head(w)) \in Seq(DOMAIN ITree) /\ IWalkOK(start, IRest(w, Head(w)))
  BY RestIs, Dropped, DropWalk

LEMMA HiddenBelow ==
  ASSUME NEW start \in DOMAIN ITree, NEW p \in DOMAIN ITree, NEW q \in DOMAIN ITree,
         IsPrefix(start, p), IsPrefix(p, q), p \in IIgnored
  PROVE  IHidden(start, q)
  <1>1. Len(p) \in 0..Len(q) /\ p = SubSeq(q, 1, Len(p))
    BY TreePaths, PathSame
  <1>2. Len(start) \in 0..Len(p) /\ Len(q) \in Nat
    BY TreePaths, PathSame
  <1>3. Len(p) \in Len(start)..Len(q)
    BY <1>1, <1>2
  <1> QED
    BY <1>1, <1>3 DEF IHidden

LEMMA HiddenBeside ==
  ASSUME NEW start \in DOMAIN ITree, NEW p \in DOMAIN ITree, NEW q \in DOMAIN ITree, NEW f \in IIgnored,
         IsPrefix(p, q), Len(start) < Len(p), IIsFile(f), Front(f) = Front(p)
  PROVE  IHidden(start, q)
  <1>1. Len(p) \in 0..Len(q) /\ p = SubSeq(q, 1, Len(p))
    BY TreePaths, PathSame
  <1>2. Len(start) \in Nat /\ Len(q) \in Nat
    BY TreePaths
  <1>3. Len(p) \in Len(start)..Len(q) /\ Len(p) > Len(start)
    BY <1>1, <1>2
  <1> QED
    BY <1>1, <1>3 DEF IHidden

\* What is wanted and was ahead of the walk is still ahead when an ignored path is
\* skipped.
LEMMA SkipKeeps ==
  ASSUME NEW start \in DOMAIN ITree, NEW w \in Seq(DOMAIN ITree), w # <<>>, IWalkOK(start, w),
         Head(w) \in IIgnored, NEW q \in IWanted(start), IAhead(q, w)
  PROVE  IAhead(q, IRest(w, Head(w)))
  <1>1. PICK m \in 2..(Len(w) + 1) :
           /\ IRest(w, Head(w)) = SubSeq(w, m, Len(w))
           /\ \A j \in 2..(m - 1) : IIsFile(w[1]) /\ ~(Len(w[j]) < Len(w[1]))
    BY RestIs
  <1>2. PICK j \in 1..Len(w) : IsPrefix(w[j], q)
    BY DEF IAhead
  <1>3. /\ q \in DOMAIN ITree /\ ~IHidden(start, q) /\ w[j] \in DOMAIN ITree /\ w[1] \in DOMAIN ITree
        /\ Head(w) = w[1] /\ 1 \in 1..Len(w) /\ IIgnored \subseteq DOMAIN ITree
    <2>1. q \in DOMAIN ITree /\ ~IHidden(start, q)
      BY DEF IWanted
    <2>2. w[j] \in DOMAIN ITree /\ w[1] \in DOMAIN ITree /\ Head(w) = w[1] /\ 1 \in 1..Len(w)
      OBVIOUS
    <2> QED
      BY <2>1, <2>2, IAssumption
  <1>4. j # 1
    BY <1>2, <1>3, HiddenBelow DEF IWalkOK
  <1>5. ~(j \in 2..(m - 1))
    <2>1. SUFFICES ASSUME j \in 2..(m - 1) PROVE FALSE
      OBVIOUS
    <2>2. /\ Len(start) < Len(w[j]) /\ Len(w[j]) <= Len(w[1])
          /\ Len(w[j]) = Len(w[1]) => Front(w[j]) = Front(w[1])
      BY <1>2, <1>3, <2>1 DEF IWalkOK
    <2>3. Len(w[j]) \in Nat /\ Len(w[1]) \in Nat
      BY <1>3, TreePaths
    <2>4. Len(w[j]) = Len(w[1]) /\ IIsFile(w[1])
      BY <1>1, <2>1, <2>2, <2>3
    <2> QED
      BY <1>2, <1>3, <2>2, <2>4, HiddenBeside
  <1>6. j - m + 1 \in 1..(Len(w) + 1 - m) /\ (j - m + 1) + m - 1 = j
    BY <1>4, <1>5
  <1>7. SubSeq(w, m, Len(w))[j - m + 1] = w[j] /\ Len(SubSeq(w, m, Len(w))) = Len(w) + 1 - m
    BY <1>6, Dropped
  <1> QED
    BY <1>1, <1>2, <1>6, <1>7 DEF IAhead

\* The members of a directory come before what is left of the walk.
LEMMA MembersWalk ==
  ASSUME NEW start \in DOMAIN ITree, NEW w \in Seq(DOMAIN ITree), w # <<>>, IWalkOK(start, w)
  PROVE  /\ IMembers(Head(w)) \o Tail(w) \in Seq(DOMAIN ITree)
         /\ IWalkOK(start, IMembers(Head(w)) \o Tail(w))
  <1> DEFINE p == Head(w)
             ms == IMembers(p)
             n == Len(ms)
             v == ms \o Tail(w)
  <1>1. /\ ms \in Seq(DOMAIN ITree)
        /\ \A j \in 1..n : ms[j] # <<>> /\ Front(ms[j]) = p
    BY MembersAre
  <1> HIDE DEF ms
  <1>2. /\ n \in Nat /\ p \in DOMAIN ITree /\ p = w[1] /\ Len(w) \in Nat /\ 1 \in 1..Len(w)
        /\ v \in Seq(DOMAIN ITree) /\ Len(v) = n + Len(w) - 1
        /\ \A j \in 1..n : v[j] = ms[j]
        /\ \A j \in (n + 1)..Len(v) : v[j] = w[j - n + 1] /\ j - n + 1 \in 2..Len(w)
    BY <1>1, Joined
  <1>3. \A j \in 1..n : v[j] \in DOMAIN ITree /\ v[j] # <<>> /\ Front(v[j]) = p /\ Len(v[j]) = Len(p) + 1
    <2>1. \A j \in 1..n : v[j] \in DOMAIN ITree /\ v[j] # <<>> /\ Front(v[j]) = p
      BY <1>1, <1>2
    <2>2. ASSUME NEW j \in 1..n PROVE Len(v[j]) = Len(p) + 1
      <3>1. v[j] \in Seq(STRING) /\ v[j] # <<>> /\ Front(v[j]) = p
        BY <2>1, TreePaths
      <3>2. Len(p) = Len(v[j]) - 1 /\ Len(v[j]) \in Nat
        BY <3>1, PathFront
      <3> QED
        BY <3>2
    <2> QED
      BY <2>1, <2>2
  <1>4. IsPrefix(start, p) /\ Len(p) \in Nat /\ Len(start) \in Nat /\ Len(start) <= Len(p)
    <2>1. IsPrefix(start, p)
      BY <1>2 DEF IWalkOK
    <2> QED
      BY <2>1, <1>2, TreePaths DEF IsPrefix
  <1> HIDE DEF p, v, n
  <1>5. \A j \in 1..Len(v) : IsPrefix(start, v[j])
    <2>1. ASSUME NEW j \in 1..n PROVE IsPrefix(start, v[j])
      <3>1. start \in Seq(STRING) /\ p \in Seq(STRING) /\ v[j] \in Seq(STRING) /\ v[j] # <<>> /\ Front(v[j]) = p
        BY <1>2, <1>3, TreePaths
      <3>2. Len(p) = Len(v[j]) - 1 /\ \A i \in 1..(Len(v[j]) - 1) : p[i] = v[j][i]
        BY <3>1, PathFront
      <3>3. \A i \in 1..Len(start) : start[i] = p[i]
        BY <1>4, <3>1, PathAbove
      <3>5. Len(v[j]) \in Nat /\ Len(v[j]) = Len(p) + 1
        BY <1>3, <3>1
      <3>4. Len(start) <= Len(v[j]) /\ \A i \in 1..Len(start) : start[i] = v[j][i]
        <4>1. Len(start) \in Nat /\ Len(p) \in Nat /\ Len(start) <= Len(p)
          BY <1>4
        <4>2. ASSUME NEW i \in 1..Len(start) PROVE start[i] = v[j][i]
          <5>1. i \in 1..(Len(v[j]) - 1)
            BY <3>5, <4>1, <4>2
          <5> QED
            BY <3>2, <3>3, <5>1
        <4>3. Len(start) <= Len(v[j])
          BY <3>5, <4>1
        <4> QED
          BY <4>2, <4>3
      <3> QED
        BY <3>1, <3>4, PathAbove
    <2>2. ASSUME NEW j \in (n + 1)..Len(v) PROVE IsPrefix(start, v[j])
      <3>1. PICK b \in 1..Len(w) : v[j] = w[b]
        <4>1. v[j] = w[j - n + 1] /\ j - n + 1 \in 2..Len(w)
          BY <1>2
        <4>2. PICK b \in 2..Len(w) : v[j] = w[b]
          BY <4>1
        <4>3. b \in 1..Len(w)
          OBVIOUS
        <4> QED
          BY <4>2, <4>3
      <3> QED
        BY <3>1 DEF IWalkOK
    <2>3. \A j \in 1..Len(v) : j \in 1..n \/ j \in (n + 1)..Len(v)
      BY <1>2
    <2> QED
      BY <2>1, <2>2, <2>3
  <1>6. ASSUME NEW i \in 1..Len(v), NEW j \in 1..Len(v), i < j
        PROVE  /\ Len(start) < Len(v[j]) /\ Len(v[j]) <= Len(v[i])
               /\ Len(v[j]) = Len(v[i]) => Front(v[j]) = Front(v[i])
    <2>1. CASE j \in 1..n
      <3>1. i \in 1..n
        BY <1>2, <1>6, <2>1
      <3>2. Len(v[i]) = Len(p) + 1 /\ Front(v[i]) = p /\ Len(v[j]) = Len(p) + 1 /\ Front(v[j]) = p
        BY <1>3, <2>1, <3>1
      <3> QED
        BY <1>4, <3>2
    <2>2. CASE j \in (n + 1)..Len(v) /\ i \in 1..n
      <3>1. PICK b \in 2..Len(w) : v[j] = w[b]
        BY <1>2, <2>2
      <3>4. 1 \in 1..Len(w) /\ b \in 1..Len(w) /\ 1 < b /\ w[1] = p
        BY <1>2, <3>1
      <3>2. Len(start) < Len(w[b]) /\ Len(w[b]) <= Len(p)
        BY <3>4 DEF IWalkOK
      <3>3. Len(w[b]) \in Nat
        <4>1. w[b] \in DOMAIN ITree
          BY <1>2, <3>1
        <4> QED
          BY <4>1, TreePaths
      <3> QED
        BY <1>3, <1>4, <2>2, <3>1, <3>2, <3>3
    <2>3. CASE j \in (n + 1)..Len(v) /\ i \in (n + 1)..Len(v)
      <3>3. i - n + 1 \in 2..Len(w) /\ j - n + 1 \in 2..Len(w) /\ v[i] = w[i - n + 1] /\ v[j] = w[j - n + 1]
        BY <1>2, <2>3
      <3>4. i - n + 1 < j - n + 1
        BY <1>2, <1>6
      <3>1. PICK a \in 2..Len(w), b \in 2..Len(w) : a < b /\ v[i] = w[a] /\ v[j] = w[b]
        BY <3>3, <3>4
      <3>2. a \in 1..Len(w) /\ b \in 1..Len(w)
        BY <1>2, <3>1
      <3> QED
        BY <3>1, <3>2 DEF IWalkOK
    <2> QED
      BY <1>2, <2>1, <2>2, <2>3
  <1> QED
    BY <1>2, <1>5, <1>6 DEF IWalkOK, v, p, ms

\* What is wanted and was ahead of the walk is the path that is visited, or still ahead.
LEMMA VisitKeeps ==
  ASSUME NEW w \in Seq(DOMAIN ITree), w # <<>>, NEW q \in DOMAIN ITree, IAhead(q, w)
  PROVE  q = Head(w) \/ IAhead(q, IMembers(Head(w)) \o Tail(w))
  <1> DEFINE p == Head(w)
             ms == IMembers(p)
             n == Len(ms)
             v == ms \o Tail(w)
  <1>1. /\ ms \in Seq(DOMAIN ITree)
        /\ \A c \in DOMAIN ITree : c # <<>> /\ Front(c) = p => \E j \in 1..n : ms[j] = c
    BY MembersAre
  <1> HIDE DEF ms
  <1>2. /\ n \in Nat /\ p \in DOMAIN ITree /\ p = w[1] /\ Len(w) \in Nat
        /\ Len(v) = n + Len(w) - 1
        /\ \A j \in 1..n : v[j] = ms[j] /\ j \in 1..Len(v)
        /\ \A j \in 2..Len(w) : v[j + n - 1] = w[j] /\ j + n - 1 \in 1..Len(v)
    BY <1>1, Joined
  <1> HIDE DEF p, v, n
  <1>3. PICK j \in 1..Len(w) : IsPrefix(w[j], q)
    BY DEF IAhead
  <1>4. CASE j # 1
    <2>1. j \in 2..Len(w)
      BY <1>4
    <2> QED
      BY <1>2, <1>3, <2>1 DEF IAhead, v, p, ms
  <1>5. CASE j = 1 /\ q # p
    <2>0. p \in Seq(STRING) /\ q \in Seq(STRING) /\ IsPrefix(p, q)
      BY <1>2, <1>3, <1>5, TreePaths
    <2>1. Len(p) <= Len(q) /\ (\A i \in 1..Len(p) : p[i] = q[i]) /\ Len(p) \in Nat /\ Len(q) \in Nat
      BY <2>0, PathAbove
    <2>2. Len(p) # Len(q)
      BY <2>0, <2>1, <1>5, PathEq
    <2> DEFINE m == Len(p) + 1
               c == SubSeq(q, 1, m)
    <2>3. m \in 0..Len(q) /\ m \in Nat /\ m <= Len(q)
      BY <2>1, <2>2
    <2>4. c \in DOMAIN ITree
      BY <2>3, TreePaths
    <2>5. c \in Seq(STRING) /\ Len(c) = m /\ \A i \in 1..m : c[i] = q[i]
      BY <2>0, <2>3, PathCut
    <2> HIDE DEF c
    <2>6. c # <<>> /\ m - 1 = Len(p)
      BY <2>1, <2>5
    <2>7. Front(c) \in Seq(STRING) /\ Len(Front(c)) = Len(p) /\ \A i \in 1..Len(p) : Front(c)[i] = c[i]
      BY <2>5, <2>6, PathFront
    <2>8. Front(c) = p
      <3>1. \A i \in 1..Len(p) : Front(c)[i] = p[i]
        BY <2>1, <2>5, <2>7
      <3> QED
        BY <2>0, <2>7, <3>1, PathEq
    <2>9. PICK k \in 1..n : ms[k] = c
      BY <1>1, <2>4, <2>6, <2>8
    <2>10. IsPrefix(c, q)
      BY <2>0, <2>3, <2>5, PathAbove
    <2> QED
      BY <1>2, <2>9, <2>10 DEF IAhead, v, p, ms
  <1> QED
    BY <1>4, <1>5 DEF p

-----------------------------------------------------------------------------
\* A step of one build and its consumer, or of one of them: what it does to the rest.
IMove(r, x, c) ==
  /\ x \in IRequests /\ c \in IConsumers
  /\ ireq' = [ireq EXCEPT ![r] = x] /\ icons' = [icons EXCEPT ![r] = c]
  /\ istop' = istop /\ iasked' = iasked /\ iearly' = iearly
  /\ itorn \subseteq itorn' /\ itorn' \subseteq IReqs
  /\ iindex \subseteq iindex' /\ iindex' \subseteq DOMAIN ITree
  /\ idone' \in BOOLEAN /\ ifaults' \in Nat
  /\ iquit' \in IReqs \cup {INone} /\ \A q \in IReqs \ {r} : iquit' = q <=> iquit = q
LEMMA MoveKeeps ==
  ASSUME IInd, NEW r \in IReqs, NEW x, NEW c, IMove(r, x, c),
         IBuildOK(x, c, r \in iasked, iearly), c.pc \in {"run", "quit"} <=> iquit' = r,
         r \notin iasked \cup itorn' => IHeld(x, c.queue, iindex'),
         ~idone' => ~idone \/ (x.kind = "build" /\ c.pc = "run") \/ iearly,
         ireq[r].kind = "build" /\ icons[r].pc = "run" => idone' \/ (x.kind = "build" /\ c.pc = "run")
  PROVE  IInd'
  <1>1. /\ ireq \in [IReqs -> IRequests] /\ icons \in [IReqs -> IConsumers]
        /\ ireq' = [ireq EXCEPT ![r] = x] /\ icons' = [icons EXCEPT ![r] = c]
        /\ x \in IRequests /\ c \in IConsumers
    BY DEF IInd, ITyped, IMove
  <1>2. /\ ireq' \in [IReqs -> IRequests] /\ icons' \in [IReqs -> IConsumers]
        /\ ireq'[r] = x /\ icons'[r] = c
        /\ \A q \in IReqs \ {r} : ireq'[q] = ireq[q] /\ icons'[q] = icons[q]
    BY <1>1
  <1>3. ITyped' /\ IAsked'
    BY <1>2 DEF IInd, ITyped, IAsked, IMove
  <1>4. ASSUME NEW q \in IReqs PROVE IBuilds(q)'
    <2>1. CASE q = r
      BY <1>2, <2>1 DEF IBuilds, IMove
    <2>2. CASE q # r
      <3>1. IBuilds(q) /\ ireq'[q] = ireq[q] /\ icons'[q] = icons[q] /\ (iquit' = q <=> iquit = q)
        BY <1>2, <2>2 DEF IInd, IMove
      <3>2. IBuildOK(ireq[q], icons[q], q \in iasked, iearly) /\ (icons[q].pc \in {"run", "quit"} <=> iquit = q)
        BY <3>1 DEF IBuilds
      <3>3. q \notin iasked \cup itorn' => IHeld(ireq[q], icons[q].queue, iindex')
        <4>1. SUFFICES ASSUME q \notin iasked \cup itorn' PROVE IHeld(ireq[q], icons[q].queue, iindex')
          OBVIOUS
        <4>2. IHeld(ireq[q], icons[q].queue, iindex) /\ iindex \subseteq iindex'
          BY <3>1, <4>1 DEF IMove, IBuilds
        <4> QED
          BY <4>2 DEF IHeld
      <3>4. IBuildOK(ireq'[q], icons'[q], q \in iasked', iearly') /\ (icons'[q].pc \in {"run", "quit"} <=> iquit' = q)
        BY <3>1, <3>2 DEF IMove
      <3>5. q \notin iasked' \cup itorn' => IHeld(ireq'[q], icons'[q].queue, iindex')
        BY <3>1, <3>3 DEF IMove
      <3> QED
        BY <3>4, <3>5 DEF IBuilds
    <2> QED
      BY <2>1, <2>2
  <1>5. ISettled'
    <2>1. SUFFICES ASSUME ~idone', ~iearly PROVE \E q \in IReqs : ireq'[q].kind = "build" /\ icons'[q].pc = "run"
      BY DEF ISettled, IMove
    <2>2. CASE x.kind = "build" /\ c.pc = "run"
      BY <1>2, <2>2
    <2>3. CASE ~(x.kind = "build" /\ c.pc = "run")
      <3>1. PICK q \in IReqs : ireq[q].kind = "build" /\ icons[q].pc = "run"
        BY <2>1, <2>3 DEF IInd, ISettled
      <3>2. q # r
        BY <2>1, <2>3, <3>1
      <3> QED
        BY <1>2, <3>1, <3>2
    <2> QED
      BY <2>2, <2>3
  <1> QED
    BY <1>3, <1>4, <1>5 DEF IInd

\* What the invariant says of one build.
LEMMA BuildIs ==
  ASSUME IInd, NEW r \in IReqs
  PROVE  /\ ireq[r] \in IRequests /\ icons[r] \in IConsumers
         /\ IBuildOK(ireq[r], icons[r], r \in iasked, iearly)
         /\ icons[r].pc \in {"run", "quit"} <=> iquit = r
         /\ r \notin iasked \cup itorn => IHeld(ireq[r], icons[r].queue, iindex)
         /\ ireq = [ireq EXCEPT ![r] = ireq[r]] /\ icons = [icons EXCEPT ![r] = icons[r]]
         /\ INone \notin IReqs
  <1>1. ireq \in [IReqs -> IRequests] /\ icons \in [IReqs -> IConsumers] /\ IBuilds(r)
    BY DEF IInd, ITyped
  <1> QED
    BY <1>1, IAssumption DEF IBuilds

\* What the two outcomes of a call do to the bookkeeping.
LEMMA FaultIs ==
  ASSUME IInd, NEW r \in IReqs, IFault(r) \/ INoFault
  PROVE  itorn \subseteq itorn' /\ itorn' \subseteq IReqs /\ ifaults' \in Nat /\ (IFault(r) => r \in itorn')
  BY IAssumption DEF IInd, ITyped, IFault, INoFault

\* Steps that only move the walker on.
LEMMA WalkerKeeps ==
  ASSUME IInd, NEW r \in IReqs, NEW pc \in IPcs, ITo(r, pc), IFault(r) \/ INoFault \/ (itorn' = itorn \cup {r} /\ ifaults' = ifaults),
         iquit' = iquit, iindex' = iindex, icons' = icons, istop' = istop, iasked' = iasked, iearly' = iearly, idone' \in BOOLEAN,
         ~idone' => ~idone,
         pc \in {"leave", "wait", "report", "ended"},
         pc = "leave" /\ r \notin iasked => icons[r].pc = "run" /\ ~icons[r].token,
         icons[r].pc # "run" /\ r \notin iasked => icons[r].queue = {},
         r \notin iasked \cup itorn' => IHeld([ireq[r] EXCEPT !.pc = pc], icons[r].queue, iindex)
  PROVE  IInd'
  <1> DEFINE x == [ireq[r] EXCEPT !.pc = pc]
  <1>1. /\ ireq[r] \in IRequests /\ icons[r] \in IConsumers /\ IBuildOK(ireq[r], icons[r], r \in iasked, iearly)
        /\ icons[r].pc \in {"run", "quit"} <=> iquit = r
        /\ icons = [icons EXCEPT ![r] = icons[r]]
    BY BuildIs
  <1>2. x \in IRequests /\ x.pc = pc /\ x.kind = ireq[r].kind
    BY <1>1 DEF IRequests
  <1>3. ireq' = [ireq EXCEPT ![r] = x]
    BY DEF ITo
  <1> HIDE DEF x
  <1>4. itorn \subseteq itorn' /\ itorn' \subseteq IReqs /\ ifaults' \in Nat
    BY FaultIs DEF IInd, ITyped
  <1>5. IMove(r, x, icons[r])
    BY <1>1, <1>2, <1>3, <1>4 DEF IMove, IInd, ITyped
  <1>6. IBuildOK(x, icons[r], r \in iasked, iearly)
    BY <1>1, <1>2 DEF IBuildOK
  <1> QED
    BY <1>1, <1>2, <1>5, <1>6, MoveKeeps DEF x

-----------------------------------------------------------------------------
\* The handlers, before and after the walk.
LEMMA RequestKeeps ==
  ASSUME IInd, NEW r \in IReqs, NEW kind \in {"build", "clear", "update"}, NEW start \in DOMAIN ITree,
         IRequest(r, kind, start)
  PROVE  IInd'
  <1> DEFINE x == [IIdle EXCEPT !.pc = "clear", !.kind = kind, !.start = start]
             c == icons[r]
  <1>1. /\ ireq[r] \in IRequests /\ c \in IConsumers /\ IBuildOK(ireq[r], c, r \in iasked, iearly)
        /\ (c.pc \in {"run", "quit"} <=> iquit = r) /\ icons = [icons EXCEPT ![r] = c]
    BY BuildIs
  <1>2. x \in IRequests /\ x.pc = "clear"
    <2>1. <<>> \in Seq(DOMAIN ITree) /\ "clear" \in IPcs /\ "idle" \in IPcs
      BY DEF IPcs
    <2>2. IIdle \in IRequests
      BY <2>1, TreePaths DEF IRequests, IIdle
    <2> QED
      BY <2>1, <2>2 DEF IRequests
  <1>3. ireq' = [ireq EXCEPT ![r] = x] /\ ireq[r].pc = "idle" /\ INoFault
    BY DEF IRequest, IFirst
  <1> HIDE DEF x
  <1>4. IMove(r, x, c)
    BY <1>1, <1>2, <1>3, FaultIs DEF IMove, IRequest, IInd, ITyped
  <1>5. c = INoConsumer /\ r \notin iasked
    BY <1>1, <1>3 DEF IBuildOK
  <1>6. IBuildOK(x, c, r \in iasked, iearly) /\ c.pc = "off"
    BY <1>2, <1>5 DEF IBuildOK, INoConsumer
  <1>7. IHeld(x, c.queue, iindex')
    BY <1>2 DEF IHeld
  <1>8. iquit' = iquit /\ idone' = idone
    BY DEF IRequest
  <1> QED
    BY <1>1, <1>4, <1>6, <1>7, <1>8, MoveKeeps

\* Clear is the only step that takes paths out of the index; every other build that
\* has begun is then torn.
LEMMA ClearKeepsIndex == ASSUME IInd, NEW r \in IReqs, IClear(r) PROVE IInd'
  <1>0. /\ ireq[r] \in IRequests /\ icons[r] \in IConsumers /\ IBuildOK(ireq[r], icons[r], r \in iasked, iearly)
        /\ (icons[r].pc \in {"run", "quit"} <=> iquit = r) /\ icons = [icons EXCEPT ![r] = icons[r]]
        /\ ireq[r].pc = "clear"
    BY BuildIs DEF IClear
  <1>1. icons[r] = INoConsumer /\ r \notin iasked
    BY <1>0 DEF IBuildOK
  <1> DEFINE out == IF ireq[r].kind = "clear" THEN "report" ELSE "cas"
             bad == IF ireq[r].kind = "clear" THEN "report" ELSE "ended"
  <1>2. CASE IFault(r) /\ ITo(r, bad) /\ UNCHANGED iindex
    <2>1. bad \in IPcs /\ bad \in {"leave", "wait", "report", "ended"} /\ bad # "leave"
      BY DEF IPcs
    <2>2. icons[r].queue = {} /\ r \in itorn'
      BY <1>1, <1>2, FaultIs DEF INoConsumer
    <2>3. /\ iquit' = iquit /\ iindex' = iindex /\ icons' = icons /\ istop' = istop /\ iasked' = iasked
          /\ iearly' = iearly /\ idone' = idone /\ idone \in BOOLEAN
      BY <1>2 DEF IClear, IInd, ITyped
    <2> HIDE DEF bad
    <2> QED
      BY <1>2, <2>1, <2>2, <2>3, WalkerKeeps
  <1>3. CASE ICut(r) /\ UNCHANGED ifaults /\ ITo(r, out)
    <2>1. /\ iquit' = iquit /\ icons' = icons /\ istop' = istop /\ iasked' = iasked /\ iearly' = iearly /\ idone' = idone
          /\ iindex' \subseteq iindex /\ itorn' = itorn \cup {q \in IReqs \ {r} : ireq[q].pc # "idle"}
      BY <1>3 DEF IClear, ICut
    <2> DEFINE x == [ireq[r] EXCEPT !.pc = out]
    <2>2. x \in IRequests /\ x.pc = out /\ x.kind = ireq[r].kind /\ ireq' = [ireq EXCEPT ![r] = x]
      BY <1>0, <1>3 DEF IRequests, ITo, IPcs
    <2>3. /\ ireq' \in [IReqs -> IRequests] /\ ireq'[r] = x
          /\ \A q \in IReqs \ {r} : ireq'[q] = ireq[q]
      BY <2>2 DEF IInd, ITyped
    <2> HIDE DEF x
    <2>4. ITyped' /\ IAsked'
      BY <2>1, <2>3, <1>3 DEF IInd, ITyped, IAsked
    <2>5. ISettled'
      BY <2>1, <2>2, <2>3 DEF IInd, ISettled
    <2>6. ASSUME NEW q \in IReqs PROVE IBuilds(q)'
      <3>1. CASE q = r
        <4>1. IBuildOK(x, icons[r], r \in iasked, iearly)
          BY <1>0, <1>1, <2>2 DEF IBuildOK
        <4>2. IHeld(x, icons[r].queue, iindex')
          BY <2>2 DEF IHeld
        <4> QED
          BY <1>0, <2>1, <2>3, <3>1, <4>1, <4>2 DEF IBuilds
      <3>2. CASE q # r
        <4>1. IBuilds(q) /\ ireq'[q] = ireq[q]
          BY <2>3, <3>2 DEF IInd
        <4>2. q \notin itorn' => IHeld(ireq[q], icons[q].queue, iindex')
          BY <2>1, <3>2 DEF IHeld
        <4> QED
          BY <2>1, <4>1, <4>2 DEF IBuilds
      <3> QED
        BY <3>1, <3>2
    <2> QED
      BY <2>4, <2>5, <2>6 DEF IInd
  <1> QED
    BY <1>2, <1>3 DEF IClear, ITo

LEMMA ReportKeeps == ASSUME IInd, NEW r \in IReqs, IReport(r) PROVE IInd'
  <1>1. /\ ireq[r] \in IRequests /\ IBuildOK(ireq[r], icons[r], r \in iasked, iearly)
        /\ r \notin iasked \cup itorn => IHeld(ireq[r], icons[r].queue, iindex)
    BY BuildIs
  <1>2. ireq[r].pc = "report" /\ ITo(r, "ended") /\ INoFault /\ idone' /\ idone' \in BOOLEAN
        /\ UNCHANGED <<iquit, iindex, icons, istop, iasked, iearly>>
    BY DEF IReport
  <1>3. r \notin iasked \cup itorn' => IHeld([ireq[r] EXCEPT !.pc = "ended"], icons[r].queue, iindex)
    BY <1>1, <1>2 DEF IHeld, IRequests, INoFault
  <1>4. icons[r].pc # "run" /\ r \notin iasked => icons[r].queue = {}
    BY <1>1 DEF IBuildOK
  <1> QED
    BY <1>2, <1>3, <1>4, WalkerKeeps DEF IPcs

LEMMA RefusedBuildKeeps == ASSUME IInd, NEW r \in IReqs, IRefused(r) PROVE IInd'
  <1>1. IBuildOK(ireq[r], icons[r], r \in iasked, iearly) /\ idone \in BOOLEAN
    BY BuildIs DEF IInd, ITyped
  <1>2. IAfter(r) \in {"report", "ended"} /\ IAfter(r) \in IPcs
    BY DEF IAfter, IPcs
  <1>3. icons[r].pc # "run" /\ r \notin iasked => icons[r].queue = {}
    BY <1>1 DEF IBuildOK
  <1>4. ITo(r, IAfter(r)) /\ itorn' = itorn \cup {r} /\ UNCHANGED <<iquit, iindex, idone, icons, istop, iasked, iearly, ifaults>>
    BY DEF IRefused
  <1> QED
    BY <1>1, <1>2, <1>3, <1>4, WalkerKeeps

\* The channel is taken, and the consumer runs before the walk begins.
LEMMA StartedKeeps == ASSUME IInd, NEW r \in IReqs, IStarted(r) PROVE IInd'
  <1> DEFINE x == [ireq[r] EXCEPT !.pc = "begin"]
             c == [INoConsumer EXCEPT !.pc = "run", !.running = TRUE]
  <1>1. /\ ireq[r] \in IRequests /\ icons[r] \in IConsumers /\ IBuildOK(ireq[r], icons[r], r \in iasked, iearly)
    BY BuildIs
  <1>2. /\ ireq[r].pc = "cas" /\ iquit = INone /\ iquit' = r /\ INoFault
        /\ ireq' = [ireq EXCEPT ![r] = x] /\ icons' = [icons EXCEPT ![r] = c]
        /\ UNCHANGED <<iindex, idone, istop, iasked, iearly>>
    BY DEF IStarted, ITo
  <1>3. x \in IRequests /\ x.pc = "begin" /\ x.kind = ireq[r].kind
    BY <1>1 DEF IRequests, IPcs
  <1>4. c \in IConsumers /\ c.pc = "run" /\ c.running = TRUE /\ c.token = FALSE
    BY DEF IConsumers, INoConsumer
  <1> HIDE DEF x, c
  <1>5. icons[r].pc = "off" /\ r \notin iasked
    BY <1>1, <1>2 DEF IBuildOK, INoConsumer
  <1>6. \A q \in IReqs \ {r} : iquit' = q <=> iquit = q
    BY <1>2, IAssumption
  <1>7. IMove(r, x, c)
    BY <1>2, <1>3, <1>4, <1>6, FaultIs DEF IMove, IInd, ITyped
  <1>8. IBuildOK(x, c, r \in iasked, iearly)
    BY <1>3, <1>4, <1>5 DEF IBuildOK
  <1>9. IHeld(x, c.queue, iindex')
    BY <1>3 DEF IHeld
  <1> QED
    BY <1>2, <1>4, <1>5, <1>7, <1>8, <1>9, MoveKeeps

\* The walk begins at the start of the build: all that is wanted is ahead of it.
LEMMA BeginKeeps == ASSUME IInd, NEW r \in IReqs, IBegin(r) PROVE IInd'
  <1>1. /\ ireq[r] \in IRequests /\ icons[r] \in IConsumers /\ IBuildOK(ireq[r], icons[r], r \in iasked, iearly)
        /\ (icons[r].pc \in {"run", "quit"} <=> iquit = r) /\ icons = [icons EXCEPT ![r] = icons[r]]
        /\ ireq[r].pc = "begin"
    BY BuildIs DEF IBegin
  <1>2. /\ iquit' = iquit /\ iindex' = iindex /\ icons' = icons /\ istop' = istop /\ iasked' = iasked /\ iearly' = iearly
        /\ (IFault(r) \/ INoFault) /\ idone' \in BOOLEAN /\ (~idone' => ~idone \/ ireq[r].kind = "build")
    BY DEF IBegin, IInd, ITyped
  <1>3. icons[r].pc = "run" \/ iearly
    BY <1>1 DEF IBuildOK
  <1> DEFINE start == ireq[r].start
  <1>4. \E x \in IRequests :
          /\ ireq' = [ireq EXCEPT ![r] = x] /\ x.kind = ireq[r].kind /\ x.start = start
          /\ \/ x.pc = "walk" /\ x.walk = <<start>>
             \/ x.pc = "leave" /\ IFault(r)
    <2>1. CASE ireq' = [ireq EXCEPT ![r].pc = "walk", ![r].walk = <<start>>]
      <3> DEFINE x == [ireq[r] EXCEPT !.pc = "walk", !.walk = <<start>>]
      <3>1. <<start>> \in Seq(DOMAIN ITree)
        BY <1>1 DEF IRequests
      <3>2. x \in IRequests /\ x.pc = "walk" /\ x.walk = <<start>> /\ x.kind = ireq[r].kind /\ x.start = start
        BY <1>1, <3>1 DEF IRequests, IPcs
      <3>3. ireq' = [ireq EXCEPT ![r] = x]
        BY <2>1, <1>1 DEF IInd, ITyped, IRequests
      <3> QED
        BY <3>2, <3>3
    <2>2. CASE IFault(r) /\ ITo(r, "leave")
      <3> DEFINE x == [ireq[r] EXCEPT !.pc = "leave"]
      <3>1. x \in IRequests /\ x.pc = "leave" /\ x.kind = ireq[r].kind /\ x.start = start /\ ireq' = [ireq EXCEPT ![r] = x]
        BY <1>1, <2>2 DEF IRequests, ITo, IPcs
      <3> QED
        BY <2>2, <3>1
    <2> QED
      BY <2>1, <2>2 DEF IBegin
  <1>5. PICK x \in IRequests :
          /\ ireq' = [ireq EXCEPT ![r] = x] /\ x.kind = ireq[r].kind /\ x.start = start
          /\ \/ x.pc = "walk" /\ x.walk = <<start>>
             \/ x.pc = "leave" /\ IFault(r)
    BY <1>4
  <1>6. itorn \subseteq itorn' /\ itorn' \subseteq IReqs /\ ifaults' \in Nat /\ (IFault(r) => r \in itorn')
    BY <1>2, FaultIs
  <1>7. IMove(r, x, icons[r])
    BY <1>1, <1>2, <1>5, <1>6 DEF IMove, IInd, ITyped
  <1>8. start \in DOMAIN ITree /\ start \in Seq(STRING)
    BY <1>1, TreePaths DEF IRequests
  <1>9. IsPrefix(start, start)
    BY <1>8, PathAbove
  <1> HIDE DEF start
  <1>10. x.pc = "walk" => IWalkOK(x.start, x.walk)
    <2>1. Len(<<start>>) = 1 /\ <<start>>[1] = start
      OBVIOUS
    <2> QED
      BY <1>5, <1>9, <2>1 DEF IWalkOK
  <1>11. IBuildOK(x, icons[r], r \in iasked, iearly)
    BY <1>1, <1>5, <1>10 DEF IBuildOK
  <1>12. r \notin iasked \cup itorn' => IHeld(x, icons[r].queue, iindex')
    <2>1. SUFFICES ASSUME r \notin itorn' PROVE IHeld(x, icons[r].queue, iindex')
      OBVIOUS
    <2>2. x.pc = "walk" /\ x.walk = <<start>>
      BY <1>5, <1>6, <2>1
    <2>3. ASSUME NEW q \in IWanted(start) PROVE IAhead(q, <<start>>)
      <3>1. IsPrefix(start, q) /\ Len(<<start>>) = 1 /\ <<start>>[1] = start
        BY DEF IWanted
      <3> QED
        BY <3>1 DEF IAhead
    <2> QED
      BY <1>5, <2>2, <2>3 DEF IHeld
  <1> QED
    BY <1>1, <1>2, <1>3, <1>5, <1>7, <1>11, <1>12, MoveKeeps

\* The walk goes on: it skips a path, or puts it into the queue and goes into it.
LEMMA VisitKeepsAll == ASSUME IInd, NEW r \in IReqs, IVisit(r) PROVE IInd'
  <1> DEFINE x0 == ireq[r]
             w == x0.walk
             p == Head(w)
             next == IMembers(p) \o Tail(w)
             queue == IF p = <<>> THEN icons[r].queue ELSE icons[r].queue \cup {p}
  <1>1. /\ x0 \in IRequests /\ icons[r] \in IConsumers /\ IBuildOK(x0, icons[r], r \in iasked, iearly)
        /\ (icons[r].pc \in {"run", "quit"} <=> iquit = r) /\ icons = [icons EXCEPT ![r] = icons[r]]
        /\ r \notin iasked \cup itorn => IHeld(x0, icons[r].queue, iindex)
        /\ x0.pc = "walk" /\ w # <<>>
    BY BuildIs DEF IVisit
  <1>2. w \in Seq(DOMAIN ITree) /\ IWalkOK(x0.start, w) /\ x0.start \in DOMAIN ITree /\ p \in DOMAIN ITree
    BY <1>1 DEF IRequests, IBuildOK
  <1>3. /\ iquit' = iquit /\ iindex' = iindex /\ istop' = istop /\ iasked' = iasked /\ iearly' = iearly /\ idone' = idone
        /\ IFault(r) \/ INoFault
    BY DEF IVisit
  <1>4. itorn \subseteq itorn' /\ itorn' \subseteq IReqs /\ ifaults' \in Nat /\ (IFault(r) => r \in itorn')
    BY <1>3, FaultIs
  <1>5. \E v, que :
          /\ ireq' = [ireq EXCEPT ![r] = [x0 EXCEPT !.walk = v]] /\ icons' = [icons EXCEPT ![r] = [icons[r] EXCEPT !.queue = que]]
          /\ \/ ISkips(r, p) /\ v = IRest(w, p) /\ que = icons[r].queue
             \/ v = next /\ que = queue
             \/ IFault(r) /\ v = Tail(w) /\ que = queue
    <2>1. CASE ISkips(r, p)
      <3>1. ireq' = [ireq EXCEPT ![r].walk = IRest(@, p)] /\ icons' = icons
        BY <2>1 DEF IVisit
      <3>2. icons[r] = [icons[r] EXCEPT !.queue = icons[r].queue]
        BY <1>1 DEF IConsumers
      <3>3. ireq' = [ireq EXCEPT ![r] = [x0 EXCEPT !.walk = IRest(w, p)]]
        BY <3>1
      <3>4. icons' = [icons EXCEPT ![r] = [icons[r] EXCEPT !.queue = icons[r].queue]]
        BY <3>1, <3>2, <1>1
      <3> QED
        BY <2>1, <3>3, <3>4
    <2>2. CASE ~ISkips(r, p)
      <3>1. icons' = [icons EXCEPT ![r].queue = IF p = <<>> THEN @ ELSE @ \cup {p}]
        BY <2>2 DEF IVisit
      <3>2. icons' = [icons EXCEPT ![r] = [icons[r] EXCEPT !.queue = queue]]
        BY <3>1
      <3>3. \/ ireq' = [ireq EXCEPT ![r].walk = IMembers(p) \o Tail(@)]
            \/ IFault(r) /\ ireq' = [ireq EXCEPT ![r].walk = Tail(@)]
        BY <2>2 DEF IVisit
      <3>4. \/ ireq' = [ireq EXCEPT ![r] = [x0 EXCEPT !.walk = next]]
            \/ IFault(r) /\ ireq' = [ireq EXCEPT ![r] = [x0 EXCEPT !.walk = Tail(w)]]
        BY <3>3
      <3> QED
        BY <3>2, <3>4
    <2> QED
      BY <2>1, <2>2
  <1>6. PICK v, que :
          /\ ireq' = [ireq EXCEPT ![r] = [x0 EXCEPT !.walk = v]] /\ icons' = [icons EXCEPT ![r] = [icons[r] EXCEPT !.queue = que]]
          /\ \/ ISkips(r, p) /\ v = IRest(w, p) /\ que = icons[r].queue
             \/ v = next /\ que = queue
             \/ IFault(r) /\ v = Tail(w) /\ que = queue
    BY <1>5
  <1>7. v \in Seq(DOMAIN ITree) /\ IWalkOK(x0.start, v)
    <2>1. CASE v = IRest(w, p)
      BY <1>1, <1>2, <2>1, RestKeeps
    <2>2. CASE v = next
      BY <1>1, <1>2, <2>2, MembersWalk
    <2>3. CASE v = Tail(w)
      <3>1. Len(w) \in Nat \ {0} /\ Tail(w) = SubSeq(w, 2, Len(w)) /\ 2 \in 2..(Len(w) + 1) /\ Tail(w) \in Seq(DOMAIN ITree)
        BY <1>1, <1>2, TailIs
      <3> QED
        BY <1>2, <2>3, <3>1, DropWalk
    <2> QED
      BY <1>6, <2>1, <2>2, <2>3
  <1>8. que \subseteq DOMAIN ITree /\ icons[r].queue \subseteq que
    BY <1>1, <1>2, <1>6 DEF IConsumers
  <1> DEFINE x == [x0 EXCEPT !.walk = v]
             c == [icons[r] EXCEPT !.queue = que]
  <1>9. /\ x \in IRequests /\ x.pc = "walk" /\ x.kind = x0.kind /\ x.start = x0.start /\ x.walk = v
    BY <1>1, <1>7 DEF IRequests
  <1>10. /\ c \in IConsumers /\ c.pc = icons[r].pc /\ c.running = icons[r].running /\ c.token = icons[r].token /\ c.queue = que
    BY <1>1, <1>8 DEF IConsumers
  <1>11. ireq' = [ireq EXCEPT ![r] = x] /\ icons' = [icons EXCEPT ![r] = c]
    BY <1>6
  <1> HIDE DEF x, c
  <1>12. IMove(r, x, c)
    BY <1>3, <1>4, <1>9, <1>10, <1>11 DEF IMove, IInd, ITyped
  <1>13. IBuildOK(x, c, r \in iasked, iearly)
    BY <1>1, <1>7, <1>9, <1>10 DEF IBuildOK
  <1>14. r \notin iasked \cup itorn' => IHeld(x, que, iindex')
    <2>1. SUFFICES ASSUME r \notin iasked, r \notin itorn', x0.kind # "clear", NEW q \in IWanted(x0.start)
                   PROVE  q \in iindex \cup que \/ IAhead(q, v)
      BY <1>3, <1>9 DEF IHeld
    <2>2. q \in iindex \cup icons[r].queue \/ IAhead(q, w)
      BY <1>1, <1>4, <2>1 DEF IHeld
    <2>3. q \in DOMAIN ITree /\ q # <<>>
      BY DEF IWanted
    <2>4. SUFFICES ASSUME IAhead(q, w) PROVE q \in que \/ IAhead(q, v)
      BY <1>8, <2>2
    <2>5. CASE ISkips(r, p) /\ v = IRest(w, p)
      <3>1. icons[r].running
        BY <1>1, <2>1 DEF IBuildOK
      <3>2. p \in IIgnored
        BY <2>5, <3>1 DEF ISkips
      <3> QED
        BY <1>1, <1>2, <2>4, <2>5, <3>2, SkipKeeps
    <2>6. CASE v = next /\ que = queue
      <3>1. q = p \/ IAhead(q, next)
        BY <1>1, <1>2, <2>3, <2>4, VisitKeeps
      <3> QED
        BY <2>3, <2>6, <3>1
    <2> QED
      BY <1>4, <1>6, <2>1, <2>5, <2>6
  <1> QED
    BY <1>1, <1>3, <1>9, <1>10, <1>12, <1>13, <1>14, MoveKeeps
\* With the walk over, all that is wanted is queued or in the index.
LEMMA WalkedKeeps == ASSUME IInd, NEW r \in IReqs, IWalked(r) PROVE IInd'
  <1>1. /\ ireq[r] \in IRequests /\ IBuildOK(ireq[r], icons[r], r \in iasked, iearly)
        /\ r \notin iasked \cup itorn => IHeld(ireq[r], icons[r].queue, iindex)
        /\ idone \in BOOLEAN
    BY BuildIs DEF IInd, ITyped
  <1>2. ireq[r].pc = "walk" /\ ireq[r].walk = <<>> /\ ITo(r, "leave") /\ INoFault
        /\ UNCHANGED <<iquit, iindex, idone, icons, istop, iasked, iearly>>
    BY DEF IWalked
  <1>3. \A q : ~IAhead(q, <<>>)
    BY DEF IAhead
  <1>4. r \notin iasked \cup itorn' => IHeld([ireq[r] EXCEPT !.pc = "leave"], icons[r].queue, iindex)
    <2> DEFINE x == [ireq[r] EXCEPT !.pc = "leave"]
    <2>1. x.pc = "leave" /\ x.kind = ireq[r].kind /\ x.start = ireq[r].start
      BY <1>1 DEF IRequests
    <2> HIDE DEF x
    <2>2. r \notin iasked \cup itorn' => IHeld(x, icons[r].queue, iindex)
      BY <1>1, <1>2, <1>3, <2>1 DEF IHeld, INoFault
    <2> QED
      BY <2>2 DEF x
  <1>5. (r \notin iasked => icons[r].pc = "run" /\ ~icons[r].token) /\ (icons[r].pc # "run" /\ r \notin iasked => icons[r].queue = {})
    BY <1>1, <1>2 DEF IBuildOK
  <1> QED
    BY <1>1, <1>2, <1>4, <1>5, WalkerKeeps DEF IPcs

\* The walker goes past its consumer only when it was stopped; it waits otherwise.
LEMMA LeaveKeeps == ASSUME IInd, NEW r \in IReqs, ILeave(r) PROVE IInd'
  <1>1. /\ ireq[r] \in IRequests /\ icons[r] \in IConsumers /\ IBuildOK(ireq[r], icons[r], r \in iasked, iearly)
        /\ (icons[r].pc \in {"run", "quit"} <=> iquit = r)
        /\ r \notin iasked \cup itorn => IHeld(ireq[r], icons[r].queue, iindex)
        /\ idone \in BOOLEAN /\ ireq[r].pc = "leave" /\ INoFault
    BY BuildIs DEF IInd, ITyped, ILeave
  <1>2. /\ iquit' = iquit /\ iindex' = iindex /\ istop' = istop /\ iasked' = iasked /\ iearly' = iearly /\ idone' = idone
    BY DEF ILeave
  <1>3. CASE ~icons[r].running \/ iquit # r
    <2>1. r \in iasked
      BY <1>1, <1>3 DEF IBuildOK
    <2>2. ITo(r, IAfter(r)) /\ icons' = icons
      BY <1>3 DEF ILeave
    <2>3. IAfter(r) \in {"report", "ended"} /\ IAfter(r) \in IPcs
      BY DEF IAfter, IPcs
    <2> QED
      BY <1>1, <1>2, <2>1, <2>2, <2>3, WalkerKeeps
  <1>4. CASE ~(~icons[r].running \/ iquit # r)
    <2> DEFINE x == [ireq[r] EXCEPT !.pc = "wait"]
               c == [icons[r] EXCEPT !.token = TRUE]
    <2>1. ireq' = [ireq EXCEPT ![r] = x] /\ icons' = [icons EXCEPT ![r] = c]
      BY <1>4 DEF ILeave, ITo
    <2>2. x \in IRequests /\ x.pc = "wait" /\ x.kind = ireq[r].kind /\ x.start = ireq[r].start
      BY <1>1 DEF IRequests, IPcs
    <2>3. c \in IConsumers /\ c.pc = icons[r].pc /\ c.running = icons[r].running /\ c.queue = icons[r].queue
      BY <1>1 DEF IConsumers
    <2> HIDE DEF x, c
    <2>4. IMove(r, x, c)
      BY <1>1, <1>2, <2>1, <2>2, <2>3, FaultIs DEF IMove, IInd, ITyped
    <2>5. IBuildOK(x, c, r \in iasked, iearly)
      BY <1>1, <2>2, <2>3 DEF IBuildOK
    <2>6. r \notin iasked \cup itorn' => IHeld(x, c.queue, iindex')
      BY <1>1, <1>2, <2>2, <2>3 DEF IHeld, INoFault
    <2> QED
      BY <1>1, <1>2, <2>2, <2>3, <2>4, <2>5, <2>6, MoveKeeps
  <1> QED
    BY <1>3, <1>4

\* A consumer that has gone has left nothing in the queue.
LEMMA WaitedKeeps == ASSUME IInd, NEW r \in IReqs, IWaited(r) PROVE IInd'
  <1>1. /\ ireq[r] \in IRequests /\ IBuildOK(ireq[r], icons[r], r \in iasked, iearly)
        /\ r \notin iasked \cup itorn => IHeld(ireq[r], icons[r].queue, iindex)
        /\ idone \in BOOLEAN
    BY BuildIs DEF IInd, ITyped
  <1>2. ireq[r].pc = "wait" /\ icons[r].pc # "run" /\ ITo(r, IAfter(r)) /\ INoFault
        /\ UNCHANGED <<iquit, iindex, idone, icons, istop, iasked, iearly>>
    BY DEF IWaited
  <1>3. IAfter(r) \in {"report", "ended"} /\ IAfter(r) \in IPcs
    BY DEF IAfter, IPcs
  <1>4. icons[r].pc # "run" /\ r \notin iasked => icons[r].queue = {}
    BY <1>1 DEF IBuildOK
  <1> DEFINE x == [ireq[r] EXCEPT !.pc = IAfter(r)]
  <1>5. x.pc = IAfter(r) /\ x.kind = ireq[r].kind /\ x.start = ireq[r].start
    BY <1>1 DEF IRequests
  <1>6. r \notin iasked \cup itorn' => IHeld(x, icons[r].queue, iindex)
    <2> HIDE DEF x
    <2> QED
      BY <1>1, <1>2, <1>3, <1>4, <1>5 DEF IHeld, INoFault
  <1> QED
    BY <1>1, <1>2, <1>3, <1>4, <1>6, WalkerKeeps

-----------------------------------------------------------------------------
\* The consumer writes what is queued, or loses it when the index fails.
LEMMA BatchKeeps ==
  ASSUME IInd, NEW r \in IReqs, NEW pc \in {"run", "quit"}, icons[r].pc = "run", pc = "quit" => icons[r].token, IBatch(r, pc),
         UNCHANGED <<iquit, ireq, istop, iasked, iearly>>, IProgress(r, pc = "quit")
  PROVE  IInd'
  <1> DEFINE c == [icons[r] EXCEPT !.pc = pc, !.queue = {}]
  <1>1. /\ ireq[r] \in IRequests /\ icons[r] \in IConsumers /\ IBuildOK(ireq[r], icons[r], r \in iasked, iearly)
        /\ (icons[r].pc \in {"run", "quit"} <=> iquit = r) /\ ireq = [ireq EXCEPT ![r] = ireq[r]]
        /\ r \notin iasked \cup itorn => IHeld(ireq[r], icons[r].queue, iindex)
    BY BuildIs
  <1>2. c \in IConsumers /\ c.pc = pc /\ c.running = icons[r].running /\ c.token = icons[r].token /\ c.queue = {}
    BY <1>1 DEF IConsumers
  <1>3. icons' = [icons EXCEPT ![r] = c]
    BY <1>1 DEF IBatch, IInd, ITyped, IConsumers
  <1> HIDE DEF c
  <1>4. IFault(r) \/ INoFault
    BY DEF IBatch
  <1>5. itorn \subseteq itorn' /\ itorn' \subseteq IReqs /\ ifaults' \in Nat /\ (IFault(r) => r \in itorn')
    BY <1>4, FaultIs
  <1>6. iindex \subseteq iindex' /\ iindex' \subseteq DOMAIN ITree /\ (r \notin itorn' => iindex' = iindex \cup icons[r].queue)
    BY <1>1, <1>5 DEF IBatch, IInd, ITyped, IConsumers
  <1>7. idone' \in BOOLEAN /\ (~idone' => ~idone \/ (ireq[r].kind = "build" /\ pc = "run")) /\ (ireq[r].kind = "build" => (idone' <=> pc = "quit"))
    BY DEF IProgress, IInd, ITyped
  <1>8. IMove(r, ireq[r], c)
    BY <1>1, <1>2, <1>3, <1>5, <1>6, <1>7 DEF IMove, IInd, ITyped
  <1>9. IBuildOK(ireq[r], c, r \in iasked, iearly)
    BY <1>1, <1>2 DEF IBuildOK, INoConsumer
  <1>10. r \notin iasked \cup itorn' => IHeld(ireq[r], c.queue, iindex')
    BY <1>1, <1>2, <1>5, <1>6 DEF IHeld
  <1>11. iquit' = iquit
    OBVIOUS
  <1> QED
    BY <1>1, <1>2, <1>7, <1>8, <1>9, <1>10, <1>11, MoveKeeps

LEMMA TickKeeps == ASSUME IInd, NEW r \in IReqs, ITick(r) \/ IQuits(r) PROVE IInd'
  <1>1. CASE ITick(r)
    BY <1>1, BatchKeeps DEF ITick, IProgress
  <1>2. CASE IQuits(r)
    BY <1>2, BatchKeeps DEF IQuits, IQuitBatch, IProgress
  <1> QED
    BY <1>1, <1>2

\* The consumer goes: only then may the next build take the channel.
LEMMA UnsetKeeps == ASSUME IInd, NEW r \in IReqs, IUnset(r) \/ IConsumed(r) PROVE IInd'
  <1>1. /\ ireq[r] \in IRequests /\ icons[r] \in IConsumers /\ IBuildOK(ireq[r], icons[r], r \in iasked, iearly)
        /\ (icons[r].pc \in {"run", "quit"} <=> iquit = r) /\ ireq = [ireq EXCEPT ![r] = ireq[r]] /\ INone \notin IReqs
        /\ r \notin iasked \cup itorn => IHeld(ireq[r], icons[r].queue, iindex)
    BY BuildIs
  <1>2. /\ iindex' = iindex /\ istop' = istop /\ iasked' = iasked /\ iearly' = iearly /\ idone' = idone /\ ireq' = ireq /\ INoFault
    BY DEF IUnset, IConsumed
  <1>3. /\ icons[r].pc \in {"quit", "unset", "done"}
        /\ iquit' \in {iquit, INone} /\ (icons[r].pc = "quit" => iquit' = INone) /\ (icons[r].pc # "quit" => iquit' = iquit)
        /\ \/ icons' = [icons EXCEPT ![r].pc = "unset"]
           \/ icons' = [icons EXCEPT ![r].pc = "done"]
           \/ icons' = [icons EXCEPT ![r] = INoConsumer]
    BY DEF IUnset, IConsumed
  <1>4. PICK c \in IConsumers : icons' = [icons EXCEPT ![r] = c] /\ c.pc \in {"unset", "done", "off"} /\ c.queue \in {{}, icons[r].queue}
    <2>1. INoConsumer \in IConsumers /\ INoConsumer.pc = "off" /\ INoConsumer.queue = {}
      BY DEF INoConsumer, IConsumers
    <2>2. ASSUME NEW pc \in {"unset", "done"}
          PROVE  [icons[r] EXCEPT !.pc = pc] \in IConsumers /\ [icons[r] EXCEPT !.pc = pc].pc = pc
                 /\ [icons[r] EXCEPT !.pc = pc].queue = icons[r].queue
      BY <1>1 DEF IConsumers
    <2> QED
      BY <1>3, <2>1, <2>2
  <1>5. IMove(r, ireq[r], c)
    <2>1. \A q \in IReqs \ {r} : iquit' = q <=> iquit = q
      BY <1>1, <1>3
    <2> QED
      BY <1>1, <1>2, <1>3, <1>4, <2>1, FaultIs DEF IMove, IInd, ITyped
  <1>6. IBuildOK(ireq[r], c, r \in iasked, iearly)
    BY <1>1, <1>3, <1>4 DEF IBuildOK, INoConsumer
  <1>7. r \notin iasked => c.queue = icons[r].queue
    BY <1>1, <1>3, <1>4 DEF IBuildOK
  <1>8. r \notin iasked \cup itorn' => IHeld(ireq[r], c.queue, iindex')
    BY <1>1, <1>2, <1>7 DEF INoFault
  <1>9. iquit' # r
    BY <1>1, <1>3
  <1> QED
    BY <1>2, <1>3, <1>4, <1>5, <1>6, <1>8, <1>9, MoveKeeps

\* A stop is meant for the build that holds the channel when it is loaded.
LEMMA StopKeeps == ASSUME IInd, StopLoad \/ StopSend PROVE IInd'
  <1>1. CASE StopLoad
    <2>1. /\ iquit \in IReqs /\ istop' = iquit /\ iasked' = iasked \cup {iquit} /\ (iearly' <=> iearly \/ ireq[iquit].pc = "begin")
          /\ iearly' \in BOOLEAN
          /\ iquit' = iquit /\ iindex' = iindex /\ idone' = idone /\ ireq' = ireq /\ icons' = icons /\ INoFault
      BY <1>1 DEF StopLoad, IInd, ITyped
    <2>2. ITyped' /\ IAsked' /\ ISettled'
      BY <2>1 DEF IInd, ITyped, IAsked, ISettled, INoFault
    <2>3. ASSUME NEW q \in IReqs PROVE IBuilds(q)'
      <3>1. /\ IBuildOK(ireq[q], icons[q], q \in iasked, iearly) /\ (icons[q].pc \in {"run", "quit"} <=> iquit = q)
            /\ q \notin iasked \cup itorn => IHeld(ireq[q], icons[q].queue, iindex)
        BY BuildIs
      <3>2. IBuildOK(ireq[q], icons[q], q \in iasked', iearly')
        BY <2>1, <3>1 DEF IBuildOK, INoConsumer
      <3>3. q \notin iasked' \cup itorn' => IHeld(ireq[q], icons[q].queue, iindex)
        BY <2>1, <3>1 DEF INoFault
      <3> QED
        BY <2>1, <3>1, <3>2, <3>3 DEF IBuilds
    <2> QED
      BY <2>2, <2>3 DEF IInd
  <1>2. CASE StopSend
    <2>1. /\ istop \in iasked /\ istop \in IReqs /\ istop' = INone
          /\ iquit' = iquit /\ iindex' = iindex /\ idone' = idone /\ ireq' = ireq /\ iasked' = iasked /\ iearly' = iearly /\ INoFault
          /\ icons' = IF icons[istop].pc # "off" THEN [icons EXCEPT ![istop].token = TRUE] ELSE icons
      BY <1>2 DEF StopSend, IInd, ITyped, IAsked
    <2>2. /\ icons' \in [IReqs -> IConsumers]
          /\ \A q \in IReqs : /\ icons'[q].pc = icons[q].pc /\ icons'[q].running = icons[q].running /\ icons'[q].queue = icons[q].queue
                              /\ (q # istop \/ icons[q].pc = "off" => icons'[q] = icons[q])
      <3>1. PICK b : b = icons[istop]
        OBVIOUS
      <3>2. b \in IConsumers /\ icons \in [IReqs -> IConsumers]
        BY <2>1, <3>1 DEF IInd, ITyped
      <3>3. PICK c : c = IF b.pc # "off" THEN [b EXCEPT !.token = TRUE] ELSE b
        OBVIOUS
      <3>4. c \in IConsumers /\ c.pc = b.pc /\ c.running = b.running /\ c.queue = b.queue /\ (b.pc = "off" => c = b)
        BY <3>2, <3>3 DEF IConsumers
      <3>5. icons' = [icons EXCEPT ![istop] = c]
        BY <2>1, <3>1, <3>2, <3>3
      <3> QED
        BY <2>1, <3>1, <3>2, <3>4, <3>5
    <2>3. ITyped' /\ IAsked' /\ ISettled'
      BY <2>1, <2>2 DEF IInd, ITyped, IAsked, ISettled, INoFault
    <2>4. ASSUME NEW q \in IReqs PROVE IBuilds(q)'
      <3>1. /\ IBuildOK(ireq[q], icons[q], q \in iasked, iearly) /\ (icons[q].pc \in {"run", "quit"} <=> iquit = q)
            /\ q \notin iasked \cup itorn => IHeld(ireq[q], icons[q].queue, iindex)
        BY BuildIs
      <3>2. IBuildOK(ireq[q], icons'[q], q \in iasked, iearly)
        <4>1. CASE q # istop
          BY <2>2, <3>1, <4>1
        <4>2. CASE q = istop
          BY <2>1, <2>2, <3>1, <4>2 DEF IBuildOK
        <4> QED
          BY <4>1, <4>2
      <3>3. q \notin iasked \cup itorn' => IHeld(ireq[q], icons'[q].queue, iindex)
        BY <2>1, <2>2, <3>1 DEF INoFault
      <3> QED
        BY <2>1, <2>2, <3>1, <3>2, <3>3 DEF IBuilds
    <2> QED
      BY <2>3, <2>4 DEF IInd
  <1> QED
    BY <1>1, <1>2

-----------------------------------------------------------------------------
LEMMA BuildsStart == ASSUME IInit PROVE IInd
  <1>1. IIdle \in IRequests /\ IIdle.pc = "idle" /\ INoConsumer \in IConsumers /\ INoConsumer.pc = "off" /\ INoConsumer.queue = {}
    <2>1. <<>> \in Seq(DOMAIN ITree) /\ "idle" \in IPcs
      BY DEF IPcs
    <2> QED
      BY <2>1, TreePaths DEF IRequests, IIdle, IConsumers, INoConsumer
  <1>2. /\ iquit = INone /\ istop = INone /\ iasked = {} /\ itorn = {} /\ iindex = {} /\ idone = TRUE /\ iearly = FALSE /\ ifaults = 0
        /\ ireq = [r \in IReqs |-> IIdle] /\ icons = [r \in IReqs |-> INoConsumer]
    BY DEF IInit
  <1>3. ITyped /\ IAsked /\ ISettled
    BY <1>1, <1>2 DEF ITyped, IAsked, ISettled
  <1>4. ASSUME NEW r \in IReqs PROVE IBuilds(r)
    <2>1. ireq[r] = IIdle /\ icons[r] = INoConsumer /\ iquit # r
      BY <1>2, IAssumption
    <2>2. IBuildOK(IIdle, INoConsumer, r \in iasked, iearly)
      BY <1>1, <1>2 DEF IBuildOK
    <2>3. IHeld(IIdle, {}, iindex)
      BY <1>1 DEF IHeld
    <2> QED
      BY <1>1, <2>1, <2>2, <2>3 DEF IBuilds
  <1> QED
    BY <1>3, <1>4 DEF IInd

LEMMA BuildsStep == ASSUME IInd, [INext]_indexVars PROVE IInd'
  <1>1. ASSUME NEW r \in IReqs, IRequest(r, "build", <<>>) \/ IRequest(r, "clear", <<>>) PROVE IInd'
    BY <1>1, TreePaths, RequestKeeps
  <1>2. ASSUME NEW r \in IReqs, NEW p \in IUpdates, IRequest(r, "update", p) PROVE IInd'
    <2>1. p \in DOMAIN ITree
      BY IAssumption
    <2> QED
      BY <1>2, <2>1, RequestKeeps
  <1>3. ASSUME NEW r \in IReqs,
               IClear(r) \/ IReport(r) \/ IRefused(r) \/ IStarted(r) \/ IBegin(r) \/ IVisit(r) \/ IWalked(r) \/ ILeave(r) \/ IWaited(r)
        PROVE  IInd'
    BY <1>3, ClearKeepsIndex, ReportKeeps, RefusedBuildKeeps, StartedKeeps, BeginKeeps, VisitKeepsAll, WalkedKeeps, LeaveKeeps, WaitedKeeps
  <1>4. ASSUME NEW r \in IReqs, ITick(r) \/ IQuits(r) \/ IUnset(r) \/ IConsumed(r) PROVE IInd'
    BY <1>4, TickKeeps, UnsetKeeps
  <1>5. CASE StopLoad \/ StopSend
    BY <1>5, StopKeeps
  <1>6. CASE UNCHANGED indexVars
    <2>1. /\ iquit' = iquit /\ iindex' = iindex /\ idone' = idone /\ ireq' = ireq /\ icons' = icons /\ istop' = istop
          /\ iasked' = iasked /\ itorn' = itorn /\ iearly' = iearly /\ ifaults' = ifaults
      BY <1>6 DEF indexVars
    <2>2. ITyped' /\ IAsked' /\ ISettled'
      BY <2>1 DEF IInd, ITyped, IAsked, ISettled
    <2>3. \A r \in IReqs : IBuilds(r)'
      BY <2>1 DEF IInd, IBuilds
    <2> QED
      BY <2>2, <2>3 DEF IInd
  <1> QED
    BY <1>1, <1>2, <1>3, <1>4, <1>5, <1>6 DEF INext

LEMMA BuildsHold == ASSUME IInd PROVE BuildsEnd
  <1>1. IComplete
    <2>1. SUFFICES ASSUME NEW r \in IReqs, ireq[r].pc = "ended", ireq[r].kind # "clear", r \notin iasked \cup itorn
                   PROVE  IWanted(ireq[r].start) \subseteq iindex
      BY DEF IComplete
    <2>2. IHeld(ireq[r], icons[r].queue, iindex)
      BY <2>1, BuildIs
    <2> QED
      BY <2>1, <2>2 DEF IHeld
  <1>2. IOnlyAsked
    <2>1. SUFFICES ASSUME NEW r \in IReqs, ireq[r].pc \in {"begin", "walk"}, r \notin iasked PROVE ~icons[r].token /\ icons[r].pc = "run"
      BY DEF IOnlyAsked
    <2>2. IBuildOK(ireq[r], icons[r], r \in iasked, iearly)
      BY BuildIs
    <2> QED
      BY <2>1, <2>2 DEF IBuildOK
  <1>3. IDoneAtRest
    BY DEF IDoneAtRest, IInd, ISettled
  <1> QED
    BY <1>1, <1>2, <1>3 DEF BuildsEnd

\* Whatever the tree, the requests, the stops and the failures: a build or an update that
\* is left alone indexes all that is under its path and not ignored, only a stop that
\* was asked for ends a walk, and the saved progress says "done" when nothing runs
\* (BuildIndex and StopIndex, build.go and handles/index.go).
THEOREM BuildsAreComplete == ISpec => []BuildsEnd
  <1>1. IInit => IInd
    BY BuildsStart
  <1>2. IInd /\ [INext]_indexVars => IInd'
    BY BuildsStep
  <1>3. IInd => BuildsEnd
    BY BuildsHold
  <1> QED
    BY <1>1, <1>2, <1>3, PTL DEF ISpec

-----------------------------------------------------------------------------
(* The update of the index *)

UHolding == {"get", "del", "unlock"}
UCallsOf == [pc : {"idle", "lock", "get", "del", "unlock", "drop"}, dir : Seq(UNames), now : SUBSET UNames,
             old : SUBSET UNames, lock : ULocks \cup {0}]
UTyped ==
  /\ urows \in [UPaths -> Nat] /\ ulocks \in [UDirs -> ULocks \cup {0}]
  /\ ulock \in [ULocks -> [refs : Nat, by : SUBSET UProcs]]
  /\ uproc \in [UProcs -> UCallsOf]
  /\ ulast \in [UDirs -> SUBSET UNames] /\ uclean \in [UDirs -> BOOLEAN]

\* The users of a lock are counted, and a lock is one directory's while it has users.
UUsing(l) == {p \in UProcs : uproc[p].pc # "idle" /\ uproc[p].lock = l}
UCounted == \A l \in ULocks : ulock[l].refs = Cardinality(UUsing(l))
ULocked ==
  /\ \A p \in UProcs : uproc[p].pc # "idle" => /\ uproc[p].dir \in UDirs /\ uproc[p].lock \in ULocks
                                               /\ ulocks[uproc[p].dir] = uproc[p].lock
  /\ \A d \in UDirs : ulocks[d] # 0 => UUsing(ulocks[d]) # {}
  /\ \A d, e \in UDirs : ulocks[d] = ulocks[e] /\ ulocks[d] # 0 => d = e
  /\ \A p \in UProcs : uproc[p].pc \in UHolding => ulock[uproc[p].lock].by = {p}

\* What an update has read is, but for what was deleted above it or could not be deleted,
\* what it finds when it writes.
URead(p) ==
  LET d == uproc[p].dir
  IN  uproc[p].pc = "del" => /\ UIndexed(d) \cap uproc[p].now \subseteq uproc[p].old
                             /\ uclean[d] => uproc[p].old \cap uproc[p].now \subseteq UIndexed(d)
                             /\ d = <<>> => UIndexed(d) \subseteq uproc[p].old
USettled(d) ==
  uclean[d] /\ (\A p \in UProcs : uproc[p].pc = "del" => uproc[p].dir # d) =>
    /\ ulast[d] \subseteq UIndexed(d)
    /\ d = <<>> => \A n \in UIndexed(d) \ ulast[d] : Append(d, n) \in UMounts

UInd ==
  /\ UTyped /\ UCounted /\ ULocked /\ UOneRow
  /\ \A p \in UProcs : URead(p)
  /\ \A d \in UDirs : USettled(d)

-----------------------------------------------------------------------------
\* A path's directory and name, and what lies under a path.
LEMMA FrontLast ==
  ASSUME NEW S, NEW s \in Seq(S), NEW n \in S
  PROVE  /\ Append(s, n) \in Seq(S) /\ Len(Append(s, n)) = Len(s) + 1
         /\ Front(Append(s, n)) = s /\ Last(Append(s, n)) = n
  <1>1. Append(s, n) \in Seq(S) /\ Len(Append(s, n)) = Len(s) + 1 /\ Append(s, n)[Len(s) + 1] = n /\ Len(s) \in Nat
    OBVIOUS
  <1>2. SubSeq(Append(s, n), 1, Len(s)) = s
    OBVIOUS
  <1> QED
    BY <1>1, <1>2 DEF Front, Last

LEMMA SamePath ==
  ASSUME NEW S, NEW s \in Seq(S), NEW n \in S, NEW t \in Seq(S), NEW m \in S, Append(s, n) = Append(t, m)
  PROVE  s = t /\ n = m
  <1>1. Front(Append(s, n)) = s /\ Last(Append(s, n)) = n
    BY FrontLast
  <1>2. Front(Append(t, m)) = t /\ Last(Append(t, m)) = m
    BY FrontLast
  <1> QED
    BY <1>1, <1>2

LEMMA UnderIt ==
  ASSUME NEW S, NEW q \in Seq(S), NEW d \in Seq(S), NEW n \in S, IsStrictPrefix(q, Append(d, n))
  PROVE  IsPrefix(q, d)
  <1> DEFINE a == Append(d, n)
  <1>1. Len(q) <= Len(a) /\ SubSeq(q, 1, Len(q)) = SubSeq(a, 1, Len(q)) /\ q # a
    BY DEF IsStrictPrefix, IsPrefix
  <1>2. a \in Seq(S) /\ Len(a) = Len(d) + 1 /\ Len(d) \in Nat /\ Len(q) \in Nat
    OBVIOUS
  <1>3. SubSeq(q, 1, Len(q)) = q /\ SubSeq(a, 1, Len(a)) = a
    OBVIOUS
  <1>4. Len(q) <= Len(d)
    <2> HIDE DEF a
    <2>1. SUFFICES ASSUME Len(q) > Len(d) PROVE FALSE
      BY <1>2
    <2>2. Len(q) = Len(a)
      BY <1>1, <1>2, <2>1
    <2> QED
      BY <1>1, <1>3, <2>2
  <1>5. SubSeq(a, 1, Len(q)) = SubSeq(d, 1, Len(q))
    BY <1>2, <1>4
  <1> QED
    BY <1>1, <1>4, <1>5 DEF IsPrefix

LEMMA NotUnderIt ==
  ASSUME NEW S, NEW d \in Seq(S), NEW n \in S
  PROVE  ~IsPrefix(Append(d, n), d)
  <1>1. Len(Append(d, n)) = Len(d) + 1 /\ Len(d) \in Nat
    OBVIOUS
  <1> QED
    BY <1>1 DEF IsPrefix

\* Sets of processes.
LEMMA ProcsCount ==
  ASSUME NEW S, S \subseteq UProcs, NEW p \in UProcs
  PROVE  /\ Cardinality(S) \in Nat
         /\ Cardinality(S) = 0 <=> S = {}
         /\ p \notin S => Cardinality(S \cup {p}) = Cardinality(S) + 1
         /\ p \in S => Cardinality(S \ {p}) = Cardinality(S) - 1
         /\ p \in S /\ Cardinality(S) = 1 => S = {p}
  <1>1. IsFiniteSet(UProcs) /\ IsFiniteSet(S) /\ IsFiniteSet(S \ {p})
    BY UAssumption, FS_Subset
  <1>2. /\ Cardinality(S) \in Nat
        /\ Cardinality(S) = 0 <=> S = {}
        /\ Cardinality(S \ {p}) = 0 <=> S \ {p} = {}
    BY <1>1, FS_CardinalityType, FS_EmptySet
  <1>3. /\ p \notin S => Cardinality(S \cup {p}) = Cardinality(S) + 1
        /\ p \in S => Cardinality(S \ {p}) = Cardinality(S) - 1
    BY <1>1, FS_AddElement, FS_RemoveElement
  <1> QED
    BY <1>2, <1>3

\* There are more locks than processes, so one is free.
LEMMA FreeLock ==
  ASSUME UTyped, UCounted, ULocked, NEW p \in UProcs
  PROVE  \E f \in ULocks : f \in UFree
  <1> DEFINE Of == [q \in UProcs |-> uproc[q].lock]
             T == {uproc[q].lock : q \in UProcs}
             n == Cardinality(UProcs)
  <1>1. Of \in Surjection(UProcs, T)
    BY DEF Surjection
  <1>2. IsFiniteSet(T) /\ Cardinality(T) <= n /\ n \in Nat /\ n # 0
    <2>1. IsFiniteSet(UProcs) /\ n \in Nat
      BY UAssumption, FS_CardinalityType
    <2>2. IsFiniteSet(T) /\ Cardinality(T) <= n
      BY <1>1, <2>1, FS_Surjection
    <2>3. n # 0
      BY <2>1, FS_EmptySet
    <2> QED
      BY <2>1, <2>2, <2>3
  <1> HIDE DEF n
  <1>3. ULocks = 1 .. (2 * n)
    BY DEF ULocks, n
  <1>4. Cardinality(ULocks) = 2 * n
    <2>1. PICK m \in Nat : m = 2 * n
      BY <1>2
    <2>2. m # 0 /\ ULocks = 1 .. m
      BY <1>2, <1>3, <2>1
    <2>3. Cardinality(1 .. m) = m - 1 + 1
      <3>1. 1 \in Int /\ m \in Int /\ ~(1 > m)
        BY <2>2
      <3> QED BY <3>1, FS_Interval
    <2> QED BY <2>1, <2>2, <2>3
  <1>5. \E f \in ULocks : f \notin T
    <2>1. SUFFICES ASSUME ULocks \subseteq T PROVE FALSE
      OBVIOUS
    <2>2. Cardinality(ULocks) <= Cardinality(T) /\ Cardinality(T) \in Nat
      BY <1>2, <2>1, FS_Subset, FS_CardinalityType
    <2> QED
      BY <1>2, <1>4, <2>2
  <1>6. ASSUME NEW f \in ULocks, f \notin T PROVE f \in UFree
    <2>1. UUsing(f) = {}
      BY <1>6 DEF UUsing
    <2>2. ulock[f].refs = 0
      BY <2>1, FS_EmptySet DEF UCounted
    <2>3. \A d \in UDirs : ulocks[d] # f
      BY <2>1, <1>3, <1>2 DEF ULocked
    <2> QED
      BY <2>2, <2>3 DEF UFree
  <1> QED
    BY <1>5, <1>6

\* One process changes.
LEMMA OneProc ==
  ASSUME UTyped, NEW p \in UProcs, NEW x \in UCallsOf, uproc' = [uproc EXCEPT ![p] = x]
  PROVE  /\ uproc' \in [UProcs -> UCallsOf]
         /\ \A w \in UProcs : uproc'[w] = IF w = p THEN x ELSE uproc[w]
         /\ \A l : UUsing(l)' = IF x.pc # "idle" /\ x.lock = l THEN UUsing(l) \cup {p} ELSE UUsing(l) \ {p}
  <1>1. /\ uproc' \in [UProcs -> UCallsOf]
        /\ \A w \in UProcs : uproc'[w] = IF w = p THEN x ELSE uproc[w]
    BY DEF UTyped
  <1>2. ASSUME NEW l
        PROVE  UUsing(l)' = IF x.pc # "idle" /\ x.lock = l THEN UUsing(l) \cup {p} ELSE UUsing(l) \ {p}
    BY <1>1 DEF UUsing
  <1> QED
    BY <1>1, <1>2

\* An update goes on: it keeps its directory and its lock.
LEMMA GoesOn ==
  ASSUME UTyped, NEW p \in UProcs, uproc[p].pc # "idle",
         NEW pc \in {"get", "del", "unlock", "drop"}, NEW old \in SUBSET UNames,
         uproc' = [uproc EXCEPT ![p].pc = pc, ![p].old = old]
  PROVE  /\ uproc' \in [UProcs -> UCallsOf]
         /\ \A w \in UProcs : w # p => uproc'[w] = uproc[w]
         /\ uproc'[p].pc = pc /\ uproc'[p].dir = uproc[p].dir /\ uproc'[p].now = uproc[p].now
         /\ uproc'[p].old = old /\ uproc'[p].lock = uproc[p].lock
         /\ \A l : UUsing(l)' = UUsing(l)
  <1>1. PICK b : b = uproc[p]
    OBVIOUS
  <1>2. b \in UCallsOf
    BY <1>1 DEF UTyped
  <1>3. PICK x : x = [b EXCEPT !.pc = pc, !.old = old]
    OBVIOUS
  <1>4. x \in UCallsOf /\ x.pc = pc /\ x.old = old /\ x.dir = b.dir /\ x.now = b.now /\ x.lock = b.lock
    BY <1>2, <1>3 DEF UCallsOf
  <1>5. uproc' = [uproc EXCEPT ![p] = x]
    BY <1>1, <1>3 DEF UTyped
  <1>6. /\ uproc' \in [UProcs -> UCallsOf]
        /\ \A w \in UProcs : uproc'[w] = IF w = p THEN x ELSE uproc[w]
        /\ \A l : UUsing(l)' = IF x.pc # "idle" /\ x.lock = l THEN UUsing(l) \cup {p} ELSE UUsing(l) \ {p}
    BY <1>4, <1>5, OneProc
  <1>7. ASSUME NEW l PROVE UUsing(l)' = UUsing(l)
    <2>1. p \in UUsing(l) <=> x.lock = l
      BY <1>1, <1>4 DEF UUsing
    <2> QED
      BY <1>4, <1>6, <2>1
  <1> QED
    BY <1>1, <1>4, <1>6, <1>7

LEMMA GoesTo ==
  ASSUME UTyped, NEW p \in UProcs, uproc[p].pc # "idle", NEW pc \in {"get", "del", "unlock", "drop"}, UTo(p, pc)
  PROVE  /\ uproc' \in [UProcs -> UCallsOf]
         /\ \A w \in UProcs : w # p => uproc'[w] = uproc[w]
         /\ uproc'[p].pc = pc /\ uproc'[p].dir = uproc[p].dir /\ uproc'[p].now = uproc[p].now
         /\ uproc'[p].old = uproc[p].old /\ uproc'[p].lock = uproc[p].lock
         /\ \A l : UUsing(l)' = UUsing(l)
  <1>1. PICK old \in SUBSET UNames : old = uproc[p].old
    BY DEF UTyped, UCallsOf
  <1>2. uproc' = [uproc EXCEPT ![p].pc = pc, ![p].old = old]
    <2>1. PICK b : b = uproc[p]
      OBVIOUS
    <2>2. b \in UCallsOf
      BY <2>1 DEF UTyped
    <2>3. [b EXCEPT !.pc = pc] = [b EXCEPT !.pc = pc, !.old = b.old]
      BY <2>2 DEF UCallsOf
    <2> QED
      BY <1>1, <2>1, <2>3 DEF UTo, UTyped
  <1>3. /\ uproc' \in [UProcs -> UCallsOf]
        /\ \A w \in UProcs : w # p => uproc'[w] = uproc[w]
        /\ uproc'[p].pc = pc /\ uproc'[p].dir = uproc[p].dir /\ uproc'[p].now = uproc[p].now
        /\ uproc'[p].old = old /\ uproc'[p].lock = uproc[p].lock
        /\ \A l : UUsing(l)' = UUsing(l)
    BY <1>2, GoesOn
  <1> QED
    BY <1>1, <1>3

\* Two updates of a directory never hold its lock.
LEMMA OneHolds ==
  ASSUME ULocked, NEW p \in UProcs, NEW w \in UProcs, uproc[p].pc \in UHolding, uproc[w].pc \in UHolding,
         uproc[p].dir = uproc[w].dir
  PROVE  p = w
  <1>1. uproc[p].lock = uproc[w].lock
    BY DEF ULocked, UHolding
  <1>2. ulock[uproc[p].lock].by = {p} /\ ulock[uproc[w].lock].by = {w}
    BY DEF ULocked
  <1> QED
    BY <1>1, <1>2

\* Steps that neither take nor give up a lock.
LEMMA LocksStay ==
  ASSUME UTyped, UCounted, ULocked, UNCHANGED <<ulocks, ulock>>,
         \A l : UUsing(l)' = UUsing(l),
         \A w \in UProcs : /\ uproc'[w].dir = uproc[w].dir /\ uproc'[w].lock = uproc[w].lock
                           /\ uproc'[w].pc = "idle" <=> uproc[w].pc = "idle"
                           /\ uproc'[w].pc \in UHolding => uproc[w].pc \in UHolding
  PROVE  UCounted' /\ ULocked'
  <1>1. UCounted'
    BY DEF UCounted, ULocks
  <1>2. /\ \A w \in UProcs : uproc'[w].pc # "idle" => /\ uproc'[w].dir \in UDirs /\ uproc'[w].lock \in ULocks
                                               /\ ulocks'[uproc'[w].dir] = uproc'[w].lock
        /\ \A w \in UProcs : uproc'[w].pc \in UHolding => ulock'[uproc'[w].lock].by = {w}
    BY DEF ULocked
  <1>3. /\ \A d \in UDirs : ulocks'[d] # 0 => UUsing(ulocks[d]) # {}
        /\ \A d, e \in UDirs : ulocks'[d] = ulocks'[e] /\ ulocks'[d] # 0 => d = e
    BY DEF ULocked
  <1>4. \A d \in UDirs : UUsing(ulocks[d])' = UUsing(ulocks[d])
    OBVIOUS
  <1> QED
    BY <1>1, <1>2, <1>3, <1>4 DEF ULocked

\* Steps that change no row, and begin or end the writing of none.
LEMMA RowsStay ==
  ASSUME UTyped, UOneRow, \A p \in UProcs : URead(p), \A d \in UDirs : USettled(d),
         UNCHANGED <<urows, ulast, uclean>>,
         \A w \in UProcs : uproc[w].pc = "del" \/ uproc'[w].pc = "del" => uproc'[w] = uproc[w]
  PROVE  UOneRow' /\ (\A p \in UProcs : URead(p)') /\ (\A d \in UDirs : USettled(d)')
  <1>1. UOneRow'
    BY DEF UOneRow
  <1>2. \A d : UIndexed(d)' = UIndexed(d)
    BY DEF UIndexed
  <1>3. ASSUME NEW p \in UProcs PROVE URead(p)'
    <2>1. SUFFICES ASSUME uproc'[p].pc = "del" PROVE URead(p)'
      BY DEF URead
    <2>2. uproc'[p] = uproc[p] /\ URead(p)
      BY <2>1
    <2>3. UIndexed(uproc[p].dir)' = UIndexed(uproc[p].dir)
      BY <1>2, <2>2
    <2> QED
      BY <2>2, <1>2 DEF URead
  <1>4. ASSUME NEW d \in UDirs PROVE USettled(d)'
    BY <1>2 DEF USettled
  <1> QED
    BY <1>1, <1>3, <1>4

-----------------------------------------------------------------------------
(* Each step *)

LEMMA UpdateRowsKeeps ==
  ASSUME UInd, NEW p \in UProcs, NEW d \in UDirs, NEW now \in SUBSET UNames, Update(p, d, now)
  PROVE  UInd'
  <1>1. PICK l : l = IF ulocks[d] # 0 THEN ulocks[d] ELSE CHOOSE f \in UFree : TRUE
    OBVIOUS
  <1>2. l \in ULocks /\ l # 0 /\ (ulocks[d] = 0 => l \in UFree)
    <2>1. 0 \notin ULocks
      BY DEF ULocks
    <2>2. CASE ulocks[d] # 0
      BY <1>1, <2>1, <2>2 DEF UInd, UTyped
    <2>3. CASE ulocks[d] = 0
      <3>1. \E f \in ULocks : f \in UFree
        BY FreeLock DEF UInd
      <3>2. l \in UFree
        BY <1>1, <2>3, <3>1
      <3> QED
        BY <2>1, <3>2 DEF UFree
    <2> QED
      BY <2>2, <2>3
  <1>3. PICK x : x = [pc |-> "lock", dir |-> d, now |-> now, old |-> {}, lock |-> l]
    OBVIOUS
  <1>4. /\ uproc[p].pc = "idle" /\ uproc' = [uproc EXCEPT ![p] = x]
        /\ ulocks' = [ulocks EXCEPT ![d] = l] /\ ulock' = [ulock EXCEPT ![l].refs = @ + 1]
        /\ UNCHANGED <<urows, ulast, uclean>>
    BY <1>1, <1>3 DEF Update
  <1>5. x \in UCallsOf /\ x.pc = "lock" /\ x.dir = d /\ x.lock = l
    BY <1>2, <1>3, UAssumption DEF UCallsOf
  <1>6. /\ uproc' \in [UProcs -> UCallsOf]
        /\ \A w \in UProcs : uproc'[w] = IF w = p THEN x ELSE uproc[w]
        /\ \A k : UUsing(k)' = IF k = l THEN UUsing(k) \cup {p} ELSE UUsing(k)
    <2>1. \A k : p \notin UUsing(k)
      BY <1>4 DEF UUsing
    <2>2. /\ uproc' \in [UProcs -> UCallsOf]
          /\ \A w \in UProcs : uproc'[w] = IF w = p THEN x ELSE uproc[w]
          /\ \A k : UUsing(k)' = IF x.pc # "idle" /\ x.lock = k THEN UUsing(k) \cup {p} ELSE UUsing(k) \ {p}
      BY <1>4, <1>5, OneProc DEF UInd
    <2> QED
      BY <1>5, <2>1, <2>2
  <1>7. /\ ulocks' \in [UDirs -> ULocks \cup {0}]
        /\ \A e \in UDirs : ulocks'[e] = IF e = d THEN l ELSE ulocks[e]
    BY <1>2, <1>4 DEF UInd, UTyped
  <1>8. /\ ulock' \in [ULocks -> [refs : Nat, by : SUBSET UProcs]]
        /\ \A k \in ULocks : ulock'[k].by = ulock[k].by /\ ulock'[k].refs = IF k = l THEN ulock[k].refs + 1 ELSE ulock[k].refs
    BY <1>2, <1>4 DEF UInd, UTyped
  <1>9. UTyped'
    BY <1>4, <1>6, <1>7, <1>8 DEF UInd, UTyped, UPaths
  <1>10. UCounted'
    <2> SUFFICES ASSUME NEW k \in ULocks PROVE ulock'[k].refs = Cardinality(UUsing(k)')
      BY DEF UCounted, ULocks
    <2>1. ulock[k].refs = Cardinality(UUsing(k))
      BY DEF UInd, UCounted
    <2>2. p \notin UUsing(k) /\ UUsing(k) \subseteq UProcs
      BY <1>4 DEF UUsing
    <2>3. Cardinality(UUsing(k) \cup {p}) = Cardinality(UUsing(k)) + 1
      BY <2>2, ProcsCount
    <2> QED
      BY <1>6, <1>8, <2>1, <2>3
  <1>11. ULocked'
    <2>1. \A e \in UDirs : e # d => ulocks[e] # l
      BY <1>1, <1>2 DEF UInd, ULocked, UFree
    <2>2. ASSUME NEW w \in UProcs, w # p, uproc[w].pc # "idle", uproc[w].dir = d PROVE uproc[w].lock = l
      <3>1. ulocks[d] = uproc[w].lock /\ uproc[w].lock \in ULocks
        BY <2>2 DEF UInd, ULocked
      <3>2. 0 \notin ULocks
        BY DEF ULocks
      <3> QED
        BY <1>1, <3>1, <3>2
    <2>3. ASSUME NEW w \in UProcs, uproc'[w].pc # "idle"
          PROVE  uproc'[w].dir \in UDirs /\ uproc'[w].lock \in ULocks /\ ulocks'[uproc'[w].dir] = uproc'[w].lock
      <3>1. CASE w = p
        BY <1>2, <1>5, <1>6, <1>7, <3>1
      <3>2. CASE w # p
        BY <1>6, <1>7, <2>2, <2>3, <3>2 DEF UInd, ULocked
      <3> QED
        BY <3>1, <3>2
    <2>4. ASSUME NEW e \in UDirs, ulocks'[e] # 0 PROVE UUsing(ulocks[e])' # {}
      <3>1. CASE e = d
        BY <1>6, <1>7, <3>1
      <3>2. CASE e # d
        BY <1>6, <1>7, <2>4, <3>2 DEF UInd, ULocked
      <3> QED
        BY <3>1, <3>2
    <2>5. \A e, g \in UDirs : ulocks'[e] = ulocks'[g] /\ ulocks'[e] # 0 => e = g
      BY <1>7, <2>1 DEF UInd, ULocked
    <2>6. ASSUME NEW w \in UProcs, uproc'[w].pc \in UHolding PROVE ulock'[uproc'[w].lock].by = {w}
      <3>1. w # p
        BY <1>5, <1>6, <2>6 DEF UHolding
      <3>2. ulock[uproc[w].lock].by = {w} /\ uproc[w].lock \in ULocks
        BY <1>6, <2>6, <3>1 DEF UInd, ULocked, UHolding
      <3> QED
        BY <1>6, <1>8, <3>1, <3>2
    <2> QED
      BY <2>3, <2>4, <2>5, <2>6 DEF ULocked
  <1>12. \A w \in UProcs : uproc[w].pc = "del" \/ uproc'[w].pc = "del" => uproc'[w] = uproc[w]
    BY <1>4, <1>5, <1>6
  <1> QED
    BY <1>4, <1>9, <1>10, <1>11, <1>12, RowsStay DEF UInd

LEMMA ULockKeeps ==
  ASSUME UInd, NEW p \in UProcs, ULock(p)
  PROVE  UInd'
  <1>1. PICK l : l = uproc[p].lock
    OBVIOUS
  <1>2. /\ uproc[p].pc = "lock" /\ ulock[l].by = {} /\ ulock' = [ulock EXCEPT ![l].by = {p}]
        /\ UTo(p, "get") /\ UNCHANGED <<urows, ulocks, ulast, uclean>>
    BY <1>1 DEF ULock
  <1>3. /\ uproc' \in [UProcs -> UCallsOf]
        /\ \A w \in UProcs : w # p => uproc'[w] = uproc[w]
        /\ uproc'[p].pc = "get" /\ uproc'[p].dir = uproc[p].dir /\ uproc'[p].lock = uproc[p].lock
        /\ \A k : UUsing(k)' = UUsing(k)
    BY <1>2, GoesTo DEF UInd
  <1>4. l \in ULocks
    BY <1>1, <1>2 DEF UInd, ULocked
  <1>5. /\ ulock' \in [ULocks -> [refs : Nat, by : SUBSET UProcs]]
        /\ \A k \in ULocks : ulock'[k].refs = ulock[k].refs /\ ulock'[k].by = IF k = l THEN {p} ELSE ulock[k].by
    BY <1>2, <1>4 DEF UInd, UTyped
  <1>6. UTyped'
    BY <1>2, <1>3, <1>5 DEF UInd, UTyped, UPaths
  <1>7. UCounted'
    BY <1>3, <1>5 DEF UInd, UCounted, ULocks
  <1>8. ULocked'
    <2>1. ASSUME NEW w \in UProcs, uproc'[w].pc # "idle"
          PROVE  uproc'[w].dir \in UDirs /\ uproc'[w].lock \in ULocks /\ ulocks'[uproc'[w].dir] = uproc'[w].lock
      BY <1>2, <1>3, <2>1 DEF UInd, ULocked
    <2>2. \A e \in UDirs : UUsing(ulocks[e])' = UUsing(ulocks[e])
      BY <1>3, <1>2
    <2>3. ASSUME NEW w \in UProcs, uproc'[w].pc \in UHolding PROVE ulock'[uproc'[w].lock].by = {w}
      <3>1. CASE w = p
        BY <1>1, <1>3, <1>4, <1>5, <3>1
      <3>2. CASE w # p
        <4>1. ulock[uproc[w].lock].by = {w} /\ uproc[w].lock \in ULocks /\ uproc'[w] = uproc[w]
          BY <1>3, <2>3, <3>2 DEF UInd, ULocked, UHolding
        <4>2. uproc[w].lock # l
          BY <1>2, <4>1
        <4> QED
          BY <1>5, <4>1, <4>2
      <3> QED
        BY <3>1, <3>2
    <2> QED
      BY <1>2, <2>1, <2>2, <2>3 DEF UInd, ULocked
  <1>9. \A w \in UProcs : uproc[w].pc = "del" \/ uproc'[w].pc = "del" => uproc'[w] = uproc[w]
    BY <1>2, <1>3
  <1> QED
    BY <1>2, <1>6, <1>7, <1>8, <1>9, RowsStay DEF UInd

\* The lock that an update frees is not yet dropped.
LEMMA UUnlockKeeps ==
  ASSUME UInd, NEW p \in UProcs, UUnlock(p)
  PROVE  UInd'
  <1>1. PICK l : l = uproc[p].lock
    OBVIOUS
  <1>2. /\ uproc[p].pc = "unlock" /\ ulock' = [ulock EXCEPT ![l].by = {}]
        /\ UTo(p, "drop") /\ UNCHANGED <<urows, ulocks, ulast, uclean>>
    BY <1>1 DEF UUnlock
  <1>3. /\ uproc' \in [UProcs -> UCallsOf]
        /\ \A w \in UProcs : w # p => uproc'[w] = uproc[w]
        /\ uproc'[p].pc = "drop" /\ uproc'[p].dir = uproc[p].dir /\ uproc'[p].lock = uproc[p].lock
        /\ \A k : UUsing(k)' = UUsing(k)
    BY <1>2, GoesTo DEF UInd
  <1>4. l \in ULocks /\ ulock[l].by = {p}
    BY <1>1, <1>2 DEF UInd, ULocked, UHolding
  <1>5. /\ ulock' \in [ULocks -> [refs : Nat, by : SUBSET UProcs]]
        /\ \A k \in ULocks : ulock'[k].refs = ulock[k].refs /\ ulock'[k].by = IF k = l THEN {} ELSE ulock[k].by
    BY <1>2, <1>4 DEF UInd, UTyped
  <1>6. UTyped'
    BY <1>2, <1>3, <1>5 DEF UInd, UTyped, UPaths
  <1>7. UCounted'
    BY <1>3, <1>5 DEF UInd, UCounted, ULocks
  <1>8. ULocked'
    <2>1. ASSUME NEW w \in UProcs, uproc'[w].pc # "idle"
          PROVE  uproc'[w].dir \in UDirs /\ uproc'[w].lock \in ULocks /\ ulocks'[uproc'[w].dir] = uproc'[w].lock
      BY <1>2, <1>3, <2>1 DEF UInd, ULocked
    <2>2. \A e \in UDirs : UUsing(ulocks[e])' = UUsing(ulocks[e])
      BY <1>3, <1>2
    <2>3. ASSUME NEW w \in UProcs, uproc'[w].pc \in UHolding PROVE ulock'[uproc'[w].lock].by = {w}
      <3>1. w # p
        BY <1>3, <2>3 DEF UHolding
      <3>2. ulock[uproc[w].lock].by = {w} /\ uproc[w].lock \in ULocks /\ uproc'[w] = uproc[w]
        BY <1>3, <2>3, <3>1 DEF UInd, ULocked, UHolding
      <3>3. uproc[w].lock # l
        BY <1>4, <3>1, <3>2
      <3> QED
        BY <1>5, <3>2, <3>3
    <2> QED
      BY <1>2, <2>1, <2>2, <2>3 DEF UInd, ULocked
  <1>9. \A w \in UProcs : uproc[w].pc = "del" \/ uproc'[w].pc = "del" => uproc'[w] = uproc[w]
    BY <1>2, <1>3
  <1> QED
    BY <1>2, <1>6, <1>7, <1>8, <1>9, RowsStay DEF UInd

\* The last user of a lock drops it.
LEMMA UDropKeeps ==
  ASSUME UInd, NEW p \in UProcs, UDrop(p)
  PROVE  UInd'
  <1>1. PICK l : l = uproc[p].lock
    OBVIOUS
  <1>2. PICK d : d = uproc[p].dir
    OBVIOUS
  <1>3. /\ uproc[p].pc = "drop" /\ ulock' = [ulock EXCEPT ![l].refs = @ - 1]
        /\ ulocks' = IF ulock[l].refs = 1 THEN [ulocks EXCEPT ![d] = 0] ELSE ulocks
        /\ uproc' = [uproc EXCEPT ![p] = UIdle] /\ UNCHANGED <<urows, ulast, uclean>>
    BY <1>1, <1>2 DEF UDrop, LastUser
  <1>4. l \in ULocks /\ l # 0 /\ d \in UDirs /\ ulocks[d] = l
    <2>1. 0 \notin ULocks
      BY DEF ULocks
    <2> QED
      BY <1>1, <1>2, <1>3, <2>1 DEF UInd, ULocked
  <1>5. UIdle \in UCallsOf /\ UIdle.pc = "idle"
    BY DEF UIdle, UCallsOf
  <1>6. /\ uproc' \in [UProcs -> UCallsOf]
        /\ \A w \in UProcs : uproc'[w] = IF w = p THEN UIdle ELSE uproc[w]
        /\ \A k : UUsing(k)' = UUsing(k) \ {p}
    BY <1>3, <1>5, OneProc DEF UInd
  <1>7. /\ UUsing(l) \subseteq UProcs /\ p \in UUsing(l) /\ ulock[l].refs = Cardinality(UUsing(l))
        /\ \A k : k # l => p \notin UUsing(k)
    BY <1>1, <1>3, <1>4 DEF UInd, UCounted, UUsing
  <1>8. /\ ulock[l].refs \in Nat \ {0} /\ Cardinality(UUsing(l) \ {p}) = ulock[l].refs - 1
        /\ ulock[l].refs = 1 => UUsing(l) = {p}
        /\ UUsing(l) = {p} => ulock[l].refs = 1
    <2>1. /\ Cardinality(UUsing(l)) \in Nat /\ Cardinality(UUsing(l)) # 0
          /\ Cardinality(UUsing(l) \ {p}) = Cardinality(UUsing(l)) - 1
          /\ Cardinality(UUsing(l)) = 1 => UUsing(l) = {p}
      BY <1>7, ProcsCount
    <2>2. UUsing(l) = {p} => Cardinality(UUsing(l) \ {p}) = 0
      BY FS_EmptySet
    <2> QED
      BY <1>7, <2>1, <2>2
  <1>9. /\ ulocks' \in [UDirs -> ULocks \cup {0}]
        /\ \A e \in UDirs : ulocks'[e] = IF e = d /\ ulock[l].refs = 1 THEN 0 ELSE ulocks[e]
    BY <1>3, <1>4 DEF UInd, UTyped
  <1>10. /\ ulock' \in [ULocks -> [refs : Nat, by : SUBSET UProcs]]
         /\ \A k \in ULocks : ulock'[k].by = ulock[k].by /\ ulock'[k].refs = IF k = l THEN ulock[k].refs - 1 ELSE ulock[k].refs
    <2>1. ulock[l].refs - 1 \in Nat
      BY <1>8
    <2> QED
      BY <1>3, <1>4, <2>1 DEF UInd, UTyped
  <1>11. UTyped'
    BY <1>3, <1>6, <1>9, <1>10 DEF UInd, UTyped, UPaths
  <1>12. UCounted'
    <2> SUFFICES ASSUME NEW k \in ULocks PROVE ulock'[k].refs = Cardinality(UUsing(k)')
      BY DEF UCounted, ULocks
    <2>1. CASE k = l
      BY <1>6, <1>8, <1>10, <2>1
    <2>2. CASE k # l
      <3>1. UUsing(k)' = UUsing(k)
        BY <1>6, <1>7, <2>2
      <3> QED
        BY <1>10, <2>2, <3>1 DEF UInd, UCounted
    <2> QED
      BY <2>1, <2>2
  <1>13. ULocked'
    <2>1. ASSUME NEW w \in UProcs, uproc'[w].pc # "idle"
          PROVE  uproc'[w].dir \in UDirs /\ uproc'[w].lock \in ULocks /\ ulocks'[uproc'[w].dir] = uproc'[w].lock
      <3>1. w # p /\ uproc'[w] = uproc[w]
        BY <1>5, <1>6, <2>1
      <3>2. uproc[w].dir \in UDirs /\ uproc[w].lock \in ULocks /\ ulocks[uproc[w].dir] = uproc[w].lock
        BY <2>1, <3>1 DEF UInd, ULocked
      <3>3. uproc[w].dir = d => w \in UUsing(l)
        BY <1>4, <2>1, <3>1, <3>2 DEF UUsing
      <3>4. ~(uproc[w].dir = d /\ ulock[l].refs = 1)
        BY <1>8, <3>1, <3>3
      <3> QED
        BY <1>9, <3>1, <3>2, <3>4
    <2>2. ASSUME NEW e \in UDirs, ulocks'[e] # 0 PROVE UUsing(ulocks[e])' # {}
      <3>1. ulocks'[e] = ulocks[e] /\ UUsing(ulocks[e]) # {} /\ ~(e = d /\ ulock[l].refs = 1)
        BY <1>9, <2>2 DEF UInd, ULocked
      <3>2. CASE e = d
        <4>1. UUsing(l) # {p}
          BY <1>8, <3>1, <3>2
        <4>2. UUsing(l) \ {p} # {}
          BY <1>7, <4>1
        <4>3. ulocks'[e] = l
          BY <1>4, <3>1, <3>2
        <4> QED
          BY <1>6, <4>2, <4>3
      <3>3. CASE e # d
        <4>1. ulocks[e] # l
          BY <1>4, <3>3 DEF UInd, ULocked
        <4> QED
          BY <1>6, <1>7, <3>1, <4>1
      <3> QED
        BY <3>2, <3>3
    <2>3. \A e, g \in UDirs : ulocks'[e] = ulocks'[g] /\ ulocks'[e] # 0 => e = g
      BY <1>9 DEF UInd, ULocked
    <2>4. ASSUME NEW w \in UProcs, uproc'[w].pc \in UHolding PROVE ulock'[uproc'[w].lock].by = {w}
      <3>1. w # p /\ uproc'[w] = uproc[w]
        BY <1>5, <1>6, <2>4 DEF UHolding
      <3>2. ulock[uproc[w].lock].by = {w} /\ uproc[w].lock \in ULocks
        BY <2>4, <3>1 DEF UInd, ULocked, UHolding
      <3> QED
        BY <1>10, <3>1, <3>2
    <2> QED
      BY <2>1, <2>2, <2>3, <2>4 DEF ULocked
  <1>14. \A w \in UProcs : uproc[w].pc = "del" \/ uproc'[w].pc = "del" => uproc'[w] = uproc[w]
    BY <1>3, <1>5, <1>6
  <1> QED
    BY <1>3, <1>11, <1>12, <1>13, <1>14, RowsStay DEF UInd

\* The directory of a process that writes is written by no other.
LEMMA OthersElsewhere ==
  ASSUME UInd, NEW p \in UProcs, uproc[p].pc \in UHolding, NEW w \in UProcs, uproc[w].pc = "del", w # p
  PROVE  uproc[w].dir # uproc[p].dir
  BY OneHolds DEF UInd, UHolding

LEMMA UGetKeeps ==
  ASSUME UInd, NEW p \in UProcs, UGet(p)
  PROVE  UInd'
  <1>1. PICK d : d = uproc[p].dir
    OBVIOUS
  <1>2. PICK old \in SUBSET UNames : old = UIndexed(d)
    BY DEF UIndexed
  <1>3. /\ uproc[p].pc = "get" /\ uproc' = [uproc EXCEPT ![p].pc = "del", ![p].old = old]
        /\ UNCHANGED <<urows, ulocks, ulock, ulast, uclean>>
    BY <1>1, <1>2 DEF UGet
  <1>4. /\ uproc' \in [UProcs -> UCallsOf]
        /\ \A w \in UProcs : w # p => uproc'[w] = uproc[w]
        /\ uproc'[p].pc = "del" /\ uproc'[p].dir = uproc[p].dir /\ uproc'[p].now = uproc[p].now
        /\ uproc'[p].old = old /\ uproc'[p].lock = uproc[p].lock
        /\ \A l : UUsing(l)' = UUsing(l)
    BY <1>3, GoesOn DEF UInd
  <1>5. UTyped'
    BY <1>3, <1>4 DEF UInd, UTyped, ULocks, UPaths
  <1>6. UCounted' /\ ULocked'
    BY <1>3, <1>4, LocksStay DEF UInd, UHolding
  <1>7. \A e : UIndexed(e)' = UIndexed(e)
    BY <1>3 DEF UIndexed
  <1>8. UOneRow'
    BY <1>3 DEF UInd, UOneRow
  <1>9. ASSUME NEW w \in UProcs PROVE URead(w)'
    <2>1. CASE w = p
      <3>1. uproc'[p].dir = d /\ old = {n \in UNames : urows'[Append(d, n)] > 0}
        BY <1>1, <1>2, <1>3, <1>4 DEF UIndexed
      <3> QED
        BY <1>4, <2>1, <3>1 DEF URead, UIndexed
    <2>2. CASE w # p
      <3>1. URead(w) /\ uproc'[w] = uproc[w]
        BY <1>4, <2>2 DEF UInd
      <3> QED
        BY <1>3, <1>7, <3>1 DEF URead
    <2> QED
      BY <2>1, <2>2
  <1>10. ASSUME NEW e \in UDirs PROVE USettled(e)'
    <2>1. \A w \in UProcs : uproc[w].pc = "del" => uproc'[w].pc = "del" /\ uproc'[w].dir = uproc[w].dir
      BY <1>3, <1>4
    <2> QED
      BY <1>3, <1>7, <2>1 DEF UInd, USettled
  <1> QED
    BY <1>5, <1>6, <1>8, <1>9, <1>10 DEF UInd

LEMMA UFailsKeeps ==
  ASSUME UInd, NEW p \in UProcs, UFails(p)
  PROVE  UInd'
  <1>1. PICK d : d = uproc[p].dir
    OBVIOUS
  <1>2. /\ uproc[p].pc \in {"get", "del"} /\ uclean' = [uclean EXCEPT ![d] = FALSE] /\ UTo(p, "unlock")
        /\ UNCHANGED <<urows, ulocks, ulock, ulast>>
    BY <1>1 DEF UFails
  <1>3. /\ uproc' \in [UProcs -> UCallsOf]
        /\ \A w \in UProcs : w # p => uproc'[w] = uproc[w]
        /\ uproc'[p].pc = "unlock" /\ uproc'[p].dir = uproc[p].dir /\ uproc'[p].lock = uproc[p].lock
        /\ \A l : UUsing(l)' = UUsing(l)
    BY <1>2, GoesTo DEF UInd
  <1>4. d \in UDirs
    BY <1>1, <1>2 DEF UInd, ULocked
  <1>5. uclean' \in [UDirs -> BOOLEAN] /\ \A e \in UDirs : uclean'[e] = (uclean[e] /\ e # d)
    BY <1>2, <1>4 DEF UInd, UTyped
  <1>6. UTyped'
    BY <1>2, <1>3, <1>5 DEF UInd, UTyped, ULocks, UPaths
  <1>7. UCounted' /\ ULocked'
    BY <1>2, <1>3, LocksStay DEF UInd, UHolding
  <1>8. (\A e : UIndexed(e)' = UIndexed(e)) /\ UOneRow'
    BY <1>2 DEF UInd, UOneRow, UIndexed
  <1>9. ASSUME NEW w \in UProcs PROVE URead(w)'
    <2>1. CASE w = p
      BY <1>3, <2>1 DEF URead
    <2>2. CASE w # p
      <3>1. URead(w) /\ uproc'[w] = uproc[w]
        BY <1>3, <2>2 DEF UInd
      <3>2. uproc[w].pc = "del" => uproc[w].dir \in UDirs
        BY DEF UInd, ULocked
      <3>3. SUFFICES ASSUME uproc[w].pc = "del" PROVE URead(w)'
        BY <3>1 DEF URead
      <3>4. uclean'[uproc[w].dir] => uclean[uproc[w].dir]
        BY <1>5, <3>2, <3>3
      <3> QED
        BY <1>8, <3>1, <3>3, <3>4 DEF URead
    <2> QED
      BY <2>1, <2>2
  <1>10. ASSUME NEW e \in UDirs PROVE USettled(e)'
    <2>1. SUFFICES ASSUME uclean'[e], \A w \in UProcs : uproc'[w].pc = "del" => uproc'[w].dir # e PROVE USettled(e)'
      BY DEF USettled
    <2>2. uclean[e] /\ e # d
      BY <1>5, <2>1
    <2>3. \A w \in UProcs : uproc[w].pc = "del" => uproc[w].dir # e
      BY <1>1, <1>3, <2>1, <2>2
    <2> QED
      BY <1>2, <1>8, <2>2, <2>3 DEF UInd, USettled
  <1> QED
    BY <1>6, <1>7, <1>8, <1>9, <1>10 DEF UInd

\* Every row is of an object in a directory.
LEMMA RowsOf ==
  ASSUME NEW r \in UPaths
  PROVE  \E e \in UDirs, m \in UNames : r = Append(e, m)
  BY DEF UPaths

\* What a deletion does to the rows: those of the directory lose one, and whole
\* directories that were under it lose theirs.
LEMMA Deletes ==
  ASSUME UTyped, NEW d \in UDirs, NEW n \in UNames, NEW q, q = Append(d, n), urows' = UDeleted(q)
  PROVE  /\ urows' \in [UPaths -> Nat]
         /\ \A r \in UPaths : urows'[r] \in {0, urows[r]}
         /\ \A e \in UDirs : UIndexed(e)' \subseteq UIndexed(e)
         /\ \A e \in UDirs : e # d /\ ~IsPrefix(q, e) => UIndexed(e)' = UIndexed(e)
         /\ UIndexed(d) \ {n} \subseteq UIndexed(d)'
         /\ d = <<>> => n \notin UIndexed(d)'
  <1>1. \A r \in UPaths : urows'[r] = IF IsStrictPrefix(q, r) \/ (r = q /\ Len(q) = 1) THEN 0 ELSE urows[r]
    BY DEF UDeleted
  <1>2. /\ urows' \in [UPaths -> Nat]
        /\ \A r \in UPaths : urows'[r] \in {0, urows[r]}
    <2>1. \A r \in UPaths : urows[r] \in Nat
      BY DEF UTyped
    <2>2. urows' = [r \in UPaths |-> urows'[r]]
      BY DEF UDeleted
    <2>3. \A r \in UPaths : urows'[r] \in {0, urows[r]}
      BY <1>1
    <2> QED
      BY <2>1, <2>2, <2>3
  <1>3. \A e \in UDirs, m \in UNames : Append(e, m) \in UPaths /\ e \in Seq(UNames)
    BY UAssumption DEF UPaths
  <1>4. q \in Seq(UNames)
    BY <1>3, FrontLast
  <1>5. ASSUME NEW e \in UDirs, NEW m \in UNames, ~IsPrefix(q, e), e # d \/ m # n
        PROVE  urows'[Append(e, m)] = urows[Append(e, m)]
    <2>1. e \in Seq(UNames) /\ d \in Seq(UNames)
      BY <1>3
    <2>2. ~IsStrictPrefix(q, Append(e, m))
      BY <1>4, <1>5, <2>1, UnderIt
    <2>3. Append(e, m) # q
      BY <1>5, <2>1, SamePath
    <2> QED
      BY <1>1, <1>3, <2>2, <2>3
  <1>6. ASSUME NEW e \in UDirs PROVE UIndexed(e)' \subseteq UIndexed(e)
    <2> SUFFICES ASSUME NEW m \in UNames, urows'[Append(e, m)] > 0 PROVE urows[Append(e, m)] > 0
      BY DEF UIndexed
    <2>1. urows'[Append(e, m)] \in {0, urows[Append(e, m)]}
      BY <1>2, <1>3
    <2> QED
      BY <2>1
  <1>7. ASSUME NEW e \in UDirs, e # d, ~IsPrefix(q, e) PROVE UIndexed(e)' = UIndexed(e)
    BY <1>5, <1>7 DEF UIndexed
  <1>8. UIndexed(d) \ {n} \subseteq UIndexed(d)'
    <2>1. ~IsPrefix(q, d)
      BY <1>3, NotUnderIt
    <2> QED
      BY <1>5, <2>1 DEF UIndexed
  <1>9. d = <<>> => n \notin UIndexed(d)'
    <2>1. d = <<>> => Len(q) = 1
      BY <1>3, FrontLast
    <2>2. d = <<>> => urows'[q] = 0
      BY <1>1, <1>3, <2>1
    <2> QED
      BY <2>2 DEF UIndexed
  <1> QED
    BY <1>2, <1>6, <1>7, <1>8, <1>9

LEMMA UDelKeeps ==
  ASSUME UInd, NEW p \in UProcs, UDel(p)
  PROVE  UInd'
  <1>1. PICK d : d = uproc[p].dir
    OBVIOUS
  <1>2. PICK now : now = uproc[p].now
    OBVIOUS
  <1>3. PICK n \in uproc[p].old \ now :
           /\ urows' = UDeleted(Append(d, n))
           /\ uclean' = [e \in UDirs |-> uclean[e] /\ ~IsPrefix(Append(d, n), e)]
           /\ uproc' = [uproc EXCEPT ![p].old = @ \ {n}]
    BY <1>1, <1>2 DEF UDel, ToDelete
  <1>4. PICK q : q = Append(d, n)
    OBVIOUS
  <1>5. uproc[p].pc = "del" /\ UNCHANGED <<ulocks, ulock, ulast>>
    BY DEF UDel
  <1>6. d \in UDirs /\ uproc[p].old \in SUBSET UNames /\ n \in UNames
    BY <1>1, <1>3, <1>5 DEF UInd, UTyped, UCallsOf, ULocked
  <1>7. PICK old \in SUBSET UNames : old = uproc[p].old \ {n}
    BY <1>6
  <1>8. uproc' = [uproc EXCEPT ![p].pc = "del", ![p].old = old]
    <2>1. PICK b : b = uproc[p]
      OBVIOUS
    <2>2. b \in UCallsOf /\ b.pc = "del"
      BY <1>5, <2>1 DEF UInd, UTyped
    <2>3. [b EXCEPT !.old = old] = [b EXCEPT !.pc = "del", !.old = old]
      BY <2>2 DEF UCallsOf
    <2> QED
      BY <1>3, <1>7, <2>1, <2>3 DEF UInd, UTyped
  <1>9. /\ uproc' \in [UProcs -> UCallsOf]
        /\ \A w \in UProcs : w # p => uproc'[w] = uproc[w]
        /\ uproc'[p].pc = "del" /\ uproc'[p].dir = uproc[p].dir /\ uproc'[p].now = uproc[p].now
        /\ uproc'[p].old = old /\ uproc'[p].lock = uproc[p].lock
        /\ \A l : UUsing(l)' = UUsing(l)
    BY <1>5, <1>8, GoesOn DEF UInd
  <1>10. /\ urows' \in [UPaths -> Nat]
         /\ \A r \in UPaths : urows'[r] \in {0, urows[r]}
         /\ \A e \in UDirs : UIndexed(e)' \subseteq UIndexed(e)
         /\ \A e \in UDirs : e # d /\ ~IsPrefix(q, e) => UIndexed(e)' = UIndexed(e)
         /\ UIndexed(d) \ {n} \subseteq UIndexed(d)'
         /\ d = <<>> => n \notin UIndexed(d)'
    BY <1>3, <1>4, <1>6, Deletes DEF UInd
  <1>11. uclean' \in [UDirs -> BOOLEAN] /\ \A e \in UDirs : uclean'[e] = (uclean[e] /\ ~IsPrefix(q, e))
    BY <1>3, <1>4 DEF UInd, UTyped
  <1>12. UTyped'
    BY <1>5, <1>9, <1>10, <1>11 DEF UInd, UTyped, ULocks, UPaths
  <1>13. UCounted' /\ ULocked'
    BY <1>5, <1>9, LocksStay DEF UInd, UHolding
  <1>14. UOneRow'
    <2>1. \A r \in UPaths : urows[r] <= 1
      BY DEF UInd, UOneRow
    <2>2. \A r \in UPaths : urows'[r] <= 1
      BY <1>10, <2>1
    <2> QED
      BY <2>2 DEF UOneRow, UPaths
  <1>15. \A e \in UDirs : uclean'[e] => uclean[e] /\ ~IsPrefix(q, e)
    BY <1>11
  <1>16. ASSUME NEW w \in UProcs PROVE URead(w)'
    <2> SUFFICES ASSUME NEW e, e = uproc'[w].dir, uproc'[w].pc = "del"
                 PROVE  /\ UIndexed(e)' \cap uproc'[w].now \subseteq uproc'[w].old
                        /\ uclean'[e] => uproc'[w].old \cap uproc'[w].now \subseteq UIndexed(e)'
                        /\ e = <<>> => UIndexed(e)' \subseteq uproc'[w].old
      BY DEF URead, UIndexed
    <2>1. CASE w = p
      <3>1. /\ UIndexed(d) \cap now \subseteq uproc[p].old
            /\ uclean[d] => uproc[p].old \cap now \subseteq UIndexed(d)
            /\ d = <<>> => UIndexed(d) \subseteq uproc[p].old
        BY <1>1, <1>2, <1>5 DEF UInd, URead
      <3>2. e = d /\ uproc'[w].now = now /\ uproc'[w].old = uproc[p].old \ {n} /\ n \notin now
        BY <1>1, <1>2, <1>3, <1>7, <1>9, <2>1
      <3>3. UIndexed(d)' \subseteq UIndexed(d)
        BY <1>6, <1>10
      <3>4. UIndexed(d)' \cap now \subseteq uproc[p].old \ {n}
        BY <3>1, <3>2, <3>3
      <3>5. uclean'[d] => (uproc[p].old \ {n}) \cap now \subseteq UIndexed(d)'
        BY <1>6, <1>10, <1>15, <3>1
      <3>6. d = <<>> => UIndexed(d)' \subseteq uproc[p].old \ {n}
        BY <1>10, <3>1, <3>3
      <3> QED
        BY <3>2, <3>4, <3>5, <3>6
    <2>2. CASE w # p
      <3>1. uproc'[w] = uproc[w] /\ uproc[w].pc = "del" /\ e = uproc[w].dir
        BY <1>9, <2>2
      <3>2. e \in UDirs /\ e # d
        BY <1>1, <1>5, <2>2, <3>1, OthersElsewhere DEF UInd, ULocked, UHolding
      <3>3. /\ UIndexed(e) \cap uproc[w].now \subseteq uproc[w].old
            /\ uclean[e] => uproc[w].old \cap uproc[w].now \subseteq UIndexed(e)
            /\ e = <<>> => UIndexed(e) \subseteq uproc[w].old
        BY <3>1 DEF UInd, URead
      <3>4. UIndexed(e)' \subseteq UIndexed(e) /\ (uclean'[e] => uclean[e] /\ UIndexed(e)' = UIndexed(e))
        BY <1>10, <1>15, <3>2
      <3> QED
        BY <3>1, <3>3, <3>4
    <2> QED
      BY <2>1, <2>2
  <1>17. ASSUME NEW e \in UDirs PROVE USettled(e)'
    <2>1. SUFFICES ASSUME uclean'[e], \A w \in UProcs : uproc'[w].pc = "del" => uproc'[w].dir # e PROVE USettled(e)'
      BY DEF USettled
    <2>2. e # d
      BY <1>1, <1>9, <2>1
    <2>3. uclean[e] /\ UIndexed(e)' = UIndexed(e)
      BY <1>10, <1>15, <2>1, <2>2
    <2>4. \A w \in UProcs : uproc[w].pc = "del" => uproc[w].dir # e
      BY <1>1, <1>9, <2>1, <2>2
    <2> QED
      BY <1>5, <2>3, <2>4 DEF UInd, USettled
  <1> QED
    BY <1>12, <1>13, <1>14, <1>16, <1>17 DEF UInd

LEMMA UAddKeeps ==
  ASSUME UInd, NEW p \in UProcs, UAdd(p)
  PROVE  UInd'
  <1>1. PICK d : d = uproc[p].dir
    OBVIOUS
  <1>2. PICK now, old : now = uproc[p].now /\ old = uproc[p].old
    OBVIOUS
  <1>3. /\ uproc[p].pc = "del" /\ ToDelete(p) = {}
        /\ urows' = [r \in UPaths |-> IF Front(r) = d /\ Last(r) \in now \ old THEN urows[r] + 1 ELSE urows[r]]
        /\ ulast' = [ulast EXCEPT ![d] = now]
        /\ UTo(p, "unlock") /\ UNCHANGED <<ulocks, ulock, uclean>>
    BY <1>1, <1>2 DEF UAdd, ToAdd
  <1>4. /\ uproc' \in [UProcs -> UCallsOf]
        /\ \A w \in UProcs : w # p => uproc'[w] = uproc[w]
        /\ uproc'[p].pc = "unlock" /\ uproc'[p].dir = uproc[p].dir /\ uproc'[p].lock = uproc[p].lock
        /\ \A l : UUsing(l)' = UUsing(l)
    BY <1>3, GoesTo DEF UInd
  <1>5. d \in UDirs /\ now \in SUBSET UNames /\ old \in SUBSET UNames
    BY <1>1, <1>2, <1>3 DEF UInd, UTyped, UCallsOf, ULocked
  <1>6. /\ UIndexed(d) \cap now \subseteq old
        /\ uclean[d] => old \cap now \subseteq UIndexed(d)
        /\ d = <<>> => UIndexed(d) \subseteq old
    BY <1>1, <1>2, <1>3 DEF UInd, URead
  <1>7. ASSUME NEW e \in UDirs, NEW m \in UNames
        PROVE  /\ Append(e, m) \in UPaths /\ urows[Append(e, m)] \in Nat
               /\ urows'[Append(e, m)] = IF e = d /\ m \in now \ old THEN urows[Append(e, m)] + 1 ELSE urows[Append(e, m)]
    <2>1. Append(e, m) \in UPaths /\ e \in Seq(UNames)
      BY UAssumption DEF UPaths
    <2>2. Front(Append(e, m)) = e /\ Last(Append(e, m)) = m
      BY <2>1, FrontLast
    <2>3. urows[Append(e, m)] \in Nat
      BY <2>1 DEF UInd, UTyped
    <2> QED
      BY <1>3, <2>1, <2>2, <2>3
  <1>8. ASSUME NEW r \in UPaths PROVE urows'[r] \in Nat /\ urows'[r] <= 1
    <2>1. PICK e \in UDirs, m \in UNames : r = Append(e, m)
      BY RowsOf
    <2>2. urows[r] \in Nat /\ urows[r] <= 1
      BY <1>7, <2>1 DEF UInd, UOneRow
    <2>3. e = d /\ m \in now \ old => ~(urows[r] > 0)
      BY <1>6, <2>1 DEF UIndexed
    <2> QED
      BY <1>7, <2>1, <2>2, <2>3
  <1>9. urows' \in [UPaths -> Nat] /\ UOneRow'
    <2>1. urows' = [r \in UPaths |-> urows'[r]]
      BY <1>3
    <2>2. \A r \in UPaths : urows'[r] \in Nat /\ urows'[r] <= 1
      BY <1>8
    <2>3. urows' \in [UPaths -> Nat]
      BY <2>1, <2>2
    <2>4. UPaths' = UPaths
      BY DEF UPaths
    <2> QED
      BY <2>2, <2>3, <2>4 DEF UOneRow
  <1>10. /\ UIndexed(d)' = UIndexed(d) \cup (now \ old)
         /\ \A e \in UDirs : e # d => UIndexed(e)' = UIndexed(e)
    <2>1. \A m \in UNames : urows'[Append(d, m)] > 0 <=> urows[Append(d, m)] > 0 \/ m \in now \ old
      BY <1>5, <1>7
    <2>2. \A e \in UDirs, m \in UNames : e # d => urows'[Append(e, m)] = urows[Append(e, m)]
      BY <1>7
    <2> QED
      BY <1>5, <2>1, <2>2 DEF UIndexed
  <1>11. ulast' \in [UDirs -> SUBSET UNames] /\ \A e \in UDirs : ulast'[e] = IF e = d THEN now ELSE ulast[e]
    BY <1>3, <1>5 DEF UInd, UTyped
  <1>12. UTyped'
    BY <1>3, <1>4, <1>9, <1>11 DEF UInd, UTyped, ULocks, UPaths
  <1>13. UCounted' /\ ULocked'
    BY <1>3, <1>4, LocksStay DEF UInd, UHolding
  <1>14. ASSUME NEW w \in UProcs PROVE URead(w)'
    <2>1. SUFFICES ASSUME uproc'[w].pc = "del" PROVE URead(w)'
      BY DEF URead
    <2>2. w # p /\ uproc'[w] = uproc[w] /\ uproc[w].pc = "del"
      BY <1>4, <2>1
    <2>3. uproc[w].dir \in UDirs /\ uproc[w].dir # d
      BY <1>1, <1>3, <2>2, OthersElsewhere DEF UInd, ULocked, UHolding
    <2>4. \A m \in UNames : urows'[Append(uproc[w].dir, m)] = urows[Append(uproc[w].dir, m)]
      BY <1>7, <2>3
    <2> QED
      BY <1>3, <2>2, <2>4 DEF UInd, URead, UIndexed
  <1>15. ASSUME NEW e \in UDirs PROVE USettled(e)'
    <2>1. SUFFICES ASSUME uclean[e], \A w \in UProcs : uproc'[w].pc = "del" => uproc'[w].dir # e PROVE USettled(e)'
      BY <1>3 DEF USettled
    <2>2. CASE e = d
      <3>1. now \subseteq UIndexed(d)'
        BY <1>6, <1>10, <2>1, <2>2
      <3>2. ASSUME d = <<>>, NEW m \in UIndexed(d)' \ now PROVE Append(d, m) \in UMounts
        <4>1. m \in old \ now
          BY <1>6, <1>10, <3>2
        <4> QED
          BY <1>1, <1>2, <1>3, <4>1 DEF ToDelete
      <3>3. ulast'[d] = now
        BY <1>5, <1>11
      <3> QED
        BY <2>2, <3>1, <3>2, <3>3 DEF USettled
    <2>3. CASE e # d
      <3>1. \A w \in UProcs : uproc[w].pc = "del" => uproc[w].dir # e
        BY <1>1, <1>4, <2>1, <2>3
      <3>2. UIndexed(e)' = UIndexed(e) /\ ulast'[e] = ulast[e]
        BY <1>10, <1>11, <2>3
      <3> QED
        BY <2>1, <3>1, <3>2 DEF UInd, USettled
    <2> QED
      BY <2>2, <2>3
  <1> QED
    BY <1>9, <1>12, <1>13, <1>14, <1>15 DEF UInd

-----------------------------------------------------------------------------
LEMMA UpdatesStart == ASSUME UInit PROVE UInd
  <1>1. UIdle \in UCallsOf /\ UIdle.pc = "idle"
    BY DEF UIdle, UCallsOf
  <1>2. UTyped
    BY <1>1 DEF UInit, UTyped
  <1>3. \A l : UUsing(l) = {}
    BY <1>1 DEF UInit, UUsing
  <1>4. UCounted
    BY <1>3, FS_EmptySet DEF UInit, UCounted
  <1>5. \A p \in UProcs : uproc[p].pc = "idle"
    BY <1>1 DEF UInit
  <1>6. ULocked
    BY <1>5 DEF UInit, ULocked, UHolding
  <1>7. UOneRow /\ \A p \in UProcs : URead(p)
    BY <1>5 DEF UInit, UOneRow, URead
  <1>8. ASSUME NEW d \in UDirs PROVE USettled(d)
    <2>1. \A n \in UNames : Append(d, n) \in UPaths
      BY DEF UPaths
    <2>2. \A n \in UNames : urows[Append(d, n)] = 0
      BY <2>1 DEF UInit
    <2>3. UIndexed(d) = {} /\ ulast[d] = {}
      BY <2>2 DEF UInit, UIndexed
    <2> QED
      BY <2>3 DEF USettled
  <1> QED
    BY <1>2, <1>4, <1>6, <1>7, <1>8 DEF UInd

LEMMA UpdatesStep == ASSUME UInd, [UNext]_updateVars PROVE UInd'
  <1>1. CASE UNext
    <2>1. PICK p \in UProcs :
             \/ \E d \in UDirs, now \in SUBSET UNames : Update(p, d, now)
             \/ ULock(p) \/ UGet(p) \/ UDel(p) \/ UAdd(p) \/ UFails(p) \/ UUnlock(p) \/ UDrop(p)
      BY <1>1 DEF UNext
    <2>2. CASE \E d \in UDirs, now \in SUBSET UNames : Update(p, d, now)
      BY <2>2, UpdateRowsKeeps
    <2>3. CASE ULock(p)
      BY <2>3, ULockKeeps
    <2>4. CASE UGet(p)
      BY <2>4, UGetKeeps
    <2>5. CASE UDel(p)
      BY <2>5, UDelKeeps
    <2>6. CASE UAdd(p)
      BY <2>6, UAddKeeps
    <2>7. CASE UFails(p)
      BY <2>7, UFailsKeeps
    <2>8. CASE UUnlock(p)
      BY <2>8, UUnlockKeeps
    <2>9. CASE UDrop(p)
      BY <2>9, UDropKeeps
    <2> QED
      BY <2>1, <2>2, <2>3, <2>4, <2>5, <2>6, <2>7, <2>8, <2>9
  <1>2. CASE UNCHANGED updateVars
    <2>1. /\ urows' = urows /\ ulocks' = ulocks /\ ulock' = ulock /\ uproc' = uproc
          /\ ulast' = ulast /\ uclean' = uclean
      BY <1>2 DEF updateVars
    <2>2. UTyped'
      BY <2>1 DEF UInd, UTyped, ULocks, UPaths
    <2>3. \A l : UUsing(l)' = UUsing(l)
      BY <2>1 DEF UUsing
    <2>4. UCounted' /\ ULocked'
      BY <2>1, <2>3, LocksStay DEF UInd
    <2>5. UOneRow' /\ (\A p \in UProcs : URead(p)') /\ (\A d \in UDirs : USettled(d)')
      BY <2>1, RowsStay DEF UInd
    <2> QED
      BY <2>2, <2>4, <2>5 DEF UInd
  <1> QED
    BY <1>1, <1>2

-----------------------------------------------------------------------------
(* The queue of Meilisearch                                                     *)

QSent == Range(qserver)
QListed == [dir : QDirs, now : SUBSET QNames, at : Nat \ {0}]
QServerTasks == [uid : Nat, kind : {"under", "delete", "add"}, paths : (SUBSET QPaths) \ {{}}]
QTyped ==
  /\ qqueue \in [QDirs -> [now : SUBSET QNames, at : Nat]] /\ \A d \in QQueued : qqueue[d].at # 0
  /\ IsFiniteSet(QQueued)
  /\ qpending \in [QDirs -> SUBSET Nat] /\ qtasks \in Seq(QListed) /\ qserver \in Seq(QServerTasks)
  /\ qdocs \subseteq QPaths /\ qlast \in [QDirs -> SUBSET QNames] /\ qclean \in [QDirs -> BOOLEAN]
  /\ quid \in Nat /\ qcalls \in Nat /\ qfaults \in Nat
\* The last listing of a directory is the one in the queue, or the one that was taken
\* from it, of which there is one only.
QLatest ==
  /\ \A i, j \in DOMAIN qtasks : qtasks[i].dir = qtasks[j].dir => i = j
  /\ \A d \in QDirs : IF d \in QQueued THEN qqueue[d].now = qlast[d]
                      ELSE \A i \in DOMAIN qtasks : qtasks[i].dir = d => qtasks[i].now = qlast[d]
\* No task of the server deletes what is below a clean directory.
QSafe == \A d \in QDirs : qclean[d] => \A x \in QSent : x.kind # "add" => \A q \in x.paths : ~IsPrefix(q, d)
\* A directory waits for every task that touches its documents.
QAwaited ==
  \A d \in QDirs : qclean[d] \/ qfaults = 0 => \A x \in QSent : \A q \in x.paths : Front(q) = d => x.uid \in qpending[d]
\* What is on its way to the server makes the documents of a directory those of the listing.
QComes(q) == (\A x \in QSent : x.kind = "delete" => q \notin x.paths) /\ (q \in qdocs \/ \E x \in QSent : x.kind = "add" /\ q \in x.paths)
QGoes(q) == (\A x \in QSent : x.kind = "add" => q \notin x.paths) /\ (q \notin qdocs \/ \E x \in QSent : x.kind = "delete" /\ q \in x.paths)
QSettling ==
  \A d \in QDirs : qclean[d] /\ d \notin QQueued /\ (\A i \in DOMAIN qtasks : qtasks[i].dir # d) =>
    \A n \in QNames : IF n \in qlast[d] THEN QComes(Append(d, n)) ELSE Append(d, n) \in QMounts \/ QGoes(Append(d, n))
QInd == QTyped /\ QLatest /\ QSafe /\ QAwaited /\ QSettling



\* The tasks that a listing sends.
QSends(t) == Range(QDeletes(t)) \cup Range(QAdds(t))
QPart(s, t) == s \in Seq(QServerTasks) /\ Range(s) \subseteq QSends(t)

LEMMA ConcatHas ==
  ASSUME NEW S, NEW s \in Seq(S), NEW t \in Seq(S)
  PROVE  s \o t \in Seq(S) /\ Range(s \o t) = Range(s) \cup Range(t)
<1> DEFINE u == s \o t
<1>1. u \in Seq(S) /\ Len(u) = Len(s) + Len(t) /\ Len(s) \in Nat /\ Len(t) \in Nat
  OBVIOUS
<1>2. DOMAIN u = 1..Len(u) /\ DOMAIN s = 1..Len(s) /\ DOMAIN t = 1..Len(t)
  OBVIOUS
<1>3. \A i \in 1..Len(s) : u[i] = s[i]
  OBVIOUS
<1>4. \A i \in 1..Len(t) : u[Len(s) + i] = t[i]
  OBVIOUS
<1>5. \A i \in 1..Len(u) : i \notin 1..Len(s) => i - Len(s) \in 1..Len(t) /\ u[i] = t[i - Len(s)]
  BY <1>1
<1> HIDE DEF u
<1>6. \A i \in DOMAIN u : u[i] \in {s[j] : j \in DOMAIN s} \cup {t[j] : j \in DOMAIN t}
  BY <1>2, <1>3, <1>5
<1>7. \A j \in DOMAIN s : s[j] \in {u[i] : i \in DOMAIN u}
  BY <1>1, <1>2, <1>3
<1>8. \A j \in DOMAIN t : t[j] \in {u[i] : i \in DOMAIN u}
  <2> TAKE j \in DOMAIN t
  <2>1. Len(s) + j \in 1..Len(u) /\ u[Len(s) + j] = t[j]
    BY <1>1, <1>2, <1>4
  <2> QED BY <1>2, <2>1
<1>9. {u[i] : i \in DOMAIN u} = {s[j] : j \in DOMAIN s} \cup {t[j] : j \in DOMAIN t}
  BY <1>6, <1>7, <1>8
<1> QED BY <1>1, <1>9 DEF u, Range

LEMMA RestHas ==
  ASSUME NEW S, NEW s \in Seq(S), s # <<>>
  PROVE  /\ Tail(s) \in Seq(S) /\ Head(s) = s[1] /\ 1 \in DOMAIN s /\ Head(s) \in S
         /\ Range(s) = {Head(s)} \cup Range(Tail(s))
         /\ \A i \in DOMAIN Tail(s) : i + 1 \in DOMAIN s /\ Tail(s)[i] = s[i + 1] /\ i \in Nat /\ i # 0
<1> DEFINE u == Tail(s)
<1>1. u \in Seq(S) /\ Len(u) = Len(s) - 1 /\ Len(s) \in Nat \ {0} /\ Head(s) = s[1] /\ Head(s) \in S
  OBVIOUS
<1>2. DOMAIN u = 1..Len(u) /\ DOMAIN s = 1..Len(s)
  OBVIOUS
<1>3. \A i \in 1..Len(u) : u[i] = s[i + 1]
  OBVIOUS
<1> HIDE DEF u
<1>4. \A i \in DOMAIN u : i + 1 \in DOMAIN s /\ u[i] = s[i + 1] /\ i \in Nat /\ i # 0
  BY <1>1, <1>2, <1>3
<1>5. \A i \in DOMAIN s : s[i] = s[1] \/ (i - 1 \in DOMAIN u /\ u[i - 1] = s[i])
  BY <1>1, <1>2, <1>3
<1>6. 1 \in DOMAIN s
  BY <1>1, <1>2
<1>7. {s[i] : i \in DOMAIN s} \subseteq {s[1]} \cup {u[i] : i \in DOMAIN u}
  BY <1>5
<1>8. {s[1]} \cup {u[i] : i \in DOMAIN u} \subseteq {s[i] : i \in DOMAIN s}
  BY <1>4, <1>6
<1> QED BY <1>1, <1>4, <1>6, <1>7, <1>8 DEF u, Range

\* What a listing sends: deletions of the names that are gone, additions of the new ones.
LEMMA Sent ==
  ASSUME QTyped, NEW t \in QListed
  PROVE  /\ QDeletes(t) \in Seq(QServerTasks) /\ QAdds(t) \in Seq(QServerTasks)
         /\ \A x \in QSends(t) : IF x.kind = "add" THEN x.paths = QToAdd(t) ELSE x.paths = QPathsToDelete(t)
         /\ QPathsToDelete(t) # {} => \E x \in QSends(t) : x.kind = "delete" /\ x.paths = QPathsToDelete(t)
         /\ QToAdd(t) # {} => \E x \in QSends(t) : x.kind = "add" /\ x.paths = QToAdd(t)
<1>1. t.dir \in QDirs /\ t.now \subseteq QNames /\ t.dir \in Seq(QNames)
  BY QAssumption DEF QListed
<1>2. QOld(t.dir) \subseteq QNames
  <2> SUFFICES ASSUME NEW r \in qdocs PROVE Last(r) \in QNames
    BY DEF QOld
  <2>1. PICK d \in QDirs, n \in QNames : r = Append(d, n)
    BY DEF QTyped, QPaths
  <2> QED BY <2>1, FrontLast, QAssumption
<1>3. QPathsToDelete(t) \subseteq QPaths /\ QToAdd(t) \subseteq QPaths
  BY <1>1, <1>2 DEF QPathsToDelete, QToAdd, QPaths
<1>4. PICK P, A, k : P = QPathsToDelete(t) /\ A = QToAdd(t) /\ k = quid
  OBVIOUS
<1>5. k \in Nat /\ P \in SUBSET QPaths /\ A \in SUBSET QPaths
  BY <1>3, <1>4 DEF QTyped
<1> DEFINE x == QTask(k + 1, "under", P)
           y == QTask(k + 2, "delete", P)
           z == QTask(k + 3, "add", A)
<1>6. /\ x.kind = "under" /\ x.paths = P /\ y.kind = "delete" /\ y.paths = P /\ z.kind = "add" /\ z.paths = A
      /\ P # {} => x \in QServerTasks /\ y \in QServerTasks
      /\ A # {} => z \in QServerTasks
  BY <1>5 DEF QTask, QServerTasks
<1>7. QDeletes(t) = (IF P = {} THEN <<>> ELSE <<x, y>>) /\ QAdds(t) = IF A = {} THEN <<>> ELSE <<z>>
  BY <1>4 DEF QDeletes, QAdds
<1> HIDE DEF x, y, z
<1>8. /\ QDeletes(t) \in Seq(QServerTasks) /\ QAdds(t) \in Seq(QServerTasks)
      /\ Range(QDeletes(t)) = IF P = {} THEN {} ELSE {x, y}
      /\ Range(QAdds(t)) = IF A = {} THEN {} ELSE {z}
  <2>1. CASE P = {}
    BY <1>6, <1>7, <2>1 DEF Range
  <2>2. CASE P # {}
    BY <1>6, <1>7, <2>2 DEF Range
  <2> QED BY <2>1, <2>2
<1> QED BY <1>4, <1>6, <1>8 DEF QSends

\* The names of the documents of a directory, none of the root being hidden.
LEMMA OldNames ==
  ASSUME QTyped, NEW t \in QListed, NEW n \in QNames
  PROVE  /\ Append(t.dir, n) \in qdocs => n \in QOld(t.dir)
         /\ ~QHides(t) /\ n \in t.now /\ n \in QOld(t.dir) => Append(t.dir, n) \in qdocs
<1>1. t.dir \in QDirs /\ t.dir \in Seq(QNames)
  BY QAssumption DEF QListed
<1>2. ASSUME Append(t.dir, n) \in qdocs PROVE n \in QOld(t.dir)
  <2>1. Front(Append(t.dir, n)) = t.dir /\ Last(Append(t.dir, n)) = n
    BY <1>1, FrontLast
  <2> QED BY <1>2, <2>1 DEF QOld
<1>3. ASSUME ~QHides(t), n \in t.now, n \in QOld(t.dir) PROVE Append(t.dir, n) \in qdocs
  <2>1. PICK r \in qdocs : Last(r) = n /\ (t.dir = <<>> \/ Front(r) = t.dir)
    BY <1>3 DEF QOld
  <2>2. PICK e \in QDirs, m \in QNames : r = Append(e, m)
    BY <2>1 DEF QTyped, QPaths
  <2>3. e \in Seq(QNames) /\ Front(r) = e /\ Last(r) = m /\ Len(r) = Len(e) + 1
    BY <2>2, FrontLast, QAssumption
  <2>4. CASE t.dir = <<>>
    <3>1. Len(r) <= 1
      BY <1>3, <2>1, <2>3, <2>4 DEF QHides
    <3>2. e = <<>>
      BY <2>3, <3>1
    <3> QED BY <2>1, <2>2, <2>3, <2>4, <3>2
  <2> QED BY <2>1, <2>2, <2>3, <2>4
<1> QED BY <1>2, <1>3

LEMMA Runs ==
  ASSUME QInd, qtasks # <<>>, NEW t, t = Head(qtasks), NEW sent, NEW known, QPart(sent, t), QPart(known, t),
         NEW f \in {0, 1}, QRun(t, sent, known, f),
         f = 0 => QUnapplied(t.dir) = {} /\ sent = QDeletes(t) \o QAdds(t) /\ known = sent
  PROVE  QInd'
<1> DEFINE d == t.dir
           X == Range(sent)
<1>1. QTyped /\ qtasks \in Seq(QListed)
  BY DEF QInd, QTyped
<1>2. /\ t \in QListed /\ t = qtasks[1] /\ 1 \in DOMAIN qtasks /\ Tail(qtasks) \in Seq(QListed)
      /\ \A i \in DOMAIN Tail(qtasks) : i + 1 \in DOMAIN qtasks /\ Tail(qtasks)[i] = qtasks[i + 1] /\ i \in Nat /\ i # 0
      /\ Range(qtasks) = {t} \cup Range(Tail(qtasks))
  BY <1>1, RestHas
<1>3. d \in QDirs /\ t.now \subseteq QNames /\ d \in Seq(QNames)
  BY <1>2, QAssumption DEF QListed
<1>4. /\ qserver' = qserver \o sent /\ qtasks' = Tail(qtasks) /\ qfaults' = qfaults + f /\ quid' = quid + 3
      /\ qpending' = [qpending EXCEPT ![d] = {known[i].uid : i \in DOMAIN known}]
      /\ UNCHANGED <<qqueue, qdocs, qlast, qcalls>> /\ qclean' \in [QDirs -> BOOLEAN]
  BY DEF QRun
<1>5. \A e \in QDirs : qclean'[e] => /\ qclean[e] /\ \A q \in QPathsToDelete(t) : ~IsPrefix(q, e)
                                     /\ e = d => f = 0 /\ ~QHides(t)
  BY DEF QRun
<1>6. QSent' = QSent \cup X /\ qserver' \in Seq(QServerTasks)
  <2>1. qserver \in Seq(QServerTasks) /\ sent \in Seq(QServerTasks)
    BY <1>1 DEF QPart, QTyped
  <2>2. /\ qserver \o sent \in Seq(QServerTasks)
        /\ Range(qserver \o sent) = Range(qserver) \cup X
    BY <2>1, ConcatHas
  <2> HIDE DEF X
  <2> QED BY <1>4, <2>2 DEF QSent
<1>7. \A x \in X : x \in QSends(t) /\ x \in QServerTasks /\ IF x.kind = "add" THEN x.paths = QToAdd(t) ELSE x.paths = QPathsToDelete(t)
  <2>1. \A x \in X : x \in QSends(t) /\ x \in QServerTasks
    BY DEF QPart, Range
  <2> QED BY <1>1, <1>2, <2>1, Sent
<1>8. \A x \in X : \A q \in x.paths : \E n \in QNames : /\ q = Append(d, n) /\ Front(q) = d
                                                        /\ IF x.kind = "add" THEN n \in t.now ELSE n \notin t.now
  <2>1. QOld(d) \subseteq QNames
    <3> SUFFICES ASSUME NEW r \in qdocs PROVE Last(r) \in QNames
      BY DEF QOld
    <3>1. PICK e \in QDirs, n \in QNames : r = Append(e, n)
      BY <1>1 DEF QTyped, QPaths
    <3> QED BY <3>1, FrontLast, QAssumption
  <2>2. \A n \in QNames : Front(Append(d, n)) = d
    BY <1>3, FrontLast
  <2>3. \A q \in QToAdd(t) : \E n \in QNames : q = Append(d, n) /\ n \in t.now
    BY <1>3 DEF QToAdd
  <2>4. \A q \in QPathsToDelete(t) : \E n \in QNames : q = Append(d, n) /\ n \notin t.now
    BY <2>1 DEF QPathsToDelete
  <2> HIDE DEF X, d
  <2> QED BY ZenonT(30), <1>7, <2>2, <2>3, <2>4
<1>9. QTyped'
  <2>1. {known[i].uid : i \in DOMAIN known} \in SUBSET Nat
    <3>1. \A i \in DOMAIN known : known[i] \in QServerTasks
      BY DEF QPart
    <3> QED BY <3>1 DEF QServerTasks
  <2>2. qpending' \in [QDirs -> SUBSET Nat]
    BY <1>1, <1>4, <2>1 DEF QTyped
  <2>3. qfaults' \in Nat /\ quid' \in Nat
    BY <1>1, <1>4 DEF QTyped
  <2>4. qtasks' \in Seq(QListed) /\ qserver' \in Seq(QServerTasks)
    BY <1>2, <1>4, <1>6
  <2>5. QQueued' = QQueued
    BY <1>4 DEF QQueued
  <2>6. /\ qqueue' \in [QDirs -> [now : SUBSET QNames, at : Nat]]
        /\ \A e \in QQueued' : qqueue'[e].at # 0
        /\ IsFiniteSet(QQueued')
    BY <1>1, <1>4, <2>5 DEF QTyped
  <2>7. /\ qdocs' \subseteq QPaths /\ qlast' \in [QDirs -> SUBSET QNames] /\ qcalls' \in Nat
        /\ qclean' \in [QDirs -> BOOLEAN]
    BY <1>1, <1>4 DEF QTyped
  <2> QED BY <2>2, <2>3, <2>4, <2>6, <2>7 DEF QTyped
<1>10. QLatest'
  BY <1>2, <1>4 DEF QInd, QLatest, QQueued
<1>11. QSafe'
  <2> SUFFICES ASSUME NEW e \in QDirs, qclean'[e], NEW x \in QSent', x.kind # "add", NEW q \in x.paths PROVE ~IsPrefix(q, e)
    BY DEF QSafe
  <2>1. CASE x \in X
    <3>1. x.paths = QPathsToDelete(t)
      BY <1>7, <2>1
    <3> QED BY <1>5, <3>1
  <2>2. CASE x \in QSent
    BY <1>5, <2>2 DEF QInd, QSafe
  <2> QED BY <1>6, <2>1, <2>2
<1>12. ASSUME f = 0, qclean[d] \/ qfaults = 0 PROVE \A x \in QSent : \A q \in x.paths : Front(q) # d
  BY <1>3, <1>12 DEF QInd, QAwaited, QUnapplied, QSent, Range
<1>13. QAwaited'
  <2> SUFFICES ASSUME NEW e \in QDirs, qclean'[e] \/ qfaults' = 0, NEW x \in QSent', NEW q \in x.paths, Front(q) = e
               PROVE  x.uid \in qpending'[e]
    BY DEF QAwaited
  <2>1. (qclean[e] \/ qfaults = 0) /\ (e = d => f = 0)
    <3>1. qfaults' = 0 => qfaults = 0 /\ f = 0
      BY <1>1, <1>4 DEF QTyped
    <3>2. qclean'[e] => qclean[e] /\ (e = d => f = 0)
      BY <1>5
    <3> QED BY <3>1, <3>2
  <2>2. CASE e = d
    <3>1. x \in X
      BY <1>6, <1>12, <2>1, <2>2
    <3>2. known = sent /\ qpending'[d] = {known[i].uid : i \in DOMAIN known}
      BY <1>1, <1>3, <1>4, <2>1, <2>2 DEF QTyped
    <3> QED BY <2>2, <3>1, <3>2 DEF Range
  <2>3. CASE e # d
    <3>1. x \in QSent
      BY <1>6, <1>8, <2>3
    <3>2. qpending'[e] = qpending[e]
      BY <1>1, <1>4, <2>3 DEF QTyped
    <3> QED BY <2>1, <3>1, <3>2 DEF QInd, QAwaited
  <2> QED BY <2>2, <2>3
<1>14. QSettling'
  <2> SUFFICES ASSUME NEW e \in QDirs, qclean'[e], e \notin QQueued, \A i \in DOMAIN Tail(qtasks) : Tail(qtasks)[i].dir # e, NEW n \in QNames
               PROVE  IF n \in qlast[e] THEN QComes(Append(e, n))' ELSE Append(e, n) \in QMounts \/ QGoes(Append(e, n))'
    BY <1>4 DEF QSettling, QQueued
  <2>1. PICK q : q = Append(e, n)
    OBVIOUS
  <2>2. Front(q) = e
    BY <2>1, FrontLast, QAssumption
  <2>3. CASE e # d
    <3>1. \A i \in DOMAIN qtasks : qtasks[i].dir # e
      <4> TAKE i \in DOMAIN qtasks
      <4>2. qtasks[i] \in Range(qtasks)
        BY DEF Range
      <4>3. qtasks[i] = t \/ qtasks[i] \in Range(Tail(qtasks))
        BY <1>2, <4>2
      <4>1. qtasks[i] = t \/ \E j \in DOMAIN Tail(qtasks) : Tail(qtasks)[j] = qtasks[i]
        BY <4>3 DEF Range
      <4> QED BY <2>3, <4>1
    <3>2. IF n \in qlast[e] THEN QComes(q) ELSE q \in QMounts \/ QGoes(q)
      BY <1>5, <2>1, <3>1 DEF QInd, QSettling
    <3>3. \A x \in X : q \notin x.paths
      BY <1>8, <2>2, <2>3
    <3>4. (QComes(q) => QComes(q)') /\ (QGoes(q) => QGoes(q)')
      BY <1>4, <1>6, <3>3 DEF QComes, QGoes
    <3> QED BY <2>1, <3>2, <3>4
  <2>4. CASE e = d
    <3>1. f = 0 /\ ~QHides(t) /\ qclean[d] /\ t.now = qlast[d]
      <4>1. t.now = qlast[d]
        BY <1>2, <1>3, <2>4 DEF QInd, QLatest
      <4>2. qclean[e] /\ (e = d => f = 0 /\ ~QHides(t))
        BY <1>5
      <4> QED BY <2>4, <4>1, <4>2
    <3>2. \A x \in QSent : q \notin x.paths
      BY <1>12, <2>2, <2>4, <3>1
    <3>3. X = QSends(t)
      <4>1. PICK u, v \in Seq(QServerTasks) : u = QDeletes(t) /\ v = QAdds(t)
        BY <1>1, <1>2, Sent
      <4>2. sent = u \o v
        BY <3>1, <4>1
      <4>3. X = Range(u) \cup Range(v)
        BY <4>2, ConcatHas
      <4> QED BY <4>1, <4>3 DEF QSends
    <3>4. \A m \in QNames : Append(d, m) = q => m = n
      BY <1>3, <2>1, <2>4, SamePath
    <3>5. CASE n \in qlast[e]
      <4>1. \A x \in X : x.kind = "delete" => q \notin x.paths
        BY <1>8, <2>4, <3>1, <3>4, <3>5
      <4>2. q \in qdocs \/ \E x \in X : x.kind = "add" /\ q \in x.paths
        <5>1. CASE n \in QOld(d)
          BY <1>1, <1>2, <2>1, <2>4, <3>1, <3>5, <5>1, OldNames
        <5>2. CASE n \notin QOld(d)
          <6>1. q \in QToAdd(t)
            BY <2>1, <2>4, <3>1, <3>5, <5>2 DEF QToAdd
          <6>2. PICK x \in QSends(t) : x.kind = "add" /\ x.paths = QToAdd(t)
            BY <1>1, <1>2, <6>1, Sent
          <6> QED BY <3>3, <6>1, <6>2
        <5> QED BY <5>1, <5>2
      <4> QED BY <1>4, <1>6, <2>1, <3>2, <3>5, <4>1, <4>2 DEF QComes
    <3>6. CASE n \notin qlast[e] /\ q \notin QMounts
      <4>1. \A x \in X : x.kind = "add" => q \notin x.paths
        BY <1>8, <2>4, <3>1, <3>4, <3>6
      <4>2. q \notin qdocs \/ \E x \in X : x.kind = "delete" /\ q \in x.paths
        <5>1. ASSUME q \in qdocs PROVE q \in QPathsToDelete(t)
          BY <1>1, <1>2, <2>1, <2>4, <3>1, <3>6, <5>1, OldNames DEF QPathsToDelete
        <5>2. QPathsToDelete(t) # {} => \E x \in QSends(t) : x.kind = "delete" /\ x.paths = QPathsToDelete(t)
          BY <1>1, <1>2, Sent
        <5> QED BY <3>3, <5>1, <5>2
      <4> QED BY <1>4, <1>6, <2>1, <3>2, <3>6, <4>1, <4>2 DEF QGoes
    <3> QED BY <2>1, <3>5, <3>6
  <2> QED BY <2>3, <2>4
<1> QED BY <1>9, <1>10, <1>11, <1>13, <1>14 DEF QInd

LEMMA EnqueueKeeps == ASSUME QInd, NEW d \in QDirs, NEW now \in SUBSET QNames, Enqueue(d, now) PROVE QInd'
<1>1. QTyped
  BY DEF QInd
<1> DEFINE new == [now |-> now, at |-> qcalls + 1]
<1>2. PICK c \in Nat : c = qcalls
  BY <1>1 DEF QTyped
<1>3. /\ qqueue' = [qqueue EXCEPT ![d] = [now |-> now, at |-> c + 1]] /\ qlast' = [qlast EXCEPT ![d] = now] /\ qcalls' = c + 1
      /\ UNCHANGED <<qpending, qtasks, qserver, qdocs, qclean, quid, qfaults>>
  BY <1>2 DEF Enqueue
<1>4. qqueue'[d] = [now |-> now, at |-> c + 1] /\ qlast'[d] = now /\ \A e \in QDirs \ {d} : qqueue'[e] = qqueue[e] /\ qlast'[e] = qlast[e]
  BY <1>1, <1>3 DEF QTyped
<1>5. qqueue'[d] # QNone /\ qqueue'[d].at # 0 /\ qqueue'[d].now = now
  BY <1>2, <1>4 DEF QNone
<1>6. QQueued' = QQueued \cup {d}
  BY <1>4, <1>5 DEF QQueued
<1>7. QTyped'
  <2>1. IsFiniteSet(QQueued')
    BY <1>1, <1>6, FS_AddElement DEF QTyped
  <2>2. qqueue' \in [QDirs -> [now : SUBSET QNames, at : Nat]] /\ qlast' \in [QDirs -> SUBSET QNames]
    BY <1>1, <1>2, <1>3 DEF QTyped
  <2>3. \A e \in QQueued' : qqueue'[e].at # 0
    BY <1>1, <1>4, <1>5, <1>6 DEF QTyped, QQueued
  <2> QED BY <1>1, <1>2, <1>3, <2>1, <2>2, <2>3 DEF QTyped
<1>8. QLatest'
  BY <1>3, <1>4, <1>5, <1>6 DEF QInd, QLatest
<1>9. QSafe' /\ QAwaited'
  BY <1>3 DEF QInd, QSafe, QAwaited, QSent
<1>10. QSettling'
  <2>1. \A q : (QComes(q) => QComes(q)') /\ (QGoes(q) => QGoes(q)')
    BY <1>3 DEF QComes, QGoes, QSent
  <2> QED BY <1>3, <1>4, <1>6, <2>1 DEF QInd, QSettling
<1> QED BY <1>7, <1>8, <1>9, <1>10 DEF QInd

LEMMA ConsumeKeeps == ASSUME QInd, Consume PROVE QInd'
<1>1. QTyped /\ qtasks = <<>> /\ IsFiniteSet(QQueued)
  BY DEF QInd, Consume, QTyped
<1>2. PICK order \in [1..Cardinality(QQueued) -> QQueued] :
        /\ Range(order) = QQueued /\ \A i, j \in DOMAIN order : i < j => QBefore(order[i], order[j])
        /\ qtasks' = [i \in DOMAIN order |-> [dir |-> order[i], now |-> qqueue[order[i]].now, at |-> qqueue[order[i]].at]]
  BY DEF Consume
<1>3. qqueue' = [e \in QDirs |-> QNone] /\ UNCHANGED <<qpending, qserver, qdocs, qlast, qclean, quid, qcalls, qfaults>>
  BY DEF Consume
<1>4. PICK k \in Nat : k = Cardinality(QQueued)
  BY <1>1, FS_CardinalityType
<1>5. QQueued \subseteq QDirs /\ QQueued' = {} /\ DOMAIN order = 1..k
  BY <1>2, <1>3, <1>4 DEF QQueued
<1>6. \A i \in 1..k : qtasks'[i] \in QListed /\ qtasks'[i].dir = order[i] /\ qtasks'[i].now = qqueue[order[i]].now
  BY <1>1, <1>2, <1>4, <1>5 DEF QTyped, QListed
<1>7. DOMAIN qtasks' = 1..k /\ qtasks' \in Seq(QListed)
  BY <1>2, <1>5, <1>6
<1>8. \A i, j \in 1..k : order[i] = order[j] => i = j
  <2> SUFFICES ASSUME NEW i \in 1..k, NEW j \in 1..k, i < j PROVE order[i] # order[j]
    OBVIOUS
  <2>1. QBefore(order[i], order[j]) /\ order[i] \in QDirs
    BY <1>2, <1>4, <1>5
  <2>2. Len(order[i]) \in Nat /\ qqueue[order[i]].at \in Nat
    BY <1>1, <2>1, QAssumption DEF QTyped
  <2> QED BY <2>1, <2>2 DEF QBefore
<1>9. QTyped'
  BY <1>1, <1>3, <1>5, <1>7, FS_EmptySet DEF QTyped, QNone
<1>10. QLatest'
  <2>1. \A i \in 1..k : qqueue[order[i]].now = qlast[order[i]]
    BY <1>2, <1>4, <1>5 DEF QInd, QLatest
  <2> QED BY <1>3, <1>5, <1>6, <1>7, <1>8, <2>1 DEF QLatest
<1>11. QSafe' /\ QAwaited'
  BY <1>3 DEF QInd, QSafe, QAwaited, QSent
<1>12. QSettling'
  <2>1. \A q : (QComes(q) => QComes(q)') /\ (QGoes(q) => QGoes(q)')
    BY <1>3 DEF QComes, QGoes, QSent
  <2>2. \A d \in QDirs : (\A i \in DOMAIN qtasks' : qtasks'[i].dir # d) => d \notin QQueued
    BY <1>2, <1>5, <1>6, <1>7 DEF Range
  <2>3. \A i \in DOMAIN qtasks : FALSE
    BY <1>1
  <2> QED BY <1>3, <2>1, <2>2, <2>3 DEF QInd, QSettling
<1> QED BY <1>9, <1>10, <1>11, <1>12 DEF QInd

LEMMA QueueSkipKeeps == ASSUME QInd, Skip PROVE QInd'
<1>1. QTyped /\ qtasks \in Seq(QListed) /\ qtasks # <<>>
  BY DEF QInd, QTyped, Skip
<1>2. PICK t \in QListed : /\ t = Head(qtasks) /\ t = qtasks[1] /\ 1 \in DOMAIN qtasks /\ Tail(qtasks) \in Seq(QListed)
      /\ \A i \in DOMAIN Tail(qtasks) : i + 1 \in DOMAIN qtasks /\ Tail(qtasks)[i] = qtasks[i + 1] /\ i \in Nat /\ i # 0
  BY <1>1, RestHas
<1>11. Range(qtasks) = {t} \cup Range(Tail(qtasks))
  BY <1>1, <1>2, RestHas
<1>3. PICK d \in QDirs : d = t.dir /\ t.now \subseteq QNames /\ t.at \in Nat \ {0}
  BY <1>2 DEF QListed
<1>4. /\ qtasks' = Tail(qtasks) /\ UNCHANGED <<qpending, qserver, qdocs, qlast, qclean, quid, qcalls, qfaults>>
      /\ qqueue' = IF qqueue[d] = QNone THEN [qqueue EXCEPT ![d] = [now |-> t.now, at |-> t.at]] ELSE qqueue
  BY <1>2, <1>3 DEF Skip, QPutBack
<1>5. /\ d \in QQueued => qqueue' = qqueue
      /\ d \notin QQueued => /\ qqueue' \in [QDirs -> [now : SUBSET QNames, at : Nat]]
                             /\ qqueue'[d].now = t.now /\ qqueue'[d].at # 0 /\ qqueue'[d] # QNone
                             /\ \A e \in QDirs \ {d} : qqueue'[e] = qqueue[e]
  <2>1. CASE d \in QQueued
    BY <1>4, <2>1 DEF QQueued
  <2>2. CASE d \notin QQueued
    <3>1. qqueue' = [qqueue EXCEPT ![d] = [now |-> t.now, at |-> t.at]]
      BY <1>3, <1>4, <2>2 DEF QQueued
    <3> QED BY <1>1, <1>3, <2>2, <3>1 DEF QTyped, QNone
  <2> QED BY <2>1, <2>2
<1>6. QQueued' = QQueued \cup {d}
  BY <1>3, <1>5 DEF QQueued
<1>7. QTyped'
  <2>1. IsFiniteSet(QQueued')
    BY <1>1, <1>6, FS_AddElement DEF QTyped
  <2>2. qqueue' \in [QDirs -> [now : SUBSET QNames, at : Nat]] /\ \A e \in QQueued' : qqueue'[e].at # 0
    BY <1>1, <1>5, <1>6 DEF QTyped, QQueued
  <2> QED BY <1>1, <1>2, <1>4, <2>1, <2>2 DEF QTyped
<1>8. QLatest'
  <2>1. \A i, j \in DOMAIN qtasks' : qtasks'[i].dir = qtasks'[j].dir => i = j
    BY <1>2, <1>4 DEF QInd, QLatest
  <2>2. ASSUME NEW e \in QDirs, e \in QQueued' PROVE qqueue'[e].now = qlast'[e]
    <3>1. CASE e \in QQueued
      BY <1>4, <1>5, <3>1 DEF QInd, QLatest
    <3>2. CASE e \notin QQueued
      BY <1>2, <1>3, <1>4, <1>5, <1>6, <2>2, <3>2 DEF QInd, QLatest
    <3> QED BY <3>1, <3>2
  <2>3. ASSUME NEW e \in QDirs, e \notin QQueued', NEW i \in DOMAIN qtasks', qtasks'[i].dir = e PROVE qtasks'[i].now = qlast'[e]
    BY <1>2, <1>4, <1>6, <2>3 DEF QInd, QLatest
  <2> QED BY <2>1, <2>2, <2>3 DEF QLatest
<1>9. QSafe' /\ QAwaited'
  BY <1>4 DEF QInd, QSafe, QAwaited, QSent
<1>10. QSettling'
  <2>1. \A q : (QComes(q) => QComes(q)') /\ (QGoes(q) => QGoes(q)')
    BY <1>4 DEF QComes, QGoes, QSent
  <2>2. \A e \in QDirs : e \notin QQueued' /\ (\A i \in DOMAIN qtasks' : qtasks'[i].dir # e) => \A i \in DOMAIN qtasks : qtasks[i].dir # e
    <3> SUFFICES ASSUME NEW e \in QDirs, e # d, \A i \in DOMAIN Tail(qtasks) : Tail(qtasks)[i].dir # e, NEW i \in DOMAIN qtasks
                 PROVE  qtasks[i].dir # e
      BY <1>4, <1>6
    <3>2. qtasks[i] \in Range(qtasks)
      BY DEF Range
    <3>3. qtasks[i] = t \/ qtasks[i] \in Range(Tail(qtasks))
      BY <1>11, <3>2
    <3>1. qtasks[i] = t \/ \E j \in DOMAIN Tail(qtasks) : Tail(qtasks)[j] = qtasks[i]
      BY <3>3 DEF Range
    <3> QED BY <1>3, <3>1
  <2> QED BY <1>4, <1>6, <2>1, <2>2 DEF QInd, QSettling
<1> QED BY <1>7, <1>8, <1>9, <1>10 DEF QInd

\* Parts of what a listing sends.
LEMMA Parts ==
  ASSUME QTyped, NEW t \in QListed
  PROVE  /\ QPart(<<>>, t) /\ QPart(QDeletes(t), t) /\ QPart(QAdds(t), t) /\ QPart(QDeletes(t) \o QAdds(t), t)
         /\ \A n \in {0, 1} : n <= Len(QDeletes(t)) => QPart(SubSeq(QDeletes(t), 1, n) \o QAdds(t), t)
<1>1. PICK u, v \in Seq(QServerTasks) : u = QDeletes(t) /\ v = QAdds(t)
  BY Sent
<1>2. QSends(t) = Range(u) \cup Range(v)
  BY <1>1 DEF QSends
<1>3. QPart(u, t) /\ QPart(v, t)
  BY <1>2 DEF QPart
<1>4. QPart(u \o v, t)
  BY <1>2, ConcatHas DEF QPart
<1>5. QPart(<<>>, t)
  <2>1. Range(<<>>) = {} /\ <<>> \in Seq(QServerTasks)
    BY DEF Range
  <2> QED BY <2>1 DEF QPart
<1>6. ASSUME NEW n \in {0, 1}, n <= Len(u) PROVE QPart(SubSeq(u, 1, n) \o v, t)
  <2> DEFINE w == SubSeq(u, 1, n)
  <2>1. n \in Nat /\ n <= Len(u) /\ Len(u) \in Nat
    BY <1>6
  <2>2. DOMAIN w = 1..n /\ (\A i \in 1..n : w[i] = u[i] /\ i \in DOMAIN u) /\ w \in Seq(QServerTasks)
    BY <2>1
  <2> HIDE DEF w
  <2>3. Range(w) \subseteq Range(u)
    BY <2>2 DEF Range
  <2>4. w \o v \in Seq(QServerTasks) /\ Range(w \o v) = Range(w) \cup Range(v)
    BY <2>2, ConcatHas
  <2> QED BY <1>2, <2>3, <2>4 DEF QPart, w
<1> QED BY <1>1, <1>3, <1>4, <1>5, <1>6

LEMMA TaskKeeps == ASSUME QInd, executeTask \/ QFails \/ QUnknown PROVE QInd'
<1>1. QTyped /\ qtasks \in Seq(QListed) /\ qtasks # <<>>
  BY DEF QInd, QTyped, executeTask, QFails, QUnknown
<1>2. PICK t \in QListed : t = Head(qtasks)
  BY <1>1, RestHas
<1>3. /\ QPart(<<>>, t) /\ QPart(QDeletes(t), t) /\ QPart(QAdds(t), t) /\ QPart(QDeletes(t) \o QAdds(t), t)
      /\ \A n \in {0, 1} : n <= Len(QDeletes(t)) => QPart(SubSeq(QDeletes(t), 1, n) \o QAdds(t), t)
  BY <1>1, <1>2, Parts
<1>4. ASSUME NEW sent, NEW known, QPart(sent, t), QPart(known, t), QRun(t, sent, known, 1) PROVE QInd'
  <2>1. PICK f \in {0, 1} : f = 1
    OBVIOUS
  <2> QED BY <1>1, <1>2, <1>4, <2>1, Runs
<1>5. CASE executeTask
  <2>1. PICK s : s = QDeletes(t) \o QAdds(t)
    OBVIOUS
  <2>2. QRun(t, s, s, 0) /\ QUnapplied(t.dir) = {} /\ QPart(s, t)
    BY <1>2, <1>3, <1>5, <2>1 DEF executeTask, QMayRun
  <2>3. PICK f \in {0, 1} : f = 0
    OBVIOUS
  <2> QED BY <1>1, <1>2, <2>1, <2>2, <2>3, Runs
<1>6. CASE QFails
  <2>1. \/ QRun(t, <<>>, <<>>, 1)
        \/ \E n \in {0, 1} : n <= Len(QDeletes(t)) /\ QRun(t, SubSeq(QDeletes(t), 1, n) \o QAdds(t), QAdds(t), 1)
        \/ QRun(t, QDeletes(t), QDeletes(t), 1)
    BY <1>2, <1>6 DEF QFails
  <2> QED BY <1>3, <1>4, <2>1
<1>7. CASE QUnknown
  <2>1. QRun(t, QDeletes(t) \o QAdds(t), QDeletes(t) \o QAdds(t), 1)
    BY <1>2, <1>7 DEF QUnknown
  <2> QED BY <1>3, <1>4, <2>1
<1> QED BY <1>5, <1>6, <1>7

LEMMA ApplyKeeps == ASSUME QInd, QApply PROVE QInd'
<1>1. QTyped /\ qserver \in Seq(QServerTasks) /\ qserver # <<>>
  BY DEF QInd, QTyped, QApply
<1>2. PICK t \in QServerTasks : t = Head(qserver) /\ QSent = {t} \cup Range(Tail(qserver)) /\ Tail(qserver) \in Seq(QServerTasks)
  BY <1>1, RestHas DEF QSent
<1>3. /\ qserver' = Tail(qserver) /\ UNCHANGED <<qqueue, qpending, qtasks, qlast, qclean, quid, qcalls, qfaults>>
      /\ qdocs' = CASE t.kind = "under" -> {q \in qdocs : ~\E p \in t.paths : IsStrictPrefix(p, q)}
                    [] t.kind = "delete" -> qdocs \ t.paths
                    [] OTHER -> qdocs \cup t.paths
  BY <1>2 DEF QApply
<1>4. QSent = {t} \cup QSent'
  BY <1>2, <1>3 DEF QSent
<1>5. t.kind \in {"under", "delete", "add"} /\ t.paths \subseteq QPaths
  BY <1>2 DEF QServerTasks
<1>6. QTyped'
  BY <1>1, <1>2, <1>3, <1>5 DEF QTyped, QQueued
<1>7. QLatest' /\ QSafe' /\ QAwaited'
  <2>1. QLatest'
    BY <1>3 DEF QInd, QLatest, QQueued
  <2>2. QSafe' /\ QAwaited'
    BY <1>3, <1>4 DEF QInd, QSafe, QAwaited
  <2> QED BY <2>1, <2>2
<1>8. QSettling'
  <2> SUFFICES ASSUME NEW d \in QDirs, qclean[d], d \notin QQueued, \A i \in DOMAIN qtasks : qtasks[i].dir # d, NEW n \in QNames
               PROVE  IF n \in qlast[d] THEN QComes(Append(d, n))' ELSE Append(d, n) \in QMounts \/ QGoes(Append(d, n))'
    BY <1>3 DEF QSettling, QQueued
  <2>1. PICK q : q = Append(d, n)
    OBVIOUS
  <2>2. IF n \in qlast[d] THEN QComes(q) ELSE q \in QMounts \/ QGoes(q)
    BY <2>1 DEF QInd, QSettling
  <2>3. t.kind = "under" => ~\E p \in t.paths : IsStrictPrefix(p, q)
    <3> SUFFICES ASSUME t.kind = "under", NEW p \in t.paths, IsStrictPrefix(p, q) PROVE FALSE
      OBVIOUS
    <3>1. ~IsPrefix(p, d)
      BY <1>4 DEF QInd, QSafe
    <3>2. p \in Seq(QNames)
      <4>1. PICK e \in QDirs, m \in QNames : p = Append(e, m)
        BY <1>5 DEF QPaths
      <4>2. e \in Seq(QNames)
        BY QAssumption
      <4> QED BY <4>1, <4>2, FrontLast
    <3>3. d \in Seq(QNames) /\ n \in QNames
      BY QAssumption
    <3> QED BY <2>1, <3>1, <3>2, <3>3, UnderIt
  <2>4. /\ t.kind = "under" => (q \in qdocs' <=> q \in qdocs)
        /\ t.kind = "delete" => (q \in qdocs' <=> q \in qdocs /\ q \notin t.paths)
        /\ t.kind = "add" => (q \in qdocs' <=> q \in qdocs \/ q \in t.paths)
    BY <1>3, <1>5, <2>3
  <2>5. QComes(q) => QComes(q)'
    BY <1>4, <1>5, <2>4 DEF QComes
  <2>6. QGoes(q) => QGoes(q)'
    BY <1>4, <1>5, <2>4 DEF QGoes
  <2> QED BY <2>1, <2>2, <2>5, <2>6
<1> QED BY <1>6, <1>7, <1>8 DEF QInd

LEMMA QueueBegins == QInit => QInd
<1> SUFFICES ASSUME QInit PROVE QInd
  OBVIOUS
<1>1. QQueued = {} /\ QSent = {} /\ qtasks = <<>> /\ qdocs = {}
  BY DEF QInit, QQueued, QSent, Range
<1>2. QTyped
  BY <1>1, FS_EmptySet DEF QInit, QTyped, QNone
<1>3. QLatest
  BY <1>1 DEF QInit, QLatest
<1>4. QSafe /\ QAwaited
  BY <1>1 DEF QSafe, QAwaited
<1>5. QSettling
  BY <1>1 DEF QInit, QSettling, QGoes
<1> QED BY <1>2, <1>3, <1>4, <1>5 DEF QInd

LEMMA QueueStutters == QInd /\ UNCHANGED queueVars => QInd'
<1> SUFFICES ASSUME QInd, UNCHANGED queueVars PROVE QInd'
  OBVIOUS
<1>1. UNCHANGED <<qqueue, qpending, qtasks, qserver, qdocs, qlast, qclean, quid, qcalls, qfaults>>
  BY DEF queueVars
<1>2. QSent' = QSent /\ QQueued' = QQueued
  BY <1>1 DEF QSent, QQueued
<1>3. \A q : (QComes(q)' <=> QComes(q)) /\ (QGoes(q)' <=> QGoes(q))
  BY <1>1, <1>2 DEF QComes, QGoes
<1>4. QTyped' /\ QLatest'
  BY <1>1, <1>2 DEF QInd, QTyped, QLatest
<1>5. QSafe' /\ QAwaited' /\ QSettling'
  BY <1>1, <1>2, <1>3 DEF QInd, QSafe, QAwaited, QSettling
<1> QED BY <1>4, <1>5 DEF QInd

LEMMA QueueSteps == QInd /\ [QNext]_queueVars => QInd'
BY EnqueueKeeps, ConsumeKeeps, QueueSkipKeeps, TaskKeeps, ApplyKeeps, QueueStutters DEF QNext

LEMMA QueueSettles == QInd => QSettles
<1> SUFFICES ASSUME QInd, QQueued = {}, qtasks = <<>>, qserver = <<>>, NEW d \in QDirs, qclean[d]
             PROVE  LET names == {Last(q) : q \in {r \in qdocs : Front(r) = d}}
                    IN  qlast[d] \subseteq names /\ \A n \in names \ qlast[d] : Append(d, n) \in QMounts
  BY DEF QSettles
<1>1. QTyped /\ QSent = {}
  BY DEF QInd, QSent, Range
<1>2. \A n \in QNames : IF n \in qlast[d] THEN Append(d, n) \in qdocs ELSE Append(d, n) \in QMounts \/ Append(d, n) \notin qdocs
  BY <1>1 DEF QInd, QSettling, QComes, QGoes
<1>3. ASSUME NEW n \in qlast[d] PROVE n \in {Last(q) : q \in {r \in qdocs : Front(r) = d}}
  <2>1. n \in QNames /\ Append(d, n) \in qdocs
    BY <1>1, <1>2 DEF QTyped
  <2>2. Front(Append(d, n)) = d /\ Last(Append(d, n)) = n
    BY <2>1, FrontLast, QAssumption
  <2> QED BY <2>1, <2>2
<1>4. ASSUME NEW q \in qdocs, Front(q) = d, Last(q) \notin qlast[d] PROVE Append(d, Last(q)) \in QMounts
  <2>1. PICK e \in QDirs, n \in QNames : q = Append(e, n)
    BY <1>1 DEF QTyped, QPaths
  <2>2. e = d /\ n = Last(q)
    BY <1>4, <2>1, FrontLast, QAssumption
  <2> QED BY <1>2, <1>4, <2>1, <2>2
<1> QED BY <1>3, <1>4

LEMMA QueueGenerations == QInd => QOneGeneration
<1> SUFFICES ASSUME QInd
             PROVE  QOneGeneration
  OBVIOUS
<1>3. qfaults = 0 \/ qfaults > 0
  BY DEF QInd, QTyped
<1> SUFFICES ASSUME NEW i \in DOMAIN qserver, NEW j \in DOMAIN qserver, NEW d \in QDirs, qfaults = 0,
                    \A q \in qserver[i].paths \cup qserver[j].paths : Front(q) = d
             PROVE  {qserver[i].uid, qserver[j].uid} \subseteq qpending[d]
  BY <1>3 DEF QOneGeneration
<1>1. qserver[i] \in QSent /\ qserver[j] \in QSent /\ qserver[i] \in QServerTasks /\ qserver[j] \in QServerTasks
  BY DEF QInd, QTyped, QSent, Range
<1>2. \A x \in QServerTasks : \E q : q \in x.paths
  BY DEF QServerTasks
<1> QED BY <1>1, <1>2 DEF QInd, QAwaited

(* For any number of processes, directories, names, listings and failures: no   *)
(* object gets two rows, and the rows of a directory that no update is writing  *)
(* are those of the last update of it, and of what is mounted in it             *)
(* (search/build.go, update_lock.go); once nothing is queued or under way, the  *)
(* documents of a directory are those of its last listing, each compared only   *)
(* after the tasks of the one before it (task_queue.go:99-265).                 *)
THEOREM IndexIsRight == SearchSpec => []IndexFollows
<1>1. UInd => UOneRow /\ UFollows
  BY DEF UInd, UFollows, USettled
<1>2. USpec => [](UOneRow /\ UFollows)
  BY <1>1, UpdatesStart, UpdatesStep, PTL DEF USpec
<1>3. QSpec => [](QSettles /\ QOneGeneration)
  BY QueueSettles, QueueGenerations, QueueBegins, QueueSteps, PTL DEF QSpec
<1> QED BY <1>2, <1>3, PTL DEF SearchSpec, IndexFollows
-----------------------------------------------------------------------------
(* DirCache: what the stacks of the calls look like, and who leads a flight     *)

\* What g, above f in a stack, may be: get and list look at what is above them or nearer to
\* the root, and only mkdir runs another mkdir, of a parent.
CAbove(f, g) ==
  /\ f.op = "list" => g.op \in {"list", "get"} /\ Len(g.src) <= Len(f.src) /\ (g.op = "list" => Len(g.src) < Len(f.src))
  /\ f.op = "get" => g.op \in {"list", "get"} /\ Len(g.src) < Len(f.src)
  /\ f.op = "mkdir" => g.op \in {"list", "get", "mkdir"} /\ (g.op = "mkdir" => Len(g.src) < Len(f.src))
CFrameOk(f) ==
  /\ {"op", "src", "dst", "pc"} \subseteq DOMAIN f /\ f.src \in Seq(CNames) /\ f.dst \in Seq(CNames)
  /\ f.op = "get" /\ f.src = <<>> => f.pc = "start"
  /\ f.pc = "wait" => f.op \in {"list", "mkdir"}
\* A mkdir asks for its object; the root is always found.
CAsks(f) == f.op = "mkdir" /\ f.pc = "got"
CIsSeq(s) == \E S : s \in Seq(S)
CStackOk(s, ok) ==
  /\ CIsSeq(s)
  /\ \A n \in 1..Len(s) : CFrameOk(s[n])
  /\ \A n \in 1..(Len(s) - 1) : s[n].pc \notin {"start", "wait"} /\ (CAsks(s[n]) => s[n + 1].op = "get" /\ s[n + 1].src = s[n].src)
  /\ \A m, n \in 1..Len(s) : m < n => CAbove(s[m], s[n])
  /\ s # <<>> /\ CAsks(Last(s)) /\ Last(s).src = <<>> => ok
CKey(f) == <<f.op, f.src>>
CLed(s) == {CKey(s[n]) : n \in {m \in 1..Len(s) : CLeads(s[m])}}
CFlying == ({"list"} \X listG) \cup ({"mkdir"} \X mkdirG)
CAwaits(s, F) == s # <<>> /\ Last(s).pc = "wait" => CKey(Last(s)) \in F
CShape == DOMAIN ccall = CProcs /\ \A p \in CProcs : {"stack", "ret"} \subseteq DOMAIN ccall[p]
CInd ==
  /\ CShape
  /\ \A p \in CProcs : CStackOk(ccall[p].stack, ccall[p].ret.ok) /\ CAwaits(ccall[p].stack, CFlying)
  /\ CFlying = UNION {CLed(ccall[p].stack) : p \in CProcs}
  /\ \A p, q \in CProcs : p # q => CLed(ccall[p].stack) \cap CLed(ccall[q].stack) = {}

-----------------------------------------------------------------------------
(* Stacks                                                                       *)

LEMMA AboveTrans ==
  ASSUME NEW f, NEW g, NEW h, Len(f.src) \in Nat, Len(g.src) \in Nat, Len(h.src) \in Nat, CAbove(f, g), CAbove(g, h)
  PROVE  CAbove(f, h)
BY DEF CAbove

LEMMA FrontAndLast ==
  ASSUME NEW S, NEW s \in Seq(S), s # <<>>
  PROVE  /\ Len(s) \in Nat \ {0} /\ Front(s) \in Seq(S) /\ Len(Front(s)) = Len(s) - 1 /\ Last(s) = s[Len(s)]
         /\ \A n \in 1..(Len(s) - 1) : Front(s)[n] = s[n]
<1>1. Len(s) \in Nat \ {0} /\ s[Len(s)] \in S
  OBVIOUS
<1>2. PICK k \in Nat : k = Len(s) - 1
  BY <1>1
<1>3. SubSeq(s, 1, k) \in Seq(S) /\ Len(SubSeq(s, 1, k)) = k /\ \A n \in 1..k : SubSeq(s, 1, k)[n] = s[n]
  BY <1>1, <1>2
<1> QED BY <1>1, <1>2, <1>3 DEF Front, Last

\* The top of a stack goes on as f.
LEMMA SetTop ==
  ASSUME NEW s, NEW ok, CStackOk(s, ok), s # <<>>, NEW f, CFrameOk(f), f.op = Last(s).op, f.src = Last(s).src,
         NEW now, CAsks(f) /\ f.src = <<>> => now
  PROVE  /\ CStackOk(Append(Front(s), f), now) /\ Append(Front(s), f) # <<>> /\ Last(Append(Front(s), f)) = f
         /\ (CLeads(f) <=> CLeads(Last(s))) => CLed(Append(Front(s), f)) = CLed(s)
         /\ CLeads(f) => CLed(Append(Front(s), f)) = CLed(s) \cup {CKey(f)}
<1>1. PICK t : t = Append(Front(s), f)
  OBVIOUS
<1>11. PICK S : s \in Seq(S)
  BY DEF CStackOk, CIsSeq
<1>2. Len(s) \in Nat \ {0} /\ Last(s) = s[Len(s)]
  BY <1>11, FrontAndLast
<1>3. t \in Seq(S \cup {f}) /\ Len(t) = Len(s) /\ t[Len(s)] = f /\ \A n \in 1..(Len(s) - 1) : t[n] = s[n]
  <2>1. Front(s) \in Seq(S) /\ Len(Front(s)) = Len(s) - 1 /\ \A n \in 1..(Len(s) - 1) : Front(s)[n] = s[n]
    BY <1>11, FrontAndLast
  <2> QED BY <1>1, <1>2, <2>1
<1>4. t # <<>> /\ Last(t) = f /\ CIsSeq(t)
  <2>1. t # <<>> /\ CIsSeq(t)
    BY <1>2, <1>3 DEF CIsSeq
  <2> QED BY <1>3, <2>1, FrontAndLast
<1>5. \A n \in 1..Len(s) : t[n].op = s[n].op /\ t[n].src = s[n].src /\ CFrameOk(t[n])
  BY <1>2, <1>3 DEF CStackOk
<1>6. \A n \in 1..(Len(t) - 1) : t[n].pc \notin {"start", "wait"} /\ (CAsks(t[n]) => t[n + 1].op = "get" /\ t[n + 1].src = t[n].src)
  <2> SUFFICES ASSUME NEW n \in 1..(Len(s) - 1)
               PROVE  t[n].pc \notin {"start", "wait"} /\ (CAsks(t[n]) => t[n + 1].op = "get" /\ t[n + 1].src = t[n].src)
    BY <1>3
  <2>1. n \in 1..Len(s) /\ n + 1 \in 1..Len(s)
    BY <1>2
  <2> QED BY <1>3, <1>5, <2>1 DEF CStackOk
<1>7. \A m, n \in 1..Len(t) : m < n => CAbove(t[m], t[n])
  BY <1>3, <1>5 DEF CStackOk, CAbove
<1>8. CStackOk(t, now)
  BY <1>3, <1>4, <1>5, <1>6, <1>7 DEF CStackOk
<1>9. ASSUME CLeads(f) <=> CLeads(Last(s)) PROVE CLed(t) = CLed(s)
  <2>1. \A n \in 1..Len(s) : (CLeads(t[n]) <=> CLeads(s[n])) /\ CKey(t[n]) = CKey(s[n])
    BY <1>2, <1>3, <1>5, <1>9 DEF CKey
  <2> QED BY <1>3, <2>1 DEF CLed
<1>10. ASSUME CLeads(f) PROVE CLed(t) = CLed(s) \cup {CKey(f)}
  <2>1. /\ \A n \in 1..Len(s) : CKey(t[n]) = CKey(s[n]) /\ (n # Len(s) => (CLeads(t[n]) <=> CLeads(s[n])))
        /\ CLeads(t[Len(s)]) /\ CKey(s[Len(s)]) = CKey(f) /\ Len(s) \in 1..Len(s)
    BY <1>2, <1>3, <1>5, <1>10 DEF CKey
  <2> QED BY <1>3, <2>1 DEF CLed
<1> QED BY <1>1, <1>4, <1>8, <1>9, <1>10

\* g is put on a stack whose top waits for what g returns.
LEMMA AddTop ==
  ASSUME NEW s, NEW ok, CStackOk(s, ok), s # <<>>, NEW g, CFrameOk(g), Last(s).pc \notin {"start", "wait"},
         CAbove(Last(s), g), CAsks(Last(s)) => g.op = "get" /\ g.src = Last(s).src, NEW now, ~CAsks(g), ~CLeads(g)
  PROVE  CStackOk(Append(s, g), now) /\ Append(s, g) # <<>> /\ Last(Append(s, g)) = g /\ CLed(Append(s, g)) = CLed(s)
<1>1. PICK t : t = Append(s, g)
  OBVIOUS
<1>2. PICK S : s \in Seq(S)
  BY DEF CStackOk, CIsSeq
<1>3. Len(s) \in Nat \ {0} /\ Last(s) = s[Len(s)]
  BY <1>2, FrontAndLast
<1>4. t \in Seq(S \cup {g}) /\ Len(t) = Len(s) + 1 /\ t[Len(t)] = g /\ t # <<>> /\ \A n \in 1..Len(s) : t[n] = s[n]
  BY <1>1, <1>2, <1>3
<1>5. Last(t) = g /\ CIsSeq(t)
  BY <1>4, FrontAndLast DEF CIsSeq
<1>6. \A n \in 1..Len(t) : n = Len(t) \/ n \in 1..Len(s)
  BY <1>3, <1>4
<1>7. \A n \in 1..Len(t) : CFrameOk(t[n])
  BY <1>4, <1>6 DEF CStackOk
<1>8. ASSUME NEW n \in 1..(Len(t) - 1)
      PROVE  t[n].pc \notin {"start", "wait"} /\ (CAsks(t[n]) => t[n + 1].op = "get" /\ t[n + 1].src = t[n].src)
  <2>1. n \in 1..Len(s) /\ (n = Len(s) \/ (n \in 1..(Len(s) - 1) /\ n + 1 \in 1..Len(s)))
    BY <1>3, <1>4
  <2>2. CASE n = Len(s)
    BY <1>3, <1>4, <2>2
  <2>3. CASE n \in 1..(Len(s) - 1) /\ n + 1 \in 1..Len(s)
    BY <1>4, <2>1, <2>3 DEF CStackOk
  <2> QED BY <2>1, <2>2, <2>3
<1>9. ASSUME NEW m \in 1..Len(t), NEW n \in 1..Len(t), m < n PROVE CAbove(t[m], t[n])
  <2>1. m \in 1..Len(s) /\ (n = Len(t) \/ n \in 1..Len(s))
    BY <1>3, <1>4, <1>9
  <2>2. CASE n \in 1..Len(s)
    BY <1>4, <1>9, <2>1, <2>2 DEF CStackOk
  <2>3. CASE n = Len(t) /\ m = Len(s)
    BY <1>3, <1>4, <2>1, <2>3
  <2>4. CASE n = Len(t) /\ m # Len(s)
    <3>1. m < Len(s) /\ Len(s) \in 1..Len(s) /\ t[m] = s[m] /\ t[n] = g
      BY <1>3, <1>4, <2>1, <2>4
    <3>2. CAbove(s[m], s[Len(s)]) /\ CAbove(s[Len(s)], g)
      BY <1>3, <2>1, <3>1 DEF CStackOk
    <3>3. CFrameOk(s[m]) /\ CFrameOk(s[Len(s)]) /\ CFrameOk(g)
      BY <2>1, <3>1 DEF CStackOk
    <3>4. \A f : CFrameOk(f) => Len(f.src) \in Nat
      BY DEF CFrameOk
    <3> QED BY <3>1, <3>2, <3>3, <3>4, AboveTrans
  <2> QED BY <2>1, <2>2, <2>3, <2>4
<1>10. CStackOk(t, now)
  BY <1>5, <1>7, <1>8, <1>9 DEF CStackOk
<1>11. CLed(t) = CLed(s)
  <2>1. \A n \in 1..Len(s) : n \in 1..Len(t) /\ t[n] = s[n]
    BY <1>3, <1>4
  <2>2. \A n \in 1..Len(t) : CLeads(t[n]) => n \in 1..Len(s)
    BY <1>4, <1>6
  <2> QED BY <2>1, <2>2 DEF CLed
<1> QED BY <1>1, <1>4, <1>5, <1>10, <1>11

\* The top of a stack returns.
LEMMA PopTop ==
  ASSUME NEW s, NEW ok, CStackOk(s, ok), s # <<>>, NEW now, Last(s).op = "get" /\ Last(s).src = <<>> => now
  PROVE  /\ CStackOk(Front(s), now) /\ (Front(s) # <<>> => Last(Front(s)).pc \notin {"start", "wait"})
         /\ CLed(Front(s)) = IF CLeads(Last(s)) THEN CLed(s) \ {CKey(Last(s))} ELSE CLed(s)
<1>1. PICK t : t = Front(s)
  OBVIOUS
<1>2. PICK S : s \in Seq(S)
  BY DEF CStackOk, CIsSeq
<1>3. /\ Len(s) \in Nat \ {0} /\ Last(s) = s[Len(s)] /\ t \in Seq(S) /\ Len(t) = Len(s) - 1
      /\ \A n \in 1..Len(t) : t[n] = s[n]
  BY <1>1, <1>2, FrontAndLast
<1>4. CIsSeq(t) /\ (t # <<>> => Last(t) = t[Len(t)] /\ Len(t) \in 1..Len(t) /\ Len(t) \in 1..(Len(s) - 1) /\ Len(t) + 1 = Len(s))
  <2>1. CIsSeq(t)
    BY <1>3 DEF CIsSeq
  <2>2. t # <<>> => Last(t) = t[Len(t)] /\ Len(t) \in Nat \ {0}
    BY <1>3, FrontAndLast
  <2> QED BY <1>3, <2>1, <2>2
<1>5. \A n \in 1..Len(t) : n \in 1..Len(s) /\ n \in 1..(Len(s) - 1) /\ n < Len(s)
  BY <1>3
<1>6. \A n \in 1..Len(t) : CFrameOk(t[n])
  BY <1>3, <1>5 DEF CStackOk
<1>7. ASSUME NEW n \in 1..(Len(t) - 1)
      PROVE  t[n].pc \notin {"start", "wait"} /\ (CAsks(t[n]) => t[n + 1].op = "get" /\ t[n + 1].src = t[n].src)
  <2>1. n \in 1..Len(t) /\ n + 1 \in 1..Len(t) /\ n \in 1..(Len(s) - 1)
    BY <1>3
  <2> QED BY <1>3, <2>1 DEF CStackOk
<1>8. \A m, n \in 1..Len(t) : m < n => CAbove(t[m], t[n])
  BY <1>3, <1>5 DEF CStackOk
<1>9. t # <<>> => Last(t).pc \notin {"start", "wait"} /\ (CAsks(Last(t)) /\ Last(t).src = <<>> => now)
  <2> SUFFICES ASSUME t # <<>> PROVE Last(t).pc \notin {"start", "wait"} /\ (CAsks(Last(t)) /\ Last(t).src = <<>> => now)
    OBVIOUS
  <2>1. Last(t) = s[Len(t)] /\ Len(t) \in 1..(Len(s) - 1) /\ s[Len(t) + 1] = Last(s)
    BY <1>3, <1>4
  <2> QED BY <2>1 DEF CStackOk
<1>10. CStackOk(t, now)
  BY <1>4, <1>6, <1>7, <1>8, <1>9 DEF CStackOk
<1>11. CASE ~CLeads(Last(s))
  <2>1. CLed(t) = CLed(s)
    <3>1. \A n \in 1..Len(s) : CLeads(s[n]) => n \in 1..Len(t)
      BY <1>3, <1>11
    <3> QED BY <1>3, <1>5, <3>1 DEF CLed
  <2> QED BY <1>1, <1>9, <1>10, <1>11, <2>1
<1>12. CASE CLeads(Last(s))
  <2>1. \A n \in 1..Len(t) : CKey(t[n]) # CKey(Last(s)) \/ ~CLeads(t[n])
    <3> SUFFICES ASSUME NEW n \in 1..Len(t), CLeads(s[n]), CKey(s[n]) = CKey(Last(s)) PROVE FALSE
      BY <1>3
    <3>1. n \in 1..Len(s) /\ Len(s) \in 1..Len(s) /\ n < Len(s)
      BY <1>3, <1>5
    <3>2. CAbove(s[n], Last(s)) /\ Len(s[n].src) \in Nat
      BY <1>3, <3>1 DEF CStackOk, CFrameOk
    <3>3. s[n].op = Last(s).op /\ s[n].src = Last(s).src /\ s[n].op \in {"list", "mkdir"}
      BY <1>12 DEF CKey, CLeads
    <3> QED BY <3>2, <3>3 DEF CAbove
  <2>2. CLed(t) = CLed(s) \ {CKey(Last(s))}
    <3>1. \A n \in 1..Len(s) : n \in 1..Len(t) \/ n = Len(s)
      BY <1>3
    <3> QED BY <1>3, <1>5, <2>1, <3>1 DEF CLed
  <2> QED BY <1>1, <1>9, <1>10, <1>12, <2>2
<1> QED BY <1>11, <1>12

-----------------------------------------------------------------------------
(* What a step does with the stacks                                             *)

CCalled(p, t, r) ==
  /\ CShape' /\ ccall'[p].stack = t /\ ccall'[p].ret = r
  /\ \A q \in CProcs \ {p} : ccall'[q] = ccall[q]

\* A call goes on, and may lead one flight more.
LEMMA CallGoes ==
  ASSUME CInd, NEW p \in CProcs, NEW t, NEW r, CCalled(p, t, r), CStackOk(t, r.ok), NEW L,
         CLed(t) = CLed(ccall[p].stack) \cup L, CFlying' = CFlying \cup L, L \cap (CFlying \ CLed(ccall[p].stack)) = {},
         CAwaits(t, CFlying)
  PROVE  CInd'
<1>1. \A q \in CProcs : CStackOk(ccall'[q].stack, ccall'[q].ret.ok) /\ CAwaits(ccall'[q].stack, CFlying)
  BY DEF CCalled, CInd
<1>2. \A q \in CProcs : CAwaits(ccall'[q].stack, CFlying')
  BY <1>1 DEF CAwaits
<1>3. \A q \in CProcs : CLed(ccall'[q].stack) = IF q = p THEN CLed(ccall[p].stack) \cup L ELSE CLed(ccall[q].stack)
  BY DEF CCalled
<1>4. CFlying' = UNION {CLed(ccall'[q].stack) : q \in CProcs}
  <2>1. CFlying = UNION {CLed(ccall[q].stack) : q \in CProcs}
    BY DEF CInd
  <2>2. ASSUME NEW x PROVE x \in CFlying' <=> \E q \in CProcs : x \in CLed(ccall'[q].stack)
    <3>1. x \in CFlying <=> \E q \in CProcs : x \in CLed(ccall[q].stack)
      BY <2>1
    <3> QED BY <1>3, <3>1
  <2> QED BY <2>2
<1>5. \A q \in CProcs : CLed(ccall[q].stack) \subseteq CFlying
  BY DEF CInd
<1>6. ASSUME NEW q \in CProcs, NEW o \in CProcs, q # o PROVE CLed(ccall'[q].stack) \cap CLed(ccall'[o].stack) = {}
  <2>1. CLed(ccall[q].stack) \cap CLed(ccall[o].stack) = {} /\ CLed(ccall[q].stack) \cap CLed(ccall[p].stack) = (IF q = p THEN CLed(ccall[p].stack) ELSE {})
        /\ CLed(ccall[o].stack) \cap CLed(ccall[p].stack) = (IF o = p THEN CLed(ccall[p].stack) ELSE {})
    BY <1>6 DEF CInd
  <2> QED BY <1>3, <1>5, <1>6, <2>1
<1> QED BY <1>1, <1>2, <1>4, <1>6 DEF CInd, CCalled

\* A flight lands: who led it and who waited for it return.
LEMMA FlightLands ==
  ASSUME CInd, NEW p \in CProcs, Running(p), CLeads(CTop(p)), NEW op, NEW path, CTop(p).op = op, CTop(p).src = path,
         NEW ret, FlightEnds(p, op, path, ret), CFlying' = CFlying \ {<<op, path>>}
  PROVE  CInd'
<1> DEFINE k == <<op, path>>
           Back(q) == q = p \/ (CAt(q, op, "wait") /\ CTop(q).src = path)
<1>1. \A q \in CProcs : CStackOk(ccall[q].stack, ccall[q].ret.ok) /\ CAwaits(ccall[q].stack, CFlying)
  BY DEF CInd
<1>2. \A q \in CProcs : ccall'[q] = IF Back(q) THEN [stack |-> Front(ccall[q].stack), ret |-> ret] ELSE ccall[q]
  BY DEF FlightEnds
<1>3. CShape'
  BY DEF FlightEnds, CInd, CShape
<1>4. op \in {"list", "mkdir"} /\ CKey(CTop(p)) = k
  BY DEF CLeads, CKey
<1>5. ASSUME NEW q \in CProcs, Back(q)
      PROVE  /\ ccall[q].stack # <<>> /\ Last(ccall[q].stack).op = op /\ Last(ccall[q].stack).src = path
             /\ CLeads(Last(ccall[q].stack)) <=> q = p
  BY <1>5 DEF Running, CTop, CAt, CLeads
<1>6. ASSUME NEW q \in CProcs
      PROVE  /\ CStackOk(ccall'[q].stack, ccall'[q].ret.ok) /\ CAwaits(ccall'[q].stack, CFlying')
             /\ CLed(ccall'[q].stack) = IF q = p THEN CLed(ccall[p].stack) \ {k} ELSE CLed(ccall[q].stack)
  <2>1. CASE Back(q)
    <3>1. PICK s : s = ccall[q].stack
      OBVIOUS
    <3>2. /\ CStackOk(s, ccall[q].ret.ok) /\ s # <<>> /\ Last(s).op = op /\ Last(s).src = path /\ (CLeads(Last(s)) <=> q = p)
          /\ CKey(Last(s)) = k
      BY <1>1, <1>5, <2>1, <3>1 DEF CKey
    <3>3. ~(Last(s).op = "get" /\ Last(s).src = <<>>)
      BY <1>4, <3>2
    <3>4. /\ CStackOk(Front(s), ret.ok) /\ (Front(s) # <<>> => Last(Front(s)).pc \notin {"start", "wait"})
          /\ CLed(Front(s)) = IF CLeads(Last(s)) THEN CLed(s) \ {CKey(Last(s))} ELSE CLed(s)
      BY <3>2, <3>3, PopTop
    <3>5. ccall'[q].stack = Front(s) /\ ccall'[q].ret = ret
      <4>1. ccall'[q] = [stack |-> Front(ccall[q].stack), ret |-> ret]
        BY ONLY q \in CProcs, <1>2, <2>1
      <4> QED BY <3>1, <4>1
    <3>6. CAwaits(Front(s), CFlying')
      BY <3>4 DEF CAwaits
    <3> QED BY <3>1, <3>2, <3>4, <3>5, <3>6
  <2>2. CASE ~Back(q)
    <3>1. ccall'[q] = ccall[q] /\ q # p
      BY <1>2, <2>2
    <3>2. CAwaits(ccall[q].stack, CFlying')
      <4> SUFFICES ASSUME ccall[q].stack # <<>>, Last(ccall[q].stack).pc = "wait"
                   PROVE  CKey(Last(ccall[q].stack)) \in CFlying'
        BY DEF CAwaits
      <4>1. CKey(Last(ccall[q].stack)) \in CFlying
        BY <1>1 DEF CAwaits
      <4>2. CKey(Last(ccall[q].stack)) # k
        BY <2>2 DEF CKey, CAt, Running, CTop
      <4> QED BY <4>1, <4>2
    <3> QED BY <1>1, <3>1, <3>2
  <2> QED BY <2>1, <2>2
<1>7. k \in CLed(ccall[p].stack)
  <2>1. PICK s : s = ccall[p].stack
    OBVIOUS
  <2>2. PICK S : s \in Seq(S)
    BY <1>1, <2>1 DEF CStackOk, CIsSeq
  <2>3. s # <<>> /\ CTop(p) = Last(s)
    BY <2>1 DEF Running, CTop
  <2>4. Len(s) \in 1..Len(s) /\ s[Len(s)] = CTop(p)
    <3>1. Len(s) \in Nat \ {0} /\ Last(s) = s[Len(s)]
      BY ONLY <2>2, <2>3, FrontAndLast
    <3> QED BY <2>3, <3>1
  <2> QED BY <1>4, <2>1, <2>4 DEF CLed
<1> HIDE DEF k, Back
<1>8. CFlying' = UNION {CLed(ccall'[q].stack) : q \in CProcs}
  <2>1. CFlying = UNION {CLed(ccall[q].stack) : q \in CProcs}
    BY DEF CInd
  <2>2. \A q \in CProcs : q # p => k \notin CLed(ccall[q].stack)
    BY <1>7 DEF CInd
  <2>3. ASSUME NEW x PROVE x \in CFlying' <=> \E q \in CProcs : x \in CLed(ccall'[q].stack)
    <3>1. x \in CFlying <=> \E q \in CProcs : x \in CLed(ccall[q].stack)
      BY <2>1
    <3>2. x \in CFlying' <=> x \in CFlying /\ x # k
      BY DEF k
    <3> QED BY <1>6, <2>2, <3>1, <3>2
  <2> QED BY <2>3
<1>9. \A q, o \in CProcs : q # o => CLed(ccall'[q].stack) \cap CLed(ccall'[o].stack) = {}
  BY <1>6 DEF CInd
<1> QED BY <1>3, <1>6, <1>8, <1>9 DEF CInd

LEMMA TopOk ==
  ASSUME CInd, NEW p \in CProcs, Running(p)
  PROVE  /\ CStackOk(ccall[p].stack, CRet(p).ok) /\ CFrameOk(CTop(p)) /\ {"stack", "ret"} \subseteq DOMAIN ccall[p] /\ CShape
         /\ CAwaits(ccall[p].stack, CFlying)
<1>1. CStackOk(ccall[p].stack, CRet(p).ok) /\ {"stack", "ret"} \subseteq DOMAIN ccall[p] /\ CShape /\ CAwaits(ccall[p].stack, CFlying)
  BY DEF CInd, CRet, CShape
<1>2. PICK s : s = ccall[p].stack
  OBVIOUS
<1>3. PICK S : s \in Seq(S)
  BY <1>1, <1>2 DEF CStackOk, CIsSeq
<1>4. s # <<>> /\ CTop(p) = Last(s)
  BY <1>2 DEF Running, CTop
<1>5. Len(s) \in Nat \ {0} /\ Last(s) = s[Len(s)]
  BY ONLY <1>3, <1>4, FrontAndLast
<1>6. CFrameOk(CTop(p))
  BY <1>1, <1>2, <1>4, <1>5 DEF CStackOk
<1> QED BY <1>1, <1>6

LEMMA GotoStep ==
  ASSUME CInd, NEW p \in CProcs, Running(p), NEW f, Goto(p, f), CFrameOk(f), f.op = CTop(p).op, f.src = CTop(p).src,
         CLeads(f) <=> CLeads(CTop(p)), CAsks(f) /\ f.src = <<>> => CRet(p).ok, f.pc = "wait" => CKey(f) \in CFlying,
         UNCHANGED <<listG, mkdirG>>
  PROVE  CInd'
<1>1. PICK s : s = ccall[p].stack
  OBVIOUS
<1>2. PICK t : t = Append(Front(s), f)
  OBVIOUS
<1>3. CStackOk(s, CRet(p).ok) /\ s # <<>> /\ Last(s) = CTop(p)
  BY <1>1, TopOk DEF Running, CTop
<1>4. CStackOk(t, CRet(p).ok) /\ Last(t) = f /\ CLed(t) = CLed(s)
  BY <1>2, <1>3, SetTop
<1>5. CCalled(p, t, CRet(p))
  BY <1>1, <1>2, TopOk DEF Goto, CCalled, CShape, CRet
<1>6. CAwaits(t, CFlying)
  BY <1>4 DEF CAwaits
<1>7. PICK L : L = {}
  OBVIOUS
<1>8. CLed(t) = CLed(ccall[p].stack) \cup L /\ CFlying' = CFlying \cup L /\ L \cap (CFlying \ CLed(ccall[p].stack)) = {}
  BY <1>1, <1>4, <1>7 DEF CFlying
<1>9. PICK r : r = CRet(p)
  OBVIOUS
<1> QED BY <1>4, <1>5, <1>6, <1>8, <1>9, CallGoes

LEMMA PopStep ==
  ASSUME CInd, NEW p \in CProcs, Running(p), NEW ret, Pop(p, ret), ~CLeads(CTop(p)),
         CTop(p).op = "get" /\ CTop(p).src = <<>> => ret.ok, UNCHANGED <<listG, mkdirG>>
  PROVE  CInd'
<1>1. PICK s : s = ccall[p].stack
  OBVIOUS
<1>2. PICK t : t = Front(s)
  OBVIOUS
<1>3. CStackOk(s, CRet(p).ok) /\ s # <<>> /\ Last(s) = CTop(p)
  BY <1>1, TopOk DEF Running, CTop
<1>4. CStackOk(t, ret.ok) /\ CLed(t) = CLed(s) /\ (t # <<>> => Last(t).pc \notin {"start", "wait"})
  BY <1>2, <1>3, PopTop
<1>5. CCalled(p, t, ret)
  BY <1>1, <1>2, TopOk DEF Pop, CCalled, CShape
<1>6. CAwaits(t, CFlying)
  BY <1>4 DEF CAwaits
<1>7. PICK L : L = {}
  OBVIOUS
<1>8. CLed(t) = CLed(ccall[p].stack) \cup L /\ CFlying' = CFlying \cup L /\ L \cap (CFlying \ CLed(ccall[p].stack)) = {}
  BY <1>1, <1>4, <1>7 DEF CFlying
<1> QED BY <1>4, <1>5, <1>6, <1>8, CallGoes

LEMMA Concat ==
  ASSUME NEW S, NEW u \in Seq(S), NEW a, NEW b
  PROVE  u \o <<a>> = Append(u, a) /\ u \o <<a, b>> = Append(Append(u, a), b)
OBVIOUS

\* A frame on top of the one that p was at, which goes on as f, and may lead a flight from now on.
LEMMA PushStep ==
  ASSUME CInd, NEW p \in CProcs, Running(p), NEW f, NEW sub, Push(p, f, sub), CFrameOk(f), f.op = CTop(p).op, f.src = CTop(p).src,
         f.pc \notin {"start", "wait"}, CLeads(CTop(p)) => CLeads(f),
         NEW L, L = (IF CLeads(f) /\ ~CLeads(CTop(p)) THEN {CKey(f)} ELSE {}), L \cap CFlying = {}, CFlying' = CFlying \cup L,
         CFrameOk(sub), sub.pc = "start", sub.op \in {"get", "list", "mkdir"}, CAbove(f, sub),
         CAsks(f) => sub.op = "get" /\ sub.src = f.src
  PROVE  CInd'
<1>1. PICK s : s = ccall[p].stack
  OBVIOUS
<1>2. PICK u : u = Append(Front(s), f)
  OBVIOUS
<1>3. PICK t : t = Append(u, sub)
  OBVIOUS
<1>4. CStackOk(s, CRet(p).ok) /\ s # <<>> /\ Last(s) = CTop(p)
  BY <1>1, TopOk DEF Running, CTop
<1>5. /\ CStackOk(u, TRUE) /\ u # <<>> /\ Last(u) = f /\ ((CLeads(f) <=> CLeads(Last(s))) => CLed(u) = CLed(s))
      /\ (CLeads(f) => CLed(u) = CLed(s) \cup {CKey(f)})
  <2>1. PICK now : now = TRUE
    OBVIOUS
  <2> QED BY <1>2, <1>4, <2>1, SetTop
<1>6. CStackOk(t, CRet(p).ok) /\ t # <<>> /\ Last(t) = sub /\ CLed(t) = CLed(u)
  <2>1. ~CAsks(sub) /\ ~CLeads(sub)
    BY DEF CAsks, CLeads
  <2> QED BY <1>3, <1>5, <2>1, AddTop
<1>7. PICK S : u \in Seq(S)
  BY <1>5 DEF CStackOk, CIsSeq
<1>8. u \o Opened(sub) = t
  <2>1. Opened(sub) = <<sub>>
    BY DEF Opened
  <2> QED BY ONLY <1>3, <1>7, <2>1, Concat
<1>9. CCalled(p, t, CRet(p))
  BY <1>1, <1>2, <1>8, TopOk DEF Push, CCalled, CShape, CRet
<1>10. CAwaits(t, CFlying)
  BY <1>6 DEF CAwaits
<1>11. CLed(t) = CLed(ccall[p].stack) \cup L /\ L \cap (CFlying \ CLed(ccall[p].stack)) = {}
  BY <1>1, <1>4, <1>5, <1>6
<1>12. PICK r : r = CRet(p)
  OBVIOUS
<1> QED BY <1>6, <1>9, <1>10, <1>11, <1>12, CallGoes

-----------------------------------------------------------------------------
(* Frames                                                                       *)

LEMMA NewFrame ==
  ASSUME NEW op, NEW src \in Seq(CNames), NEW dst \in Seq(CNames)
  PROVE  /\ CFrameOk(CFrame(op, src, dst)) /\ CFrame(op, src, dst).op = op /\ CFrame(op, src, dst).src = src
         /\ CFrame(op, src, dst).dst = dst /\ CFrame(op, src, dst).pc = "start"
BY DEF CFrame, CFrameOk

LEMMA NewGet ==
  ASSUME NEW path \in Seq(CNames), NEW excl
  PROVE  /\ CFrameOk(GetFrame(path, excl)) /\ GetFrame(path, excl).op = "get" /\ GetFrame(path, excl).src = path
         /\ GetFrame(path, excl).pc = "start"
<1>1. PICK f : f = CFrame("get", path, <<>>)
  OBVIOUS
<1>2. <<>> \in Seq(CNames)
  OBVIOUS
<1>3. CFrameOk(f) /\ f.op = "get" /\ f.src = path /\ f.pc = "start"
  BY <1>1, <1>2 DEF CFrame, CFrameOk
<1> QED BY <1>1, <1>3 DEF GetFrame, CFrameOk

LEMMA NextPc ==
  ASSUME NEW f, CFrameOk(f), NEW pc, pc \notin {"start", "wait"}, f.op = "get" => f.src # <<>>
  PROVE  CFrameOk(Pc(f, pc)) /\ Pc(f, pc).op = f.op /\ Pc(f, pc).src = f.src /\ Pc(f, pc).dst = f.dst /\ Pc(f, pc).pc = pc
BY DEF Pc, CFrameOk

LEMMA FrontPath ==
  ASSUME NEW path \in Seq(CNames)
  PROVE  /\ CDir(path) \in Seq(CNames) /\ TempPath(path) \in Seq(CNames)
         /\ path # <<>> => Len(CDir(path)) < Len(path)
<1>1. CASE path = <<>>
  <2>1. SubSeq(path, 1, Len(path) - 1) = <<>>
    BY <1>1
  <2> QED BY <1>1, <2>1 DEF CDir, Front, TempPath, CNames
<1>2. CASE path # <<>>
  <2>1. Front(path) \in Seq(CNames) /\ Len(Front(path)) = Len(path) - 1 /\ Len(path) \in Nat
    BY <1>2, FrontAndLast
  <2>2. CTemp \in CNames
    BY DEF CNames
  <2> QED BY <2>1, <2>2 DEF CDir, TempPath
<1> QED BY <1>1, <1>2

\* An upload removes or renames an object, of which it gets the object first.
LEMMA PushWrite ==
  ASSUME CInd, NEW p \in CProcs, Running(p), NEW f, NEW sub, Push(p, f, sub), CFrameOk(f), f.op = "put", CTop(p).op = "put",
         f.src = CTop(p).src, f.pc \notin {"start", "wait"}, UNCHANGED <<listG, mkdirG>>,
         CFrameOk(sub), sub.pc = "start", sub.op \in {"remove", "rename"}
  PROVE  CInd'
<1>1. PICK s : s = ccall[p].stack
  OBVIOUS
<1>2. PICK u : u = Append(Front(s), f)
  OBVIOUS
<1>3. PICK g : g = Pc(sub, "src")
  OBVIOUS
<1>4. PICK h : h = GetFrame(sub.src, TRUE)
  OBVIOUS
<1>5. PICK v : v = Append(u, g)
  OBVIOUS
<1>6. PICK t : t = Append(v, h)
  OBVIOUS
<1>7. CStackOk(s, CRet(p).ok) /\ s # <<>> /\ Last(s) = CTop(p)
  BY <1>1, TopOk DEF Running, CTop
<1>8. PICK now : now = TRUE
  OBVIOUS
<1>9. CStackOk(u, now) /\ u # <<>> /\ Last(u) = f /\ CLed(u) = CLed(s)
  <2>1. ~CAsks(f) /\ (CLeads(f) <=> CLeads(Last(s))) /\ f.op = Last(s).op
    BY <1>7 DEF CAsks, CLeads
  <2> QED BY <1>2, <1>7, <1>8, <2>1, SetTop
<1>10. CFrameOk(g) /\ g.op = sub.op /\ g.pc = "src" /\ g.src = sub.src /\ sub.src \in Seq(CNames)
  <2>1. sub.src \in Seq(CNames) /\ sub.op # "get"
    BY DEF CFrameOk
  <2> QED BY <1>3, <2>1, NextPc
<1>11. CStackOk(v, now) /\ v # <<>> /\ Last(v) = g /\ CLed(v) = CLed(u)
  <2>1. ~CAsks(g) /\ ~CLeads(g) /\ CAbove(f, g) /\ ~CAsks(f)
    BY <1>10 DEF CAsks, CLeads, CAbove
  <2> QED BY <1>5, <1>9, <1>10, <2>1, AddTop
<1>12. CFrameOk(h) /\ h.op = "get" /\ h.pc = "start"
  BY <1>4, <1>10, NewGet
<1>13. PICK r : r = CRet(p)
  OBVIOUS
<1>14. CStackOk(t, r.ok) /\ t # <<>> /\ Last(t) = h /\ CLed(t) = CLed(v)
  <2>1. ~CAsks(h) /\ ~CLeads(h) /\ CAbove(g, h) /\ ~CAsks(g)
    BY <1>10, <1>12 DEF CAsks, CLeads, CAbove
  <2>2. PICK now2 : now2 = r.ok
    OBVIOUS
  <2>3. CStackOk(t, now2) /\ t # <<>> /\ Last(t) = h /\ CLed(t) = CLed(v)
    BY <1>6, <1>10, <1>11, <1>12, <2>1, AddTop
  <2> QED BY <2>2, <2>3
<1>15. PICK S : u \in Seq(S)
  BY <1>9 DEF CStackOk, CIsSeq
<1>16. u \o Opened(sub) = t
  <2>1. Opened(sub) = <<g, h>>
    BY <1>3, <1>4 DEF Opened
  <2> QED BY ONLY <1>5, <1>6, <1>15, <2>1, Concat
<1>17. CCalled(p, t, r)
  BY <1>1, <1>2, <1>13, <1>16, TopOk DEF Push, CCalled, CShape, CRet
<1>18. CAwaits(t, CFlying)
  BY <1>12, <1>14 DEF CAwaits
<1>19. PICK L : L = {}
  OBVIOUS
<1>20. CLed(t) = CLed(ccall[p].stack) \cup L /\ CFlying' = CFlying \cup L /\ L \cap (CFlying \ CLed(ccall[p].stack)) = {}
  BY <1>1, <1>9, <1>11, <1>14, <1>19 DEF CFlying
<1> QED BY <1>14, <1>17, <1>18, <1>20, CallGoes

\* A call starts with one frame, or with that and a get.
LEMMA CStartKeeps ==
  ASSUME CInd, NEW p \in CProcs, NEW op, NEW src \in Seq(CNames), NEW dst \in Seq(CNames), NEW refresh,
         CStartCall(p, op, src, dst, refresh), op \in {"list", "mkdir", "remove", "put", "move", "copy", "rename"}
  PROVE  CInd'
<1>1. PICK f : f = [CFrame(op, src, dst) EXCEPT !.refresh = refresh, !.val = cbound.ops + 2]
  OBVIOUS
<1>2. CFrameOk(f) /\ f.op = op /\ f.src = src /\ f.pc = "start"
  <2>1. PICK g : g = CFrame(op, src, dst)
    OBVIOUS
  <2>2. CFrameOk(g) /\ g.op = op /\ g.src = src /\ g.pc = "start"
    BY <2>1, NewFrame
  <2> QED BY <1>1, <2>1, <2>2 DEF CFrameOk
<1>3. PICK t : t = Opened(f)
  OBVIOUS
<1>4. PICK r : r = COk
  OBVIOUS
<1>5. CCalled(p, t, r) /\ ccall[p].stack = <<>>
  BY <1>1, <1>3, <1>4 DEF CStartCall, CCalled, CShape, CInd, Running
<1>6. ASSUME NEW g, CFrameOk(g), ~CLeads(g), ~CAsks(g), NEW now
      PROVE  CStackOk(<<g>>, now) /\ CLed(<<g>>) = {} /\ <<g>> # <<>> /\ Last(<<g>>) = g
  <2>1. PICK u : u = <<g>>
    OBVIOUS
  <2>2. u \in Seq({g}) /\ Len(u) = 1 /\ u[1] = g
    BY <2>1
  <2>3. CIsSeq(u) /\ u # <<>> /\ Last(u) = g
    <3>1. CIsSeq(u)
      BY ONLY <2>2 DEF CIsSeq
    <3>2. u # <<>>
      BY ONLY <2>1
    <3>3. Last(u) = g
      BY ONLY <2>2 DEF Last
    <3> QED BY <3>1, <3>2, <3>3
  <2>4. \A n \in 1..Len(u) : n = 1 /\ u[n] = g
    BY <2>2
  <2>5. CStackOk(u, now)
    BY <1>6, <2>2, <2>3, <2>4 DEF CStackOk
  <2>6. CLed(u) = {}
    BY <1>6, <2>4 DEF CLed
  <2> QED BY <2>1, <2>3, <2>5, <2>6
<1>7. CStackOk(t, r.ok) /\ CLed(t) = {} /\ CAwaits(t, CFlying)
  <2>1. CASE op \in {"list", "mkdir"}
    <3>1. t = <<f>>
      BY <1>2, <1>3, <2>1 DEF Opened
    <3>2. ~CLeads(f) /\ ~CAsks(f)
      BY <1>2 DEF CLeads, CAsks
    <3>3. CStackOk(t, r.ok) /\ CLed(t) = {} /\ Last(t) = f
      BY <1>2, <1>6, <3>1, <3>2
    <3> QED BY <1>2, <3>3 DEF CAwaits
  <2>2. CASE op \notin {"list", "mkdir"}
    <3>1. PICK g : g = Pc(f, "src")
      OBVIOUS
    <3>2. PICK h : h = GetFrame(src, TRUE)
      OBVIOUS
    <3>3. t = <<g, h>>
      BY <1>2, <1>3, <2>2, <3>1, <3>2 DEF Opened
    <3>4. CFrameOk(g) /\ g.op = op /\ g.pc = "src"
      BY <1>2, <3>1, NextPc
    <3>5. CFrameOk(h) /\ h.op = "get" /\ h.pc = "start"
      BY <3>2, NewGet
    <3>6. ~CLeads(g) /\ ~CAsks(g) /\ ~CLeads(h) /\ ~CAsks(h) /\ CAbove(g, h)
      BY <2>2, <3>4, <3>5 DEF CLeads, CAsks, CAbove
    <3>7. PICK u : u = <<g>>
      OBVIOUS
    <3>8. PICK now : now = r.ok
      OBVIOUS
    <3>9. CStackOk(u, now) /\ CLed(u) = {} /\ u # <<>> /\ Last(u) = g
      BY <1>6, <3>4, <3>6, <3>7
    <3>10. t = Append(u, h)
      BY <3>3, <3>7
    <3>11. CStackOk(t, now) /\ CLed(t) = CLed(u) /\ Last(t) = h
      BY <3>4, <3>5, <3>6, <3>9, <3>10, AddTop
    <3> QED BY <3>5, <3>8, <3>9, <3>11 DEF CAwaits
  <2> QED BY <2>1, <2>2
<1>8. PICK L : L = {}
  OBVIOUS
<1>9. CLed(t) = CLed(ccall[p].stack) \cup L /\ CFlying' = CFlying \cup L /\ L \cap (CFlying \ CLed(ccall[p].stack)) = {}
  <2>1. CLed(ccall[p].stack) = {}
    BY <1>5 DEF CLed
  <2>2. CFlying' = CFlying
    BY DEF CStartCall, CFlying
  <2> QED BY <1>7, <1>8, <2>1, <2>2
<1> QED BY <1>5, <1>7, <1>9, CallGoes

-----------------------------------------------------------------------------
(* Every step of a call                                                         *)

LEMMA WithObj ==
  ASSUME NEW f, CFrameOk(f), NEW o
  PROVE  /\ CFrameOk([f EXCEPT !.obj = o]) /\ [f EXCEPT !.obj = o].op = f.op /\ [f EXCEPT !.obj = o].src = f.src
         /\ [f EXCEPT !.obj = o].dst = f.dst
BY DEF CFrameOk

LEMMA SameCalls == ASSUME CInd, UNCHANGED <<ccall, listG, mkdirG>> PROVE CInd'
<1>1. CFlying' = CFlying /\ CShape'
  BY DEF CInd, CFlying, CShape
<1>2. \A p \in CProcs : CStackOk(ccall'[p].stack, ccall'[p].ret.ok) /\ CAwaits(ccall'[p].stack, CFlying')
  BY <1>1 DEF CInd
<1> QED BY <1>1, <1>2 DEF CInd

\* A frame on top of one that leads no flight, or that already leads its own.
LEMMA FurtherPush ==
  ASSUME CInd, NEW p \in CProcs, Running(p), NEW f, NEW sub, Push(p, f, sub), CFrameOk(f), f.op = CTop(p).op, f.src = CTop(p).src,
         f.pc \notin {"start", "wait"}, CLeads(f) <=> CLeads(CTop(p)), UNCHANGED <<listG, mkdirG>>,
         CFrameOk(sub), sub.pc = "start", sub.op \in {"get", "list", "mkdir"}, CAbove(f, sub), ~CAsks(f)
  PROVE  CInd'
<1>1. PICK L : L = {}
  OBVIOUS
<1>2. L = (IF CLeads(f) /\ ~CLeads(CTop(p)) THEN {CKey(f)} ELSE {}) /\ L \cap CFlying = {} /\ CFlying' = CFlying \cup L
  BY <1>1 DEF CFlying
<1> QED BY <1>2, PushStep

LEMMA ListLands ==
  ASSUME CInd, NEW p \in CProcs, Running(p), CTop(p).op = "list", CLeads(CTop(p)), NEW ret,
         FlightEnds(p, "list", CTop(p).src, ret), listG' = Landed(listG, CTop(p).src), mkdirG' = mkdirG
  PROVE  CInd'
<1>1. PICK op : op = "list"
  OBVIOUS
<1>2. PICK path : path = CTop(p).src
  OBVIOUS
<1>3. CFlying' = CFlying \ {<<op, path>>}
  BY <1>1, <1>2 DEF CFlying, Landed
<1> QED BY <1>1, <1>2, <1>3, FlightLands

LEMMA MkdirLands ==
  ASSUME CInd, NEW p \in CProcs, CAt(p, "mkdir", CTop(p).pc), CLeads(CTop(p)), NEW ret, CMkdirEnds(p, ret)
  PROVE  CInd'
<1>1. PICK op : op = "mkdir"
  OBVIOUS
<1>2. PICK path : path = CTop(p).src
  OBVIOUS
<1>3. Running(p) /\ CTop(p).op = op /\ FlightEnds(p, op, path, ret)
  BY <1>1, <1>2 DEF CAt, CMkdirEnds
<1>4. CFlying' = CFlying \ {<<op, path>>}
  BY <1>1, <1>2 DEF CFlying, Landed, CMkdirEnds
<1> QED BY <1>2, <1>3, <1>4, FlightLands

LEMMA CGetKeeps == ASSUME CInd, NEW p \in CProcs, CGet(p) PROVE CInd'
<1>1. PICK f : f = CTop(p)
  OBVIOUS
<1>2. Running(p) /\ f.op = "get" /\ f.pc = "start" /\ CFrameOk(f) /\ UNCHANGED <<listG, mkdirG>> /\ f.src \in Seq(CNames) /\ ~CLeads(f)
  BY <1>1, TopOk DEF CGet, CAt, CFrameOk, CLeads
<1>3. \/ \E ret : Pop(p, ret) /\ (f.src = <<>> => ret.ok)
      \/ f.src # <<>> /\ \E refresh \in BOOLEAN :
           Push(p, Pc(f, "listed"), [CFrame("list", CDir(f.src), <<>>) EXCEPT !.refresh = refresh, !.want = CName(f.src)])
  <2>1. CASE f.src = <<>>
    <3>1. PICK ret : ret = CFound([name |-> "", dir |-> TRUE, temp |-> FALSE, val |-> 0])
      OBVIOUS
    <3>2. ret.ok
      BY <3>1 DEF CFound
    <3>3. Pop(p, ret)
      BY <1>1, <2>1, <3>1 DEF CGet
    <3> QED BY <3>2, <3>3
  <2>2. CASE f.src # <<>>
    <3> DEFINE Ask(refresh) ==
                 IF cconf.getter THEN Pop(p, IF f.src \in DOMAIN cdisk THEN CFound(CObj(f.src)) ELSE CFail)
                 ELSE IF CDir(f.src) \in DOMAIN dirCache /\ ~refresh THEN Pop(p, CFail)
                 ELSE Push(p, Pc(f, "listed"), [CFrame("list", CDir(f.src), <<>>) EXCEPT !.refresh = refresh, !.want = CName(f.src)])
    <3>1. Ask(FALSE) \/ Ask(TRUE) \/ \E ret : Pop(p, ret)
      BY <1>1, <2>2 DEF CGet
    <3> QED BY <2>2, <3>1
  <2> QED BY <2>1, <2>2
<1>4. CASE \E ret : Pop(p, ret) /\ (f.src = <<>> => ret.ok)
  BY <1>1, <1>2, <1>4, PopStep
<1>5. ASSUME f.src # <<>>, NEW refresh,
             Push(p, Pc(f, "listed"), [CFrame("list", CDir(f.src), <<>>) EXCEPT !.refresh = refresh, !.want = CName(f.src)])
      PROVE  CInd'
  <2>1. PICK g : g = Pc(f, "listed")
    OBVIOUS
  <2>2. PICK par : par = CDir(f.src)
    OBVIOUS
  <2>3. PICK sub : sub = [CFrame("list", par, <<>>) EXCEPT !.refresh = refresh, !.want = CName(f.src)]
    OBVIOUS
  <2>4. CFrameOk(g) /\ g.op = "get" /\ g.src = f.src /\ g.pc = "listed"
    BY <1>2, <1>5, <2>1, NextPc
  <2>5. par \in Seq(CNames) /\ Len(par) < Len(f.src)
    BY <1>2, <1>5, <2>2, FrontPath
  <2>6. CFrameOk(sub) /\ sub.op = "list" /\ sub.src = par /\ sub.pc = "start"
    BY <2>3, <2>5 DEF CFrame, CFrameOk
  <2>7. CAbove(g, sub) /\ ~CAsks(g) /\ ~CLeads(g)
    BY <2>4, <2>5, <2>6 DEF CAbove, CAsks, CLeads
  <2> QED BY <1>1, <1>2, <1>5, <2>1, <2>2, <2>3, <2>4, <2>6, <2>7, FurtherPush
<1> QED BY <1>3, <1>4, <1>5

LEMMA CGetListedKeeps == ASSUME CInd, NEW p \in CProcs, CGetListed(p) PROVE CInd'
<1>1. Running(p) /\ CTop(p).op = "get" /\ CTop(p).pc = "listed" /\ CFrameOk(CTop(p)) /\ UNCHANGED <<listG, mkdirG>>
  BY TopOk DEF CGetListed, CAt
<1>2. ~CLeads(CTop(p)) /\ CTop(p).src # <<>>
  BY <1>1 DEF CLeads, CFrameOk
<1>3. \E ret : Pop(p, ret)
  BY DEF CGetListed
<1> QED BY <1>1, <1>2, <1>3, PopStep

LEMMA CListKeeps == ASSUME CInd, NEW p \in CProcs, CList(p) PROVE CInd'
<1>1. PICK f : f = CTop(p)
  OBVIOUS
<1>2. Running(p) /\ f.op = "list" /\ f.pc = "start" /\ CFrameOk(f) /\ mkdirG' = mkdirG /\ f.src \in Seq(CNames) /\ ~CLeads(f)
  BY <1>1, TopOk DEF CList, CAt, CFrameOk, CLeads
<1>3. CASE Pop(p, CListing(dirCache[f.src])) /\ UNCHANGED listG
  <2>1. PICK ret : ret = CListing(dirCache[f.src])
    OBVIOUS
  <2> QED BY <1>1, <1>2, <1>3, <2>1, PopStep
<1>4. CASE f.src \in listG /\ Goto(p, Pc(f, "wait")) /\ UNCHANGED listG
  <2>1. PICK g : g = Pc(f, "wait")
    OBVIOUS
  <2>2. CFrameOk(g) /\ g.op = "list" /\ g.src = f.src /\ g.pc = "wait"
    BY <1>2, <2>1 DEF Pc, CFrameOk
  <2>3. ~CLeads(g) /\ ~CAsks(g) /\ CKey(g) \in CFlying
    BY <1>4, <2>2 DEF CLeads, CAsks, CKey, CFlying
  <2> QED BY <1>1, <1>2, <1>4, <2>1, <2>2, <2>3, GotoStep
<1>5. CASE f.src \notin listG /\ listG' = listG \cup {f.src} /\ Push(p, Pc(f, "dir"), GetFrame(f.src, TRUE))
  <2>1. PICK g : g = Pc(f, "dir")
    OBVIOUS
  <2>2. PICK sub : sub = GetFrame(f.src, TRUE)
    OBVIOUS
  <2>3. CFrameOk(g) /\ g.op = "list" /\ g.src = f.src /\ g.pc = "dir"
    BY <1>2, <2>1, NextPc
  <2>4. CFrameOk(sub) /\ sub.op = "get" /\ sub.src = f.src /\ sub.pc = "start"
    BY <1>2, <2>2, NewGet
  <2>5. CLeads(g) /\ ~CAsks(g) /\ CAbove(g, sub)
    BY <1>2, <2>3, <2>4 DEF CLeads, CAsks, CAbove
  <2>6. PICK L : L = {CKey(g)}
    OBVIOUS
  <2>7. L \cap CFlying = {} /\ CFlying' = CFlying \cup L
    BY <1>2, <1>5, <2>3, <2>6 DEF CKey, CFlying
  <2>8. L = IF CLeads(g) /\ ~CLeads(CTop(p)) THEN {CKey(g)} ELSE {}
    BY <1>1, <1>2, <2>5, <2>6
  <2> QED BY <1>1, <1>2, <1>5, <2>1, <2>2, <2>3, <2>4, <2>5, <2>7, <2>8, PushStep
<1> QED BY <1>1, <1>3, <1>4, <1>5 DEF CList

LEMMA CListReadKeeps == ASSUME CInd, NEW p \in CProcs, CListRead(p) PROVE CInd'
<1>1. PICK f : f = CTop(p)
  OBVIOUS
<1>2. Running(p) /\ f.op = "list" /\ f.pc = "dir" /\ CFrameOk(f) /\ CLeads(f)
  BY <1>1, TopOk DEF CListRead, CAt, CLeads
<1>3. ASSUME NEW S, Goto(p, [f EXCEPT !.pc = "store", !.objs = S]), UNCHANGED <<listG, mkdirG>> PROVE CInd'
  <2>1. PICK g : g = [f EXCEPT !.pc = "store", !.objs = S]
    OBVIOUS
  <2>2. CFrameOk(g) /\ g.op = "list" /\ g.src = f.src /\ g.pc = "store"
    BY <1>2, <2>1 DEF CFrameOk
  <2>3. CLeads(g) /\ ~CAsks(g)
    BY <2>2 DEF CLeads, CAsks
  <2> QED BY <1>1, <1>2, <1>3, <2>1, <2>2, <2>3, GotoStep
<1>4. CASE CListFails(p)
  BY <1>1, <1>2, <1>4, ListLands DEF CListFails
<1> QED BY <1>1, <1>3, <1>4 DEF CListRead

LEMMA CListStoreKeeps == ASSUME CInd, NEW p \in CProcs, CListStore(p) PROVE CInd'
<1>1. Running(p) /\ CTop(p).op = "list" /\ CLeads(CTop(p)) /\ mkdirG' = mkdirG /\ listG' = Landed(listG, CTop(p).src)
  BY DEF CListStore, CAt, CLeads
<1>2. PICK ret : ret = CListing(CTop(p).objs)
  OBVIOUS
<1>3. FlightEnds(p, "list", CTop(p).src, ret)
  BY <1>2 DEF CListStore
<1> QED BY <1>1, <1>3, ListLands

LEMMA CExpireKeeps == ASSUME CInd, NEW path, CExpire(path) PROVE CInd'
BY SameCalls DEF CExpire

LEMMA CMkdirKeeps == ASSUME CInd, NEW p \in CProcs, CMkdir(p) PROVE CInd'
<1>1. PICK f : f = CTop(p)
  OBVIOUS
<1>2. Running(p) /\ f.op = "mkdir" /\ f.pc = "start" /\ CFrameOk(f) /\ listG' = listG /\ f.src \in Seq(CNames) /\ ~CLeads(f)
  BY <1>1, TopOk DEF CMkdir, CAt, CFrameOk, CLeads
<1>3. CASE f.src \in mkdirG /\ Goto(p, Pc(f, "wait")) /\ UNCHANGED mkdirG
  <2>1. PICK g : g = Pc(f, "wait")
    OBVIOUS
  <2>2. CFrameOk(g) /\ g.op = "mkdir" /\ g.src = f.src /\ g.pc = "wait"
    BY <1>2, <2>1 DEF Pc, CFrameOk
  <2>3. ~CLeads(g) /\ ~CAsks(g) /\ CKey(g) \in CFlying
    BY <1>3, <2>2 DEF CLeads, CAsks, CKey, CFlying
  <2> QED BY <1>1, <1>2, <1>3, <2>1, <2>2, <2>3, GotoStep
<1>4. CASE f.src \notin mkdirG /\ mkdirG' = mkdirG \cup {f.src} /\ Push(p, Pc(f, "got"), GetFrame(f.src, FALSE))
  <2>1. PICK g : g = Pc(f, "got")
    OBVIOUS
  <2>2. PICK sub : sub = GetFrame(f.src, FALSE)
    OBVIOUS
  <2>3. CFrameOk(g) /\ g.op = "mkdir" /\ g.src = f.src /\ g.pc = "got"
    BY <1>2, <2>1, NextPc
  <2>4. CFrameOk(sub) /\ sub.op = "get" /\ sub.src = f.src /\ sub.pc = "start"
    BY <1>2, <2>2, NewGet
  <2>5. CLeads(g) /\ CAbove(g, sub)
    BY <2>3, <2>4 DEF CLeads, CAbove
  <2>6. PICK L : L = {CKey(g)}
    OBVIOUS
  <2>7. L \cap CFlying = {} /\ CFlying' = CFlying \cup L
    BY <1>2, <1>4, <2>3, <2>6 DEF CKey, CFlying
  <2>8. L = IF CLeads(g) /\ ~CLeads(CTop(p)) THEN {CKey(g)} ELSE {}
    BY <1>1, <1>2, <2>5, <2>6
  <2> QED BY <1>1, <1>2, <1>4, <2>1, <2>2, <2>3, <2>4, <2>5, <2>7, <2>8, PushStep
<1> QED BY <1>1, <1>3, <1>4 DEF CMkdir

LEMMA CMkdirGotKeeps == ASSUME CInd, NEW p \in CProcs, CMkdirGot(p) PROVE CInd'
<1>1. PICK f : f = CTop(p)
  OBVIOUS
<1>2. Running(p) /\ CAt(p, "mkdir", f.pc) /\ f.op = "mkdir" /\ f.pc \in {"got", "parent"} /\ CFrameOk(f) /\ f.src \in Seq(CNames) /\ CLeads(f)
  BY <1>1, TopOk DEF CMkdirGot, CAt, CFrameOk, CLeads
<1>3. CASE \E ret : CMkdirEnds(p, ret)
  BY <1>1, <1>2, <1>3, MkdirLands
<1>4. CASE f.pc = "got" /\ ~CRet(p).ok /\ Push(p, Pc(f, "parent"), CFrame("mkdir", CDir(f.src), <<>>)) /\ UNCHANGED <<listG, mkdirG>>
  <2>1. PICK g : g = Pc(f, "parent")
    OBVIOUS
  <2>2. PICK par : par = CDir(f.src)
    OBVIOUS
  <2>3. PICK sub : sub = CFrame("mkdir", par, <<>>)
    OBVIOUS
  <2>4. f.src # <<>>
    <3>1. CStackOk(ccall[p].stack, CRet(p).ok) /\ Last(ccall[p].stack) = f /\ ccall[p].stack # <<>>
      BY <1>1, <1>2, TopOk DEF CTop, Running
    <3>2. CAsks(f)
      BY <1>2, <1>4 DEF CAsks
    <3> QED BY <1>4, <3>1, <3>2 DEF CStackOk
  <2>5. CFrameOk(g) /\ g.op = "mkdir" /\ g.src = f.src /\ g.pc = "parent"
    BY <1>2, <2>1, NextPc
  <2>6. par \in Seq(CNames) /\ Len(par) < Len(f.src)
    BY <1>2, <2>2, <2>4, FrontPath
  <2>7. CFrameOk(sub) /\ sub.op = "mkdir" /\ sub.src = par /\ sub.pc = "start"
    <3>1. par \in Seq(CNames) /\ <<>> \in Seq(CNames)
      BY <2>6
    <3> QED BY ONLY <2>3, <3>1 DEF CFrame, CFrameOk
  <2>8. CLeads(g) /\ ~CAsks(g) /\ CAbove(g, sub)
    BY <2>5, <2>6, <2>7 DEF CLeads, CAsks, CAbove
  <2> QED BY <1>1, <1>2, <1>4, <2>1, <2>2, <2>3, <2>5, <2>7, <2>8, FurtherPush
<1>5. CASE f.pc = "parent" /\ Push(p, Pc(f, "drive"), GetFrame(CDir(f.src), TRUE)) /\ UNCHANGED <<listG, mkdirG>>
  <2>1. PICK g : g = Pc(f, "drive")
    OBVIOUS
  <2>2. PICK par : par = CDir(f.src)
    OBVIOUS
  <2>3. PICK sub : sub = GetFrame(par, TRUE)
    OBVIOUS
  <2>4. CFrameOk(g) /\ g.op = "mkdir" /\ g.src = f.src /\ g.pc = "drive"
    BY <1>2, <2>1, NextPc
  <2>5. par \in Seq(CNames)
    BY <1>2, <2>2, FrontPath
  <2>6. CFrameOk(sub) /\ sub.op = "get" /\ sub.src = par /\ sub.pc = "start"
    BY <2>3, <2>5, NewGet
  <2>7. CLeads(g) /\ ~CAsks(g) /\ CAbove(g, sub)
    BY <2>4, <2>6 DEF CLeads, CAsks, CAbove
  <2> QED BY <1>1, <1>2, <1>5, <2>1, <2>2, <2>3, <2>4, <2>6, <2>7, FurtherPush
<1> QED BY <1>1, <1>3, <1>4, <1>5 DEF CMkdirGot, CAt

\* What a driver's write does with the stack.
LEMMA NextKeeps ==
  ASSUME CInd, NEW p \in CProcs, Running(p), NEW pc, Goto(p, Pc(CTop(p), pc)), pc \notin {"start", "wait", "got"},
         CTop(p).op # "get", CTop(p).op \in {"list", "mkdir"} => CLeads(CTop(p)), UNCHANGED <<listG, mkdirG>>
  PROVE  CInd'
<1>1. PICK f : f = CTop(p)
  OBVIOUS
<1>2. PICK g : g = Pc(f, pc)
  OBVIOUS
<1>3. CFrameOk(f)
  BY <1>1, TopOk
<1>4. CFrameOk(g) /\ g.op = f.op /\ g.src = f.src /\ g.pc = pc
  BY <1>1, <1>2, <1>3, NextPc
<1>5. (CLeads(g) <=> CLeads(f)) /\ ~CAsks(g)
  BY <1>1, <1>4 DEF CLeads, CAsks
<1> QED BY <1>1, <1>2, <1>4, <1>5, GotoStep

LEMMA CMkdirDriveKeeps == ASSUME CInd, NEW p \in CProcs, CMkdirDrive(p) \/ CMkdirCache(p) PROVE CInd'
<1>1. Running(p) /\ CAt(p, "mkdir", CTop(p).pc) /\ CTop(p).op = "mkdir" /\ CLeads(CTop(p))
  BY DEF CMkdirDrive, CMkdirCache, CAt, CLeads
<1>2. CASE \E ret : CMkdirEnds(p, ret)
  BY <1>1, <1>2, MkdirLands
<1>3. CASE Goto(p, Pc(CTop(p), "cache")) /\ UNCHANGED <<listG, mkdirG>>
  <2>1. PICK pc : pc = "cache"
    OBVIOUS
  <2> QED BY <1>1, <1>3, <2>1, NextKeeps
<1> QED BY <1>2, <1>3 DEF CMkdirDrive, CMkdirCache, DriverDoes

LEMMA CWriteKeeps == ASSUME CInd, NEW p \in CProcs, CWriteGot(p) \/ CWriteDrive(p) \/ CWriteCache(p) PROVE CInd'
<1>1. PICK f : f = CTop(p)
  OBVIOUS
<1>2. Running(p) /\ f.op \in CWrites /\ CFrameOk(f) /\ UNCHANGED <<listG, mkdirG>> /\ f.dst \in Seq(CNames) /\ ~CLeads(f)
  BY <1>1, TopOk DEF CWriteGot, CWriteDrive, CWriteCache, CSame, DriverDoes, CFrameOk, CLeads, CWrites
<1>3. CASE \E ret : Pop(p, ret)
  BY <1>1, <1>2, <1>3, PopStep DEF CWrites
<1>4. PICK g : g = [f EXCEPT !.obj = CRet(p).obj]
  OBVIOUS
<1>5. CFrameOk(g) /\ g.op = f.op /\ g.src = f.src /\ g.dst = f.dst
  BY <1>2, <1>4, WithObj
<1>6. ASSUME NEW h, h \in {f, g}, NEW pc, pc \notin {"start", "wait"}, Goto(p, Pc(h, pc)) PROVE CInd'
  <2>1. PICK k : k = Pc(h, pc)
    OBVIOUS
  <2>2. CFrameOk(h) /\ h.op = f.op /\ h.src = f.src /\ h.op \in CWrites
    BY <1>2, <1>5, <1>6
  <2>3. CFrameOk(k) /\ k.op = f.op /\ k.src = f.src /\ k.pc = pc
    BY <1>6, <2>1, <2>2, NextPc DEF CWrites
  <2>4. ~CLeads(k) /\ ~CAsks(k)
    BY <1>2, <2>3 DEF CLeads, CAsks, CWrites
  <2> QED BY <1>1, <1>2, <1>6, <2>1, <2>3, <2>4, GotoStep
<1>7. CASE Push(p, Pc(g, "dst"), GetFrame(CDir(f.dst), TRUE))
  <2>1. PICK k : k = Pc(g, "dst")
    OBVIOUS
  <2>2. PICK par : par = CDir(f.dst)
    OBVIOUS
  <2>3. PICK sub : sub = GetFrame(par, TRUE)
    OBVIOUS
  <2>4. CFrameOk(k) /\ k.op = f.op /\ k.src = f.src /\ k.pc = "dst"
    BY <1>2, <1>5, <2>1, NextPc DEF CWrites
  <2>5. par \in Seq(CNames)
    BY <1>2, <2>2, FrontPath
  <2>6. CFrameOk(sub) /\ sub.op = "get" /\ sub.pc = "start"
    BY <2>3, <2>5, NewGet
  <2>7. ~CLeads(k) /\ ~CAsks(k) /\ CAbove(k, sub)
    BY <1>2, <2>4 DEF CLeads, CAsks, CAbove, CWrites
  <2> QED BY <1>1, <1>2, <1>7, <2>1, <2>2, <2>3, <2>4, <2>6, <2>7, FurtherPush
<1>8. CASE CWriteGot(p)
  <2>1. (\E ret : Pop(p, ret)) \/ Push(p, Pc(g, "dst"), GetFrame(CDir(f.dst), TRUE)) \/ Goto(p, Pc(g, "drive")) \/ Goto(p, Pc(f, "drive"))
    <3>1. g.dst = f.dst
      BY <1>5
    <3> QED BY <1>1, <1>4, <1>8, <3>1 DEF CWriteGot
  <2>2. PICK pc : pc = "drive"
    OBVIOUS
  <2> QED BY <1>3, <1>6, <1>7, <2>1, <2>2
<1>9. CASE CWriteDrive(p)
  <2>1. (\E ret : Pop(p, ret)) \/ Goto(p, Pc(f, "cache"))
    BY <1>1, <1>9 DEF CWriteDrive, DriverDoes
  <2>2. PICK pc : pc = "cache"
    OBVIOUS
  <2> QED BY <1>3, <1>6, <2>1, <2>2
<1>10. CASE CWriteCache(p)
  BY <1>3, <1>10 DEF CWriteCache
<1> QED BY <1>8, <1>9, <1>10

LEMMA CPutKeeps == ASSUME CInd, NEW p \in CProcs, CPutGot(p) \/ CPutDrive(p) \/ CPutCache(p) \/ CPutAfter(p) PROVE CInd'
<1>1. PICK f : f = CTop(p)
  OBVIOUS
<1>2. Running(p) /\ f.op = "put" /\ CFrameOk(f) /\ UNCHANGED <<listG, mkdirG>> /\ f.src \in Seq(CNames) /\ ~CLeads(f)
  BY <1>1, TopOk DEF CPutGot, CPutDrive, CPutCache, CPutAfter, CAt, CSame, DriverDoes, CFrameOk, CLeads
<1>3. CASE \E ret : Pop(p, ret)
  BY <1>1, <1>2, <1>3, PopStep
<1>4. PICK g : g = [f EXCEPT !.obj = CRet(p).obj]
  OBVIOUS
<1>5. CFrameOk(g) /\ g.op = "put" /\ g.src = f.src
  BY <1>2, <1>4, WithObj
<1>6. ASSUME NEW k, Goto(p, k), CFrameOk(k), k.op = "put", k.src = f.src, k.pc # "wait" PROVE CInd'
  <2>1. ~CLeads(k) /\ ~CAsks(k)
    BY <1>6 DEF CLeads, CAsks
  <2> QED BY <1>1, <1>2, <1>6, <2>1, GotoStep
<1>7. ASSUME NEW h, h \in {f, g}, NEW pc, pc \notin {"start", "wait"}
      PROVE  CFrameOk(Pc(h, pc)) /\ Pc(h, pc).op = "put" /\ Pc(h, pc).src = f.src /\ Pc(h, pc).pc = pc
  <2>1. CFrameOk(h) /\ h.op = "put" /\ h.src = f.src
    BY <1>2, <1>5, <1>7
  <2> QED BY <1>7, <2>1, NextPc
<1>8. PICK par : par = CDir(f.src)
  OBVIOUS
<1>9. PICK tmp : tmp = TempPath(f.src)
  OBVIOUS
<1>10. par \in Seq(CNames) /\ tmp \in Seq(CNames) /\ <<>> \in Seq(CNames)
  BY <1>2, <1>8, <1>9, FrontPath
<1>11. ASSUME NEW k, NEW sub, Push(p, k, sub), CFrameOk(k), k.op = "put", k.src = f.src, k.pc \notin {"start", "wait"},
              CFrameOk(sub), sub.pc = "start", sub.op \in {"get", "mkdir"}
       PROVE  CInd'
  <2>1. ~CLeads(k) /\ ~CAsks(k) /\ CAbove(k, sub)
    BY <1>11 DEF CLeads, CAsks, CAbove
  <2> QED BY <1>1, <1>2, <1>11, <2>1, FurtherPush
<1>12. ASSUME NEW h, h \in {f, g}, CPutMkdir(p, h) PROVE CInd'
  <2>1. PICK k : k = Pc(h, "made")
    OBVIOUS
  <2>2. PICK sub : sub = CFrame("mkdir", par, <<>>)
    OBVIOUS
  <2>3. CFrameOk(sub) /\ sub.op = "mkdir" /\ sub.pc = "start"
    BY <1>10, <2>2 DEF CFrame, CFrameOk
  <2>4. CFrameOk(k) /\ k.op = "put" /\ k.src = f.src /\ k.pc = "made"
    BY <1>7, <1>12, <2>1
  <2>5. h.src = f.src
    BY <1>5, <1>12
  <2> QED BY <1>8, <1>11, <1>12, <2>1, <2>2, <2>3, <2>4, <2>5 DEF CPutMkdir
<1>13. ASSUME NEW k, NEW op \in {"remove", "rename"}, NEW a \in Seq(CNames), NEW b \in Seq(CNames), Push(p, k, CFrame(op, a, b)),
              CFrameOk(k), k.op = "put", k.src = f.src, k.pc \notin {"start", "wait"}
       PROVE  CInd'
  <2>1. PICK sub : sub = CFrame(op, a, b)
    OBVIOUS
  <2>2. CFrameOk(sub) /\ sub.op = op /\ sub.pc = "start"
    BY <2>1, NewFrame
  <2> QED BY <1>1, <1>2, <1>13, <2>1, <2>2, PushWrite
<1>14. CASE CPutGot(p)
  <2>1. \/ \E ret : Pop(p, ret)
        \/ CPutMkdir(p, f) \/ CPutMkdir(p, g)
        \/ Push(p, Pc(g, "aside"), CFrame("remove", f.src, <<>>)) \/ Push(p, Pc(g, "aside"), CFrame("rename", f.src, tmp))
        \/ Push(p, Pc(f, "drive"), GetFrame(par, TRUE))
    BY <1>1, <1>4, <1>8, <1>9, <1>14 DEF CPutGot
  <2>2. CASE Push(p, Pc(f, "drive"), GetFrame(par, TRUE))
    <3>1. PICK k : k = Pc(f, "drive")
      OBVIOUS
    <3>2. PICK sub : sub = GetFrame(par, TRUE)
      OBVIOUS
    <3>3. CFrameOk(sub) /\ sub.op = "get" /\ sub.pc = "start"
      BY <1>10, <3>2, NewGet
    <3>4. CFrameOk(k) /\ k.op = "put" /\ k.src = f.src /\ k.pc = "drive"
      BY <1>7, <3>1
    <3> QED BY <1>11, <2>2, <3>1, <3>2, <3>3, <3>4
  <2>3. PICK k : k = Pc(g, "aside")
    OBVIOUS
  <2>4. CFrameOk(k) /\ k.op = "put" /\ k.src = f.src /\ k.pc = "aside"
    BY <1>7, <2>3
  <2>5. CASE Push(p, k, CFrame("remove", f.src, <<>>)) \/ Push(p, k, CFrame("rename", f.src, tmp))
    BY <1>2, <1>10, <1>13, <2>4, <2>5
  <2> QED BY <1>3, <1>12, <2>1, <2>2, <2>3, <2>5
<1>15. CASE CPutDrive(p)
  <2>1. (\E ret : Pop(p, ret)) \/ Goto(p, Pc(f, "cache")) \/ Goto(p, [f EXCEPT !.pc = "after", !.ok = FALSE])
    BY <1>1, <1>15 DEF CPutDrive, DriverDoes
  <2>2. CASE Goto(p, Pc(f, "cache"))
    <3>1. PICK k : k = Pc(f, "cache")
      OBVIOUS
    <3>2. CFrameOk(k) /\ k.op = "put" /\ k.src = f.src /\ k.pc = "cache"
      BY <1>7, <3>1
    <3> QED BY <1>6, <2>2, <3>1, <3>2
  <2>3. CASE Goto(p, [f EXCEPT !.pc = "after", !.ok = FALSE])
    <3>1. PICK k : k = [f EXCEPT !.pc = "after", !.ok = FALSE]
      OBVIOUS
    <3>2. CFrameOk(k) /\ k.op = "put" /\ k.src = f.src /\ k.pc = "after"
      BY <1>2, <3>1 DEF CFrameOk
    <3> QED BY <1>6, <2>3, <3>1, <3>2
  <2> QED BY <1>3, <2>1, <2>2, <2>3
<1>16. CASE CPutCache(p)
  <2>1. PICK k : k = Pc(f, "after")
    OBVIOUS
  <2>2. CFrameOk(k) /\ k.op = "put" /\ k.src = f.src /\ k.pc = "after"
    BY <1>7, <2>1
  <2>3. Goto(p, k)
    BY <1>1, <1>16, <2>1 DEF CPutCache
  <2> QED BY <1>6, <2>2, <2>3
<1>17. CASE CPutAfter(p)
  <2>1. PICK k : k = Pc(f, "end")
    OBVIOUS
  <2>2. CFrameOk(k) /\ k.op = "put" /\ k.src = f.src /\ k.pc = "end"
    BY <1>7, <2>1
  <2>3. (\E ret : Pop(p, ret)) \/ Push(p, k, CFrame("rename", tmp, f.src)) \/ Push(p, k, CFrame("remove", tmp, <<>>))
    BY <1>1, <1>9, <1>17, <2>1 DEF CPutAfter
  <2> QED BY <1>2, <1>3, <1>10, <1>13, <2>2, <2>3
<1> QED BY <1>14, <1>15, <1>16, <1>17

-----------------------------------------------------------------------------
(* What follows                                                                 *)

LEMMA CallsBegin == ASSUME CInit PROVE CInd
<1>1. \A p \in CProcs : ccall[p].stack = <<>>
  BY DEF CInit
<1>2. CShape
  BY DEF CInit, CShape
<1>3. CFlying = {}
  BY DEF CInit, CFlying
<1>4. CLed(<<>>) = {} /\ (\A ok : CStackOk(<<>>, ok)) /\ \A F : CAwaits(<<>>, F)
  <2>1. CIsSeq(<<>>)
    <3>1. <<>> \in Seq({})
      OBVIOUS
    <3> QED BY <3>1 DEF CIsSeq
  <2>2. CLed(<<>>) = {}
    BY DEF CLed
  <2>3. \A ok : CStackOk(<<>>, ok)
    BY <2>1 DEF CStackOk
  <2> QED BY <2>2, <2>3 DEF CAwaits
<1> QED BY <1>1, <1>2, <1>3, <1>4 DEF CInd

LEMMA CallsKeep == ASSUME CAssumption, CInd, [CNext]_dirVars PROVE CInd'
<1>1. CASE \E p \in CProcs : CStep(p)
  BY <1>1, CGetKeeps, CGetListedKeeps, CListKeeps, CListReadKeeps, CListStoreKeeps, CMkdirKeeps, CMkdirGotKeeps, CMkdirDriveKeeps,
     CWriteKeeps, CPutKeeps DEF CStep
<1>2. ASSUME NEW p \in CProcs, CCalls(p) PROVE CInd'
  <2>1. \A path \in CPaths \cup {<<>>} : path \in Seq(CNames)
    <3>1. CPaths \subseteq Seq(CNames)
      BY DEF CAssumption
    <3>2. <<>> \in Seq(CNames)
      OBVIOUS
    <3> QED BY <3>1, <3>2
  <2>2. PICK src \in CPaths \cup {<<>>}, dst \in CPaths \cup {<<>>}, refresh \in BOOLEAN,
             op \in {"list", "mkdir", "remove", "put", "move", "copy", "rename"} : CStartCall(p, op, src, dst, refresh)
    BY <1>2 DEF CCalls
  <2> QED BY <2>1, <2>2, CStartKeeps
<1>3. CASE \E path \in DOMAIN dirCache : CExpire(path)
  BY <1>3, CExpireKeeps
<1>4. CASE UNCHANGED dirVars
  BY <1>4, SameCalls DEF dirVars
<1> QED BY <1>1, <1>2, <1>3, <1>4 DEF CNext

\* A frame that leads a flight, by its place.
CLeadsAt(p, n, op, path) ==
  n \in DOMAIN ccall[p].stack /\ CLeads(ccall[p].stack[n]) /\ ccall[p].stack[n].op = op /\ ccall[p].stack[n].src = path

LEMMA LedBy ==
  ASSUME CInd, NEW p \in CProcs, NEW op, NEW path
  PROVE  /\ <<op, path>> \in CLed(ccall[p].stack) <=> \E n : CLeadsAt(p, n, op, path)
         /\ \A m, n : CLeadsAt(p, m, op, path) /\ CLeadsAt(p, n, op, path) => m = n
<1>1. PICK s : s = ccall[p].stack
  OBVIOUS
<1>2. PICK ok : ok = ccall[p].ret.ok
  OBVIOUS
<1>3. CStackOk(s, ok)
  BY <1>1, <1>2 DEF CInd
<1>4. PICK S : s \in Seq(S)
  BY <1>3 DEF CStackOk, CIsSeq
<1>5. DOMAIN s = 1..Len(s) /\ Len(s) \in Nat
  BY ONLY <1>4
<1>6. <<op, path>> \in CLed(ccall[p].stack) <=> \E n : CLeadsAt(p, n, op, path)
  BY <1>1, <1>5 DEF CLed, CLeadsAt, CKey
<1>7. ASSUME NEW m, NEW n, CLeadsAt(p, m, op, path), CLeadsAt(p, n, op, path), m # n PROVE FALSE
  <2>1. m \in 1..Len(s) /\ n \in 1..Len(s) /\ (m < n \/ n < m)
    BY <1>1, <1>5, <1>7 DEF CLeadsAt
  <2>2. CAbove(s[m], s[n]) \/ CAbove(s[n], s[m])
    BY <1>3, <2>1 DEF CStackOk
  <2>3. CFrameOk(s[m]) /\ Len(s[m].src) \in Nat
    BY <1>3, <2>1 DEF CStackOk, CFrameOk
  <2>4. s[m].op = s[n].op /\ s[m].src = s[n].src /\ s[m].op \in {"list", "mkdir"}
    BY <1>1, <1>7 DEF CLeadsAt, CLeads
  <2> QED BY <2>2, <2>3, <2>4 DEF CAbove
<1> QED BY <1>6, <1>7

LEMMA FlightsLed == ASSUME CInd PROVE CFlights
<1>1. ASSUME NEW op, NEW path, NEW p, NEW n
      PROVE  <<p, n>> \in CLeaders(op, path) <=> p \in CProcs /\ CLeadsAt(p, n, op, path)
  BY DEF CLeaders, CLeadsAt
<1>2. ASSUME NEW op, NEW path, NEW l \in CLeaders(op, path)
      PROVE  \E p \in CProcs : \E n : l = <<p, n>> /\ CLeadsAt(p, n, op, path)
  BY DEF CLeaders, CLeadsAt
<1>3. ASSUME NEW op, NEW path, <<op, path>> \in CFlying
      PROVE  \E l \in CLeaders(op, path) : CLeaders(op, path) = {l}
  <2>1. PICK p \in CProcs : <<op, path>> \in CLed(ccall[p].stack)
    BY <1>3 DEF CInd
  <2>2. PICK n : CLeadsAt(p, n, op, path)
    BY <2>1, LedBy
  <2>3. ASSUME NEW l \in CLeaders(op, path) PROVE l = <<p, n>>
    <3>5. PICK q \in CProcs : \E m : l = <<q, m>> /\ CLeadsAt(q, m, op, path)
      BY <1>2
    <3>1. PICK m : l = <<q, m>> /\ CLeadsAt(q, m, op, path)
      BY <3>5
    <3>2. <<op, path>> \in CLed(ccall[q].stack)
      BY <3>1, LedBy
    <3>3. q = p
      BY <2>1, <3>2 DEF CInd
    <3>4. m = n
      BY <2>2, <3>1, <3>3, LedBy
    <3> QED BY <3>1, <3>3, <3>4
  <2>4. <<p, n>> \in CLeaders(op, path)
    BY <1>1, <2>2
  <2> QED BY <2>3, <2>4
<1>4. ASSUME NEW op, NEW path, <<op, path>> \notin CFlying PROVE CLeaders(op, path) = {}
  <2>1. ASSUME NEW l \in CLeaders(op, path) PROVE FALSE
    <3>5. PICK q \in CProcs : \E m : l = <<q, m>> /\ CLeadsAt(q, m, op, path)
      BY <1>2
    <3>1. PICK m : l = <<q, m>> /\ CLeadsAt(q, m, op, path)
      BY <3>5
    <3>2. <<op, path>> \in CLed(ccall[q].stack)
      BY <3>1, LedBy
    <3> QED BY <1>4, <3>2 DEF CInd
  <2> QED BY <2>1
<1>5. \A path : (<<"list", path>> \in CFlying <=> path \in listG) /\ (<<"mkdir", path>> \in CFlying <=> path \in mkdirG)
  BY DEF CFlying
<1>6. ASSUME NEW op, NEW G, \A path : <<op, path>> \in CFlying <=> path \in G
      PROVE  \A path : IF path \in G THEN \E l \in CLeaders(op, path) : CLeaders(op, path) = {l} ELSE CLeaders(op, path) = {}
  BY <1>3, <1>4, <1>6
<1>7. /\ \A path : IF path \in listG THEN \E l \in CLeaders("list", path) : CLeaders("list", path) = {l} ELSE CLeaders("list", path) = {}
      /\ \A path : IF path \in mkdirG THEN \E l \in CLeaders("mkdir", path) : CLeaders("mkdir", path) = {l} ELSE CLeaders("mkdir", path) = {}
  BY <1>5, <1>6
<1> QED BY <1>7 DEF CFlights

\* Who leads the flight that p waits for does not wait itself, or for a path nearer to the
\* root or a listing.
LEMMA LeaderIsAhead ==
  ASSUME CInd, NEW p \in CProcs, Running(p), CTop(p).pc = "wait"
  PROVE  /\ CTop(p).op \in {"list", "mkdir"} /\ Len(CTop(p).src) \in Nat
         /\ \E q \in CProcs : /\ Running(q)
                              /\ CTop(q).pc = "wait" => \/ CTop(p).op = "mkdir" /\ CTop(q).op = "list"
                                                        \/ CTop(q).op = CTop(p).op /\ Len(CTop(q).src) < Len(CTop(p).src)
<1>1. PICK f : f = CTop(p)
  OBVIOUS
<1>2. CFrameOk(f) /\ f.op \in {"list", "mkdir"} /\ Len(f.src) \in Nat
  BY <1>1, TopOk DEF CFrameOk
<1>3. CKey(f) \in CFlying
  BY <1>1, TopOk DEF CAwaits, Running, CTop
<1>4. PICK q \in CProcs : CKey(f) \in CLed(ccall[q].stack)
  BY <1>3 DEF CInd
<1>5. PICK s : s = ccall[q].stack
  OBVIOUS
<1>6. PICK n \in 1..Len(s) : CLeads(s[n]) /\ s[n].op = f.op /\ s[n].src = f.src
  BY <1>4, <1>5 DEF CLed, CKey
<1>7. CStackOk(s, ccall[q].ret.ok)
  BY <1>5 DEF CInd
<1>8. PICK S : s \in Seq(S)
  BY <1>7 DEF CStackOk, CIsSeq
<1>9. s # <<>> /\ Len(s) \in Nat
  BY ONLY <1>6, <1>8
<1>10. Last(s) = s[Len(s)] /\ Running(q) /\ CTop(q) = Last(s) /\ Len(s) \in 1..Len(s)
  <2>1. Last(s) = s[Len(s)]
    BY ONLY <1>8, <1>9, FrontAndLast
  <2> QED BY <1>5, <1>6, <1>9, <2>1 DEF Running, CTop
<1>11. ASSUME CTop(q).pc = "wait"
       PROVE  \/ f.op = "mkdir" /\ CTop(q).op = "list"
              \/ CTop(q).op = f.op /\ Len(CTop(q).src) < Len(f.src)
  <2>1. n # Len(s)
    BY <1>6, <1>10, <1>11 DEF CLeads
  <2>2. CAbove(s[n], s[Len(s)])
    BY <1>7, <1>9, <1>10, <2>1 DEF CStackOk
  <2>3. CTop(q).op \in {"list", "mkdir"}
    BY <1>10, <1>11, TopOk DEF CFrameOk
  <2> QED BY <1>2, <1>6, <1>10, <2>2, <2>3 DEF CAbove
<1> QED BY <1>1, <1>2, <1>10, <1>11

\* The lengths of the paths that calls wait for.
CWaiting(op) == {p \in CProcs : Running(p) /\ CTop(p).pc = "wait" /\ CTop(p).op = op}
CLengths(op) == {Len(CTop(p).src) : p \in CWaiting(op)}

LEMMA NobodyInACircle == ASSUME CInd PROVE CNoCircle
<1> SUFFICES ASSUME ~CQuiet, \A p \in CProcs : Running(p) => CTop(p).pc = "wait" PROVE FALSE
  BY DEF CNoCircle
<1>1. PICK p \in CProcs : Running(p) /\ CTop(p).pc = "wait"
  BY DEF CQuiet
<1>2. CWaiting("list") # {} \/ CWaiting("mkdir") # {}
  BY <1>1, LeaderIsAhead DEF CWaiting
<1>3. ASSUME NEW T, T # {}, T \subseteq Nat PROVE \E n \in T : \A m \in T : n <= m
  <2> DEFINE R == OpToRel(<, Nat)
  <2>1. IsWellFoundedOn(R, Nat)
    BY NatLessThanWellFounded
  <2>2. IsWellFoundedOn(R, T)
    BY <1>3, <2>1, IsWellFoundedOnSubset
  <2>3. PICK n \in T : \A m \in T : ~(<<m, n>> \in R)
    BY <1>3, <2>2, WFMin
  <2>4. \A m \in T : ~(m < n)
    BY <1>3, <2>3 DEF OpToRel
  <2> QED BY <1>3, <2>4
<1>4. ASSUME NEW op, CWaiting(op) # {} PROVE \E q \in CWaiting(op) : \A o \in CWaiting(op) : Len(CTop(q).src) <= Len(CTop(o).src)
  <2>1. PICK T : T = CLengths(op)
    OBVIOUS
  <2>2. T # {} /\ T \subseteq Nat
    BY <1>4, <2>1, LeaderIsAhead DEF CLengths, CWaiting
  <2>3. PICK n \in T : \A m \in T : n <= m
    BY <1>3, <2>2
  <2> QED BY <2>1, <2>3 DEF CLengths
<1>5. CWaiting("list") = {}
  <2> SUFFICES ASSUME CWaiting("list") # {} PROVE FALSE
    OBVIOUS
  <2>1. PICK q \in CWaiting("list") : \A o \in CWaiting("list") : Len(CTop(q).src) <= Len(CTop(o).src)
    BY <1>4
  <2>2. q \in CProcs /\ Running(q) /\ CTop(q).pc = "wait" /\ CTop(q).op = "list"
    BY DEF CWaiting
  <2>3. PICK o \in CProcs : Running(o) /\ CTop(o).op = "list" /\ Len(CTop(o).src) < Len(CTop(q).src)
    BY <2>2, LeaderIsAhead
  <2>4. o \in CWaiting("list") /\ Len(CTop(o).src) \in Nat /\ Len(CTop(q).src) \in Nat
    BY <2>2, <2>3, LeaderIsAhead DEF CWaiting
  <2> QED BY <2>1, <2>3, <2>4
<1>6. CWaiting("mkdir") = {}
  <2> SUFFICES ASSUME CWaiting("mkdir") # {} PROVE FALSE
    OBVIOUS
  <2>1. PICK q \in CWaiting("mkdir") : \A o \in CWaiting("mkdir") : Len(CTop(q).src) <= Len(CTop(o).src)
    BY <1>4
  <2>2. q \in CProcs /\ Running(q) /\ CTop(q).pc = "wait" /\ CTop(q).op = "mkdir"
    BY DEF CWaiting
  <2>3. PICK o \in CProcs : Running(o) /\ (CTop(o).op = "list" \/ (CTop(o).op = "mkdir" /\ Len(CTop(o).src) < Len(CTop(q).src)))
    BY <2>2, LeaderIsAhead
  <2>4. CTop(o).op # "list"
    BY <1>5, <2>3 DEF CWaiting
  <2>5. o \in CWaiting("mkdir") /\ Len(CTop(o).src) \in Nat /\ Len(CTop(q).src) \in Nat
    BY <2>2, <2>3, <2>4, LeaderIsAhead DEF CWaiting
  <2> QED BY <2>1, <2>3, <2>4, <2>5
<1> QED BY <1>2, <1>5, <1>6

(* Every flight has one leader and ends with it, and calls that wait for        *)
(* flights never wait in a circle, whatever paths, calls and failures there are *)
(* (singleflight.Do as list and MakeDir use it).                                *)
THEOREM FlightsAreSafe == CSpec => [](CFlights /\ CNoCircle)
<1>1. CInit => CInd
  BY CallsBegin
<1>2. CInd /\ [CNext]_dirVars => CInd'
  BY CAssumption, CallsKeep
<1>3. CInd => CFlights /\ CNoCircle
  BY FlightsLed, NobodyInACircle
<1> QED BY <1>1, <1>2, <1>3, PTL DEF CSpec
=============================================================================
