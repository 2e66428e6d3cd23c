------------------------------- MODULE LinkCache -------------------------------
(* op.Link, the cache of links and utils.SyncClosers: users share an open file  *)
(* by counting references.  The counter is one atomic word, so every load, add, *)
(* swap and store of it is a step.  One path and one type of link; DeleteKey is *)
(* what the writes of op/fs.go do to the entry.                                 *)
EXTENDS Integers, FiniteSets

CONSTANTS KUsers,    \* goroutines that use the file
          KLinks,    \* bound: links that the driver makes, 1..n
          KUses      \* bound: calls of Link

\* math.MinInt32
closersClosed == -2147483647 - 1

\* There are fewer goroutines than a closed counter is below zero.
ASSUME KAssumption ==
  /\ KUses \in Nat /\ KLinks \subseteq Nat \ {0}
  /\ IsFiniteSet(KUsers) /\ Cardinality(KUsers) + closersClosed < 0

VARIABLES
  kref,      \* link -> SyncClosers.ref
  kclosed,   \* link -> how often its file was closed
  kentry,    \* the cached link, 0 for none
  kflight,   \* linkG: the user that leads the flight, or KNone
  kuser,     \* user -> [pc, link, ref]
  kuses,     \* calls of Link so far
  kkind      \* RequireReference of the driver's links; one that needs none has no file

linkVars == <<kref, kclosed, kentry, kflight, kuser, kuses, kkind>>

KNone == "none"

KInit ==
  /\ kref = [l \in KLinks |-> 0] /\ kclosed = [l \in KLinks |-> 0]
  /\ kentry = 0 /\ kflight = KNone /\ kuses = 0
  /\ kuser = [u \in KUsers |-> [pc |-> "idle", link |-> 0, ref |-> 0]]
  /\ kkind \in BOOLEAN

KMade == {l \in KLinks : kref[l] # 0 \/ l = kentry \/ \E u \in KUsers : kuser[u].link = l}
KPc(u, pc) == kuser' = [kuser EXCEPT ![u].pc = pc]
KGive(u, pc, l) == kuser' = [kuser EXCEPT ![u] = [pc |-> pc, link |-> l, ref |-> 0]]

\* Expired: the entry of a link that was closed is no entry.
Expired(l) == kref[l] < 0

\* GetType; an expired entry is taken out.
GetType(u) ==
  /\ kuser[u].pc = "idle" /\ kuses < KUses
  /\ kuses' = kuses + 1
  /\ IF kentry # 0 /\ ~Expired(kentry) THEN KGive(u, "acquire", kentry) /\ UNCHANGED kentry
     ELSE KPc(u, "fly") /\ kentry' = 0
  /\ UNCHANGED <<kref, kclosed, kflight, kkind>>

\* linkG.Do: lead the flight or wait for it.
KFly(u) ==
  /\ kuser[u].pc = "fly"
  /\ IF kflight = KNone THEN kflight' = u /\ KPc(u, "make") ELSE KPc(u, "wait") /\ UNCHANGED kflight
  /\ UNCHANGED <<kref, kclosed, kentry, kuses, kkind>>
\* storage.Link: a new link, which is put into the cache.
MakeLink(u, l) ==
  /\ kuser[u].pc = "make" /\ l \in KLinks \ KMade /\ \A k \in KLinks \ KMade : l <= k
  /\ kentry' = l
  /\ KGive(u, "land", l)
  /\ UNCHANGED <<kref, kclosed, kflight, kuses, kkind>>
\* It fails, or the file is gone.
LinkFails(u) ==
  /\ kuser[u].pc = "make"
  /\ kflight' = KNone
  /\ kuser' = [w \in KUsers |-> IF w = u \/ kuser[w].pc = "wait" THEN [pc |-> "idle", link |-> 0, ref |-> 0] ELSE kuser[w]]
  /\ UNCHANGED <<kref, kclosed, kentry, kuses, kkind>>
KLand(u) ==
  /\ kuser[u].pc = "land"
  /\ kflight' = KNone
  /\ kuser' = [w \in KUsers |-> IF w = u \/ kuser[w].pc = "wait"
                                THEN [pc |-> "acquire", link |-> kuser[u].link, ref |-> 1] ELSE kuser[w]]
  /\ UNCHANGED <<kref, kclosed, kentry, kuses, kkind>>

\* AcquireReference: add one; a closed one is set back, and the user tries again.
AcquireReference(u) ==
  LET l == kuser[u].link
  IN  /\ kuser[u].pc = "acquire"
      /\ kref' = [kref EXCEPT ![l] = @ + 1]
      /\ KPc(u, IF kref[l] + 1 > 0 THEN "use" ELSE "refused")
      /\ UNCHANGED <<kclosed, kentry, kflight, kuses, kkind>>
AcquireRefused(u) ==
  LET l == kuser[u].link
  IN  /\ kuser[u].pc = "refused"
      /\ kref' = [kref EXCEPT ![l] = closersClosed]
      /\ IF kkind THEN KGive(u, "fly", 0) ELSE KPc(u, "use")
      /\ UNCHANGED <<kclosed, kentry, kflight, kuses, kkind>>

\* Close: load, then swap; the one who swaps the last reference closes the file.
CloseLoad(u) ==
  LET r == kref[kuser[u].link]
  IN  /\ kuser[u].pc \in {"use", "again"}
      /\ kuser' = [kuser EXCEPT ![u] = IF r < 0 THEN [pc |-> "idle", link |-> 0, ref |-> 0]
                                       ELSE [@ EXCEPT !.pc = "swap", !.ref = r]]
      /\ UNCHANGED <<kref, kclosed, kentry, kflight, kuses, kkind>>
CloseSwap(u) ==
  LET l == kuser[u].link
      r == kuser[u].ref
  IN  /\ kuser[u].pc = "swap"
      /\ IF kref[l] # r THEN KPc(u, "again") /\ UNCHANGED kref
         ELSE /\ kref' = [kref EXCEPT ![l] = IF r > 1 THEN r - 1 ELSE closersClosed]
              /\ IF r > 1 THEN KGive(u, "idle", 0) ELSE KPc(u, "closing")
      /\ UNCHANGED <<kclosed, kentry, kflight, kuses, kkind>>
CloseClosers(u) ==
  /\ kuser[u].pc = "closing"
  /\ kclosed' = [kclosed EXCEPT ![kuser[u].link] = @ + 1]
  /\ KGive(u, "idle", 0)
  /\ UNCHANGED <<kref, kentry, kflight, kuses, kkind>>

DeleteKey ==
  /\ kentry # 0 /\ kentry' = 0
  /\ UNCHANGED <<kref, kclosed, kflight, kuser, kuses, kkind>>

KStep(u) ==
  \/ KFly(u) \/ (\E l \in KLinks : MakeLink(u, l)) \/ LinkFails(u) \/ KLand(u)
  \/ AcquireReference(u) \/ AcquireRefused(u) \/ CloseLoad(u) \/ CloseSwap(u) \/ CloseClosers(u)
KNext == DeleteKey \/ \E u \in KUsers : GetType(u) \/ KStep(u)
KSpec == KInit /\ [][KNext]_linkVars

-----------------------------------------------------------------------------
KUsing(l) == {u \in KUsers : kuser[u].link = l /\ kuser[u].pc \in {"use", "again", "swap"}}

(* Nobody reads from a file that was closed: while a user has the link of an    *)
(* open file, its closers have not run, whoever else acquired, closed and was   *)
(* refused meanwhile (SyncClosers).                                             *)
KOpenWhileUsed == kkind => \A l \in KLinks : KUsing(l) # {} => kclosed[l] = 0 /\ kref[l] >= 0

(* No file is closed twice, and none stays open when nobody is using or getting *)
(* a link: the entry of the cache alone keeps no file open.                     *)
KNoLeak ==
  /\ \A l \in KLinks : kclosed[l] <= 1
  /\ (\A u \in KUsers : kuser[u].pc = "idle") => \A l \in KMade : kclosed[l] = 1

(* A shared file is open while somebody reads it and closed once, soon after    *)
(* (SyncClosers, link cache).                                                   *)
LinksSafe == KOpenWhileUsed /\ KNoLeak
=============================================================================
