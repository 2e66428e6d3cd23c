---------------------------- MODULE DavRequests ----------------------------
(***************************************************************************)
(* The request handlers of the WebDAV server (server/webdav/webdav.go)     *)
(* over the lock system memLS.                                             *)
(*                                                                         *)
(* Every connection is a goroutine that serves one request at a time.  A   *)
(* handler is cut where it calls the lock system or the file system: those *)
(* calls are atomic, everything else is local to the goroutine.  The calls *)
(* to the lock system are the actions of MemLS, so this module adds to     *)
(* each of them what the handler does with the result.                     *)
(*                                                                         *)
(* The file system is the set of the paths that exist (external: storage   *)
(* drivers behind package fs).  A permission check or a driver error after *)
(* the locks were confirmed is an early return through the deferred        *)
(* release: the action GiveUp.  Requests refused before they reach the     *)
(* lock system change nothing and are left out.                            *)
(***************************************************************************)
EXTENDS MemLS

CONSTANTS Conns,        \* the connections served
          Bases,        \* the base paths of the users that send requests
          Methods,      \* the methods of the requests they send
          StartTrees,   \* the paths that may exist at the start
          Foreign,      \* a resource tag that names another host
          Outside,      \* a resource tag without the handler's prefix
          IfHeaders(_), \* the If headers that present tokens of a given set
          MaxRequests   \* bound on the number of requests

\* NoName also stands for the absent release closure; a client presents
\* the tokens it knows, under no tag or any tag.
ASSUME DavAssumption ==
    /\ infiniteTimeout \in Durations
    /\ {Foreign, Outside} \cap (Names \cup {NoName}) = {}
    /\ NoName \notin claimType
    /\ \A T \in SUBSET (1..MaxGen) :
          IfHeaders(T) \subseteq
             Seq([tag : Names \cup {NoName, Foreign, Outside}, conditions : Seq(T)])
    /\ Bases \subseteq Names
    /\ \A T \in StartTrees :
          T \subseteq Names /\ <<>> \in T /\ \A n \in T : walkToRoot(n) \subseteq T
    /\ MaxRequests \in Nat
    /\ 2 * MaxRequests <= MaxGen

VARIABLES conn,     \* the state of every connection's handler
          granted,  \* the tokens that LOCK requests returned to clients
          tree,     \* the paths that exist
          served    \* the number of requests received

davVars == <<ls, claims, clock, conn, granted, tree, served>>

-----------------------------------------------------------------------------
(***************************************************************************)
(* Requests                                                                *)
(***************************************************************************)

\* A request: its path and Destination (relative to the user's base path), the
\* lists of its If header, the token, depth and timeout of a LOCK or UNLOCK.
\* "now" is the instant the handler read before its first call.
Idle == [pc |-> "idle", method |-> "none", base |-> <<>>, name |-> NoName,
         dest |-> NoName, lists |-> <<>>, token |-> NoToken, zeroDepth |-> TRUE,
         duration |-> infiniteTimeout, now |-> 0, srcToken |-> NoToken,
         dstToken |-> NoToken, claim |-> NoName, tagged |-> FALSE, status |-> 0]

\* The reply, with which the handler returns.
Reply(status) == [Idle EXCEPT !.status = status]

\* user.JoinPath
JoinPath(base, name) == base \o name

\* What the handlers pass to confirmLocks: COPY and MOVE pass joined paths, the
\* others the path of the request as it came.  (Mutant: MOVE leaves src out.)
confirmedSrc_NotMove(r) == IF r.method \in {"COPY", "MOVE"} THEN NoName ELSE r.name

confirmedSrc(r) == CASE r.method = "COPY" -> NoName
                     [] r.method = "MOVE" -> JoinPath(r.base, r.name)
                     [] OTHER             -> r.name

confirmedDst(r) == IF r.method \in {"COPY", "MOVE"}
                   THEN JoinPath(r.base, r.dest) ELSE NoName

\* The resources the handler goes on to write.
Targets(r) == CASE r.method = "COPY" -> {JoinPath(r.base, r.dest)}
                [] r.method = "MOVE" -> {JoinPath(r.base, r.name),
                                         JoinPath(r.base, r.dest)}
                [] OTHER             -> {JoinPath(r.base, r.name)}

Receive(c, r) ==
    /\ conn[c].pc = "idle"
    /\ r.method \in Methods
    /\ served < MaxRequests
    /\ served' = served + 1
    /\ conn' = [conn EXCEPT ![c] = [r EXCEPT !.now = clock]]
    /\ UNCHANGED <<vars, granted, tree>>

\* confirmLocks starts: with an If header it tries its lists, without one it
\* takes temporary locks.
confirming(r) ==
    [r EXCEPT !.pc = IF r.lists # <<>> THEN "confirm"
                     ELSE IF confirmedSrc(r) # NoName THEN "lockSrc" ELSE "lockDst"]

Request(method, base, name, dest, lists) ==
    confirming([Idle EXCEPT !.method = method, !.base = base, !.name = name,
                            !.dest = dest, !.lists = lists])

PathsUnder(base) == {n \in Names : JoinPath(base, n) \in Names}

handleDelete(c, base, name, lists) ==
    Receive(c, Request("DELETE", base, name, NoName, lists))

handlePut(c, base, name, lists) ==
    /\ name # <<>>
    /\ Receive(c, Request("PUT", base, name, NoName, lists))

handleMkcol(c, base, name, lists) ==
    Receive(c, Request("MKCOL", base, name, NoName, lists))

handleProppatch(c, base, name, lists) ==
    Receive(c, Request("PROPPATCH", base, name, NoName, lists))

\* The path that n, which is src or lies below it, has after src became dst.
Moved(n, src, dst) == dst \o SubSeq(n, Len(src) + 1, Len(n))

SelfOrBelow(src) == {n \in Names : n = src \/ Below(n, src)}

\* The instance has names for all that the request moves.
handleCopyMove(c, method, base, name, dest, lists) ==
    LET src == JoinPath(base, name)
        dst == JoinPath(base, dest)
    IN  /\ dest # <<>>
        /\ dest # name
        /\ \A n \in SelfOrBelow(src) : Moved(n, src, dst) \in Names
        /\ Receive(c, Request(method, base, name, dest, lists))

\* An empty lockInfo asks for a refresh.
handleLock(c, base, name, zeroDepth, duration) ==
    Receive(c, [Idle EXCEPT !.pc = "lock", !.method = "LOCK", !.base = base,
                            !.name = name, !.zeroDepth = zeroDepth,
                            !.duration = duration])

handleRefresh(c, token, duration) ==
    Receive(c, [Idle EXCEPT !.pc = "refresh", !.method = "REFRESH",
                            !.token = token, !.duration = duration])

handleUnlock(c, token) ==
    Receive(c, [Idle EXCEPT !.pc = "unlock", !.method = "UNLOCK", !.token = token])

-----------------------------------------------------------------------------
(***************************************************************************)
(* confirmLocks                                                            *)
(***************************************************************************)

\* The locks are confirmed: the first access of each handler to the file system.
confirmed(r) == [r EXCEPT !.pc = IF r.method \in {"DELETE", "MKCOL", "PROPPATCH"}
                                 THEN "stat" ELSE "apply"]

\* Handler.lock: the temporary lock has zero depth and no timeout.
lock(r, root) == Create(r.now, root, TRUE, infiniteTimeout)

lockSrc(c) ==
    LET r == conn[c]
    IN  /\ r.pc = "lockSrc"
        /\ lock(r, confirmedSrc(r))
        /\ conn' = [conn EXCEPT ![c] =
              IF ls'.gen = ls.gen THEN Reply(423)
              ELSE LET locked == [r EXCEPT !.srcToken = ls'.gen]
                   IN  IF confirmedDst(r) = NoName THEN confirmed(locked)
                       ELSE [locked EXCEPT !.pc = "lockDst"]]
        /\ UNCHANGED <<granted, tree, served>>

\* The answer to a refused lock on dst.  (Mutant: the lock on src is forgotten.)
refusedDst_KeepsSrc(r) == Reply(423)

refusedDst(r) == IF r.srcToken = NoToken THEN Reply(423)
                 ELSE [r EXCEPT !.pc = "unlockSrc", !.status = 423]

lockDst(c) ==
    LET r == conn[c]
    IN  /\ r.pc = "lockDst"
        /\ lock(r, confirmedDst(r))
        /\ conn' = [conn EXCEPT ![c] =
              IF ls'.gen = ls.gen THEN refusedDst(r)
              ELSE confirmed([r EXCEPT !.dstToken = ls'.gen])]
        /\ UNCHANGED <<granted, tree, served>>

\* No list is left, or the tag of the next one cannot be resolved.  (Mutants: the
\* request is let through, or never answered, when every list has failed.)
rejectIf_Admits(c) ==
    /\ conn[c].pc = "confirm"
    /\ conn[c].lists = <<>>
    /\ conn' = [conn EXCEPT ![c] = confirmed(@)]
    /\ UNCHANGED <<vars, granted, tree, served>>

rejectIf_Loops(c) ==
    /\ conn[c].pc = "confirm"
    /\ conn[c].lists # <<>>
    /\ Head(conn[c].lists).tag = Foreign
    /\ conn' = [conn EXCEPT ![c].lists = Tail(@)]
    /\ UNCHANGED <<vars, granted, tree, served>>

rejectIf(c) ==
    LET r == conn[c]
    IN  /\ r.pc = "confirm"
        /\ \/ /\ r.lists = <<>>
              /\ conn' = [conn EXCEPT ![c] = Reply(412)]
           \/ /\ r.lists # <<>>
              /\ Head(r.lists).tag = Outside
              /\ conn' = [conn EXCEPT ![c] = Reply(404)]
           \/ /\ r.lists # <<>>
              /\ Head(r.lists).tag = Foreign
              /\ conn' = [conn EXCEPT ![c].lists = Tail(@)]
        /\ UNCHANGED <<vars, granted, tree, served>>

confirmIf(c) ==
    LET r == conn[c]
    IN  /\ r.pc = "confirm"
        /\ r.lists # <<>>
        /\ Head(r.lists).tag \in Names \cup {NoName}
        /\ LET l    == Head(r.lists)
               lsrc == IF l.tag = NoName THEN confirmedSrc(r) ELSE l.tag
           IN  /\ \E now \in r.now..clock :
                      Confirm(now, lsrc, confirmedDst(r), l.conditions)
               /\ conn' = [conn EXCEPT ![c] =
                     IF claims' = claims THEN [r EXCEPT !.lists = Tail(@)]
                     ELSE confirmed([r EXCEPT !.tagged = (l.tag # NoName),
                                       !.claim = CHOOSE x \in claims' : x \notin claims])]
        /\ UNCHANGED <<granted, tree, served>>

\* The deferred release.
releasing(r, status) ==
    [r EXCEPT !.status = status,
              !.pc = IF r.claim # NoName THEN "release"
                     ELSE IF r.dstToken # NoToken THEN "unlockDst" ELSE "unlockSrc"]

unlockDst(c) ==
    LET r == conn[c]
    IN  /\ r.pc = "unlockDst"
        /\ Unlock(r.now, r.dstToken)
        /\ conn' = [conn EXCEPT ![c] = IF r.srcToken = NoToken THEN Reply(r.status)
                                       ELSE [r EXCEPT !.pc = "unlockSrc"]]
        /\ UNCHANGED <<granted, tree, served>>

unlockSrc(c) ==
    LET r == conn[c]
    IN  /\ r.pc = "unlockSrc"
        /\ Unlock(r.now, r.srcToken)
        /\ conn' = [conn EXCEPT ![c] = Reply(r.status)]
        /\ UNCHANGED <<granted, tree, served>>

\* The closure that Confirm returned.  (Mutant: it also unlocks.)
releaseClaim_Unlocks(c) ==
    LET r == conn[c]
    IN  /\ r.pc = "release"
        /\ ls' = remove(unhold(unhold(ls, r.claim.n1), r.claim.n0),
                        ClaimedNodes(r.claim))
        /\ claims' = claims \ {r.claim}
        /\ conn' = [conn EXCEPT ![c] = Reply(r.status)]
        /\ UNCHANGED <<clock, granted, tree, served>>

releaseClaim(c) ==
    LET r == conn[c]
    IN  /\ r.pc = "release"
        /\ Release(r.claim)
        /\ conn' = [conn EXCEPT ![c] = Reply(r.status)]
        /\ UNCHANGED <<granted, tree, served>>

-----------------------------------------------------------------------------
(***************************************************************************)
(* The bodies of the handlers                                              *)
(***************************************************************************)

Working == {"stat", "parent", "apply"}

Target(r) == JoinPath(r.base, r.name)

Parent(n) == IF n = <<>> THEN n ELSE SubSeq(n, 1, Len(n) - 1)

\* A refused permission, a malformed header or a driver error.
GiveUp(c) ==
    /\ conn[c].pc \in Working
    /\ conn' = [conn EXCEPT ![c] = releasing(@, 403)]
    /\ UNCHANGED <<vars, granted, tree, served>>

\* fs.Get of the target.  MKCOL wants it absent, DELETE and PROPPATCH present;
\* PROPPATCH refuses every patch.
Stat(c) ==
    LET r == conn[c]
        found == Target(r) \in tree
    IN  /\ r.pc = "stat"
        /\ conn' = [conn EXCEPT ![c] =
              CASE r.method = "MKCOL" /\ found      -> releasing(r, 405)
                [] r.method = "MKCOL" /\ ~found     -> [r EXCEPT !.pc = "parent"]
                [] r.method = "DELETE" /\ found     -> [r EXCEPT !.pc = "apply"]
                [] r.method = "PROPPATCH" /\ found  -> releasing(r, 207)
                [] OTHER                            -> releasing(r, 404)]
        /\ UNCHANGED <<vars, granted, tree, served>>

\* fs.Get of the parent, by MKCOL.
StatParent(c) ==
    LET r == conn[c]
    IN  /\ r.pc = "parent"
        /\ conn' = [conn EXCEPT ![c] =
                       IF Parent(Target(r)) \in tree THEN [r EXCEPT !.pc = "apply"]
                       ELSE releasing(r, 409)]
        /\ UNCHANGED <<vars, granted, tree, served>>

\* The tree after the file system call of the request.  fs.PutDirectly and
\* fs.MakeDir make the missing parents.
applied(r) ==
    LET src == Target(r)
        dst == JoinPath(r.base, r.dest)
        from == tree \cap SelfOrBelow(src)
        image == {Moved(n, src, dst) : n \in from} \cup walkToRoot(dst)
    IN  CASE r.method \in {"PUT", "MKCOL"} -> tree \cup walkToRoot(src)
          [] r.method = "DELETE" -> (tree \ SelfOrBelow(src)) \cup {<<>>}
          [] r.method = "COPY" -> (tree \ SelfOrBelow(dst)) \cup image
          [] r.method = "MOVE" ->
                (tree \ (SelfOrBelow(src) \cup SelfOrBelow(dst))) \cup image

\* A transfer needs its source, and does not go into itself.
Apply(c) ==
    LET r == conn[c]
        dst == JoinPath(r.base, r.dest)
    IN  /\ r.pc = "apply"
        /\ r.method \in {"COPY", "MOVE"} =>
              /\ Target(r) \in tree
              /\ dst # Target(r) /\ ~Below(dst, Target(r)) /\ ~Below(Target(r), dst)
        /\ tree' = applied(r)
        /\ conn' = [conn EXCEPT ![c] = releasing(r, 201)]
        /\ UNCHANGED <<vars, granted, served>>

-----------------------------------------------------------------------------
(***************************************************************************)
(* LOCK and UNLOCK                                                         *)
(***************************************************************************)

lockCreate(c) ==
    LET r == conn[c]
    IN  /\ r.pc = "lock"
        /\ Create(r.now, Target(r), r.zeroDepth, r.duration)
        /\ granted' = granted \cup (1..ls'.gen \ 1..ls.gen)
        /\ conn' = [conn EXCEPT ![c] = Reply(IF ls'.gen = ls.gen THEN 423 ELSE 200)]
        /\ UNCHANGED <<tree, served>>

lockRefresh(c) ==
    LET r == conn[c]
        s == collectExpiredNodes(ls, r.now)
    IN  /\ r.pc = "refresh"
        /\ Refresh(r.now, r.token, r.duration)
        /\ conn' = [conn EXCEPT ![c] =
                       Reply(CASE r.token \notin DOMAIN s.byToken -> 412
                               [] free(s, r.token)                -> 200
                               [] OTHER                           -> 500)]
        /\ UNCHANGED <<granted, tree, served>>

unlockToken(c) ==
    LET r == conn[c]
    IN  /\ r.pc = "unlock"
        /\ \E now \in r.now..clock :
              LET s == collectExpiredNodes(ls, now)
              IN  /\ Unlock(now, r.token)
                  /\ conn' = [conn EXCEPT ![c] =
                                 Reply(CASE r.token \notin DOMAIN s.byToken -> 409
                                         [] free(s, r.token)                -> 204
                                         [] OTHER                           -> 423)]
        /\ UNCHANGED <<granted, tree, served>>

-----------------------------------------------------------------------------
DavInit == /\ Init
           /\ conn = [c \in Conns |-> Idle]
           /\ granted = {}
           /\ tree \in StartTrees
           /\ served = 0

\* ServeHTTP calls the handler of the request's method.
ServeHTTP(c) ==
    \/ \E base \in Bases : \E name \in PathsUnder(base) :
          \/ \E lists \in IfHeaders(granted) :
                \/ handleDelete(c, base, name, lists)
                \/ handlePut(c, base, name, lists)
                \/ handleMkcol(c, base, name, lists)
                \/ handleProppatch(c, base, name, lists)
                \/ \E dest \in PathsUnder(base), method \in {"COPY", "MOVE"} :
                      handleCopyMove(c, method, base, name, dest, lists)
          \/ \E zeroDepth \in BOOLEAN, d \in Durations :
                handleLock(c, base, name, zeroDepth, d)
    \/ \E t \in granted : \/ \E d \in Durations : handleRefresh(c, t, d)
                          \/ handleUnlock(c, t)

\* The steps of the handler that serves the connection.
Handle(c) ==
    \/ lockSrc(c) \/ lockDst(c) \/ rejectIf(c) \/ confirmIf(c)
    \/ Stat(c) \/ StatParent(c) \/ Apply(c) \/ GiveUp(c)
    \/ unlockDst(c) \/ unlockSrc(c) \/ releaseClaim(c)
    \/ lockCreate(c) \/ lockRefresh(c) \/ unlockToken(c)

DavTick == Tick /\ UNCHANGED <<conn, granted, tree, served>>

DavNext == DavTick \/ \E c \in Conns : ServeHTTP(c) \/ Handle(c)

\* A goroutine that can go on eventually does; drivers return.
DavSpec == DavInit /\ [][DavNext]_davVars /\ \A c \in Conns : WF_davVars(Handle(c))

-----------------------------------------------------------------------------
(***************************************************************************)
(* Properties                                                              *)
(***************************************************************************)

\* Tokens of the temporary locks of a handler.
Temporary(r) == {r.srcToken, r.dstToken} \ {NoToken}

\* Every handler's locals and the tree are well formed.
DavTypeOK ==
    /\ TypeOK
    /\ \A c \in Conns :
          /\ DOMAIN conn[c] = DOMAIN Idle
          /\ Temporary(conn[c]) \subseteq 1..ls.gen
          /\ conn[c].claim \in claims \cup {NoName}
          /\ conn[c].now \in 0..clock
    /\ granted \subseteq 1..ls.gen
    /\ tree \subseteq Names
    /\ \A n \in tree : walkToRoot(n) \subseteq tree
    /\ served \in 0..MaxRequests

\* Two handlers that work at the same time, neither of them admitted by an If
\* list about some other resource, write different resources.
WritersExclusive ==
    \A c, d \in Conns :
        (/\ c # d
         /\ conn[c].pc \in Working /\ conn[d].pc \in Working
         /\ ~conn[c].tagged /\ ~conn[d].tagged)
        => Targets(conn[c]) \cap Targets(conn[d]) = {}

\* "We still need to check that the resources aren't locked by another client"
\* (webdav.go:126): a lock that covers a resource a handler writes is the
\* handler's own temporary lock, or one its client presented and Confirm holds.
LocksRespected ==
    \A c \in Conns :
        (conn[c].pc \in Working /\ ~conn[c].tagged)
        => \A m \in Locked(ls), n \in Targets(conn[c]) :
              Covers(m, ls.byName[m].zeroDepth, n)
              => \/ ls.byName[m].token \in Temporary(conn[c])
                 \/ conn[c].claim # NoName /\ m \in ClaimedNodes(conn[c].claim)

\* "These temporary locks are unlocked at the end of the HTTP request"
\* (webdav.go:129): every lock in place was granted to a client or belongs to a
\* handler that is still running, and every claim to such a handler.
NothingLeaks ==
    /\ DOMAIN ls.byToken \subseteq
          granted \cup UNION {Temporary(conn[c]) : c \in Conns}
    /\ claims \subseteq {conn[c].claim : c \in Conns}

\* A lock granted to a client stays until its timeout has passed or an UNLOCK
\* names its token: "calling release does not unlock the lock" (lock.go:46).
ClientLocksStay ==
    [][\A t \in granted \cap DOMAIN ls.byToken :
          t \notin DOMAIN ls'.byToken
          => LET n == ls.byName[ls.byToken[t]]
             IN  \/ n.duration >= 0 /\ n.expiry <= clock
                 \/ \E c \in Conns : conn[c].pc = "unlock" /\ conn[c].token = t]_davVars

\* Every request is answered: no handler waits for another one.
RequestsFinish == \A c \in Conns : conn[c].pc # "idle" ~> conn[c].pc = "idle"

\* Every request is answered, and leaves the handler and the tree in order for the next
\* one.
RequestsServed == []DavTypeOK /\ RequestsFinish
=============================================================================
