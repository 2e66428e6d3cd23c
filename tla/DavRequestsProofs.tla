------------------------- MODULE DavRequestsProofs -------------------------
(***************************************************************************)
(* Proofs about the WebDAV handlers over memLS, for every number of        *)
(* connections, every set of names and every If header: no lock and no     *)
(* claim is left behind, and the handlers that work at the same time write *)
(* different resources.                                                    *)
(***************************************************************************)
EXTENDS DavRequests, MemLSProofs

-----------------------------------------------------------------------------
(***************************************************************************)
(* The invariant                                                           *)
(***************************************************************************)

\* The resources that the handler asks the lock system for.
Confirmed(r) == {confirmedSrc(r), confirmedDst(r)} \ {NoName}

\* A temporary lock (Handler.lock) of the name is in place.
TempLock(s, t, name) ==
    /\ t \in DOMAIN s.byToken
    /\ s.byToken[t] = name
    /\ NodeOf(s, t).zeroDepth
    /\ NodeOf(s, t).duration = infiniteTimeout

\* The locals of a handler that knows the tokens of g, at the instant k.  What it
\* holds follows from where it is: nothing before confirmLocks; in the body a lock on
\* each resource it asked for, or one claim; afterwards what is left to give back.
ConnOK(r, g, k) ==
    /\ DOMAIN r = DOMAIN Idle
    /\ r.now \in 0..k
    /\ r.pc \in {"lockSrc", "lockDst", "confirm"} \cup Working
          => /\ Confirmed(r) # {} /\ Confirmed(r) \subseteq Names
             /\ Targets(r) \subseteq Names /\ r.base \in Bases
             /\ r.base = <<>> => Targets(r) = Confirmed(r)
    /\ r.pc = "confirm"
          => r.lists \in Seq([tag : Names \cup {NoName, Foreign, Outside}, conditions : Seq(g)])
    /\ r.pc \in {"idle", "lockSrc", "confirm", "lock", "refresh", "unlock"}
          => r.srcToken = NoToken /\ r.dstToken = NoToken /\ r.claim = NoName
    /\ r.pc = "lockSrc" => confirmedSrc(r) # NoName
    /\ r.pc = "lockDst"
          => /\ confirmedDst(r) # NoName /\ r.dstToken = NoToken /\ r.claim = NoName
             /\ r.srcToken = NoToken <=> confirmedSrc(r) = NoName
    /\ r.pc \in Working
          => \/ /\ r.claim = NoName
                /\ r.srcToken = NoToken <=> confirmedSrc(r) = NoName
                /\ r.dstToken = NoToken <=> confirmedDst(r) = NoName
             \/ /\ r.claim # NoName /\ r.srcToken = NoToken /\ r.dstToken = NoToken
                /\ ~r.tagged => r.claim.names = Confirmed(r)
    /\ r.pc = "release" => r.claim # NoName /\ r.srcToken = NoToken /\ r.dstToken = NoToken
    /\ r.pc = "unlockDst" => r.claim = NoName /\ r.dstToken # NoToken
    /\ r.pc = "unlockSrc" => r.claim = NoName /\ r.srcToken # NoToken
    /\ r.pc = "lock" => Target(r) \in Names /\ r.zeroDepth \in BOOLEAN /\ r.duration \in Durations
    /\ r.pc = "refresh" => r.token \in g /\ r.duration \in Durations
    /\ r.pc = "unlock" => r.token \in g

\* The temporary locks of a handler are in place, but for the one on dst when that has
\* been given back.
TempOK(r, s) ==
    /\ r.srcToken # NoToken => TempLock(s, r.srcToken, confirmedSrc(r))
    /\ r.dstToken # NoToken /\ r.pc # "unlockSrc" => TempLock(s, r.dstToken, confirmedDst(r))
    /\ r.dstToken # NoToken /\ r.pc = "unlockSrc" => r.dstToken \notin DOMAIN s.byToken

\* Clients do not know the tokens of temporary locks.
SecretOK(r, gen, g) ==
    /\ r.srcToken \in 0..gen /\ r.dstToken \in 0..gen
    /\ Temporary(r) \cap g = {}
    /\ r.srcToken = r.dstToken => r.srcToken = NoToken

\* Handlers share no token and no claim.
Apart(r, q) ==
    /\ Temporary(r) \cap Temporary(q) = {}
    /\ r.claim = q.claim => r.claim = NoName

HeldGranted(s, g) == \A n \in HeldNodes(s) : s.byName[n].token \in g

DInv ==
    /\ IInv
    /\ granted \subseteq 1..ls.gen /\ ls.gen <= MaxGen
    /\ conn \in [Conns -> {conn[c] : c \in Conns}]
    /\ \A c \in Conns : /\ ConnOK(conn[c], granted, clock)
                        /\ TempOK(conn[c], ls)
                        /\ SecretOK(conn[c], ls.gen, granted)
                        /\ conn[c].claim \in claims \cup {NoName}
    /\ \A c, d \in Conns : c # d => Apart(conn[c], conn[d])
    /\ HeldGranted(ls, granted)
    /\ NothingLeaks

-----------------------------------------------------------------------------
(***************************************************************************)
(* The locals of a handler, step by step                                   *)
(***************************************************************************)

\* q is a request for the same resources as r.
Same(r, q) ==
    /\ DOMAIN q = DOMAIN Idle
    /\ q.method = r.method /\ q.base = r.base /\ q.name = r.name /\ q.dest = r.dest
    /\ q.now = r.now

LEMMA SameNames ==
    ASSUME NEW r, NEW q, Same(r, q)
    PROVE  /\ confirmedSrc(q) = confirmedSrc(r) /\ confirmedDst(q) = confirmedDst(r)
           /\ Confirmed(q) = Confirmed(r) /\ Targets(q) = Targets(r)
BY DEF Same, confirmedSrc, confirmedDst, Confirmed, Targets

LEMMA IdleFields ==
    /\ DOMAIN Idle = {"pc", "method", "base", "name", "dest", "lists", "token", "zeroDepth",
                      "duration", "now", "srcToken", "dstToken", "claim", "tagged", "status"}
    /\ Idle.pc = "idle" /\ Idle.now = 0 /\ Idle.claim = NoName
    /\ Idle.srcToken = NoToken /\ Idle.dstToken = NoToken
BY DEF Idle

LEMMA ReplyFields ==
    ASSUME NEW status
    PROVE  LET q == Reply(status)
           IN  /\ DOMAIN q = DOMAIN Idle
               /\ q.pc = "idle" /\ q.now = 0 /\ q.claim = NoName
               /\ q.srcToken = NoToken /\ q.dstToken = NoToken
BY IdleFields DEF Reply

LEMMA ConfirmedFields ==
    ASSUME NEW r, DOMAIN r = DOMAIN Idle
    PROVE  LET q == confirmed(r)
           IN  /\ Same(r, q) /\ q.pc \in Working
               /\ q.srcToken = r.srcToken /\ q.dstToken = r.dstToken
               /\ q.claim = r.claim /\ q.tagged = r.tagged
BY IdleFields DEF confirmed, Same, Working

LEMMA ReleasingFields ==
    ASSUME NEW r, DOMAIN r = DOMAIN Idle, NEW status
    PROVE  LET q == releasing(r, status)
           IN  /\ Same(r, q)
               /\ q.pc = IF r.claim # NoName THEN "release"
                         ELSE IF r.dstToken # NoToken THEN "unlockDst" ELSE "unlockSrc"
               /\ q.srcToken = r.srcToken /\ q.dstToken = r.dstToken /\ q.claim = r.claim
BY IdleFields DEF releasing, Same

\* The request, once Receive has read the clock.
Received(method, base, name, dest, lists, k) ==
    [Request(method, base, name, dest, lists) EXCEPT !.now = k]

LEMMA RequestFields ==
    ASSUME NEW method, NEW base, NEW name, NEW dest, NEW lists, NEW k
    PROVE  LET q == Received(method, base, name, dest, lists, k)
           IN  /\ DOMAIN q = DOMAIN Idle
               /\ q.method = method /\ q.base = base /\ q.name = name /\ q.dest = dest
               /\ q.lists = lists /\ q.now = k /\ q.claim = NoName
               /\ q.srcToken = NoToken /\ q.dstToken = NoToken
               /\ q.pc = IF lists # <<>> THEN "confirm"
                         ELSE IF confirmedSrc(q) # NoName THEN "lockSrc" ELSE "lockDst"
<1> DEFINE o == [Idle EXCEPT !.method = method, !.base = base, !.name = name,
                             !.dest = dest, !.lists = lists]
           p == confirming(o)
           q == [p EXCEPT !.now = k]
<1>1. /\ DOMAIN o = DOMAIN Idle
      /\ o.method = method /\ o.base = base /\ o.name = name /\ o.dest = dest
      /\ o.lists = lists /\ o.claim = NoName
      /\ o.srcToken = NoToken /\ o.dstToken = NoToken
  BY IdleFields
<1> HIDE DEF o
<1>2. /\ DOMAIN p = DOMAIN Idle
      /\ p.method = method /\ p.base = base /\ p.name = name /\ p.dest = dest
      /\ p.lists = lists /\ p.claim = NoName
      /\ p.srcToken = NoToken /\ p.dstToken = NoToken
      /\ p.pc = IF lists # <<>> THEN "confirm"
                ELSE IF confirmedSrc(o) # NoName THEN "lockSrc" ELSE "lockDst"
  BY <1>1, IdleFields DEF confirming
<1> HIDE DEF p
<1>3. /\ DOMAIN q = DOMAIN Idle
      /\ q.method = method /\ q.base = base /\ q.name = name /\ q.dest = dest
      /\ q.lists = lists /\ q.now = k /\ q.claim = NoName
      /\ q.srcToken = NoToken /\ q.dstToken = NoToken /\ q.pc = p.pc
  BY <1>2, IdleFields
<1>4. confirmedSrc(q) = confirmedSrc(o)
  BY <1>1, <1>3 DEF confirmedSrc
<1> HIDE DEF q
<1>5. /\ DOMAIN q = DOMAIN Idle
      /\ q.method = method /\ q.base = base /\ q.name = name /\ q.dest = dest
      /\ q.lists = lists /\ q.now = k /\ q.claim = NoName
      /\ q.srcToken = NoToken /\ q.dstToken = NoToken
      /\ q.pc = IF lists # <<>> THEN "confirm"
                ELSE IF confirmedSrc(q) # NoName THEN "lockSrc" ELSE "lockDst"
  BY <1>2, <1>3, <1>4
<1> QED
  BY <1>5 DEF q, p, o, Request, Received

-----------------------------------------------------------------------------
(***************************************************************************)
(* What a step of one handler leaves to the others                         *)
(***************************************************************************)

\* The lock system goes from s to r, and the tokens that clients know from g to h, while
\* only the locks in X and those of clients may go.
Moves(s, r, g, h, X) ==
    /\ s.gen <= r.gen /\ r.gen <= MaxGen
    /\ g \subseteq h /\ h \subseteq 1..r.gen
    /\ \A t \in 1..s.gen : t \in h => t \in g
    /\ \A t \in DOMAIN r.byToken : t \in DOMAIN s.byToken \/ t > s.gen
    /\ \A t, n : t \notin g \cup X /\ TempLock(s, t, n) => TempLock(r, t, n)
    /\ HeldGranted(r, h)

LEMMA SeqMono ==
    ASSUME NEW A, NEW B, A \subseteq B
    PROVE  Seq(A) \subseteq Seq(B)
<1> SUFFICES ASSUME NEW q \in Seq(A) PROVE q \in Seq(B)
  OBVIOUS
<1>1. Len(q) \in Nat /\ \A i \in 1..Len(q) : q[i] \in B
  OBVIOUS
<1> QED
  BY <1>1, SeqDef

\* A handler that a step is not about keeps its invariant.
LEMMA Others ==
    ASSUME NEW s, NEW r, NEW g, NEW h, NEW X, s.gen \in Nat, r.gen \in Nat,
           Moves(s, r, g, h, X), NEW k \in Nat, NEW l \in Nat, k <= l,
           NEW q, ConnOK(q, g, k), TempOK(q, s), SecretOK(q, s.gen, g),
           Temporary(q) \cap X = {}
    PROVE  ConnOK(q, h, l) /\ TempOK(q, r) /\ SecretOK(q, r.gen, h)
<1>1. ConnOK(q, h, l)
  <2> DEFINE L(T) == [tag : Names \cup {NoName, Foreign, Outside}, conditions : Seq(T)]
  <2>1. L(g) \subseteq L(h)
    BY SeqMono DEF Moves
  <2>2. Seq(L(g)) \subseteq Seq(L(h))
    BY <2>1, SeqMono
  <2>3. q.pc = "confirm" => q.lists \in Seq(L(h))
    BY <2>2 DEF ConnOK
  <2>4. q.now \in 0..l /\ g \subseteq h
    BY DEF ConnOK, Moves
  <2> HIDE DEF L
  <2> QED
    BY <2>3, <2>4 DEF ConnOK, L
<1>2. SecretOK(q, r.gen, h)
  BY DEF SecretOK, Moves, Temporary, NoToken
<1>3. \A t \in Temporary(q) : t \notin g \cup X
  BY DEF SecretOK
<1>4. TempOK(q, r)
  <2>1. q.srcToken # NoToken => TempLock(r, q.srcToken, confirmedSrc(q))
    BY <1>3 DEF TempOK, Moves, Temporary
  <2>2. q.dstToken # NoToken /\ q.pc # "unlockSrc" => TempLock(r, q.dstToken, confirmedDst(q))
    BY <1>3 DEF TempOK, Moves, Temporary
  <2>3. q.dstToken # NoToken /\ q.pc = "unlockSrc" => q.dstToken \notin DOMAIN r.byToken
    BY DEF TempOK, Moves, SecretOK
  <2> QED
    BY <2>1, <2>2, <2>3 DEF TempOK
<1> QED
  BY <1>1, <1>2, <1>4

\* A step of the handler of c, which becomes q.
LEMMA Close ==
    ASSUME DInv, NEW c \in Conns, NEW q, conn' = [conn EXCEPT ![c] = q],
           IInv', clock' = clock, NEW X, X \subseteq Temporary(conn[c]),
           Moves(ls, ls', granted, granted', X),
           ConnOK(q, granted', clock), TempOK(q, ls'), SecretOK(q, ls'.gen, granted'),
           \A t \in Temporary(q) : t \in Temporary(conn[c]) \/ t > ls.gen,
           \A t \in DOMAIN ls'.byToken : \/ t \in DOMAIN ls.byToken /\ t \notin Temporary(conn[c])
                                         \/ t \in granted' \cup Temporary(q),
           \/ claims' = claims /\ q.claim = conn[c].claim
           \/ claims' = claims \cup {q.claim} /\ q.claim \notin claims /\ conn[c].claim = NoName
           \/ claims' = claims \ {conn[c].claim} /\ q.claim = NoName
    PROVE  DInv'
<1>1. conn' \in [Conns -> {conn'[d] : d \in Conns}]
  BY DEF DInv
<1>2. conn'[c] = q /\ \A d \in Conns \ {c} : conn'[d] = conn[d]
  BY DEF DInv
<1>3. \A d \in Conns \ {c} : Apart(conn[c], conn[d]) /\ Apart(conn[d], conn[c])
  BY DEF DInv
<1>4. ls.gen \in Nat /\ ls'.gen \in Nat /\ clock \in Nat
  BY DEF DInv, IInv, TypeOK, StructOK
<1>5. NoName \notin claims /\ NoName \notin claims'
  BY DavAssumption DEF DInv, IInv, TypeOK
<1>6. ASSUME NEW d \in Conns \ {c}
      PROVE  /\ ConnOK(conn[d], granted', clock') /\ TempOK(conn[d], ls')
             /\ SecretOK(conn[d], ls'.gen, granted')
             /\ conn[d].claim \in claims' \cup {NoName}
             /\ Apart(q, conn[d]) /\ Apart(conn[d], q)
  <2>1. Temporary(conn[d]) \cap X = {}
    BY <1>3 DEF Apart
  <2>2. ConnOK(conn[d], granted, clock) /\ TempOK(conn[d], ls) /\ SecretOK(conn[d], ls.gen, granted)
    BY DEF DInv
  <2>3. /\ ConnOK(conn[d], granted', clock) /\ TempOK(conn[d], ls')
        /\ SecretOK(conn[d], ls'.gen, granted')
    BY <1>4, <2>1, <2>2, Others
  <2>4. conn[d].claim \in claims \cup {NoName}
    BY DEF DInv
  <2>5. conn[d].claim \in claims' \cup {NoName}
    BY <1>3, <2>4 DEF Apart
  <2>6. \A t \in Temporary(conn[d]) : t \in Nat /\ ~(t > ls.gen)
    BY <1>4, <2>2 DEF SecretOK, Temporary
  <2>7. Temporary(q) \cap Temporary(conn[d]) = {}
    BY <1>3, <2>6 DEF Apart
  <2>8. q.claim = conn[d].claim => q.claim = NoName
    BY <1>3, <2>4 DEF Apart
  <2> QED
    BY <2>3, <2>5, <2>7, <2>8 DEF Apart
<1>7. q.claim \in claims' \cup {NoName}
  <2>1. conn[c].claim \in claims \cup {NoName}
    BY DEF DInv
  <2> QED
    BY <2>1
<1>8. claims' \subseteq {conn'[d].claim : d \in Conns}
  <2>1. claims \subseteq {conn[d].claim : d \in Conns}
    BY DEF DInv, NothingLeaks
  <2>2. ASSUME NEW x \in claims' PROVE \E d \in Conns : x = conn'[d].claim
    <3>1. CASE x = q.claim
      BY <1>2, <3>1
    <3>2. CASE x # q.claim
      <4>1. x \in claims /\ (x # conn[c].claim \/ conn[c].claim = NoName)
        BY <3>2, <1>5, <2>2
      <4>2. PICK d \in Conns : x = conn[d].claim
        BY <2>1, <4>1
      <4> QED
        BY <1>2, <1>5, <4>1, <4>2
    <3> QED
      BY <3>1, <3>2
  <2> QED
    BY <2>2
<1>9. DOMAIN ls'.byToken \subseteq granted' \cup UNION {Temporary(conn'[d]) : d \in Conns}
  <2> SUFFICES ASSUME NEW t \in DOMAIN ls'.byToken, t \notin granted'
               PROVE  \E d \in Conns : t \in Temporary(conn'[d])
    OBVIOUS
  <2>1. CASE t \in Temporary(q)
    BY <1>2, <2>1
  <2>2. CASE t \in DOMAIN ls.byToken /\ t \notin Temporary(conn[c])
    <3>1. t \notin granted
      BY DEF Moves
    <3>2. PICK d \in Conns : t \in Temporary(conn[d])
      BY <2>2, <3>1 DEF DInv, NothingLeaks
    <3> QED
      BY <1>2, <2>2, <3>2
  <2> QED
    BY <2>1, <2>2
<1>10. \A d, e \in Conns : d # e => Apart(conn'[d], conn'[e])
  <2> SUFFICES ASSUME NEW d \in Conns, NEW e \in Conns, d # e
               PROVE  Apart(conn'[d], conn'[e])
    OBVIOUS
  <2>1. CASE d = c
    BY <1>2, <1>6, <2>1
  <2>2. CASE e = c
    BY <1>2, <1>6, <2>2
  <2>3. CASE d # c /\ e # c
    BY <1>2, <2>3 DEF DInv
  <2> QED
    BY <2>1, <2>2, <2>3
<1>11. ASSUME NEW d \in Conns
       PROVE  /\ ConnOK(conn'[d], granted', clock') /\ TempOK(conn'[d], ls')
              /\ SecretOK(conn'[d], ls'.gen, granted')
              /\ conn'[d].claim \in claims' \cup {NoName}
  BY <1>2, <1>6, <1>7
<1>12. granted' \subseteq 1..ls'.gen /\ ls'.gen <= MaxGen /\ HeldGranted(ls', granted')
  BY DEF Moves
<1> QED
  BY <1>1, <1>8, <1>9, <1>10, <1>11, <1>12 DEF DInv, NothingLeaks

\* A step that does not call the lock system.
LEMMA LocalStep ==
    ASSUME DInv, NEW c \in Conns, NEW q, conn' = [conn EXCEPT ![c] = q],
           UNCHANGED <<vars, granted>>,
           ConnOK(q, granted, clock), TempOK(q, ls),
           q.srcToken = conn[c].srcToken, q.dstToken = conn[c].dstToken,
           q.claim = conn[c].claim
    PROVE  DInv'
<1>1. ls' = ls /\ claims' = claims /\ clock' = clock /\ granted' = granted
  BY DEF vars
<1>2. IInv'
  BY <1>1 DEF DInv, IInv, TypeOK
<1>3. ls.gen \in Nat
  BY DEF DInv, IInv, TypeOK, StructOK
<1>4. Moves(ls, ls', granted, granted', {})
  BY <1>1, <1>3 DEF DInv, Moves
<1>5. Temporary(q) = Temporary(conn[c])
  BY DEF Temporary
<1>6. SecretOK(q, ls'.gen, granted')
  BY <1>1, <1>5 DEF DInv, SecretOK
<1>7. \A t \in DOMAIN ls'.byToken : \/ t \in DOMAIN ls.byToken /\ t \notin Temporary(conn[c])
                                    \/ t \in granted' \cup Temporary(q)
  BY <1>1, <1>5
<1>8. ConnOK(q, granted', clock) /\ TempOK(q, ls')
  BY <1>1
<1>9. \A t \in Temporary(q) : t \in Temporary(conn[c]) \/ t > ls.gen
  BY <1>5
<1>10. {} \subseteq Temporary(conn[c])
  OBVIOUS
<1> QED
  BY <1>1, <1>2, <1>4, <1>6, <1>7, <1>8, <1>9, <1>10, Close

\* An answer before anything was taken.
LEMMA ReplyOK ==
    ASSUME NEW status, NEW g, NEW k \in Nat, NEW s
    PROVE  /\ ConnOK(Reply(status), g, k) /\ TempOK(Reply(status), s)
           /\ Temporary(Reply(status)) = {} /\ Reply(status).claim = NoName
           /\ \A gen \in Nat : SecretOK(Reply(status), gen, g)
<1> DEFINE q == Reply(status)
<1>1. /\ DOMAIN q = DOMAIN Idle
      /\ q.pc = "idle" /\ q.now = 0 /\ q.claim = NoName
      /\ q.srcToken = NoToken /\ q.dstToken = NoToken
  BY ReplyFields
<1> HIDE DEF q
<1>2. Temporary(q) = {}
  BY <1>1 DEF Temporary
<1>3. ConnOK(q, g, k) /\ TempOK(q, s) /\ \A gen \in Nat : SecretOK(q, gen, g)
  BY <1>1, <1>2 DEF ConnOK, TempOK, SecretOK, Working, NoToken
<1> QED
  BY <1>1, <1>2, <1>3 DEF q

-----------------------------------------------------------------------------
(***************************************************************************)
(* The requests, and the bodies of the handlers                            *)
(***************************************************************************)

\* Joining a path to the base "/" leaves it alone.
LEMMA JoinRoot ==
    ASSUME NEW name \in Names
    PROVE  JoinPath(<<>>, name) = name
<1>1. name \in Seq(Segments)
  BY NamesAssumption
<1> QED
  BY <1>1 DEF JoinPath

\* A request that writes arrives.
LEMMA RequestStep ==
    ASSUME DInv, NEW c \in Conns, NEW method, NEW base \in Bases, NEW name \in PathsUnder(base),
           NEW dest, method \in {"COPY", "MOVE"} => dest \in PathsUnder(base),
           NEW lists \in IfHeaders(granted),
           Receive(c, Request(method, base, name, dest, lists))
    PROVE  DInv'
<1> DEFINE q == Received(method, base, name, dest, lists, clock)
<1>1. /\ DOMAIN q = DOMAIN Idle
      /\ q.method = method /\ q.base = base /\ q.name = name /\ q.dest = dest
      /\ q.lists = lists /\ q.now = clock /\ q.claim = NoName
      /\ q.srcToken = NoToken /\ q.dstToken = NoToken
      /\ q.pc = IF lists # <<>> THEN "confirm"
                ELSE IF confirmedSrc(q) # NoName THEN "lockSrc" ELSE "lockDst"
  BY RequestFields
<1>2. conn' = [conn EXCEPT ![c] = q] /\ UNCHANGED <<vars, granted>> /\ conn[c].pc = "idle"
  BY DEF Receive, Received
<1> HIDE DEF q
<1>3. /\ name \in Names /\ JoinPath(base, name) \in Names
      /\ method \in {"COPY", "MOVE"} => dest \in Names /\ JoinPath(base, dest) \in Names
      /\ NoName \notin Names
  BY NamesAssumption DEF PathsUnder
<1>4. Confirmed(q) # {} /\ Confirmed(q) \subseteq Names /\ Targets(q) \subseteq Names
  <2>1. CASE method = "COPY"
    BY <1>1, <1>3, <2>1 DEF Confirmed, confirmedSrc, confirmedDst, Targets
  <2>2. CASE method = "MOVE"
    BY <1>1, <1>3, <2>2 DEF Confirmed, confirmedSrc, confirmedDst, Targets
  <2>3. CASE method \notin {"COPY", "MOVE"}
    BY <1>1, <1>3, <2>3 DEF Confirmed, confirmedSrc, confirmedDst, Targets
  <2> QED
    BY <2>1, <2>2, <2>3
<1>5. q.base = <<>> => Targets(q) = Confirmed(q)
  <2> SUFFICES ASSUME base = <<>> PROVE Targets(q) = Confirmed(q)
    BY <1>1
  <2>0. JoinPath(base, name) = name
    BY <1>3, JoinRoot
  <2>1. CASE method = "COPY"
    BY <1>1, <1>3, <2>1 DEF Confirmed, confirmedSrc, confirmedDst, Targets
  <2>2. CASE method = "MOVE"
    BY <1>1, <1>3, <2>2 DEF Confirmed, confirmedSrc, confirmedDst, Targets
  <2>3. CASE method \notin {"COPY", "MOVE"}
    BY <1>1, <1>3, <2>0, <2>3 DEF Confirmed, confirmedSrc, confirmedDst, Targets
  <2> QED
    BY <2>1, <2>2, <2>3
<1>6. lists \in Seq([tag : Names \cup {NoName, Foreign, Outside}, conditions : Seq(granted)])
  <2>1. granted \in SUBSET (1..MaxGen)
    BY BoundsAssumption DEF DInv, IInv, TypeOK, StructOK
  <2> QED
    BY <2>1, DavAssumption
<1>7. clock \in Nat
  BY DEF DInv, IInv, TypeOK
<1>8. confirmedSrc(q) = NoName => confirmedDst(q) # NoName
  BY <1>4 DEF Confirmed
<1>9. ConnOK(q, granted, clock)
  BY <1>1, <1>4, <1>5, <1>6, <1>7, <1>8 DEF ConnOK, Working
<1>10. TempOK(q, ls)
  BY <1>1 DEF TempOK
<1>11. conn[c].srcToken = NoToken /\ conn[c].dstToken = NoToken /\ conn[c].claim = NoName
  BY <1>2 DEF DInv, ConnOK
<1> QED
  BY <1>1, <1>2, <1>9, <1>10, <1>11, LocalStep

\* A LOCK, a refresh or an UNLOCK arrives.
LEMMA LockRequestStep ==
    ASSUME DInv, NEW c \in Conns
    PROVE  /\ \A base \in Bases : \A name \in PathsUnder(base) :
                 \A zeroDepth \in BOOLEAN, d \in Durations :
                    handleLock(c, base, name, zeroDepth, d) => DInv'
           /\ \A t \in granted : /\ \A d \in Durations : handleRefresh(c, t, d) => DInv'
                                 /\ handleUnlock(c, t) => DInv'
<1>1. clock \in Nat
  BY DEF DInv, IInv, TypeOK
<1>2. ASSUME NEW r, NEW q, Receive(c, r), q = [r EXCEPT !.now = clock], ConnOK(q, granted, clock),
             q.pc \in {"lock", "refresh", "unlock"}
      PROVE  DInv'
  <2>1. conn' = [conn EXCEPT ![c] = q] /\ UNCHANGED <<vars, granted>> /\ conn[c].pc = "idle"
    BY <1>2 DEF Receive
  <2>2. conn[c].srcToken = NoToken /\ conn[c].dstToken = NoToken /\ conn[c].claim = NoName
    BY <2>1 DEF DInv, ConnOK
  <2>3. q.srcToken = NoToken /\ q.dstToken = NoToken /\ q.claim = NoName
    BY <1>2 DEF ConnOK
  <2>4. TempOK(q, ls)
    BY <2>3 DEF TempOK
  <2> QED
    BY <1>2, <2>1, <2>2, <2>3, <2>4, LocalStep
<1>3. ASSUME NEW base \in Bases, NEW name \in PathsUnder(base), NEW zeroDepth \in BOOLEAN,
             NEW d \in Durations, handleLock(c, base, name, zeroDepth, d)
      PROVE  DInv'
  <2> DEFINE r == [Idle EXCEPT !.pc = "lock", !.method = "LOCK", !.base = base, !.name = name,
                               !.zeroDepth = zeroDepth, !.duration = d]
             q == [r EXCEPT !.now = clock]
  <2>1. /\ DOMAIN q = DOMAIN Idle /\ q.pc = "lock" /\ q.base = base /\ q.name = name
        /\ q.zeroDepth = zeroDepth /\ q.duration = d /\ q.now = clock
        /\ q.srcToken = NoToken /\ q.dstToken = NoToken /\ q.claim = NoName
    <3>1. /\ DOMAIN r = DOMAIN Idle /\ r.pc = "lock" /\ r.base = base /\ r.name = name
          /\ r.zeroDepth = zeroDepth /\ r.duration = d
          /\ r.srcToken = NoToken /\ r.dstToken = NoToken /\ r.claim = NoName
      BY IdleFields
    <3> HIDE DEF r
    <3> QED
      BY <3>1, IdleFields
  <2>2. Receive(c, r)
    BY <1>3 DEF handleLock
  <2> HIDE DEF q
  <2>3. Target(q) \in Names
    BY <2>1 DEF Target, PathsUnder
  <2>4. ConnOK(q, granted, clock)
    BY <1>1, <2>1, <2>3 DEF ConnOK, Working
  <2>5. q = [r EXCEPT !.now = clock]
    BY DEF q
  <2> HIDE DEF r
  <2> QED
    BY <1>2, <2>1, <2>2, <2>4, <2>5
<1>4. ASSUME NEW t \in granted, NEW d \in Durations, handleRefresh(c, t, d)
      PROVE  DInv'
  <2> DEFINE r == [Idle EXCEPT !.pc = "refresh", !.method = "REFRESH", !.token = t,
                               !.duration = d]
             q == [r EXCEPT !.now = clock]
  <2>1. /\ DOMAIN q = DOMAIN Idle /\ q.pc = "refresh" /\ q.token = t
        /\ q.duration = d /\ q.now = clock
        /\ q.srcToken = NoToken /\ q.dstToken = NoToken /\ q.claim = NoName
    <3>1. /\ DOMAIN r = DOMAIN Idle /\ r.pc = "refresh" /\ r.token = t /\ r.duration = d
          /\ r.srcToken = NoToken /\ r.dstToken = NoToken /\ r.claim = NoName
      BY IdleFields
    <3> HIDE DEF r
    <3> QED
      BY <3>1, IdleFields
  <2>2. Receive(c, r)
    BY <1>4 DEF handleRefresh
  <2> HIDE DEF q
  <2>4. ConnOK(q, granted, clock)
    BY <1>1, <2>1 DEF ConnOK, Working
  <2>5. q = [r EXCEPT !.now = clock]
    BY DEF q
  <2> HIDE DEF r
  <2> QED
    BY <1>2, <2>1, <2>2, <2>4, <2>5
<1>5. ASSUME NEW t \in granted, handleUnlock(c, t)
      PROVE  DInv'
  <2> DEFINE r == [Idle EXCEPT !.pc = "unlock", !.method = "UNLOCK", !.token = t]
             q == [r EXCEPT !.now = clock]
  <2>1. /\ DOMAIN q = DOMAIN Idle /\ q.pc = "unlock" /\ q.token = t /\ q.now = clock
        /\ q.srcToken = NoToken /\ q.dstToken = NoToken /\ q.claim = NoName
    <3>1. /\ DOMAIN r = DOMAIN Idle /\ r.pc = "unlock" /\ r.token = t
          /\ r.srcToken = NoToken /\ r.dstToken = NoToken /\ r.claim = NoName
      BY IdleFields
    <3> HIDE DEF r
    <3> QED
      BY <3>1, IdleFields
  <2>2. Receive(c, r)
    BY <1>5 DEF handleUnlock
  <2> HIDE DEF q
  <2>4. ConnOK(q, granted, clock)
    BY <1>1, <2>1 DEF ConnOK, Working
  <2>5. q = [r EXCEPT !.now = clock]
    BY DEF q
  <2> HIDE DEF r
  <2> QED
    BY <1>2, <2>1, <2>2, <2>4, <2>5
<1> QED
  BY <1>3, <1>4, <1>5

\* ServeHTTP receives any of these requests.
LEMMA ServeStep ==
    ASSUME DInv, NEW c \in Conns, ServeHTTP(c)
    PROVE  DInv'
<1>1. ASSUME NEW base \in Bases, NEW name \in PathsUnder(base), NEW lists \in IfHeaders(granted),
             \/ handleDelete(c, base, name, lists) \/ handlePut(c, base, name, lists)
             \/ handleMkcol(c, base, name, lists) \/ handleProppatch(c, base, name, lists)
      PROVE  DInv'
  <2>1. PICK method \in {"DELETE", "PUT", "MKCOL", "PROPPATCH"} :
               Receive(c, Request(method, base, name, NoName, lists))
    BY <1>1 DEF handleDelete, handlePut, handleMkcol, handleProppatch
  <2> QED
    BY <2>1, RequestStep
<1>2. ASSUME NEW base \in Bases, NEW name \in PathsUnder(base), NEW lists \in IfHeaders(granted),
             NEW dest \in PathsUnder(base), NEW method \in {"COPY", "MOVE"},
             handleCopyMove(c, method, base, name, dest, lists)
      PROVE  DInv'
  <2>1. Receive(c, Request(method, base, name, dest, lists))
    BY <1>2 DEF handleCopyMove
  <2> QED
    BY <2>1, RequestStep
<1> QED
  BY <1>1, <1>2, LockRequestStep DEF ServeHTTP

\* The deferred release of what a body holds.
LEMMA ReleasingOK ==
    ASSUME NEW r, NEW g, NEW k \in Nat, NEW s, ConnOK(r, g, k), TempOK(r, s),
           r.pc \in Working, NEW status
    PROVE  ConnOK(releasing(r, status), g, k) /\ TempOK(releasing(r, status), s)
<1> DEFINE q == releasing(r, status)
<1>1. /\ Same(r, q)
      /\ q.pc = IF r.claim # NoName THEN "release"
                ELSE IF r.dstToken # NoToken THEN "unlockDst" ELSE "unlockSrc"
      /\ q.srcToken = r.srcToken /\ q.dstToken = r.dstToken /\ q.claim = r.claim
  BY ReleasingFields DEF ConnOK
<1> HIDE DEF q
<1>2. confirmedSrc(q) = confirmedSrc(r) /\ confirmedDst(q) = confirmedDst(r)
  BY <1>1, SameNames
<1>3. /\ confirmedSrc(r) # NoName \/ confirmedDst(r) # NoName
      /\ r.pc # "unlockSrc" /\ r.now \in 0..k
  BY DEF ConnOK, Confirmed, Working
<1>4. /\ r.claim # NoName => r.srcToken = NoToken /\ r.dstToken = NoToken
      /\ r.claim = NoName => \/ r.srcToken # NoToken
                             \/ r.dstToken # NoToken
  BY <1>3 DEF ConnOK
<1>5. ConnOK(q, g, k)
  BY <1>1, <1>3, <1>4 DEF ConnOK, Same, Working
<1>6. TempOK(q, s)
  BY <1>1, <1>2, <1>3 DEF TempOK
<1> QED
  BY <1>5, <1>6 DEF q

\* Steps of a body.
LEMMA BodyStep ==
    ASSUME DInv, NEW c \in Conns, Stat(c) \/ StatParent(c) \/ Apply(c) \/ GiveUp(c)
    PROVE  DInv'
<1> DEFINE r == conn[c]
<1>1. clock \in Nat /\ ConnOK(r, granted, clock) /\ TempOK(r, ls)
  BY DEF DInv, IInv, TypeOK
<1>2. UNCHANGED <<vars, granted>> /\ r.pc \in Working
  BY DEF Stat, StatParent, Apply, GiveUp, Working
<1>3. \/ \E status : conn' = [conn EXCEPT ![c] = releasing(r, status)]
      \/ \E pc \in Working : conn' = [conn EXCEPT ![c] = [r EXCEPT !.pc = pc]]
  <2>1. CASE Stat(c)
    <3> DEFINE found == Target(r) \in tree
    <3>1. conn' = [conn EXCEPT ![c] =
              CASE r.method = "MKCOL" /\ found      -> releasing(r, 405)
                [] r.method = "MKCOL" /\ ~found     -> [r EXCEPT !.pc = "parent"]
                [] r.method = "DELETE" /\ found     -> [r EXCEPT !.pc = "apply"]
                [] r.method = "PROPPATCH" /\ found  -> releasing(r, 207)
                [] OTHER                            -> releasing(r, 404)]
      BY <2>1 DEF Stat
    <3> HIDE DEF found
    <3>2. CASE r.method = "MKCOL" /\ found
      BY <3>1, <3>2, ZenonT(30)
    <3>3. CASE r.method = "MKCOL" /\ ~found
      BY <3>1, <3>3 DEF Working
    <3>4. CASE r.method = "DELETE" /\ found
      BY <3>1, <3>4 DEF Working
    <3>5. CASE r.method = "PROPPATCH" /\ found
      BY <3>1, <3>5, ZenonT(30)
    <3>6. CASE r.method # "MKCOL" /\ ~(r.method \in {"DELETE", "PROPPATCH"} /\ found)
      BY <3>1, <3>6, ZenonT(30)
    <3> QED
      BY <3>2, <3>3, <3>4, <3>5, <3>6
  <2>2. CASE StatParent(c)
    BY <2>2, ZenonT(30) DEF StatParent, Working
  <2>3. CASE Apply(c)
    BY <2>3 DEF Apply
  <2>4. CASE GiveUp(c)
    BY <2>4 DEF GiveUp
  <2> QED
    BY <2>1, <2>2, <2>3, <2>4
<1> HIDE DEF r
<1>4. ASSUME NEW status, conn' = [conn EXCEPT ![c] = releasing(r, status)] PROVE DInv'
  <2> DEFINE q == releasing(r, status)
  <2>1. ConnOK(q, granted, clock) /\ TempOK(q, ls)
    BY <1>1, <1>2, ReleasingOK
  <2>2. q.srcToken = r.srcToken /\ q.dstToken = r.dstToken /\ q.claim = r.claim
    BY <1>1, ReleasingFields DEF ConnOK
  <2> HIDE DEF q
  <2>3. conn' = [conn EXCEPT ![c] = q]
    BY <1>4 DEF q
  <2> QED
    BY <1>2, <2>1, <2>2, <2>3, LocalStep DEF r
<1>5. ASSUME NEW pc \in Working, conn' = [conn EXCEPT ![c] = [r EXCEPT !.pc = pc]] PROVE DInv'
  <2> DEFINE q == [r EXCEPT !.pc = pc]
  <2>1. /\ Same(r, q) /\ q.pc = pc /\ q.tagged = r.tagged
        /\ q.srcToken = r.srcToken /\ q.dstToken = r.dstToken /\ q.claim = r.claim
    BY <1>1, IdleFields DEF ConnOK, Same
  <2> HIDE DEF q
  <2>2. /\ confirmedSrc(q) = confirmedSrc(r) /\ confirmedDst(q) = confirmedDst(r)
        /\ Confirmed(q) = Confirmed(r) /\ Targets(q) = Targets(r)
    BY <2>1, SameNames
  <2>3. ConnOK(q, granted, clock)
    BY <1>1, <1>2, <2>1, <2>2 DEF ConnOK, Same, Working
  <2>4. TempOK(q, ls)
    BY <1>1, <1>2, <2>1, <2>2 DEF TempOK, Working
  <2>5. conn' = [conn EXCEPT ![c] = q]
    BY <1>5 DEF q
  <2> QED
    BY <1>2, <2>1, <2>3, <2>4, <2>5, LocalStep DEF r
<1> QED
  BY <1>3, <1>4, <1>5

\* No list of the If header is left that could let the request in.
LEMMA RejectStep ==
    ASSUME DInv, NEW c \in Conns, rejectIf(c)
    PROVE  DInv'
<1> DEFINE r == conn[c]
           S == [tag : Names \cup {NoName, Foreign, Outside}, conditions : Seq(granted)]
<1>1. clock \in Nat /\ ConnOK(r, granted, clock) /\ TempOK(r, ls)
  BY DEF DInv, IInv, TypeOK
<1>2. UNCHANGED <<vars, granted>> /\ r.pc = "confirm"
  BY DEF rejectIf
<1>3. \/ \E status : conn' = [conn EXCEPT ![c] = Reply(status)]
      \/ r.lists # <<>> /\ conn' = [conn EXCEPT ![c] = [r EXCEPT !.lists = Tail(r.lists)]]
  BY DEF rejectIf
<1> HIDE DEF r
<1>4. r.srcToken = NoToken /\ r.dstToken = NoToken /\ r.claim = NoName
  BY <1>1, <1>2 DEF ConnOK
<1>5. ASSUME NEW status, conn' = [conn EXCEPT ![c] = Reply(status)] PROVE DInv'
  <2> DEFINE q == Reply(status)
  <2>1. ConnOK(q, granted, clock) /\ TempOK(q, ls)
    BY <1>1, ReplyOK
  <2>2. q.srcToken = NoToken /\ q.dstToken = NoToken /\ q.claim = NoName
    BY ReplyFields
  <2> HIDE DEF q
  <2>3. conn' = [conn EXCEPT ![c] = q]
    BY <1>5 DEF q
  <2> QED
    BY <1>2, <1>4, <2>1, <2>2, <2>3, LocalStep DEF r
<1>6. ASSUME r.lists # <<>>, conn' = [conn EXCEPT ![c] = [r EXCEPT !.lists = Tail(r.lists)]]
      PROVE  DInv'
  <2> DEFINE q == [r EXCEPT !.lists = Tail(r.lists)]
  <2>1. /\ Same(r, q) /\ q.pc = r.pc /\ q.lists = Tail(r.lists)
        /\ q.srcToken = r.srcToken /\ q.dstToken = r.dstToken /\ q.claim = r.claim
    BY <1>1, IdleFields DEF ConnOK, Same
  <2> HIDE DEF q
  <2>2. r.lists \in Seq(S)
    BY <1>1, <1>2 DEF ConnOK
  <2> HIDE DEF S
  <2>3. q.lists \in Seq(S)
    BY <1>6, <2>1, <2>2
  <2>4. Confirmed(q) = Confirmed(r) /\ Targets(q) = Targets(r)
    BY <2>1, SameNames
  <2>5. ConnOK(q, granted, clock)
    BY <1>1, <1>2, <1>4, <2>1, <2>3, <2>4 DEF ConnOK, Same, Working, S
  <2>6. TempOK(q, ls)
    BY <1>4, <2>1 DEF TempOK
  <2>7. conn' = [conn EXCEPT ![c] = q]
    BY <1>6 DEF q
  <2> QED
    BY <1>2, <2>1, <2>5, <2>6, <2>7, LocalStep DEF r
<1> QED
  BY <1>3, <1>5, <1>6

-----------------------------------------------------------------------------
(***************************************************************************)
(* The calls of the lock system                                            *)
(***************************************************************************)

\* A call that takes away what has expired, client's locks and those in X.
LEMMA LeftMoves ==
    ASSUME DInv, NEW now, NEW E, Expired(ls, E, now), NEW X,
           NEW F, F \subseteq E \cup granted \cup X,
           NEW R, R \subseteq granted, LocksLeft(ls, ls', F, R), HeldGranted(ls', granted)
    PROVE  /\ Moves(ls, ls', granted, granted, X) /\ ls'.gen = ls.gen
           /\ DOMAIN ls'.byToken \subseteq DOMAIN ls.byToken
<1>1. /\ ls'.gen = ls.gen /\ ls.gen \in Nat /\ ls.gen <= MaxGen /\ granted \subseteq 1..ls.gen
      /\ DOMAIN ls'.byToken \subseteq DOMAIN ls.byToken
  BY DEF LocksLeft, DInv, IInv, TypeOK, StructOK
<1>2. ASSUME NEW t, NEW n, t \notin granted \cup X, TempLock(ls, t, n)
      PROVE  TempLock(ls', t, n)
  <2>1. t \notin E
    BY <1>2 DEF Expired, TempLock, infiniteTimeout
  <2>2. t \notin F /\ t \notin R
    BY <1>2, <2>1
  <2> QED
    BY <1>2, <2>2 DEF LocksLeft, TempLock
<1> QED
  BY <1>1, <1>2 DEF Moves

\* A call that keeps the held nodes keeps them granted.
LEMMA HeldStays ==
    ASSUME DInv, HeldSame(ls, ls')
    PROVE  HeldGranted(ls', granted)
BY DEF DInv, HeldGranted, HeldSame

LEMMA CreateMoves ==
    ASSUME DInv, NEW now \in 0..clock, NEW root \in Names, NEW zeroDepth \in BOOLEAN,
           NEW d \in Durations, Create(now, root, zeroDepth, d)
    PROVE  /\ IInv' /\ claims' = claims /\ clock' = clock
           /\ \/ /\ ls'.gen = ls.gen /\ Moves(ls, ls', granted, granted, {})
                 /\ DOMAIN ls'.byToken \subseteq DOMAIN ls.byToken
              \/ /\ ls'.gen = ls.gen + 1
                 /\ \A h \in {granted, granted \cup {ls.gen + 1}} :
                       Moves(ls, ls', granted, h, {})
                 /\ DOMAIN ls'.byToken \subseteq DOMAIN ls.byToken \cup {ls.gen + 1}
                 /\ ls.gen + 1 \in DOMAIN ls'.byToken /\ ls'.byToken[ls.gen + 1] = root
                 /\ NodeOf(ls', ls.gen + 1).zeroDepth = zeroDepth
                 /\ NodeOf(ls', ls.gen + 1).duration = d
<1>1. /\ IInv' /\ HeldSame(ls, ls') /\ claims' = claims /\ clock' = clock
      /\ ls.gen < MaxGen
  BY CreateStep DEF Create, DInv
<1>2. HeldGranted(ls', granted)
  BY <1>1, HeldStays
<1>3. ls.gen \in Nat /\ granted \subseteq 1..ls.gen
  BY DEF DInv, IInv, TypeOK, StructOK
<1>4. PICK E : /\ Expired(ls, E, now)
               /\ LocksLeft(ls, ls', E, {}) \/ LockAdded(ls, ls', E, root, zeroDepth, d)
  BY CreateDoes DEF DInv
<1>5. CASE LocksLeft(ls, ls', E, {})
  <2>1. ASSUME NEW X, X = {}
        PROVE  /\ Moves(ls, ls', granted, granted, X) /\ ls'.gen = ls.gen
               /\ DOMAIN ls'.byToken \subseteq DOMAIN ls.byToken
    <3>1. E \subseteq E \cup granted \cup X /\ X \subseteq granted /\ LocksLeft(ls, ls', E, X)
      BY <1>5, <2>1
    <3> QED
      BY <1>2, <1>4, <3>1, LeftMoves
  <2>2. /\ Moves(ls, ls', granted, granted, {}) /\ ls'.gen = ls.gen
        /\ DOMAIN ls'.byToken \subseteq DOMAIN ls.byToken
    BY <2>1
  <2> QED
    BY <1>1, <2>2
<1>6. CASE LockAdded(ls, ls', E, root, zeroDepth, d)
  <2>1. /\ ls'.gen = ls.gen + 1
        /\ DOMAIN ls'.byToken \subseteq DOMAIN ls.byToken \cup {ls.gen + 1}
        /\ ls.gen + 1 \in DOMAIN ls'.byToken /\ ls'.byToken[ls.gen + 1] = root
        /\ NodeOf(ls', ls.gen + 1).zeroDepth = zeroDepth
        /\ NodeOf(ls', ls.gen + 1).duration = d
    BY <1>6 DEF LockAdded
  <2>2. ASSUME NEW t, NEW n, t \notin granted, TempLock(ls, t, n)
        PROVE  TempLock(ls', t, n)
    <3>1. t \in DOMAIN ls.byToken \ E
      BY <1>4, <2>2 DEF Expired, TempLock, infiniteTimeout
    <3> QED
      BY <1>6, <2>2, <3>1 DEF LockAdded, TempLock
  <2>3. ls.gen + 1 <= MaxGen
    BY <1>1, <1>3, BoundsAssumption
  <2>4. ASSUME NEW h \in {granted, granted \cup {ls.gen + 1}}
        PROVE  Moves(ls, ls', granted, h, {})
    <3>1. HeldGranted(ls', h)
      BY <1>2 DEF HeldGranted
    <3>2. \A t \in DOMAIN ls'.byToken : t \in DOMAIN ls.byToken \/ t > ls.gen
      BY <1>3, <2>1
    <3>3. granted \subseteq h /\ h \subseteq 1..ls'.gen /\ \A t \in 1..ls.gen : t \in h => t \in granted
      BY <1>3, <2>1
    <3> QED
      BY <1>3, <2>1, <2>2, <2>3, <3>1, <3>2, <3>3 DEF Moves
  <2> QED
    BY <1>1, <2>1, <2>4
<1> QED
  BY <1>4, <1>5, <1>6

LEMMA UnlockMoves ==
    ASSUME DInv, NEW now \in 0..clock, NEW t \in 1..ls.gen, Unlock(now, t)
    PROVE  /\ IInv' /\ claims' = claims /\ clock' = clock
           /\ Moves(ls, ls', granted, granted, {t} \ granted) /\ ls'.gen = ls.gen
           /\ DOMAIN ls'.byToken \subseteq DOMAIN ls.byToken
           /\ t \notin granted => t \notin DOMAIN ls'.byToken
<1>1. IInv' /\ HeldSame(ls, ls') /\ claims' = claims /\ clock' = clock
  BY UnlockStep DEF Unlock, DInv, Issued
<1>2. HeldGranted(ls', granted)
  BY <1>1, HeldStays
<1>3. PICK E :
          /\ Expired(ls, E, now)
          /\ \/ LocksLeft(ls, ls', E, {}) /\ (t \in DOMAIN ls'.byToken => ls.byToken[t] \in HeldNodes(ls))
             \/ LocksLeft(ls, ls', E \cup {t}, {}) /\ t \in DOMAIN ls.byToken
                /\ ls.byToken[t] \notin HeldNodes(ls)
  BY UnlockDoes DEF DInv
<1>4. t \notin granted => t \notin DOMAIN ls'.byToken
  <2> SUFFICES ASSUME t \notin granted, t \in DOMAIN ls'.byToken PROVE FALSE
    OBVIOUS
  <2>1. t \in DOMAIN ls.byToken /\ ls.byToken[t] \in HeldNodes(ls)
    BY <1>3 DEF LocksLeft
  <2>2. ls.byName[ls.byToken[t]].token = t
    BY <2>1 DEF DInv, IInv, SInv, TokensOK
  <2> QED
    BY <2>1, <2>2 DEF DInv, HeldGranted
<1>5. PICK F \in {E, E \cup {t}} : LocksLeft(ls, ls', F, {})
  BY <1>3
<1>6. F \subseteq E \cup granted \cup ({t} \ granted) /\ {} \subseteq granted
  OBVIOUS
<1>7. /\ Moves(ls, ls', granted, granted, {t} \ granted) /\ ls'.gen = ls.gen
      /\ DOMAIN ls'.byToken \subseteq DOMAIN ls.byToken
  BY <1>2, <1>3, <1>5, <1>6, LeftMoves
<1> QED
  BY <1>1, <1>4, <1>7

-----------------------------------------------------------------------------
(***************************************************************************)
(* The steps of the handlers that call the lock system                     *)
(***************************************************************************)

LEMMA Locals ==
    ASSUME DInv, NEW c \in Conns
    PROVE  /\ ConnOK(conn[c], granted, clock) /\ TempOK(conn[c], ls)
           /\ SecretOK(conn[c], ls.gen, granted)
           /\ conn[c].now \in 0..clock /\ DOMAIN conn[c] = DOMAIN Idle
           /\ clock \in Nat /\ ls.gen \in Nat
BY DEF DInv, IInv, TypeOK, StructOK, ConnOK

\* A call that leaves nothing new behind, after which the handler answers or goes on.
LEMMA AnswerStep ==
    ASSUME DInv, NEW c \in Conns, NEW status, conn' = [conn EXCEPT ![c] = Reply(status)],
           IInv', clock' = clock, granted' = granted,
           NEW X, X \subseteq Temporary(conn[c]), Moves(ls, ls', granted, granted, X),
           DOMAIN ls'.byToken \subseteq DOMAIN ls.byToken \ Temporary(conn[c]),
           \/ claims' = claims /\ conn[c].claim = NoName
           \/ claims' = claims \ {conn[c].claim}
    PROVE  DInv'
<1> DEFINE q == Reply(status)
<1>1. clock \in Nat /\ ls'.gen \in Nat
  BY Locals DEF IInv, TypeOK, StructOK
<1>2. /\ ConnOK(q, granted, clock) /\ TempOK(q, ls') /\ SecretOK(q, ls'.gen, granted)
      /\ Temporary(q) = {} /\ q.claim = NoName
  BY <1>1, ReplyOK
<1> HIDE DEF q
<1>3. conn' = [conn EXCEPT ![c] = q]
  BY DEF q
<1>4. \A t \in Temporary(q) : t \in Temporary(conn[c]) \/ t > ls.gen
  BY <1>2
<1>5. \A t \in DOMAIN ls'.byToken : \/ t \in DOMAIN ls.byToken /\ t \notin Temporary(conn[c])
                                    \/ t \in granted' \cup Temporary(q)
  OBVIOUS
<1>6. \/ claims' = claims /\ q.claim = conn[c].claim
      \/ claims' = claims \ {conn[c].claim} /\ q.claim = NoName
  BY <1>2
<1>7. Moves(ls, ls', granted, granted', X) /\ ConnOK(q, granted', clock)
      /\ SecretOK(q, ls'.gen, granted')
  BY <1>2
<1> QED
  BY <1>2, <1>3, <1>4, <1>5, <1>6, <1>7, Close

\* confirmLocks takes the lock on src.
LEMMA LockSrcStep ==
    ASSUME DInv, NEW c \in Conns, lockSrc(c)
    PROVE  DInv'
<1> DEFINE r == conn[c]
           new == ls.gen + 1
<1>1. /\ r.pc = "lockSrc" /\ Create(r.now, confirmedSrc(r), TRUE, infiniteTimeout)
      /\ conn' = [conn EXCEPT ![c] =
              IF ls'.gen = ls.gen THEN Reply(423)
              ELSE IF confirmedDst(r) = NoName
                   THEN confirmed([r EXCEPT !.srcToken = ls'.gen])
                   ELSE [[r EXCEPT !.srcToken = ls'.gen] EXCEPT !.pc = "lockDst"]]
      /\ granted' = granted
  BY DEF lockSrc, lock
<1>2. /\ ConnOK(r, granted, clock) /\ TempOK(r, ls) /\ SecretOK(r, ls.gen, granted)
      /\ r.now \in 0..clock /\ DOMAIN r = DOMAIN Idle /\ clock \in Nat /\ ls.gen \in Nat
  BY Locals
<1> HIDE DEF r
<1>3. /\ confirmedSrc(r) \in Names /\ Confirmed(r) # {} /\ Confirmed(r) \subseteq Names
      /\ Targets(r) \subseteq Names /\ (r.base = <<>> => Targets(r) = Confirmed(r))
      /\ r.srcToken = NoToken /\ r.dstToken = NoToken /\ r.claim = NoName
      /\ confirmedSrc(r) # NoName
  BY <1>1, <1>2 DEF ConnOK, Confirmed
<1>4. /\ IInv' /\ claims' = claims /\ clock' = clock
      /\ \/ /\ ls'.gen = ls.gen /\ Moves(ls, ls', granted, granted, {})
            /\ DOMAIN ls'.byToken \subseteq DOMAIN ls.byToken
         \/ /\ ls'.gen = ls.gen + 1 /\ Moves(ls, ls', granted, granted, {})
            /\ DOMAIN ls'.byToken \subseteq DOMAIN ls.byToken \cup {new}
            /\ new \in DOMAIN ls'.byToken /\ ls'.byToken[new] = confirmedSrc(r)
            /\ NodeOf(ls', new).zeroDepth = TRUE /\ NodeOf(ls', new).duration = infiniteTimeout
  BY <1>1, <1>2, <1>3, CreateMoves, DavAssumption
<1>5. Temporary(r) = {}
  BY <1>3 DEF Temporary
<1>6. CASE ls'.gen = ls.gen
  <2>1. conn' = [conn EXCEPT ![c] = Reply(423)]
    BY <1>1, <1>6
  <2>2. Moves(ls, ls', granted, granted, {}) /\ DOMAIN ls'.byToken \subseteq DOMAIN ls.byToken
    BY <1>2, <1>4, <1>6
  <2> QED
    BY <1>1, <1>3, <1>4, <1>5, <2>1, <2>2, AnswerStep DEF r
<1>7. CASE ls'.gen # ls.gen
  <2>1. /\ ls'.gen = new /\ Moves(ls, ls', granted, granted, {})
        /\ DOMAIN ls'.byToken \subseteq DOMAIN ls.byToken \cup {new}
        /\ TempLock(ls', new, confirmedSrc(r))
    BY <1>4, <1>7 DEF TempLock
  <2> DEFINE p == [r EXCEPT !.srcToken = new]
  <2>2. /\ Same(r, p) /\ p.pc = r.pc /\ p.srcToken = new /\ p.dstToken = NoToken
        /\ p.claim = NoName
    BY <1>2, <1>3, IdleFields DEF Same
  <2>3. conn' = [conn EXCEPT ![c] =
              IF confirmedDst(r) = NoName THEN confirmed(p) ELSE [p EXCEPT !.pc = "lockDst"]]
    BY <1>1, <1>7, <2>1
  <2> HIDE DEF p
  <2>4. PICK q : /\ conn' = [conn EXCEPT ![c] = q]
                 /\ q.pc \in Working \/ q.pc = "lockDst"
                 /\ q.pc \in Working <=> confirmedDst(r) = NoName
                 /\ Same(p, q) /\ q.srcToken = new /\ q.dstToken = NoToken /\ q.claim = NoName
    <3>1. CASE confirmedDst(r) = NoName
      <4>1. /\ Same(p, confirmed(p)) /\ confirmed(p).pc \in Working
            /\ confirmed(p).srcToken = new /\ confirmed(p).dstToken = NoToken
            /\ confirmed(p).claim = NoName
        BY <2>2, ConfirmedFields DEF Same
      <4> QED
        BY <2>3, <3>1, <4>1
    <3>2. CASE confirmedDst(r) # NoName
      <4> DEFINE o == [p EXCEPT !.pc = "lockDst"]
      <4>1. /\ Same(p, o) /\ o.pc = "lockDst" /\ o.srcToken = new /\ o.dstToken = NoToken
            /\ o.claim = NoName
        BY <2>2, IdleFields DEF Same
      <4> HIDE DEF o
      <4>2. conn' = [conn EXCEPT ![c] = o]
        BY <2>3, <3>2 DEF o
      <4> QED
        BY <3>2, <4>1, <4>2 DEF Working
    <3> QED
      BY <3>1, <3>2
  <2>5. /\ Same(r, q) /\ confirmedSrc(q) = confirmedSrc(r) /\ confirmedDst(q) = confirmedDst(r)
        /\ Confirmed(q) = Confirmed(r) /\ Targets(q) = Targets(r)
    <3>1. Same(r, q)
      BY <2>2, <2>4 DEF Same
    <3> QED
      BY <3>1, SameNames
  <2>6. ConnOK(q, granted', clock)
    BY <1>1, <1>2, <1>3, <2>4, <2>5 DEF ConnOK, Same, Working, NoToken
  <2>7. TempOK(q, ls')
    BY <2>1, <2>4, <2>5 DEF TempOK
  <2>8. Temporary(q) = {new} /\ new # NoToken
    BY <1>2, <2>4 DEF Temporary, NoToken
  <2>9. SecretOK(q, ls'.gen, granted')
    BY <1>1, <1>2, <2>1, <2>4, <2>8 DEF SecretOK, DInv, NoToken
  <2>10. \A t \in DOMAIN ls'.byToken : \/ t \in DOMAIN ls.byToken /\ t \notin Temporary(conn[c])
                                       \/ t \in granted' \cup Temporary(q)
    BY <1>5, <2>1, <2>8 DEF r
  <2>11. \A t \in Temporary(q) : t \in Temporary(conn[c]) \/ t > ls.gen
    BY <1>2, <2>8
  <2>12. {} \subseteq Temporary(conn[c]) /\ Moves(ls, ls', granted, granted', {})
    BY <1>1, <2>1
  <2>13. claims' = claims /\ q.claim = conn[c].claim
    BY <1>3, <1>4, <2>4 DEF r
  <2> QED
    BY <1>4, <2>4, <2>6, <2>7, <2>9, <2>10, <2>11, <2>12, <2>13, Close
<1> QED
  BY <1>6, <1>7

\* A temporary lock that the handler still has is where it was.
LEMMA TempStays ==
    ASSUME DInv, NEW c \in Conns, NEW X, NEW h, Moves(ls, ls', granted, h, X),
           NEW t \in Temporary(conn[c]) \ X, NEW n, TempLock(ls, t, n)
    PROVE  TempLock(ls', t, n)
<1>1. t \notin granted
  BY Locals DEF SecretOK
<1> QED
  BY <1>1 DEF Moves

\* confirmLocks takes the lock on dst; if that is refused it gives the one on src back.
LEMMA LockDstStep ==
    ASSUME DInv, NEW c \in Conns, lockDst(c)
    PROVE  DInv'
<1> DEFINE r == conn[c]
           new == ls.gen + 1
<1>1. /\ r.pc = "lockDst" /\ Create(r.now, confirmedDst(r), TRUE, infiniteTimeout)
      /\ conn' = [conn EXCEPT ![c] =
              IF ls'.gen = ls.gen THEN refusedDst(r)
              ELSE confirmed([r EXCEPT !.dstToken = ls'.gen])]
      /\ granted' = granted
  BY DEF lockDst, lock
<1>2. /\ ConnOK(r, granted, clock) /\ TempOK(r, ls) /\ SecretOK(r, ls.gen, granted)
      /\ r.now \in 0..clock /\ DOMAIN r = DOMAIN Idle /\ clock \in Nat /\ ls.gen \in Nat
  BY Locals
<1>3. \A t \in Temporary(r) : \A n : Moves(ls, ls', granted, granted, {}) /\ TempLock(ls, t, n)
                                        => TempLock(ls', t, n)
  BY TempStays
<1> HIDE DEF r
<1>4. /\ confirmedDst(r) \in Names /\ Confirmed(r) # {} /\ Confirmed(r) \subseteq Names
      /\ Targets(r) \subseteq Names /\ (r.base = <<>> => Targets(r) = Confirmed(r))
      /\ r.dstToken = NoToken /\ r.claim = NoName /\ confirmedDst(r) # NoName
      /\ r.srcToken = NoToken <=> confirmedSrc(r) = NoName
  BY <1>1, <1>2 DEF ConnOK, Confirmed
<1>5. /\ IInv' /\ claims' = claims /\ clock' = clock
      /\ \/ /\ ls'.gen = ls.gen /\ Moves(ls, ls', granted, granted, {})
            /\ DOMAIN ls'.byToken \subseteq DOMAIN ls.byToken
         \/ /\ ls'.gen = ls.gen + 1 /\ Moves(ls, ls', granted, granted, {})
            /\ DOMAIN ls'.byToken \subseteq DOMAIN ls.byToken \cup {new}
            /\ new \in DOMAIN ls'.byToken /\ ls'.byToken[new] = confirmedDst(r)
            /\ NodeOf(ls', new).zeroDepth = TRUE /\ NodeOf(ls', new).duration = infiniteTimeout
  BY <1>1, <1>2, <1>4, CreateMoves, DavAssumption
<1>6. Temporary(r) = {r.srcToken} \ {NoToken} /\ r.srcToken \in 0..ls.gen
  BY <1>2, <1>4 DEF Temporary, SecretOK
<1>7. Moves(ls, ls', granted, granted, {})
  BY <1>5
<1>8. r.srcToken # NoToken => TempLock(ls', r.srcToken, confirmedSrc(r))
  BY <1>2, <1>3, <1>6, <1>7 DEF TempOK
<1>9. CASE ls'.gen = ls.gen /\ r.srcToken = NoToken
  <2>1. conn' = [conn EXCEPT ![c] = Reply(423)]
    BY <1>1, <1>9 DEF refusedDst
  <2>2. DOMAIN ls'.byToken \subseteq DOMAIN ls.byToken \ Temporary(r)
    BY <1>2, <1>5, <1>6, <1>9
  <2> QED
    BY <1>1, <1>4, <1>5, <1>7, <2>1, <2>2, AnswerStep DEF r
<1>10. CASE ls'.gen = ls.gen /\ r.srcToken # NoToken
  <2> DEFINE q == [r EXCEPT !.pc = "unlockSrc", !.status = 423]
  <2>1. conn' = [conn EXCEPT ![c] = q]
    BY <1>1, <1>10 DEF refusedDst
  <2>2. /\ Same(r, q) /\ q.pc = "unlockSrc" /\ q.srcToken = r.srcToken /\ q.dstToken = NoToken
        /\ q.claim = NoName
    BY <1>2, <1>4, IdleFields DEF Same
  <2> HIDE DEF q
  <2>3. confirmedSrc(q) = confirmedSrc(r)
    BY <2>2, SameNames
  <2>4. ConnOK(q, granted', clock)
    BY <1>1, <1>2, <1>10, <2>2 DEF ConnOK, Same, Working
  <2>5. TempOK(q, ls')
    BY <1>8, <1>10, <2>2, <2>3 DEF TempOK
  <2>6. Temporary(q) = Temporary(r)
    BY <1>4, <2>2 DEF Temporary
  <2>7. SecretOK(q, ls'.gen, granted')
    BY <1>1, <1>2, <1>10, <2>2, <2>6 DEF SecretOK, NoToken
  <2>8. DOMAIN ls'.byToken \subseteq DOMAIN ls.byToken
    BY <1>2, <1>5, <1>10
  <2>9. \A t \in DOMAIN ls'.byToken : \/ t \in DOMAIN ls.byToken /\ t \notin Temporary(conn[c])
                                      \/ t \in granted' \cup Temporary(q)
    BY <2>6, <2>8 DEF r
  <2>10. \A t \in Temporary(q) : t \in Temporary(conn[c]) \/ t > ls.gen
    BY <2>6 DEF r
  <2>11. {} \subseteq Temporary(conn[c]) /\ Moves(ls, ls', granted, granted', {})
    BY <1>1, <1>7
  <2>12. claims' = claims /\ q.claim = conn[c].claim
    BY <1>4, <1>5, <2>2 DEF r
  <2> QED
    BY <1>5, <2>1, <2>4, <2>5, <2>7, <2>9, <2>10, <2>11, <2>12, Close
<1>11. CASE ls'.gen # ls.gen
  <2>1. /\ ls'.gen = new /\ DOMAIN ls'.byToken \subseteq DOMAIN ls.byToken \cup {new}
        /\ TempLock(ls', new, confirmedDst(r))
    BY <1>5, <1>11 DEF TempLock
  <2> DEFINE p == [r EXCEPT !.dstToken = new]
             q == confirmed(p)
  <2>2. /\ Same(r, p) /\ p.srcToken = r.srcToken /\ p.dstToken = new /\ p.claim = NoName
    BY <1>2, <1>4, IdleFields DEF Same
  <2>3. conn' = [conn EXCEPT ![c] = q]
    BY <1>1, <1>11, <2>1
  <2> HIDE DEF p
  <2>4. /\ Same(p, q) /\ q.pc \in Working /\ q.srcToken = r.srcToken /\ q.dstToken = new
        /\ q.claim = NoName
    BY <2>2, ConfirmedFields DEF Same
  <2> HIDE DEF q
  <2>5. /\ Same(r, q) /\ confirmedSrc(q) = confirmedSrc(r) /\ confirmedDst(q) = confirmedDst(r)
        /\ Confirmed(q) = Confirmed(r) /\ Targets(q) = Targets(r)
    <3>1. Same(r, q)
      BY <2>2, <2>4 DEF Same
    <3> QED
      BY <3>1, SameNames
  <2>6. new # NoToken /\ new > ls.gen
    BY <1>2 DEF NoToken
  <2>7. ConnOK(q, granted', clock)
    BY <1>1, <1>2, <1>4, <2>4, <2>5, <2>6 DEF ConnOK, Same, Working
  <2>8. TempOK(q, ls')
    BY <1>8, <2>1, <2>4, <2>5 DEF TempOK, Working
  <2>9. Temporary(q) = Temporary(r) \cup {new}
    BY <1>6, <2>4, <2>6 DEF Temporary
  <2>10. SecretOK(q, ls'.gen, granted')
    <3>1. new \notin granted
      BY <2>6, <1>2 DEF DInv
    <3>2. Temporary(q) \cap granted' = {}
      BY <1>1, <1>2, <2>9, <3>1 DEF SecretOK
    <3> QED
      BY <1>2, <1>6, <2>1, <2>4, <2>6, <3>2 DEF SecretOK
  <2>11. \A t \in DOMAIN ls'.byToken : \/ t \in DOMAIN ls.byToken /\ t \notin Temporary(conn[c])
                                       \/ t \in granted' \cup Temporary(q)
    BY <2>1, <2>9 DEF r
  <2>12. \A t \in Temporary(q) : t \in Temporary(conn[c]) \/ t > ls.gen
    BY <2>6, <2>9 DEF r
  <2>13. {} \subseteq Temporary(conn[c]) /\ Moves(ls, ls', granted, granted', {})
    BY <1>1, <1>7
  <2>14. claims' = claims /\ q.claim = conn[c].claim
    BY <1>4, <1>5, <2>4 DEF r
  <2> QED
    BY <1>5, <2>3, <2>7, <2>8, <2>10, <2>11, <2>12, <2>13, <2>14, Close
<1> QED
  BY <1>9, <1>10, <1>11

\* The release of the lock on dst.
LEMMA UnlockDstStep ==
    ASSUME DInv, NEW c \in Conns, unlockDst(c)
    PROVE  DInv'
<1> DEFINE r == conn[c]
           t == r.dstToken
<1>1. /\ r.pc = "unlockDst" /\ Unlock(r.now, t) /\ granted' = granted
      /\ conn' = [conn EXCEPT ![c] = IF r.srcToken = NoToken THEN Reply(r.status)
                                     ELSE [r EXCEPT !.pc = "unlockSrc"]]
  BY DEF unlockDst
<1>2. /\ ConnOK(r, granted, clock) /\ TempOK(r, ls) /\ SecretOK(r, ls.gen, granted)
      /\ r.now \in 0..clock /\ DOMAIN r = DOMAIN Idle /\ clock \in Nat /\ ls.gen \in Nat
  BY Locals
<1>3. \A u \in Temporary(r) \ {t} : \A n : Moves(ls, ls', granted, granted, {t}) /\ TempLock(ls, u, n)
                                        => TempLock(ls', u, n)
  BY TempStays
<1> HIDE DEF r
<1>4. t # NoToken /\ r.claim = NoName /\ t \in 1..ls.gen /\ t \in Temporary(r) /\ t \notin granted
  BY <1>1, <1>2 DEF ConnOK, SecretOK, Temporary, NoToken
<1>5. /\ IInv' /\ claims' = claims /\ clock' = clock
      /\ Moves(ls, ls', granted, granted, {t}) /\ ls'.gen = ls.gen
      /\ DOMAIN ls'.byToken \subseteq DOMAIN ls.byToken /\ t \notin DOMAIN ls'.byToken
  <2>1. {t} \ granted = {t}
    BY <1>4
  <2> QED
    BY <1>1, <1>2, <1>4, <2>1, UnlockMoves
<1>6. CASE r.srcToken = NoToken
  <2>1. Temporary(r) = {t}
    BY <1>4, <1>6 DEF Temporary
  <2>2. DOMAIN ls'.byToken \subseteq DOMAIN ls.byToken \ Temporary(r)
    BY <1>5, <2>1
  <2>3. conn' = [conn EXCEPT ![c] = Reply(r.status)]
    BY <1>1, <1>6
  <2>4. {t} \subseteq Temporary(r)
    BY <2>1
  <2> QED
    BY <1>1, <1>4, <1>5, <2>2, <2>3, <2>4, AnswerStep DEF r
<1>7. CASE r.srcToken # NoToken
  <2> DEFINE q == [r EXCEPT !.pc = "unlockSrc"]
  <2>1. conn' = [conn EXCEPT ![c] = q]
    BY <1>1, <1>7
  <2>2. /\ Same(r, q) /\ q.pc = "unlockSrc" /\ q.srcToken = r.srcToken /\ q.dstToken = t
        /\ q.claim = NoName
    BY <1>2, <1>4, IdleFields DEF Same
  <2> HIDE DEF q
  <2>3. confirmedSrc(q) = confirmedSrc(r)
    BY <2>2, SameNames
  <2>4. r.srcToken \in Temporary(r) \ {t}
    BY <1>2, <1>7 DEF Temporary, SecretOK
  <2>5. TempLock(ls', r.srcToken, confirmedSrc(r))
    BY <1>2, <1>3, <1>5, <1>7, <2>4 DEF TempOK
  <2>6. TempOK(q, ls')
    BY <1>5, <2>2, <2>3, <2>5 DEF TempOK
  <2>7. ConnOK(q, granted', clock)
    BY <1>1, <1>2, <1>7, <2>2 DEF ConnOK, Same, Working
  <2>8. Temporary(q) = Temporary(r)
    BY <2>2 DEF Temporary
  <2>9. SecretOK(q, ls'.gen, granted')
    BY <1>1, <1>2, <1>5, <2>2, <2>8 DEF SecretOK
  <2>10. \A u \in DOMAIN ls'.byToken : \/ u \in DOMAIN ls.byToken /\ u \notin Temporary(conn[c])
                                       \/ u \in granted' \cup Temporary(q)
    BY <1>5, <2>8 DEF r
  <2>11. \A u \in Temporary(q) : u \in Temporary(conn[c]) \/ u > ls.gen
    BY <2>8 DEF r
  <2>12. {t} \subseteq Temporary(conn[c]) /\ Moves(ls, ls', granted, granted', {t})
    BY <1>1, <1>4, <1>5 DEF r
  <2>13. claims' = claims /\ q.claim = conn[c].claim
    BY <1>4, <1>5, <2>2 DEF r
  <2> QED
    BY <1>5, <2>1, <2>6, <2>7, <2>9, <2>10, <2>11, <2>12, <2>13, Close
<1> QED
  BY <1>6, <1>7

\* The release of the lock on src, the last one.
LEMMA UnlockSrcStep ==
    ASSUME DInv, NEW c \in Conns, unlockSrc(c)
    PROVE  DInv'
<1> DEFINE r == conn[c]
           t == r.srcToken
<1>1. /\ r.pc = "unlockSrc" /\ Unlock(r.now, t) /\ granted' = granted
      /\ conn' = [conn EXCEPT ![c] = Reply(r.status)]
  BY DEF unlockSrc
<1>2. /\ ConnOK(r, granted, clock) /\ TempOK(r, ls) /\ SecretOK(r, ls.gen, granted)
      /\ r.now \in 0..clock
  BY Locals
<1> HIDE DEF r
<1>3. t # NoToken /\ r.claim = NoName /\ t \in 1..ls.gen /\ t \in Temporary(r) /\ t \notin granted
  BY <1>1, <1>2 DEF ConnOK, SecretOK, Temporary, NoToken
<1>4. /\ IInv' /\ claims' = claims /\ clock' = clock
      /\ Moves(ls, ls', granted, granted, {t})
      /\ DOMAIN ls'.byToken \subseteq DOMAIN ls.byToken /\ t \notin DOMAIN ls'.byToken
  <2>1. {t} \ granted = {t}
    BY <1>3
  <2> QED
    BY <1>1, <1>2, <1>3, <2>1, UnlockMoves
<1>5. \A u \in Temporary(r) : u = t \/ u \notin DOMAIN ls.byToken
  BY <1>1, <1>2 DEF TempOK, Temporary
<1>6. DOMAIN ls'.byToken \subseteq DOMAIN ls.byToken \ Temporary(r)
  BY <1>4, <1>5
<1>7. {t} \subseteq Temporary(r)
  BY <1>3
<1> QED
  BY <1>1, <1>3, <1>4, <1>6, <1>7, AnswerStep DEF r

\* LOCK adds a lock whose token the client learns.
LEMMA LockCreateStep ==
    ASSUME DInv, NEW c \in Conns, lockCreate(c)
    PROVE  DInv'
<1> DEFINE r == conn[c]
           new == ls.gen + 1
           q == Reply(IF ls'.gen = ls.gen THEN 423 ELSE 200)
<1>1. /\ r.pc = "lock" /\ Create(r.now, Target(r), r.zeroDepth, r.duration)
      /\ conn' = [conn EXCEPT ![c] = q]
      /\ granted' = granted \cup (1..ls'.gen \ 1..ls.gen)
  BY DEF lockCreate
<1>2. ConnOK(r, granted, clock) /\ r.now \in 0..clock /\ clock \in Nat /\ ls.gen \in Nat
  BY Locals
<1> HIDE DEF r
<1>3. /\ Target(r) \in Names /\ r.zeroDepth \in BOOLEAN /\ r.duration \in Durations
      /\ r.srcToken = NoToken /\ r.dstToken = NoToken /\ r.claim = NoName
  BY <1>1, <1>2 DEF ConnOK
<1>4. /\ IInv' /\ claims' = claims /\ clock' = clock
      /\ \/ /\ ls'.gen = ls.gen /\ Moves(ls, ls', granted, granted, {})
            /\ DOMAIN ls'.byToken \subseteq DOMAIN ls.byToken
         \/ /\ ls'.gen = new /\ Moves(ls, ls', granted, granted \cup {new}, {})
            /\ DOMAIN ls'.byToken \subseteq DOMAIN ls.byToken \cup {new}
  BY <1>1, <1>2, <1>3, CreateMoves
<1>5. /\ Moves(ls, ls', granted, granted', {})
      /\ DOMAIN ls'.byToken \subseteq DOMAIN ls.byToken \cup granted' /\ ls'.gen \in Nat
  <2>1. CASE ls'.gen = ls.gen
    <3>1. granted' = granted
      BY <1>1, <2>1
    <3> QED
      BY <1>2, <1>4, <2>1, <3>1
  <2>2. CASE ls'.gen = new
    <3>1. granted' = granted \cup {new}
      <4>1. 1..new \ 1..ls.gen = {new}
        BY <1>2
      <4> QED
        BY <1>1, <2>2, <4>1
    <3> QED
      BY <1>2, <1>4, <2>2, <3>1
  <2> QED
    BY <1>4, <2>1, <2>2
<1>6. /\ ConnOK(q, granted', clock) /\ TempOK(q, ls') /\ SecretOK(q, ls'.gen, granted')
      /\ Temporary(q) = {} /\ q.claim = NoName
  BY <1>2, <1>5, ReplyOK
<1> HIDE DEF q
<1>7. Temporary(r) = {} /\ {} \subseteq Temporary(conn[c])
  BY <1>3 DEF Temporary
<1>8. \A t \in DOMAIN ls'.byToken : \/ t \in DOMAIN ls.byToken /\ t \notin Temporary(conn[c])
                                    \/ t \in granted' \cup Temporary(q)
  BY <1>5, <1>7 DEF r
<1>9. \A t \in Temporary(q) : t \in Temporary(conn[c]) \/ t > ls.gen
  BY <1>6
<1>10. claims' = claims /\ q.claim = conn[c].claim
  BY <1>3, <1>4, <1>6 DEF r
<1> QED
  BY <1>1, <1>4, <1>5, <1>6, <1>7, <1>8, <1>9, <1>10, Close

\* A refresh, and an UNLOCK, of a lock of the client.
LEMMA RefreshUnlockStep ==
    ASSUME DInv, NEW c \in Conns, lockRefresh(c) \/ unlockToken(c)
    PROVE  DInv'
<1> DEFINE r == conn[c]
<1>1. /\ r.pc \in {"refresh", "unlock"} /\ granted' = granted
      /\ \E status : conn' = [conn EXCEPT ![c] = Reply(status)]
      /\ \/ r.pc = "refresh" /\ Refresh(r.now, r.token, r.duration)
         \/ r.pc = "unlock" /\ \E now \in r.now..clock : Unlock(now, r.token)
  BY DEF lockRefresh, unlockToken
<1>2. ConnOK(r, granted, clock) /\ r.now \in 0..clock /\ clock \in Nat
  BY Locals
<1> HIDE DEF r
<1>3. r.srcToken = NoToken /\ r.dstToken = NoToken /\ r.claim = NoName /\ Temporary(r) = {}
  BY <1>1, <1>2 DEF ConnOK, Temporary
<1>4. r.token \in granted /\ r.token \in 1..ls.gen
  BY <1>1, <1>2 DEF ConnOK, DInv
<1>5. /\ IInv' /\ claims' = claims /\ clock' = clock
      /\ DOMAIN ls'.byToken \subseteq DOMAIN ls.byToken
      /\ \A X : X = {} => Moves(ls, ls', granted, granted, X)
  <2>1. CASE r.pc = "unlock"
    <3>1. PICK now \in r.now..clock : Unlock(now, r.token)
      BY <1>1, <2>1
    <3>2. now \in 0..clock
      BY <1>2
    <3>3. {r.token} \ granted = {}
      BY <1>4
    <3> QED
      BY <1>4, <3>1, <3>2, <3>3, UnlockMoves
  <2>2. CASE r.pc = "refresh"
    <3>1. Refresh(r.now, r.token, r.duration) /\ r.duration \in Durations
      BY <1>1, <1>2, <2>2 DEF ConnOK
    <3>2. IInv' /\ HeldSame(ls, ls') /\ claims' = claims /\ clock' = clock
      BY <1>2, <1>4, <3>1, RefreshStep DEF Refresh, DInv, Issued
    <3>3. HeldGranted(ls', granted)
      BY <3>2, HeldStays
    <3>4. PICK E : Expired(ls, E, r.now) /\ LocksLeft(ls, ls', E, {r.token})
      BY <1>2, <3>1, RefreshDoes DEF DInv
    <3>5. ASSUME NEW X, X = {}
          PROVE  /\ Moves(ls, ls', granted, granted, X)
                 /\ DOMAIN ls'.byToken \subseteq DOMAIN ls.byToken
      <4>1. E \subseteq E \cup granted \cup X /\ {r.token} \subseteq granted
        BY <1>4
      <4> QED
        BY <3>3, <3>4, <4>1, LeftMoves
    <3> QED
      BY <3>2, <3>5
  <2> QED
    BY <1>1, <2>1, <2>2
<1>6. DOMAIN ls'.byToken \subseteq DOMAIN ls.byToken \ Temporary(r)
  BY <1>3, <1>5
<1>7. PICK status : conn' = [conn EXCEPT ![c] = Reply(status)]
  BY <1>1
<1>8. {} \subseteq Temporary(r) /\ Moves(ls, ls', granted, granted, {})
  BY <1>5
<1> QED
  BY <1>1, <1>3, <1>5, <1>6, <1>7, <1>8, AnswerStep DEF r

\* The closure that Confirm returned gives the claim back.
LEMMA ReleaseClaimStep ==
    ASSUME DInv, NEW c \in Conns, releaseClaim(c)
    PROVE  DInv'
<1> DEFINE r == conn[c]
<1>1. /\ r.pc = "release" /\ Release(r.claim) /\ granted' = granted
      /\ conn' = [conn EXCEPT ![c] = Reply(r.status)]
  BY DEF releaseClaim
<1>2. ConnOK(r, granted, clock) /\ r.claim \in claims \cup {NoName}
  BY Locals DEF DInv
<1> HIDE DEF r
<1>3. /\ r.srcToken = NoToken /\ r.dstToken = NoToken /\ r.claim \in claims
      /\ Temporary(r) = {}
  BY <1>1, <1>2 DEF ConnOK, Temporary
<1>4. IInv' /\ HeldKept(ls, ls')
  BY <1>1, <1>3, ReleaseStep DEF DInv
<1>5. /\ LocksLeft(ls, ls', {}, {}) /\ claims' = claims \ {r.claim} /\ clock' = clock
      /\ HeldNodes(ls') \subseteq HeldNodes(ls)
  BY <1>1, <1>3, ReleaseDoes DEF DInv, Release
<1>6. HeldGranted(ls', granted)
  BY <1>4, <1>5 DEF HeldGranted, HeldKept, DInv
<1>7. ASSUME NEW X, X = {}
      PROVE  Moves(ls, ls', granted, granted, X) /\ DOMAIN ls'.byToken \subseteq DOMAIN ls.byToken
  <2>1. LocksLeft(ls, ls', X, X) /\ Expired(ls, X, clock) /\ X \subseteq granted
        /\ X \subseteq X \cup granted \cup X
    BY <1>5, <1>7 DEF Expired
  <2> QED
    BY <1>6, <2>1, LeftMoves
<1>8. Moves(ls, ls', granted, granted, {}) /\ {} \subseteq Temporary(r)
      /\ DOMAIN ls'.byToken \subseteq DOMAIN ls.byToken \ Temporary(r)
  BY <1>3, <1>7
<1> QED
  BY <1>1, <1>4, <1>5, <1>8, AnswerStep DEF r

\* A list of the If header is tried.
LEMMA ConfirmIfStep ==
    ASSUME DInv, NEW c \in Conns, confirmIf(c)
    PROVE  DInv'
<1> DEFINE r == conn[c]
           S == [tag : Names \cup {NoName, Foreign, Outside}, conditions : Seq(granted)]
           l == Head(r.lists)
           lsrc == IF l.tag = NoName THEN confirmedSrc(r) ELSE l.tag
           q == confirmed([r EXCEPT !.tagged = (l.tag # NoName),
                                    !.claim = CHOOSE x \in claims' : x \notin claims])
<1>1. /\ r.pc = "confirm" /\ r.lists # <<>> /\ l.tag \in Names \cup {NoName}
      /\ \E now \in r.now..clock : Confirm(now, lsrc, confirmedDst(r), l.conditions)
      /\ conn' = [conn EXCEPT ![c] =
                     IF claims' = claims THEN [r EXCEPT !.lists = Tail(r.lists)] ELSE q]
      /\ granted' = granted
  BY DEF confirmIf
<1>2. /\ ConnOK(r, granted, clock) /\ r.now \in 0..clock /\ DOMAIN r = DOMAIN Idle
      /\ clock \in Nat /\ ls.gen \in Nat
  BY Locals
<1> HIDE DEF r
<1>3. /\ r.lists \in Seq(S) /\ Confirmed(r) # {} /\ Confirmed(r) \subseteq Names
      /\ Targets(r) \subseteq Names /\ (r.base = <<>> => Targets(r) = Confirmed(r))
      /\ r.srcToken = NoToken /\ r.dstToken = NoToken /\ r.claim = NoName
  BY <1>1, <1>2 DEF ConnOK
<1>4. l \in S /\ Tail(r.lists) \in Seq(S)
  <2> HIDE DEF S
  <2> QED
    BY <1>1, <1>3
<1>5. /\ DOMAIN l.conditions \subseteq Nat /\ \A i \in DOMAIN l.conditions : l.conditions[i] \in granted
  <2>1. l.conditions \in Seq(granted)
    BY <1>4
  <2> HIDE DEF l
  <2> QED
    BY <2>1
<1> HIDE DEF l
<1>6. /\ lsrc \in Names \cup {NoName} /\ confirmedDst(r) \in Names \cup {NoName}
      /\ {lsrc, confirmedDst(r)} \ {NoName} # {}
      /\ l.tag = NoName => lsrc = confirmedSrc(r)
  BY <1>1, <1>3, NamesAssumption DEF Confirmed
<1> HIDE DEF lsrc
<1>7. PICK now \in r.now..clock : Confirm(now, lsrc, confirmedDst(r), l.conditions)
  BY <1>1
<1>8. now \in 0..clock
  BY <1>2
<1>9. IInv' /\ HeldKept(ls, ls') /\ clock' = clock
  BY <1>5, <1>6, <1>7, <1>8, ConfirmStep DEF DInv, Confirm
<1>10. PICK E : /\ Expired(ls, E, now) /\ LocksLeft(ls, ls', E, {})
                /\ \/ claims' = claims /\ HeldNodes(ls') = HeldNodes(ls)
                   \/ \E x : /\ claims' = claims \cup {x}
                             /\ x.names = {lsrc, confirmedDst(r)} \ {NoName}
                             /\ HeldNodes(ls') = HeldNodes(ls) \cup ClaimedNodes(x)
                             /\ ClaimedNodes(x) \cap HeldNodes(ls) = {}
                             /\ x.names # {} => ClaimedNodes(x) # {}
                             /\ \A n \in ClaimedNodes(x) :
                                   /\ n \in Locked(ls')
                                   /\ \E i \in DOMAIN l.conditions :
                                         ls'.byName[n].token = l.conditions[i]
  <2>1. IInv
    BY DEF DInv
  <2>2. \E E : ConfirmEffect(E, now, lsrc, confirmedDst(r), l.conditions)
    BY <1>5, <1>6, <1>7, <1>8, <2>1, ConfirmDoes
  <2> QED
    BY <2>2 DEF ConfirmEffect
<1>11. HeldGranted(ls', granted)
  <2>1. \A n \in HeldNodes(ls) : ls'.byName[n].token \in granted
    BY <1>9 DEF DInv, HeldGranted, HeldKept
  <2> QED
    BY <1>5, <1>10, <2>1 DEF HeldGranted
<1>12. ASSUME NEW X, X = {}
       PROVE  Moves(ls, ls', granted, granted, X) /\ DOMAIN ls'.byToken \subseteq DOMAIN ls.byToken
              /\ ls'.gen = ls.gen
  <2>1. LocksLeft(ls, ls', E, X) /\ E \subseteq E \cup granted \cup X /\ X \subseteq granted
    BY <1>10, <1>12
  <2> QED
    BY <1>10, <1>11, <2>1, LeftMoves
<1>13. /\ Moves(ls, ls', granted, granted', {}) /\ DOMAIN ls'.byToken \subseteq DOMAIN ls.byToken
       /\ ls'.gen = ls.gen /\ Temporary(r) = {} /\ {} \subseteq Temporary(conn[c])
  BY <1>1, <1>3, <1>12 DEF Temporary
<1>14. ASSUME NEW p, conn' = [conn EXCEPT ![c] = p], ConnOK(p, granted, clock),
              p.srcToken = NoToken, p.dstToken = NoToken,
              \/ claims' = claims /\ p.claim = conn[c].claim
              \/ claims' = claims \cup {p.claim} /\ p.claim \notin claims /\ conn[c].claim = NoName
       PROVE  DInv'
  <2>1. Temporary(p) = {} /\ TempOK(p, ls') /\ ConnOK(p, granted', clock)
    BY <1>1, <1>14 DEF Temporary, TempOK
  <2>2. SecretOK(p, ls'.gen, granted')
    BY <1>2, <1>13, <1>14, <2>1 DEF SecretOK, NoToken
  <2>3. \A t \in DOMAIN ls'.byToken : \/ t \in DOMAIN ls.byToken /\ t \notin Temporary(conn[c])
                                      \/ t \in granted' \cup Temporary(p)
    BY <1>13 DEF r
  <2>4. \A t \in Temporary(p) : t \in Temporary(conn[c]) \/ t > ls.gen
    BY <2>1
  <2> QED
    BY <1>9, <1>13, <1>14, <2>1, <2>2, <2>3, <2>4, Close
<1>15. CASE claims' = claims
  <2> DEFINE p == [r EXCEPT !.lists = Tail(r.lists)]
  <2>1. /\ Same(r, p) /\ p.pc = r.pc /\ p.lists = Tail(r.lists)
        /\ p.srcToken = NoToken /\ p.dstToken = NoToken /\ p.claim = NoName
    BY <1>2, <1>3, IdleFields DEF Same
  <2>2. conn' = [conn EXCEPT ![c] = p]
    BY <1>1, <1>15
  <2> HIDE DEF p
  <2>3. Confirmed(p) = Confirmed(r) /\ Targets(p) = Targets(r)
    BY <2>1, SameNames
  <2> HIDE DEF S
  <2>4. p.lists \in Seq(S)
    BY <1>4, <2>1
  <2>5. ConnOK(p, granted, clock)
    BY <1>1, <1>2, <1>3, <2>1, <2>3, <2>4 DEF ConnOK, Same, Working, S
  <2>6. p.claim = conn[c].claim
    BY <1>3, <2>1 DEF r
  <2> QED
    BY <1>14, <1>15, <2>1, <2>2, <2>5, <2>6
<1>16. CASE claims' # claims
  <2>1. PICK x : /\ claims' = claims \cup {x} /\ x \notin claims
                 /\ x.names = {lsrc, confirmedDst(r)} \ {NoName}
    BY <1>10, <1>16
  <2>2. (CHOOSE y \in claims' : y \notin claims) = x
    BY <2>1
  <2>3. x # NoName
    BY <1>9, <2>1, DavAssumption DEF IInv, TypeOK
  <2> DEFINE o == [r EXCEPT !.tagged = (l.tag # NoName), !.claim = x]
             p == confirmed(o)
  <2>4. /\ Same(r, o) /\ o.tagged = (l.tag # NoName) /\ o.claim = x
        /\ o.srcToken = NoToken /\ o.dstToken = NoToken
    BY <1>2, <1>3, IdleFields DEF Same
  <2>5. conn' = [conn EXCEPT ![c] = p]
    BY <1>1, <1>16, <2>2
  <2> HIDE DEF o
  <2>6. /\ Same(o, p) /\ p.pc \in Working /\ p.tagged = (l.tag # NoName) /\ p.claim = x
        /\ p.srcToken = NoToken /\ p.dstToken = NoToken
    BY <2>4, ConfirmedFields DEF Same
  <2> HIDE DEF p
  <2>7. Same(r, p) /\ Confirmed(p) = Confirmed(r) /\ Targets(p) = Targets(r)
    <3>1. Same(r, p)
      BY <2>4, <2>6 DEF Same
    <3> QED
      BY <3>1, SameNames
  <2>8. ~p.tagged => p.claim.names = Confirmed(p)
    BY <1>6, <2>1, <2>6, <2>7 DEF Confirmed
  <2>9. ConnOK(p, granted, clock)
    <3>1. r.now \in 0..clock /\ r.base \in Bases
      BY <1>1, <1>2 DEF ConnOK
    <3>2. DOMAIN p = DOMAIN Idle /\ p.now \in 0..clock /\ p.base = r.base
      BY <2>7, <3>1 DEF Same
    <3> QED
      BY <1>3, <2>3, <2>6, <2>7, <2>8, <3>1, <3>2 DEF ConnOK, Working
  <2>10. conn[c].claim = NoName
    BY <1>3 DEF r
  <2> QED
    BY <1>14, <2>1, <2>5, <2>6, <2>9, <2>10
<1> QED
  BY <1>15, <1>16

-----------------------------------------------------------------------------
(***************************************************************************)
(* The invariant holds                                                     *)
(***************************************************************************)

LEMMA DavInitInv == DavInit => DInv
<1> SUFFICES ASSUME DavInit PROVE DInv
  OBVIOUS
<1>1. /\ IInv /\ ls = NewMemLS /\ claims = {} /\ clock = 0 /\ granted = {}
      /\ conn = [c \in Conns |-> Idle]
  BY InitInv DEF DavInit, Init
<1>2. /\ DOMAIN ls.byToken = {} /\ DOMAIN ls.byName = {} /\ ls.gen = 0
      /\ HeldNodes(ls) = {}
  BY <1>1 DEF NewMemLS, HeldNodes
<1>3. \A c \in Conns : conn[c] = Idle
  BY <1>1
<1>4. ConnOK(Idle, granted, clock)
  BY <1>1, IdleFields DEF ConnOK, Working
<1>5. TempOK(Idle, ls) /\ Temporary(Idle) = {} /\ SecretOK(Idle, ls.gen, granted)
  BY <1>2, IdleFields DEF TempOK, SecretOK, Temporary, NoToken
<1>6. Idle.claim = NoName
  BY IdleFields
<1>7. conn \in [Conns -> {conn[c] : c \in Conns}]
  BY <1>1
<1>8. \A c, d \in Conns : Apart(conn[c], conn[d])
  BY <1>3, <1>5, <1>6 DEF Apart
<1> QED
  BY <1>1, <1>2, <1>3, <1>4, <1>5, <1>6, <1>7, <1>8, BoundsAssumption
     DEF DInv, HeldGranted, NothingLeaks

\* Time passes, or nothing does.
LEMMA DavTickStep ==
    ASSUME DInv, DavTick \/ UNCHANGED davVars
    PROVE  DInv'
<1>1. /\ ls' = ls /\ claims' = claims /\ conn' = conn /\ granted' = granted
      /\ clock \in Nat /\ clock' \in Nat /\ clock <= clock'
  BY DEF DavTick, Tick, davVars, DInv, IInv, TypeOK
<1>2. IInv'
  BY <1>1 DEF DInv, IInv, TypeOK
<1>3. \A c \in Conns : ConnOK(conn[c], granted, clock')
  <2> SUFFICES ASSUME NEW c \in Conns PROVE ConnOK(conn[c], granted, clock')
    OBVIOUS
  <2>1. ConnOK(conn[c], granted, clock) /\ conn[c].now \in 0..clock
    BY Locals
  <2>2. conn[c].now \in 0..clock'
    BY <1>1, <2>1
  <2> QED
    BY <2>1, <2>2 DEF ConnOK
<1> QED
  BY <1>1, <1>2, <1>3 DEF DInv, NothingLeaks

LEMMA DavNextInv ==
    ASSUME DInv, [DavNext]_davVars
    PROVE  DInv'
<1>1. ASSUME NEW c \in Conns, Handle(c) PROVE DInv'
  <2>1. CASE lockSrc(c)
    BY <2>1, LockSrcStep
  <2>2. CASE lockDst(c)
    BY <2>2, LockDstStep
  <2>3. CASE rejectIf(c)
    BY <2>3, RejectStep
  <2>4. CASE confirmIf(c)
    BY <2>4, ConfirmIfStep
  <2>5. CASE Stat(c) \/ StatParent(c) \/ Apply(c) \/ GiveUp(c)
    BY <2>5, BodyStep
  <2>6. CASE unlockDst(c)
    BY <2>6, UnlockDstStep
  <2>7. CASE unlockSrc(c)
    BY <2>7, UnlockSrcStep
  <2>8. CASE releaseClaim(c)
    BY <2>8, ReleaseClaimStep
  <2>9. CASE lockCreate(c)
    BY <2>9, LockCreateStep
  <2>10. CASE lockRefresh(c) \/ unlockToken(c)
    BY <2>10, RefreshUnlockStep
  <2> QED
    BY <1>1, <2>1, <2>2, <2>3, <2>4, <2>5, <2>6, <2>7, <2>8, <2>9, <2>10 DEF Handle
<1> QED
  BY <1>1, ServeStep, DavTickStep DEF DavNext

\* The inductive invariant of the handlers holds in every reachable state.
THEOREM DavInductive == DavSpec => []DInv
<1>1. DavInit => DInv
  BY DavInitInv
<1>2. DInv /\ [DavNext]_davVars => DInv'
  BY DavNextInv
<1> QED
  BY <1>1, <1>2, PTL DEF DavSpec

\* Whatever confirmLocks takes is given back: every lock in place is one that a LOCK
\* granted or belongs to a handler that still runs, and so does every claim.
THEOREM LocksAreGivenBack == DavSpec => []NothingLeaks
<1>1. DInv => NothingLeaks
  BY DEF DInv
<1> QED
  BY <1>1, DavInductive, PTL

-----------------------------------------------------------------------------
(***************************************************************************)
(* Exclusive access                                                        *)
(***************************************************************************)

\* The lock is the handler's own.
Own(c, m) == \/ ls.byName[m].token \in Temporary(conn[c])
             \/ conn[c].claim # NoName /\ m \in ClaimedNodes(conn[c].claim)

\* A handler that works, and was not let in by a tag, has a lock of its own on each
\* resource it asked for.
LEMMA OwnLock ==
    ASSUME DInv, NEW c \in Conns, conn[c].pc \in Working, ~conn[c].tagged,
           NEW n \in Confirmed(conn[c])
    PROVE  \E m \in Locked(ls) : Covers(m, ls.byName[m].zeroDepth, n) /\ Own(c, m)
<1> DEFINE r == conn[c]
<1>1. ConnOK(r, granted, clock) /\ TempOK(r, ls) /\ r.claim \in claims \cup {NoName}
  BY DEF DInv
<1>2. SInv(ls) /\ ClaimInv(ls, claims)
  BY DEF DInv, IInv
<1>3. ASSUME NEW t \in Temporary(r), TempLock(ls, t, n)
      PROVE  \E m \in Locked(ls) : Covers(m, ls.byName[m].zeroDepth, n) /\ Own(c, m)
  <2>1. n \in Locked(ls) /\ ls.byName[n].token = t
    BY <1>2, <1>3 DEF TempLock, SInv, TokensOK
  <2> QED
    BY <2>1 DEF Covers, Own
<1>4. CASE r.claim = NoName
  <2>1. /\ r.srcToken = NoToken <=> confirmedSrc(r) = NoName
        /\ r.dstToken = NoToken <=> confirmedDst(r) = NoName
    BY <1>1, <1>4 DEF ConnOK
  <2>2. CASE n = confirmedSrc(r)
    <3>1. r.srcToken \in Temporary(r) /\ TempLock(ls, r.srcToken, n)
      BY <1>1, <2>1, <2>2 DEF TempOK, Temporary, Confirmed
    <3> QED
      BY <1>3, <3>1
  <2>3. CASE n = confirmedDst(r)
    <3>1. r.dstToken \in Temporary(r) /\ TempLock(ls, r.dstToken, n)
      BY <1>1, <2>1, <2>3 DEF TempOK, Temporary, Confirmed, Working
    <3> QED
      BY <1>3, <3>1
  <2> QED
    BY <2>2, <2>3 DEF Confirmed
<1>5. CASE r.claim # NoName
  <2>1. r.claim \in claims /\ r.claim.names = Confirmed(r)
    BY <1>1, <1>5 DEF ConnOK
  <2>2. PICK m \in ClaimedNodes(r.claim) : Covers(m, ls.byName[m].zeroDepth, n)
    BY <1>2, <2>1 DEF ClaimInv
  <2>3. m \in Locked(ls)
    BY <1>2, <2>1 DEF ClaimInv, SInv, HeldAreLocked
  <2> QED
    BY <1>5, <2>2, <2>3 DEF Own
<1> QED
  BY <1>4, <1>5

\* Two locks that cover a resource are one.
LEMMA OneCover ==
    ASSUME DInv, NEW m \in Locked(ls), NEW k \in Locked(ls), NEW n \in Names,
           Covers(m, ls.byName[m].zeroDepth, n), Covers(k, ls.byName[k].zeroDepth, n)
    PROVE  m = k
BY DEF DInv, IInv, SInv, Disjoint, Region

\* A lock belongs to one handler.
LEMMA OneOwner ==
    ASSUME DInv, NEW c \in Conns, NEW d \in Conns, c # d, NEW m \in Locked(ls)
    PROVE  ~(Own(c, m) /\ Own(d, m))
<1> DEFINE t == ls.byName[m].token
<1>1. Apart(conn[c], conn[d])
  BY DEF DInv
<1>2. ~(t \in Temporary(conn[c]) /\ t \in Temporary(conn[d]))
  BY <1>1 DEF Apart
<1>3. ASSUME NEW e \in Conns, conn[e].claim # NoName, m \in ClaimedNodes(conn[e].claim)
      PROVE  conn[e].claim \in claims /\ t \in granted
  <2>1. conn[e].claim \in claims
    BY <1>3 DEF DInv
  <2>2. m \in HeldNodes(ls)
    BY <1>3, <2>1 DEF DInv, IInv, ClaimInv
  <2> QED
    BY <2>1, <2>2 DEF DInv, HeldGranted
<1>4. \A e \in Conns : t \in granted => t \notin Temporary(conn[e])
  BY DEF DInv, SecretOK
<1>5. ~(/\ conn[c].claim # NoName /\ m \in ClaimedNodes(conn[c].claim)
        /\ conn[d].claim # NoName /\ m \in ClaimedNodes(conn[d].claim))
  <2> SUFFICES ASSUME conn[c].claim # NoName, m \in ClaimedNodes(conn[c].claim),
                      conn[d].claim # NoName, m \in ClaimedNodes(conn[d].claim)
               PROVE  FALSE
    OBVIOUS
  <2>1. conn[c].claim \in claims /\ conn[d].claim \in claims
    BY <1>3
  <2>2. conn[c].claim # conn[d].claim
    BY <1>1 DEF Apart
  <2> QED
    BY <2>1, <2>2 DEF DInv, IInv, ClaimInv
<1> QED
  BY <1>2, <1>3, <1>4, <1>5 DEF Own

\* With users whose base path is "/", which is the path the locks are taken on, a handler
\* writes what it asked for.
LEMMA WritesWhatItLocked ==
    ASSUME Bases \subseteq {<<>>}, DInv, NEW c \in Conns, conn[c].pc \in Working
    PROVE  Targets(conn[c]) = Confirmed(conn[c]) /\ Targets(conn[c]) \subseteq Names
BY DEF DInv, ConnOK

\* Two handlers that work at the same time, neither of them let in by a tag about another
\* resource, write different resources.  Users with a base path of their own are left out:
\* confirmLocks asks for the path of the request, and the handler writes the joined one.
THEOREM WritersAreExclusive ==
    ASSUME Bases \subseteq {<<>>}
    PROVE  DavSpec => []WritersExclusive
<1>1. ASSUME DInv PROVE WritersExclusive
  <2> SUFFICES ASSUME NEW c \in Conns, NEW d \in Conns, c # d,
                      conn[c].pc \in Working, conn[d].pc \in Working,
                      ~conn[c].tagged, ~conn[d].tagged,
                      NEW n \in Targets(conn[c]), n \in Targets(conn[d])
               PROVE  FALSE
    BY DEF WritersExclusive
  <2>1. n \in Confirmed(conn[c]) /\ n \in Confirmed(conn[d]) /\ n \in Names
    BY <1>1, WritesWhatItLocked
  <2>2. PICK m \in Locked(ls) : Covers(m, ls.byName[m].zeroDepth, n) /\ Own(c, m)
    BY <1>1, <2>1, OwnLock
  <2>3. PICK k \in Locked(ls) : Covers(k, ls.byName[k].zeroDepth, n) /\ Own(d, k)
    BY <1>1, <2>1, OwnLock
  <2>4. m = k
    BY <1>1, <2>1, <2>2, <2>3, OneCover
  <2> QED
    BY <1>1, <2>2, <2>3, <2>4, OneOwner
<1>2. DInv => WritersExclusive
  BY <1>1
<1> QED
  BY <1>2, DavInductive, PTL

\* A lock that covers a resource a handler writes is the handler's own temporary lock, or
\* one its client presented: confirmLocks lets nobody write what another client locked.
THEOREM LocksAreRespected ==
    ASSUME Bases \subseteq {<<>>}
    PROVE  DavSpec => []LocksRespected
<1>1. ASSUME DInv PROVE LocksRespected
  <2> SUFFICES ASSUME NEW c \in Conns, conn[c].pc \in Working, ~conn[c].tagged,
                      NEW m \in Locked(ls), NEW n \in Targets(conn[c]),
                      Covers(m, ls.byName[m].zeroDepth, n)
               PROVE  Own(c, m)
    BY DEF LocksRespected, Own
  <2>1. n \in Confirmed(conn[c]) /\ n \in Names
    BY <1>1, WritesWhatItLocked
  <2>2. PICK k \in Locked(ls) : Covers(k, ls.byName[k].zeroDepth, n) /\ Own(c, k)
    BY <1>1, <2>1, OwnLock
  <2> QED
    BY <1>1, <2>1, <2>2, OneCover
<1>2. DInv => LocksRespected
  BY <1>1
<1> QED
  BY <1>2, DavInductive, PTL

-----------------------------------------------------------------------------
(***************************************************************************)
(* Clients keep their locks                                                *)
(***************************************************************************)

\* The lock's timeout is over.
TimedOut(t) == LET n == ls.byName[ls.byToken[t]] IN n.duration >= 0 /\ n.expiry <= clock

LEMMA ExpiredTimedOut ==
    ASSUME DInv, NEW now \in 0..clock, NEW E, Expired(ls, E, now), NEW t \in E
    PROVE  TimedOut(t)
<1>1. /\ NodeOf(ls, t).duration >= 0 /\ NodeOf(ls, t).expiry <= now
      /\ NodeOf(ls, t) \in memLSNode
  BY DEF Expired, NodeOf, DInv, IInv, SInv, StructOK, TokensOK, Locked
<1>2. clock \in Nat
  BY DEF DInv, IInv, TypeOK
<1>3. NodeOf(ls, t).expiry <= clock
  BY <1>1, <1>2 DEF memLSNode
<1> QED
  BY <1>1, <1>3 DEF NodeOf, TimedOut

\* A handler's step takes a lock away that a client knows only when it is over, or when it
\* handles an UNLOCK of its token.
LEMMA ClientLockGoes ==
    ASSUME DInv, NEW c \in Conns, Handle(c),
           NEW t \in granted \cap DOMAIN ls.byToken, t \notin DOMAIN ls'.byToken
    PROVE  TimedOut(t) \/ (conn[c].pc = "unlock" /\ conn[c].token = t)
<1> DEFINE r == conn[c]
<1>1. /\ ConnOK(r, granted, clock) /\ TempOK(r, ls) /\ SecretOK(r, ls.gen, granted)
      /\ r.now \in 0..clock /\ clock \in Nat /\ ls.gen \in Nat /\ IInv
  BY Locals DEF DInv
<1>2. ASSUME NEW root \in Names, NEW zeroDepth \in BOOLEAN, NEW d \in Durations,
             Create(r.now, root, zeroDepth, d)
      PROVE  TimedOut(t)
  <2>1. PICK E : /\ Expired(ls, E, r.now)
                 /\ LocksLeft(ls, ls', E, {}) \/ LockAdded(ls, ls', E, root, zeroDepth, d)
    BY <1>1, <1>2, CreateDoes
  <2>2. t \in E
    BY <2>1 DEF LocksLeft, LockAdded
  <2> QED
    BY <1>1, <2>1, <2>2, ExpiredTimedOut
<1>3. ASSUME NEW now \in 0..clock, NEW u, Unlock(now, u)
      PROVE  TimedOut(t) \/ t = u
  <2>1. PICK E : /\ Expired(ls, E, now)
                 /\ LocksLeft(ls, ls', E, {}) \/ LocksLeft(ls, ls', E \cup {u}, {})
    BY <1>1, <1>3, UnlockDoes
  <2>2. t \in E \/ t = u
    BY <2>1 DEF LocksLeft
  <2> QED
    BY <2>1, <2>2, ExpiredTimedOut
<1> HIDE DEF r
<1>4. CASE lockSrc(c)
  <2>1. r.pc = "lockSrc" /\ Create(r.now, confirmedSrc(r), TRUE, infiniteTimeout)
    BY <1>4 DEF lockSrc, lock, r
  <2>2. confirmedSrc(r) \in Names
    BY <1>1, <2>1 DEF ConnOK, Confirmed
  <2> QED
    BY <1>2, <2>1, <2>2, DavAssumption
<1>5. CASE lockDst(c)
  <2>1. r.pc = "lockDst" /\ Create(r.now, confirmedDst(r), TRUE, infiniteTimeout)
    BY <1>5 DEF lockDst, lock, r
  <2>2. confirmedDst(r) \in Names
    BY <1>1, <2>1 DEF ConnOK, Confirmed
  <2> QED
    BY <1>2, <2>1, <2>2, DavAssumption
<1>6. CASE rejectIf(c) \/ Stat(c) \/ StatParent(c) \/ Apply(c) \/ GiveUp(c)
  BY <1>6 DEF rejectIf, Stat, StatParent, Apply, GiveUp, vars
<1>7. CASE confirmIf(c)
  <2> DEFINE S == [tag : Names \cup {NoName, Foreign, Outside}, conditions : Seq(granted)]
             l == Head(r.lists)
             lsrc == IF l.tag = NoName THEN confirmedSrc(r) ELSE l.tag
  <2>1. /\ r.pc = "confirm" /\ r.lists # <<>> /\ l.tag \in Names \cup {NoName}
        /\ \E now \in r.now..clock : Confirm(now, lsrc, confirmedDst(r), l.conditions)
    BY <1>7 DEF confirmIf, r
  <2>2. r.lists \in Seq(S) /\ Confirmed(r) \subseteq Names
    BY <1>1, <2>1 DEF ConnOK
  <2>3. l \in S
    <3> HIDE DEF S
    <3> QED
      BY <2>1, <2>2
  <2>4. DOMAIN l.conditions \subseteq Nat
    <3>1. l.conditions \in Seq(granted)
      BY <2>3
    <3> HIDE DEF l
    <3> QED
      BY <3>1
  <2> HIDE DEF l
  <2>5. lsrc \in Names \cup {NoName} /\ confirmedDst(r) \in Names \cup {NoName}
    BY <2>1, <2>2 DEF Confirmed
  <2> HIDE DEF lsrc
  <2>6. PICK now \in r.now..clock : Confirm(now, lsrc, confirmedDst(r), l.conditions)
    BY <2>1
  <2>7. now \in 0..clock
    BY <1>1
  <2>8. PICK E : ConfirmEffect(E, now, lsrc, confirmedDst(r), l.conditions)
    BY <1>1, <2>4, <2>5, <2>6, <2>7, ConfirmDoes
  <2>9. Expired(ls, E, now) /\ t \in E
    BY <2>8 DEF ConfirmEffect, LocksLeft
  <2> QED
    BY <2>7, <2>9, ExpiredTimedOut
<1>8. CASE unlockDst(c)
  <2>1. r.pc = "unlockDst" /\ Unlock(r.now, r.dstToken)
    BY <1>8 DEF unlockDst, r
  <2>2. r.dstToken # t
    BY <1>1, <2>1 DEF ConnOK, SecretOK, Temporary
  <2> QED
    BY <1>1, <1>3, <2>1, <2>2 DEF r
<1>9. CASE unlockSrc(c)
  <2>1. r.pc = "unlockSrc" /\ Unlock(r.now, r.srcToken)
    BY <1>9 DEF unlockSrc, r
  <2>2. r.srcToken # t
    BY <1>1, <2>1 DEF ConnOK, SecretOK, Temporary
  <2> QED
    BY <1>1, <1>3, <2>1, <2>2 DEF r
<1>10. CASE releaseClaim(c)
  <2>1. r.pc = "release" /\ Release(r.claim)
    BY <1>10 DEF releaseClaim, r
  <2>2. r.claim \in claims
    BY <1>1, <2>1 DEF ConnOK, DInv, r
  <2>3. LocksLeft(ls, ls', {}, {})
    BY <1>1, <2>1, <2>2, ReleaseDoes
  <2> QED
    BY <2>3 DEF LocksLeft
<1>11. CASE lockCreate(c)
  <2>1. r.pc = "lock" /\ Create(r.now, Target(r), r.zeroDepth, r.duration)
    BY <1>11 DEF lockCreate, r
  <2>2. Target(r) \in Names /\ r.zeroDepth \in BOOLEAN /\ r.duration \in Durations
    BY <1>1, <2>1 DEF ConnOK
  <2> QED
    BY <1>2, <2>1, <2>2
<1>12. CASE lockRefresh(c)
  <2>1. r.pc = "refresh" /\ Refresh(r.now, r.token, r.duration)
    BY <1>12 DEF lockRefresh, r
  <2>2. r.duration \in Durations
    BY <1>1, <2>1 DEF ConnOK
  <2>3. PICK E : Expired(ls, E, r.now) /\ LocksLeft(ls, ls', E, {r.token})
    BY <1>1, <2>1, <2>2, RefreshDoes
  <2>4. t \in E
    BY <2>3 DEF LocksLeft
  <2> QED
    BY <1>1, <2>3, <2>4, ExpiredTimedOut
<1>13. CASE unlockToken(c)
  <2>1. r.pc = "unlock" /\ \E now \in r.now..clock : Unlock(now, r.token)
    BY <1>13 DEF unlockToken, r
  <2>2. PICK now \in r.now..clock : Unlock(now, r.token)
    BY <2>1
  <2>3. now \in 0..clock
    BY <1>1
  <2>4. TimedOut(t) \/ t = r.token
    BY <1>3, <2>2, <2>3 DEF r
  <2> QED
    BY <2>1, <2>4 DEF r
<1> QED
  BY <1>4, <1>5, <1>6, <1>7, <1>8, <1>9, <1>10, <1>11, <1>12, <1>13 DEF Handle

\* A lock that a LOCK granted stays until its timeout has passed or an UNLOCK names its
\* token: no request of another client, and no release of a claim on it, takes it away.
THEOREM ClientsKeepTheirLocks == DavSpec => ClientLocksStay
<1> DEFINE Stays == \A t \in granted \cap DOMAIN ls.byToken :
                       t \notin DOMAIN ls'.byToken
                       => LET n == ls.byName[ls.byToken[t]]
                          IN  \/ n.duration >= 0 /\ n.expiry <= clock
                              \/ \E c \in Conns : conn[c].pc = "unlock" /\ conn[c].token = t
<1>1. ASSUME DInv, [DavNext]_davVars, NEW t \in granted \cap DOMAIN ls.byToken,
             t \notin DOMAIN ls'.byToken
      PROVE  TimedOut(t) \/ \E c \in Conns : conn[c].pc = "unlock" /\ conn[c].token = t
  <2>1. CASE DavTick \/ UNCHANGED davVars \/ \E c \in Conns : ServeHTTP(c)
    <3>1. ASSUME NEW c \in Conns, ServeHTTP(c) PROVE \E r : Receive(c, r)
      BY <3>1, Zenon DEF ServeHTTP, handleDelete, handlePut, handleMkcol, handleProppatch,
                         handleCopyMove, handleLock, handleRefresh, handleUnlock
    <3>2. ls' = ls
      BY <2>1, <3>1 DEF DavTick, Tick, davVars, vars, Receive
    <3> QED
      BY <1>1, <3>2
  <2>2. ASSUME NEW c \in Conns, Handle(c)
        PROVE  TimedOut(t) \/ (conn[c].pc = "unlock" /\ conn[c].token = t)
    BY <1>1, <2>2, ClientLockGoes
  <2> QED
    BY <1>1, <2>1, <2>2 DEF DavNext
<1>2. ASSUME DInv, [DavNext]_davVars PROVE Stays
  BY <1>1, <1>2 DEF TimedOut
<1>3. DInv /\ [DavNext]_davVars => [Stays]_davVars
  BY <1>2
<1> HIDE DEF Stays
<1>4. DavSpec => [][Stays]_davVars
  BY <1>3, DavInductive, PTL DEF DavSpec
<1> QED
  BY <1>4 DEF ClientLocksStay, Stays
=============================================================================
