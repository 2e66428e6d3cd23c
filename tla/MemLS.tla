------------------------------- MODULE MemLS -------------------------------
(***************************************************************************)
(* memLS, the in-memory lock system of the WebDAV server                   *)
(* (server/webdav/lock.go).                                                *)
(*                                                                         *)
(* A resource name is a cleaned path: the sequence of its segments, with   *)
(* <<>> for "/".  Every method of memLS runs under memLS.mu, so each is    *)
(* one action here; "ls" is the whole of the struct.  A node is identified *)
(* by its name: a *memLSNode that a release closure still points to is     *)
(* held, and HeldNodesStay shows that such a node is never taken out of    *)
(* byName.  Callers read the clock before they take the mutex, so the      *)
(* "now" of a call is any instant up to the present one.                   *)
(***************************************************************************)
EXTENDS Integers, Sequences, FiniteSets

CONSTANTS Segments,   \* path segments
          Names,      \* the cleaned resource names, closed under parents
          NoName,     \* the empty name of Confirm, and the nil node pointer
          Durations,  \* the timeouts that LOCK requests ask for
          MaxTime,    \* bound on the clock
          MaxGen,     \* bound on the number of tokens issued
          MaxClaims   \* bound on the releases outstanding at a time

infiniteTimeout == -1
NoToken == 0          \* the empty token string: the node is not locked

ASSUME NamesAssumption ==
    /\ Names \subseteq Seq(Segments)
    /\ NoName \notin Names
    /\ \A n \in Names : \A k \in 0..Len(n) : SubSeq(n, 1, k) \in Names

ASSUME BoundsAssumption ==
    /\ Durations \subseteq Nat \cup {infiniteTimeout}
    /\ MaxTime \in Nat
    /\ MaxGen \in Nat
    /\ MaxClaims \in Nat

VARIABLES ls,      \* the memLS struct
          claims,  \* the release closures returned by Confirm and not yet called
          clock    \* the wall clock

vars == <<ls, claims, clock>>

Tokens == Nat \ {NoToken}

memLSNode == [zeroDepth : BOOLEAN, duration : Nat \cup {infiniteTimeout},
              token : Nat, refCount : Nat, expiry : Nat, held : BOOLEAN]

-----------------------------------------------------------------------------
(***************************************************************************)
(* Names                                                                   *)
(***************************************************************************)

\* The names that walkToRoot visits: the name itself and its ancestors.
walkToRoot(name) == {SubSeq(name, 1, k) : k \in 0..Len(name)}

\* strings.HasPrefix(name, root+"/")
Below(name, root) ==
    /\ Len(root) < Len(name)
    /\ SubSeq(name, 1, Len(root)) = root

\* The lock on root covers name: the tests of lookup after the held one.
Covers(root, zeroDepth, name) ==
    \/ name = root
    \/ ~zeroDepth /\ (root = <<>> \/ Below(name, root))

-----------------------------------------------------------------------------
(***************************************************************************)
(* Operations on the struct s                                              *)
(***************************************************************************)

NewMemLS == [byName   |-> [n \in {} |-> 0],   \* name  -> node
             byToken  |-> [t \in {} |-> 0],   \* token -> name of its node
             byExpiry |-> {},                 \* names of the nodes in the heap
             gen      |-> 0,                  \* tokens issued so far
             panicked |-> FALSE]              \* "inconsistent held state"

Locked(s) == {n \in DOMAIN s.byName : s.byName[n].token # NoToken}

\* The count of m once the locks in E are gone: each lock loses one count at
\* every name on its way to the root.
refsLeft(s, E, m) ==
    s.byName[m].refCount - Cardinality({n \in E : m \in walkToRoot(n)})

\* byToken once the locks in E are gone.
tokensLeft(s, E) ==
    [t \in DOMAIN s.byToken \ {s.byName[n].token : n \in E} |-> s.byToken[t]]

\* The heap once the locks in E are gone.  (Mutant: nothing is removed.)
heapLeft_All(s, E) == s.byExpiry

heapLeft(s, E) == s.byExpiry \ E

\* remove, for every node of the set E.
remove(s, E) ==
    [byName   |-> [m \in {x \in DOMAIN s.byName : refsLeft(s, E, x) # 0} |->
                     [s.byName[m] EXCEPT
                        !.refCount = refsLeft(s, E, m),
                        !.token = IF m \in E THEN NoToken ELSE @]],
     byToken  |-> tokensLeft(s, E),
     byExpiry |-> heapLeft(s, E),
     gen      |-> s.gen,
     panicked |-> s.panicked]

\* Mutant: a lock is collected one instant early.
collectExpiredNodes_Early(s, now) ==
    remove(s, {n \in s.byExpiry : s.byName[n].expiry <= now + 1})

collectExpiredNodes(s, now) ==
    remove(s, {n \in s.byExpiry : s.byName[n].expiry <= now})

\* The token names a lock that no request holds and that covers the name.
\* (Mutant: the held flag is not looked at.)
matches_EvenHeld(s, name, token) ==
    /\ token \in DOMAIN s.byToken
    /\ LET n == s.byToken[token] IN Covers(n, s.byName[n].zeroDepth, name)

matches(s, name, token) ==
    /\ token \in DOMAIN s.byToken
    /\ LET n == s.byToken[token]
       IN  ~s.byName[n].held /\ Covers(n, s.byName[n].zeroDepth, name)

\* The conditions are a sequence of tokens; the first that matches wins.
lookup(s, name, conditions) ==
    LET hits == {i \in DOMAIN conditions : matches(s, name, conditions[i])}
    IN  IF name = NoName \/ hits = {} THEN NoName
        ELSE s.byToken[conditions[CHOOSE i \in hits : \A j \in hits : i <= j]]

\* Mutant: the held node stays in the heap, where it can expire.
hold_StaysInHeap(s, n) ==
    IF n = NoName THEN s
    ELSE IF s.byName[n].held THEN [s EXCEPT !.panicked = TRUE]
    ELSE [s EXCEPT !.byName[n].held = TRUE]

hold(s, n) ==
    IF n = NoName THEN s
    ELSE IF s.byName[n].held THEN [s EXCEPT !.panicked = TRUE]
    ELSE [s EXCEPT !.byName[n].held = TRUE, !.byExpiry = @ \ {n}]

unhold(s, n) ==
    IF n = NoName THEN s
    ELSE IF n \notin DOMAIN s.byName \/ ~s.byName[n].held
    THEN [s EXCEPT !.panicked = TRUE]
    ELSE [s EXCEPT !.byName[n].held = FALSE,
                   !.byExpiry = IF s.byName[n].duration >= 0
                                THEN @ \cup {n} ELSE @]

\* Mutants: the ancestors' locks, or the locks below the target of an infinite
\* lock, are not looked at.
canCreate_TargetOnly(s, name, zeroDepth) ==
    name \in DOMAIN s.byName => s.byName[name].token = NoToken /\ zeroDepth

canCreate_NotBelow(s, name, zeroDepth) ==
    \A m \in walkToRoot(name) \cap DOMAIN s.byName :
        s.byName[m].token = NoToken \/ (m # name /\ s.byName[m].zeroDepth)

canCreate(s, name, zeroDepth) ==
    \A m \in walkToRoot(name) \cap DOMAIN s.byName :
        IF m = name THEN s.byName[m].token = NoToken /\ zeroDepth
        ELSE s.byName[m].token = NoToken \/ s.byName[m].zeroDepth

freshNode == [zeroDepth |-> FALSE, duration |-> 0, token |-> NoToken,
              refCount |-> 0, expiry |-> 0, held |-> FALSE]

\* create: byName with one more count at every name on the way to the root.
create(s, name) ==
    [m \in DOMAIN s.byName \cup walkToRoot(name) |->
        LET n == IF m \in DOMAIN s.byName THEN s.byName[m] ELSE freshNode
        IN  IF m \in walkToRoot(name) THEN [n EXCEPT !.refCount = @ + 1] ELSE n]

\* The node with a new duration, and the heap that goes with it.
\* (Mutant: a refresh to an infinite timeout leaves the node in the heap.)
renewed(n, now, duration) ==
    [n EXCEPT !.duration = duration,
              !.expiry = IF duration >= 0 THEN now + duration ELSE @]

heapWith_NoRemove(s, name, duration) ==
    IF duration >= 0 THEN s.byExpiry \cup {name} ELSE s.byExpiry

heapWith(s, name, duration) ==
    IF duration >= 0 THEN s.byExpiry \cup {name} ELSE s.byExpiry \ {name}

\* The part of Create after canCreate has agreed.
addLock(s, now, root, zeroDepth, duration) ==
    LET token == s.gen + 1
    IN  [byName   |-> [create(s, root) EXCEPT ![root] =
                         renewed([@ EXCEPT !.token = token, !.zeroDepth = zeroDepth],
                                 now, duration)],
         byToken  |-> [t \in DOMAIN s.byToken \cup {token} |->
                         IF t = token THEN root ELSE s.byToken[t]],
         byExpiry |-> heapWith(s, root, duration),
         gen      |-> token,
         panicked |-> s.panicked]

-----------------------------------------------------------------------------
(***************************************************************************)
(* The methods                                                             *)
(***************************************************************************)

Create(now, root, zeroDepth, duration) ==
    LET s == collectExpiredNodes(ls, now)
    IN  /\ ls.gen < MaxGen
        /\ ls' = IF canCreate(s, root, zeroDepth)
                 THEN addLock(s, now, root, zeroDepth, duration) ELSE s
        /\ UNCHANGED <<claims, clock>>

\* "Don't hold the same node twice."  (Mutant: hold it twice.)
second_Twice(n0, n1) == n1

second(n0, n1) == IF n1 = n0 THEN NoName ELSE n1

\* name0 or name1 may be the empty name, which is ignored.
Confirm(now, name0, name1, conditions) ==
    LET s  == collectExpiredNodes(ls, now)
        n0 == lookup(s, name0, conditions)
        n1 == lookup(s, name1, conditions)
        failed == (name0 # NoName /\ n0 = NoName) \/ (name1 # NoName /\ n1 = NoName)
    IN  /\ Cardinality(claims) < MaxClaims
        /\ ls' = IF failed THEN s ELSE hold(hold(s, n0), second(n0, n1))
        /\ claims' = IF failed THEN claims
                     ELSE claims \cup {[names |-> {name0, name1} \ {NoName},
                                        n0 |-> n0, n1 |-> second(n0, n1)]}
        /\ UNCHANGED clock

\* The closure that Confirm returned.
Release(c) ==
    /\ ls' = unhold(unhold(ls, c.n1), c.n0)
    /\ claims' = claims \ {c}
    /\ UNCHANGED clock

\* Refresh and Unlock go on only if the token names a lock (ErrNoSuchLock) that
\* no request holds (ErrLocked).  (Mutant: a held lock will do.)
free_EvenHeld(s, token) == token \in DOMAIN s.byToken

free(s, token) == token \in DOMAIN s.byToken /\ ~s.byName[s.byToken[token]].held

Refresh(now, token, duration) ==
    LET s == collectExpiredNodes(ls, now)
    IN  /\ ls' = IF free(s, token)
                 THEN [s EXCEPT
                         !.byName[s.byToken[token]] = renewed(@, now, duration),
                         !.byExpiry = heapWith(s, s.byToken[token], duration)]
                 ELSE s
        /\ UNCHANGED <<claims, clock>>

Unlock(now, token) ==
    LET s == collectExpiredNodes(ls, now)
    IN  /\ ls' = IF free(s, token) THEN remove(s, {s.byToken[token]}) ELSE s
        /\ UNCHANGED <<claims, clock>>

Tick == /\ clock < MaxTime
        /\ clock' = clock + 1
        /\ UNCHANGED <<ls, claims>>

-----------------------------------------------------------------------------
Init == /\ ls = NewMemLS
        /\ claims = {}
        /\ clock = 0

Issued == 1..ls.gen   \* the tokens a client can present

\* The conditions of an If list: one token, or two so that name0 and name1 can
\* be confirmed by different locks.
Conditions == {<<t>> : t \in Issued}
               \cup {p \in Issued \X Issued : p[1] # p[2]}

Next ==
    \/ \E now \in 0..clock, root \in Names, zeroDepth \in BOOLEAN, d \in Durations :
           Create(now, root, zeroDepth, d)
    \/ \E now \in 0..clock, name0, name1 \in Names \cup {NoName} :
           /\ {name0, name1} # {NoName}
           /\ \E conditions \in Conditions : Confirm(now, name0, name1, conditions)
    \/ \E c \in claims : Release(c)
    \/ \E now \in 0..clock, t \in Issued, d \in Durations : Refresh(now, t, d)
    \/ \E now \in 0..clock, t \in Issued : Unlock(now, t)
    \/ Tick

Spec == Init /\ [][Next]_vars

-----------------------------------------------------------------------------
(***************************************************************************)
(* Properties                                                              *)
(***************************************************************************)

StructOK(s) ==
    /\ s = [byName |-> s.byName, byToken |-> s.byToken, byExpiry |-> s.byExpiry,
            gen |-> s.gen, panicked |-> s.panicked]
    /\ DOMAIN s.byName \subseteq Names
    /\ s.byName \in [DOMAIN s.byName -> memLSNode]
    /\ DOMAIN s.byToken \subseteq 1..s.gen
    /\ s.byToken \in [DOMAIN s.byToken -> Names]
    /\ s.byExpiry \subseteq DOMAIN s.byName
    /\ s.gen \in Nat
    /\ s.panicked \in BOOLEAN

claimType == [names : SUBSET Names, n0 : Names \cup {NoName},
              n1 : Names \cup {NoName}]

\* The struct and the outstanding claims are well formed.
TypeOK ==
    /\ StructOK(ls)
    /\ claims \subseteq claimType
    /\ clock \in Nat

\* The locks on n or below it.
LocksBelow(s, n) == {m \in Locked(s) : n \in walkToRoot(m)}

\* "refCount is the number of self-or-descendent nodes that are explicitly
\* locked" (lock.go:375), and a node is in byName exactly while it is not zero.
RefCountsOK(s) ==
    /\ \A n \in Names : n \in DOMAIN s.byName <=> LocksBelow(s, n) # {}
    /\ \A n \in DOMAIN s.byName :
           s.byName[n].refCount = Cardinality(LocksBelow(s, n))

RefCountExact == RefCountsOK(ls)

\* byToken is the inverse of the token field: a token names exactly one lock.
TokensOK(s) ==
    /\ \A t \in DOMAIN s.byToken : /\ s.byToken[t] \in Locked(s)
                                   /\ s.byName[s.byToken[t]].token = t
    /\ \A n \in Locked(s) : /\ s.byName[n].token \in DOMAIN s.byToken
                            /\ s.byToken[s.byName[n].token] = n

TokensExact == TokensOK(ls)

\* The expiry heap holds exactly the locks that time may remove: those with a
\* finite duration that no Confirm holds.
HeapOK(s) ==
    s.byExpiry = {n \in Locked(s) : s.byName[n].duration >= 0 /\ ~s.byName[n].held}

HeapExact == HeapOK(ls)

\* The three indexes of memLS describe the same set of locks.
IndexesExact == RefCountExact /\ TokensExact /\ HeapExact

\* The resources that a lock on n covers.
Region(n, zeroDepth) == {m \in Names : Covers(n, zeroDepth, m)}

\* No resource is covered by two locks, whatever was created, expired,
\* refreshed and unlocked before.
Disjoint(s) ==
    \A m, n \in Locked(s) :
        m # n => Region(m, s.byName[m].zeroDepth) \cap Region(n, s.byName[n].zeroDepth) = {}

NoConflictingLocks == Disjoint(ls)

\* canCreate, which only looks at the nodes between the name and the root,
\* refuses exactly the locks whose resources overlap those of a lock in place.
CanCreateExact ==
    \A name \in Names, zeroDepth \in BOOLEAN :
        canCreate(ls, name, zeroDepth)
          <=> \A n \in Locked(ls) :
                 Region(n, ls.byName[n].zeroDepth) \cap Region(name, zeroDepth) = {}

\* "Exclusive access to all of the named resources" (lock.go:43): while two
\* releases are outstanding they were confirmed for different resources.
ConfirmExclusive ==
    \A c, d \in claims : c # d => c.names \cap d.names = {}

HeldNodes(s) == {n \in DOMAIN s.byName : s.byName[n].held}

ClaimedNodes(c) == {c.n0, c.n1} \ {NoName}

\* A node is held exactly while one outstanding release will unhold it, so no
\* call panics with "inconsistent held state".
HeldExact ==
    /\ ~ls.panicked
    /\ HeldNodes(ls) = UNION {ClaimedNodes(c) : c \in claims}
    /\ \A c, d \in claims : c # d => ClaimedNodes(c) \cap ClaimedNodes(d) = {}

\* No step removes or changes a lock that a Confirm holds.
HeldNodesStay ==
    [][\A n \in HeldNodes(ls) :
          /\ n \in DOMAIN ls'.byName
          /\ ls'.byName[n].token = ls.byName[n].token
          /\ ls'.byName[n].zeroDepth = ls.byName[n].zeroDepth
          /\ ls'.byName[n].duration = ls.byName[n].duration]_vars

\* A lock goes away only through an Unlock of its own token, or because its
\* timeout has passed by the wall clock.
GoneOnlyWhenDue ==
    [][\A t \in DOMAIN ls.byToken \ DOMAIN ls'.byToken :
          LET n == ls.byName[ls.byToken[t]]
          IN  \/ n.duration >= 0 /\ n.expiry <= clock
              \/ \E now \in 0..clock : Unlock(now, t)]_vars

-----------------------------------------------------------------------------
(***************************************************************************)
(* memLS implements the lock table: a lock is its token and the resources  *)
(* it covers; the claimed ones are those of the held nodes.                *)
(***************************************************************************)
TableLocks == [t \in DOMAIN ls.byToken |->
                  Region(ls.byToken[t], ls.byName[ls.byToken[t]].zeroDepth)]

TableClaimed == {ls.byName[n].token : n \in HeldNodes(ls)}

Table == INSTANCE LockTable WITH
    Regions <- {Region(n, zeroDepth) : n \in Names, zeroDepth \in BOOLEAN},
    locks   <- TableLocks,
    claimed <- TableClaimed,
    issued  <- ls.gen

\* Every step of memLS is a step of the lock table or leaves it alone.
ImplementsLockTable == Table!TableSpec
=============================================================================
