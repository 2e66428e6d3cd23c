---------------------------- MODULE MemLSProofs ----------------------------
(***************************************************************************)
(* Proofs about memLS, for every set of names, durations and bounds.       *)
(***************************************************************************)
EXTENDS MemLS, TLAPS, FiniteSetTheorems, SequenceTheorems, WellFoundedInduction

\* The names that walkToRoot visits are the prefixes of the name.
LEMMA WalkIsPrefix ==
    ASSUME NEW m \in Names, NEW n \in Names
    PROVE  m \in walkToRoot(n) <=> /\ Len(m) <= Len(n)
                                   /\ \A i \in 1..Len(m) : m[i] = n[i]
<1> m \in Seq(Segments) /\ n \in Seq(Segments)
  BY NamesAssumption
<1>1. ASSUME m \in walkToRoot(n)
      PROVE  Len(m) <= Len(n) /\ \A i \in 1..Len(m) : m[i] = n[i]
  <2>1. PICK k \in 0..Len(n) : m = SubSeq(n, 1, k)
    BY <1>1 DEF walkToRoot
  <2>2. Len(m) = k /\ \A i \in 1..k : m[i] = n[i]
    BY <2>1
  <2> QED
    BY <2>2
<1>2. ASSUME Len(m) <= Len(n), \A i \in 1..Len(m) : m[i] = n[i]
      PROVE  m \in walkToRoot(n)
  <2>1. Len(m) \in 0..Len(n)
    BY <1>2
  <2>2. m = SubSeq(n, 1, Len(m))
    BY <1>2, <2>1
  <2> QED
    BY <2>1, <2>2 DEF walkToRoot
<1> QED
  BY <1>1, <1>2

\* walkToRoot as an order: it contains the name, is transitive, visits a chain,
\* and stays within Names.
LEMMA WalkOrder ==
    ASSUME NEW n \in Names
    PROVE  /\ n \in walkToRoot(n)
           /\ walkToRoot(n) \subseteq Names
           /\ \A m \in Names, x \in Names :
                 m \in walkToRoot(n) /\ x \in walkToRoot(m) => x \in walkToRoot(n)
           /\ \A m \in Names, x \in Names :
                 m \in walkToRoot(n) /\ x \in walkToRoot(n)
                   => m \in walkToRoot(x) \/ x \in walkToRoot(m)
           /\ \A m \in Names :
                 m \in walkToRoot(n) /\ n \in walkToRoot(m) => m = n
<1> \A x \in Names : x \in Seq(Segments) /\ Len(x) \in Nat
  BY NamesAssumption
<1>1. walkToRoot(n) \subseteq Names
  BY NamesAssumption DEF walkToRoot
<1>2. n \in walkToRoot(n)
  BY WalkIsPrefix
<1>3. ASSUME NEW m \in Names, NEW x \in Names, m \in walkToRoot(n), x \in walkToRoot(m)
      PROVE  x \in walkToRoot(n)
  BY <1>3, WalkIsPrefix
<1>4. ASSUME NEW m \in Names, NEW x \in Names, m \in walkToRoot(n), x \in walkToRoot(n)
      PROVE  m \in walkToRoot(x) \/ x \in walkToRoot(m)
  BY <1>4, WalkIsPrefix
<1>5. ASSUME NEW m \in Names, m \in walkToRoot(n), n \in walkToRoot(m)
      PROVE  m = n
  <2>1. Len(m) = Len(n) /\ \A i \in 1..Len(m) : m[i] = n[i]
    BY <1>5, WalkIsPrefix
  <2> QED
    BY <2>1
<1> QED
  BY <1>1, <1>2, <1>3, <1>4, <1>5

\* lookup's test on the text of names agrees with walkToRoot's.
LEMMA CoversIsWalk ==
    ASSUME NEW root \in Names, NEW zeroDepth \in BOOLEAN, NEW name \in Names
    PROVE  Covers(root, zeroDepth, name)
             <=> name = root \/ (~zeroDepth /\ root \in walkToRoot(name))
<1> root \in Seq(Segments) /\ name \in Seq(Segments)
  BY NamesAssumption
<1>1. root = <<>> => root \in walkToRoot(name)
  BY WalkIsPrefix
<1>2. Below(name, root) => root \in walkToRoot(name)
  <2> SUFFICES ASSUME Below(name, root) PROVE root \in walkToRoot(name)
    OBVIOUS
  <2>1. Len(root) \in 0..Len(name)
    BY DEF Below
  <2> QED
    BY <2>1 DEF Below, walkToRoot
<1>3. root \in walkToRoot(name) /\ name # root => Below(name, root)
  <2> SUFFICES ASSUME root \in walkToRoot(name), name # root PROVE Below(name, root)
    OBVIOUS
  <2>1. PICK k \in 0..Len(name) : root = SubSeq(name, 1, k)
    BY DEF walkToRoot
  <2>2. Len(root) = k
    BY <2>1
  <2>3. k # Len(name)
    BY <2>1, SubSeqFull
  <2> QED
    BY <2>1, <2>2, <2>3 DEF Below
<1> QED
  BY <1>1, <1>2, <1>3 DEF Covers

-----------------------------------------------------------------------------
(***************************************************************************)
(* The invariant of the struct, and what the operations on it preserve.    *)
(***************************************************************************)

HeldAreLocked(s) == HeldNodes(s) \subseteq Locked(s)

SInv(s) == /\ StructOK(s)
           /\ IsFiniteSet(Locked(s))
           /\ RefCountsOK(s)
           /\ TokensOK(s)
           /\ HeapOK(s)
           /\ HeldAreLocked(s)
           /\ Disjoint(s)

\* The held locks of s are in r as they were.
HeldSame(s, r) ==
    /\ HeldNodes(r) = HeldNodes(s)
    /\ r.panicked = s.panicked
    /\ \A n \in HeldNodes(s) : /\ r.byName[n].token = s.byName[n].token
                               /\ r.byName[n].zeroDepth = s.byName[n].zeroDepth
                               /\ r.byName[n].duration = s.byName[n].duration

\* Removing a subset from a finite set takes its size off the cardinality.
LEMMA CardDifference ==
    ASSUME NEW A, NEW B, IsFiniteSet(A), B \subseteq A
    PROVE  /\ IsFiniteSet(A \ B)
           /\ Cardinality(A \ B) \in Nat
           /\ Cardinality(A) - Cardinality(B) = Cardinality(A \ B)
<1>1. IsFiniteSet(B) /\ IsFiniteSet(A \ B)
  BY FS_Subset
<1>2. Cardinality(A) = Cardinality(B) + Cardinality(A \ B) - Cardinality(B \cap (A \ B))
  <2>1. B \cup (A \ B) = A
    OBVIOUS
  <2> QED
    BY <1>1, <2>1, FS_Union
<1>3. Cardinality(B \cap (A \ B)) = 0
  <2>1. B \cap (A \ B) = {}
    OBVIOUS
  <2> QED
    BY <2>1, FS_EmptySet
<1> QED
  BY <1>1, <1>2, <1>3, FS_CardinalityType

\* The count that remove leaves at m is the number of remaining locks below m.
LEMMA RefsLeft ==
    ASSUME NEW s, SInv(s), NEW E, E \subseteq Locked(s), NEW m \in DOMAIN s.byName
    PROVE  /\ IsFiniteSet(LocksBelow(s, m) \ E)
           /\ refsLeft(s, E, m) = Cardinality(LocksBelow(s, m) \ E)
           /\ refsLeft(s, E, m) \in Nat
           /\ refsLeft(s, E, m) # 0 <=> LocksBelow(s, m) \ E # {}
<1> DEFINE A == LocksBelow(s, m)
           B == {n \in E : m \in walkToRoot(n)}
<1>1. IsFiniteSet(A) /\ B \subseteq A /\ A \ B = A \ E
  BY FS_Subset DEF SInv, LocksBelow
<1>2. refsLeft(s, E, m) = Cardinality(A) - Cardinality(B)
  BY DEF SInv, RefCountsOK, refsLeft
<1> HIDE DEF A, B
<1>3. refsLeft(s, E, m) = Cardinality(A \ E) /\ Cardinality(A \ E) \in Nat /\ IsFiniteSet(A \ E)
  BY <1>1, <1>2, CardDifference
<1>4. Cardinality(A \ E) # 0 <=> A \ E # {}
  BY <1>3, FS_EmptySet
<1> QED
  BY <1>3, <1>4 DEF A

\* remove takes away the locks in E and nothing else.
Removed(s, E, r) ==
    /\ r = [byName |-> r.byName, byToken |-> r.byToken, byExpiry |-> r.byExpiry,
            gen |-> r.gen, panicked |-> r.panicked]
    /\ r.gen = s.gen
    /\ r.panicked = s.panicked
    /\ r.byExpiry = s.byExpiry \ E
    /\ r.byToken = tokensLeft(s, E)
    /\ DOMAIN r.byName = {m \in DOMAIN s.byName : LocksBelow(s, m) \ E # {}}
    /\ \A m \in DOMAIN r.byName :
          /\ r.byName[m] \in memLSNode
          /\ r.byName[m].refCount = Cardinality(LocksBelow(s, m) \ E)
          /\ r.byName[m].token = IF m \in E THEN NoToken ELSE s.byName[m].token
          /\ r.byName[m].zeroDepth = s.byName[m].zeroDepth
          /\ r.byName[m].duration = s.byName[m].duration
          /\ r.byName[m].expiry = s.byName[m].expiry
          /\ r.byName[m].held = s.byName[m].held

\* What remove leaves of the struct.
LEMMA RemoveFields ==
    ASSUME NEW s, SInv(s), NEW E, E \subseteq Locked(s)
    PROVE  Removed(s, E, remove(s, E))
<1> DEFINE r == remove(s, E)
           D == {x \in DOMAIN s.byName : refsLeft(s, E, x) # 0}
           F == [m \in D |-> [s.byName[m] EXCEPT
                               !.refCount = refsLeft(s, E, m),
                               !.token = IF m \in E THEN NoToken ELSE @]]
<1>1. r = [byName |-> F, byToken |-> tokensLeft(s, E), byExpiry |-> s.byExpiry \ E,
           gen |-> s.gen, panicked |-> s.panicked]
  BY DEF remove, heapLeft
<1>2. D = {m \in DOMAIN s.byName : LocksBelow(s, m) \ E # {}}
  BY RefsLeft
<1>3. ASSUME NEW m \in D
      PROVE  /\ F[m] \in memLSNode
             /\ F[m].refCount = Cardinality(LocksBelow(s, m) \ E)
             /\ F[m].token = IF m \in E THEN NoToken ELSE s.byName[m].token
             /\ F[m].zeroDepth = s.byName[m].zeroDepth
             /\ F[m].duration = s.byName[m].duration
             /\ F[m].expiry = s.byName[m].expiry
             /\ F[m].held = s.byName[m].held
  <2>1. s.byName[m] \in memLSNode
    BY DEF SInv, StructOK
  <2>2. refsLeft(s, E, m) = Cardinality(LocksBelow(s, m) \ E) /\ refsLeft(s, E, m) \in Nat
    BY RefsLeft
  <2> QED
    BY <2>1, <2>2 DEF memLSNode, NoToken
<1> HIDE DEF F, D
<1>4. DOMAIN F = D
  BY DEF F
<1>5. r.byName = F /\ r.byToken = tokensLeft(s, E) /\ r.byExpiry = s.byExpiry \ E
      /\ r.gen = s.gen /\ r.panicked = s.panicked
  BY <1>1
<1> HIDE DEF r
<1> QED
  BY <1>1, <1>2, <1>3, <1>4, <1>5 DEF Removed, r

\* remove of locks that nobody holds keeps the invariant.
LEMMA RemoveInv ==
    ASSUME NEW s, SInv(s), NEW E, E \subseteq Locked(s) \ HeldNodes(s)
    PROVE  LET r == remove(s, E)
           IN  /\ SInv(r)
               /\ Locked(r) = Locked(s) \ E
               /\ HeldSame(s, r)
               /\ DOMAIN r.byToken = DOMAIN s.byToken \ {s.byName[n].token : n \in E}
               /\ \A t \in DOMAIN r.byToken : r.byToken[t] = s.byToken[t]
               /\ r.gen = s.gen
<1> DEFINE r == remove(s, E)
<1>0. Removed(s, E, r)
  <2>1. E \subseteq Locked(s)
    OBVIOUS
  <2> QED
    BY <2>1, RemoveFields
<1> HIDE DEF r
<1>1. /\ r = [byName |-> r.byName, byToken |-> r.byToken, byExpiry |-> r.byExpiry,
              gen |-> r.gen, panicked |-> r.panicked]
      /\ r.gen = s.gen
      /\ r.panicked = s.panicked
      /\ r.byExpiry = s.byExpiry \ E
      /\ r.byToken = tokensLeft(s, E)
      /\ DOMAIN r.byName = {m \in DOMAIN s.byName : LocksBelow(s, m) \ E # {}}
  BY <1>0 DEF Removed
<1>2. \A m \in DOMAIN r.byName :
         /\ r.byName[m] \in memLSNode
         /\ r.byName[m].refCount = Cardinality(LocksBelow(s, m) \ E)
         /\ r.byName[m].token = IF m \in E THEN NoToken ELSE s.byName[m].token
         /\ r.byName[m].zeroDepth = s.byName[m].zeroDepth
         /\ r.byName[m].duration = s.byName[m].duration
         /\ r.byName[m].expiry = s.byName[m].expiry
         /\ r.byName[m].held = s.byName[m].held
  BY <1>0 DEF Removed
<1>3. Locked(s) \subseteq Names /\ Locked(s) \subseteq DOMAIN s.byName /\ DOMAIN s.byName \subseteq Names
  BY DEF SInv, StructOK, Locked
<1>4. Locked(r) = Locked(s) \ E
  <2>1. ASSUME NEW n \in Locked(s) \ E PROVE n \in DOMAIN r.byName
    <3>1. n \in LocksBelow(s, n) \ E
      BY <1>3, WalkOrder DEF LocksBelow
    <3> QED
      BY <3>1, <1>1, <1>3
  <2> QED
    BY <1>1, <1>2, <2>1 DEF Locked
<1>5. \A n : LocksBelow(r, n) = LocksBelow(s, n) \ E
  BY <1>4 DEF LocksBelow
<1>6. HeldNodes(r) = HeldNodes(s)
  <2>1. HeldNodes(s) \subseteq Locked(s) \ E
    BY DEF SInv, HeldAreLocked
  <2>2. HeldNodes(s) \subseteq DOMAIN r.byName
    BY <2>1, <1>4 DEF Locked
  <2> QED
    BY <2>2, <1>1, <1>2 DEF HeldNodes
<1>7. DOMAIN r.byToken = DOMAIN s.byToken \ {s.byName[n].token : n \in E}
      /\ \A t \in DOMAIN r.byToken : r.byToken[t] = s.byToken[t]
  BY <1>1 DEF tokensLeft
<1>8. TokensOK(r)
  <2>1. ASSUME NEW t \in DOMAIN r.byToken
        PROVE  r.byToken[t] \in Locked(r) /\ r.byName[r.byToken[t]].token = t
    <3>1. t \in DOMAIN s.byToken /\ s.byToken[t] \in Locked(s)
          /\ s.byName[s.byToken[t]].token = t
      BY <1>7 DEF SInv, TokensOK
    <3>2. s.byToken[t] \notin E
      BY <3>1, <1>7
    <3>3. s.byToken[t] \in Locked(r)
      BY <3>1, <3>2, <1>4
    <3> QED
      BY <3>1, <3>2, <3>3, <1>2, <1>7 DEF Locked
  <2>2. ASSUME NEW n \in Locked(r)
        PROVE  r.byName[n].token \in DOMAIN r.byToken /\ r.byToken[r.byName[n].token] = n
    <3>1. n \in Locked(s) /\ n \notin E /\ r.byName[n].token = s.byName[n].token
      BY <1>2, <1>4 DEF Locked
    <3>2. s.byName[n].token \in DOMAIN s.byToken /\ s.byToken[s.byName[n].token] = n
      BY <3>1 DEF SInv, TokensOK
    <3>3. \A x \in E : s.byToken[s.byName[x].token] = x
      BY DEF SInv, TokensOK
    <3>4. \A x \in E : s.byName[x].token # s.byName[n].token
      BY <3>1, <3>2, <3>3
    <3> QED
      BY <3>1, <3>2, <3>4, <1>7
  <2> QED
    BY <2>1, <2>2 DEF TokensOK
<1>9. HeapOK(r)
  <2>1. s.byExpiry = {n \in Locked(s) : s.byName[n].duration >= 0 /\ ~s.byName[n].held}
    BY DEF SInv, HeapOK
  <2>2. \A n \in Locked(r) : /\ r.byName[n].duration = s.byName[n].duration
                             /\ r.byName[n].held = s.byName[n].held
    BY <1>2 DEF Locked
  <2>3. r.byExpiry = {n \in Locked(r) : s.byName[n].duration >= 0 /\ ~s.byName[n].held}
    BY <2>1, <1>1, <1>4
  <2> QED
    BY <2>2, <2>3 DEF HeapOK
<1>10. StructOK(r)
  <2>1. r.byName \in [DOMAIN r.byName -> memLSNode]
    <3>1. r.byName = [m \in DOMAIN r.byName |-> r.byName[m]]
      BY DEF r, remove
    <3> QED
      BY <3>1, <1>2
  <2>2. r.byToken \in [DOMAIN r.byToken -> Names] /\ DOMAIN r.byToken \subseteq 1..r.gen
    BY <1>1, <1>7 DEF SInv, StructOK, tokensLeft
  <2>3. r.byExpiry \subseteq DOMAIN r.byName
    BY <1>9 DEF HeapOK, Locked
  <2> QED
    BY <1>1, <1>3, <2>1, <2>2, <2>3 DEF SInv, StructOK
<1>11. RefCountsOK(r)
  <2>1. \A n \in Names : n \in DOMAIN r.byName <=> LocksBelow(r, n) # {}
    <3>1. \A n \in Names : n \in DOMAIN s.byName <=> LocksBelow(s, n) # {}
      BY DEF SInv, RefCountsOK
    <3> QED
      BY <3>1, <1>1, <1>5
  <2> QED
    BY <2>1, <1>2, <1>5 DEF RefCountsOK
<1>12. IsFiniteSet(Locked(r))
  BY <1>4, FS_Subset DEF SInv
<1>13. HeldAreLocked(r)
  BY <1>4, <1>6 DEF SInv, HeldAreLocked
<1>14. Disjoint(r)
  <2>1. \A n \in Locked(r) : n \in Locked(s) /\ r.byName[n].zeroDepth = s.byName[n].zeroDepth
    BY <1>2, <1>4 DEF Locked
  <2> QED
    BY <2>1 DEF SInv, Disjoint
<1>15. HeldSame(s, r)
  <2>1. HeldNodes(s) \subseteq DOMAIN r.byName /\ HeldNodes(s) \cap E = {}
    BY <1>6 DEF HeldNodes
  <2> QED
    BY <2>1, <1>1, <1>2, <1>6 DEF HeldSame
<1> QED
  BY <1>1, <1>4, <1>7, <1>8, <1>9, <1>10, <1>11, <1>12, <1>13, <1>14, <1>15 DEF SInv, r

\* Collecting the expired locks keeps the invariant and the held locks.
LEMMA CollectInv ==
    ASSUME NEW s, SInv(s), NEW now
    PROVE  /\ SInv(collectExpiredNodes(s, now))
           /\ HeldSame(s, collectExpiredNodes(s, now))
           /\ collectExpiredNodes(s, now).gen = s.gen
<1> DEFINE E == {n \in s.byExpiry : s.byName[n].expiry <= now}
<1>1. E \subseteq Locked(s) \ HeldNodes(s)
  BY DEF SInv, HeapOK, HeldNodes
<1>2. collectExpiredNodes(s, now) = remove(s, E)
  BY DEF collectExpiredNodes
<1> HIDE DEF E
<1> QED
  BY <1>1, <1>2, RemoveInv

-----------------------------------------------------------------------------
\* Two regions overlap exactly when one root is the other's, or lies below a
\* root that is locked to infinite depth.
LEMMA Overlap ==
    ASSUME NEW m \in Names, NEW zm \in BOOLEAN, NEW n \in Names, NEW zn \in BOOLEAN
    PROVE  Region(m, zm) \cap Region(n, zn) # {}
             <=> \/ m = n
                 \/ ~zm /\ m \in walkToRoot(n)
                 \/ ~zn /\ n \in walkToRoot(m)
<1>1. ASSUME NEW x \in Region(m, zm) \cap Region(n, zn)
      PROVE  \/ m = n
             \/ ~zm /\ m \in walkToRoot(n)
             \/ ~zn /\ n \in walkToRoot(m)
  <2>1. x \in Names /\ Covers(m, zm, x) /\ Covers(n, zn, x)
    BY DEF Region
  <2>2. /\ x = m \/ (~zm /\ m \in walkToRoot(x))
        /\ x = n \/ (~zn /\ n \in walkToRoot(x))
    BY <2>1, CoversIsWalk
  <2>3. m \in walkToRoot(x) /\ n \in walkToRoot(x)
           => m \in walkToRoot(n) \/ n \in walkToRoot(m)
    BY <2>1, WalkOrder
  <2> QED
    BY <2>2, <2>3
<1>2. ASSUME m = n \/ (~zm /\ m \in walkToRoot(n))
      PROVE  n \in Region(m, zm) \cap Region(n, zn)
  BY <1>2, CoversIsWalk DEF Region
<1>3. ASSUME ~zn /\ n \in walkToRoot(m)
      PROVE  m \in Region(m, zm) \cap Region(n, zn)
  BY <1>3, CoversIsWalk DEF Region
<1> QED
  BY <1>1, <1>2, <1>3

\* canCreate refuses exactly the locks that would overlap one in place.
LEMMA CanCreate ==
    ASSUME NEW s, SInv(s), NEW name \in Names, NEW zeroDepth \in BOOLEAN
    PROVE  canCreate(s, name, zeroDepth)
             <=> \A n \in Locked(s) :
                    Region(n, s.byName[n].zeroDepth) \cap Region(name, zeroDepth) = {}
<1> DEFINE Apart(n) == /\ n # name
                       /\ n \in walkToRoot(name) => s.byName[n].zeroDepth
                       /\ name \in walkToRoot(n) => zeroDepth
<1>1. \A n \in Locked(s) : n \in Names /\ s.byName[n].zeroDepth \in BOOLEAN
                           /\ n \in DOMAIN s.byName /\ s.byName[n].token # NoToken
  BY DEF SInv, StructOK, Locked, memLSNode
<1>2. \A n \in Locked(s) :
         Region(n, s.byName[n].zeroDepth) \cap Region(name, zeroDepth) = {} <=> Apart(n)
  BY <1>1, Overlap
<1>3. ASSUME canCreate(s, name, zeroDepth), NEW n \in Locked(s) PROVE Apart(n)
  <2>1. \A m \in walkToRoot(name) \cap DOMAIN s.byName :
          IF m = name THEN s.byName[m].token = NoToken /\ zeroDepth
          ELSE s.byName[m].token = NoToken \/ s.byName[m].zeroDepth
    BY <1>3 DEF canCreate
  <2>2. n # name
    BY <2>1, <1>1, WalkOrder
  <2>3. n \in walkToRoot(name) => s.byName[n].zeroDepth
    BY <2>1, <2>2, <1>1
  <2>4. ASSUME name \in walkToRoot(n) PROVE zeroDepth
    <3>1. name \in DOMAIN s.byName
      BY <2>4 DEF SInv, RefCountsOK, LocksBelow
    <3> QED
      BY <3>1, <2>1, WalkOrder
  <2> QED
    BY <2>2, <2>3, <2>4
<1>4. ASSUME \A n \in Locked(s) : Apart(n) PROVE canCreate(s, name, zeroDepth)
  <2> SUFFICES ASSUME NEW m \in walkToRoot(name) \cap DOMAIN s.byName
               PROVE  IF m = name THEN s.byName[m].token = NoToken /\ zeroDepth
                      ELSE s.byName[m].token = NoToken \/ s.byName[m].zeroDepth
    BY DEF canCreate
  <2>1. s.byName[m].token # NoToken => m \in Locked(s)
    BY DEF Locked
  <2>2. ASSUME m = name PROVE zeroDepth
    <3>1. PICK n \in Locked(s) : name \in walkToRoot(n)
      BY <2>2 DEF SInv, RefCountsOK, LocksBelow
    <3> QED
      BY <3>1, <1>4
  <2> QED
    BY <2>1, <2>2, <1>4
<1> QED
  BY <1>2, <1>3, <1>4

\* renewed changes the duration and the expiry only.
LEMMA RenewedNode ==
    ASSUME NEW n \in memLSNode, NEW now \in Nat, NEW d \in Nat \cup {infiniteTimeout}
    PROVE  LET r == renewed(n, now, d)
           IN  /\ r \in memLSNode
               /\ r.duration = d
               /\ r.refCount = n.refCount
               /\ r.held = n.held
               /\ r.token = n.token
               /\ r.zeroDepth = n.zeroDepth
<1> DEFINE e == IF d >= 0 THEN now + d ELSE n.expiry
<1>1. e \in Nat
  BY DEF memLSNode, infiniteTimeout
<1>2. renewed(n, now, d) = [n EXCEPT !.duration = d, !.expiry = e]
  BY DEF renewed
<1> HIDE DEF e
<1> QED
  BY <1>1, <1>2 DEF memLSNode

\* What addLock writes into byName.
nodeBefore(s, m) == IF m \in DOMAIN s.byName THEN s.byName[m] ELSE freshNode

Added(s, root, zeroDepth, d, r) ==
    /\ DOMAIN r.byName = DOMAIN s.byName \cup walkToRoot(root)
    /\ \A m \in DOMAIN r.byName :
          /\ r.byName[m] \in memLSNode
          /\ r.byName[m].refCount = nodeBefore(s, m).refCount
                                  + IF m \in walkToRoot(root) THEN 1 ELSE 0
          /\ r.byName[m].held = nodeBefore(s, m).held
          /\ m # root => /\ r.byName[m].token = nodeBefore(s, m).token
                         /\ r.byName[m].zeroDepth = nodeBefore(s, m).zeroDepth
                         /\ r.byName[m].duration = nodeBefore(s, m).duration
    /\ r.byName[root].token = s.gen + 1
    /\ r.byName[root].zeroDepth = zeroDepth
    /\ r.byName[root].duration = d

\* What addLock makes of the struct.
LEMMA AddFields ==
    ASSUME NEW s, SInv(s), NEW now \in Nat, NEW root \in Names,
           NEW zeroDepth \in BOOLEAN, NEW d \in Nat \cup {infiniteTimeout}
    PROVE  Added(s, root, zeroDepth, d, addLock(s, now, root, zeroDepth, d))
<1> DEFINE r == addLock(s, now, root, zeroDepth, d)
           old(m) == nodeBefore(s, m)
           C == create(s, root)
<1>1. \A m : old(m) \in memLSNode
  BY DEF SInv, StructOK, nodeBefore, freshNode, memLSNode, NoToken
<1>2. /\ C = [m \in DOMAIN s.byName \cup walkToRoot(root) |-> C[m]]
      /\ \A m \in DOMAIN s.byName \cup walkToRoot(root) :
            C[m] = IF m \in walkToRoot(root)
                   THEN [old(m) EXCEPT !.refCount = @ + 1] ELSE old(m)
  BY DEF create, nodeBefore
<1> HIDE DEF old, C
<1>3. \A m \in DOMAIN s.byName \cup walkToRoot(root) :
         /\ C[m] \in memLSNode
         /\ C[m].refCount = old(m).refCount + IF m \in walkToRoot(root) THEN 1 ELSE 0
         /\ C[m].held = old(m).held
         /\ C[m].token = old(m).token
         /\ C[m].zeroDepth = old(m).zeroDepth
         /\ C[m].duration = old(m).duration
  <2> TAKE m \in DOMAIN s.byName \cup walkToRoot(root)
  <2> DEFINE o == old(m)
  <2>1. o \in memLSNode
    BY <1>1
  <2>2. C[m] = IF m \in walkToRoot(root) THEN [o EXCEPT !.refCount = @ + 1] ELSE o
    BY <1>2
  <2> HIDE DEF o
  <2>3. /\ C[m] \in memLSNode
        /\ C[m].refCount = o.refCount + IF m \in walkToRoot(root) THEN 1 ELSE 0
        /\ C[m].held = o.held
        /\ C[m].token = o.token
        /\ C[m].zeroDepth = o.zeroDepth
        /\ C[m].duration = o.duration
    BY <2>1, <2>2 DEF memLSNode
  <2> QED
    BY <2>3 DEF o
<1>4. root \in walkToRoot(root)
  BY WalkOrder
<1>5. s.gen + 1 \in Nat
  BY DEF SInv, StructOK
<1> DEFINE N == [C[root] EXCEPT !.token = s.gen + 1, !.zeroDepth = zeroDepth]
           R == renewed(N, now, d)
<1>6. r.byName = [C EXCEPT ![root] = R]
  BY DEF addLock, C
<1>7. /\ R \in memLSNode
      /\ R.refCount = C[root].refCount
      /\ R.held = C[root].held
      /\ R.token = s.gen + 1
      /\ R.zeroDepth = zeroDepth
      /\ R.duration = d
  <2>1. /\ N \in memLSNode
        /\ N.refCount = C[root].refCount
        /\ N.held = C[root].held
        /\ N.token = s.gen + 1
        /\ N.zeroDepth = zeroDepth
    BY <1>3, <1>4, <1>5 DEF memLSNode
  <2> HIDE DEF N
  <2> QED
    BY <2>1, RenewedNode
<1> HIDE DEF r, R
<1>8. DOMAIN r.byName = DOMAIN s.byName \cup walkToRoot(root)
      /\ r.byName[root] = R
      /\ \A m \in DOMAIN r.byName : m # root => r.byName[m] = C[m]
  BY <1>2, <1>4, <1>6
<1> QED
  BY <1>3, <1>4, <1>7, <1>8 DEF Added, r, old

\* A lock that canCreate allows keeps the invariant.
LEMMA AddInv ==
    ASSUME NEW s, SInv(s), NEW now \in Nat, NEW root \in Names,
           NEW zeroDepth \in BOOLEAN, NEW d \in Nat \cup {infiniteTimeout},
           canCreate(s, root, zeroDepth)
    PROVE  LET r == addLock(s, now, root, zeroDepth, d)
           IN  /\ SInv(r)
               /\ Locked(r) = Locked(s) \cup {root}
               /\ HeldSame(s, r)
               /\ r.gen = s.gen + 1
<1> DEFINE r == addLock(s, now, root, zeroDepth, d)
           T == s.gen + 1
<1>1. /\ r = [byName |-> r.byName, byToken |-> r.byToken, byExpiry |-> r.byExpiry,
              gen |-> r.gen, panicked |-> r.panicked]
      /\ r.gen = T
      /\ r.panicked = s.panicked
      /\ r.byExpiry = heapWith(s, root, d)
      /\ r.byToken = [t \in DOMAIN s.byToken \cup {T} |->
                         IF t = T THEN root ELSE s.byToken[t]]
      /\ r.byName = [m \in DOMAIN r.byName |-> r.byName[m]]
  BY DEF addLock, create
<1> HIDE DEF r
<1>0. Added(s, root, zeroDepth, d, r)
  BY AddFields DEF r
<1>2. DOMAIN r.byName = DOMAIN s.byName \cup walkToRoot(root)
  BY <1>0 DEF Added
<1>3. \A m \in DOMAIN r.byName :
         /\ r.byName[m] \in memLSNode
         /\ r.byName[m].refCount = nodeBefore(s, m).refCount
                                 + IF m \in walkToRoot(root) THEN 1 ELSE 0
         /\ r.byName[m].held = nodeBefore(s, m).held
         /\ m # root => /\ r.byName[m].token = nodeBefore(s, m).token
                        /\ r.byName[m].zeroDepth = nodeBefore(s, m).zeroDepth
                        /\ r.byName[m].duration = nodeBefore(s, m).duration
  BY <1>0 DEF Added
<1>4. /\ r.byName[root].token = T
      /\ r.byName[root].zeroDepth = zeroDepth
      /\ r.byName[root].duration = d
  BY <1>0 DEF Added
<1>5. /\ s.gen \in Nat /\ T \in Nat /\ T # NoToken /\ T \notin DOMAIN s.byToken
      /\ DOMAIN s.byName \subseteq Names
      /\ \A m \in DOMAIN s.byName : s.byName[m] \in memLSNode
  BY DEF SInv, StructOK, NoToken
<1>6. /\ root \in walkToRoot(root) /\ walkToRoot(root) \subseteq Names
      /\ root \in DOMAIN r.byName
  BY <1>2, WalkOrder
<1>7. root \notin Locked(s)
  BY <1>6 DEF canCreate, Locked
<1>8. Locked(r) = Locked(s) \cup {root}
  <2>1. \A m \in DOMAIN r.byName : m # root =>
           (r.byName[m].token # NoToken <=> m \in DOMAIN s.byName /\ s.byName[m].token # NoToken)
    BY <1>3 DEF nodeBefore, freshNode
  <2> QED
    BY <2>1, <1>2, <1>4, <1>5, <1>6 DEF Locked
<1>9. HeldNodes(r) = HeldNodes(s)
  <2>1. \A m \in DOMAIN r.byName :
           r.byName[m].held <=> m \in DOMAIN s.byName /\ s.byName[m].held
    BY <1>3 DEF nodeBefore, freshNode
  <2> QED
    BY <2>1, <1>2 DEF HeldNodes
<1>10. HeldAreLocked(r)
  BY <1>8, <1>9 DEF SInv, HeldAreLocked
<1>11. ~r.byName[root].held
  BY <1>6, <1>7, <1>9 DEF SInv, HeldAreLocked, HeldNodes
<1>12. \A m \in Locked(s) : /\ m # root /\ m \in DOMAIN r.byName /\ m \in DOMAIN s.byName
                            /\ r.byName[m].token = s.byName[m].token
                            /\ r.byName[m].zeroDepth = s.byName[m].zeroDepth
                            /\ r.byName[m].duration = s.byName[m].duration
                            /\ r.byName[m].held = s.byName[m].held
  BY <1>2, <1>3, <1>7 DEF nodeBefore, Locked
<1>13. HeapOK(r)
  <2>1. s.byExpiry = {n \in Locked(s) : s.byName[n].duration >= 0 /\ ~s.byName[n].held}
    BY DEF SInv, HeapOK
  <2>2. r.byExpiry = IF d >= 0 THEN s.byExpiry \cup {root} ELSE s.byExpiry
    BY <1>1, <1>7, <2>1 DEF heapWith
  <2> QED
    BY <2>1, <2>2, <1>4, <1>8, <1>11, <1>12 DEF HeapOK
<1>14. StructOK(r)
  <2>1. r.byName \in [DOMAIN r.byName -> memLSNode]
    BY <1>1, <1>3
  <2>2. r.byToken \in [DOMAIN r.byToken -> Names] /\ DOMAIN r.byToken \subseteq 1..r.gen
    BY <1>1 DEF SInv, StructOK
  <2>3. r.byExpiry \subseteq DOMAIN r.byName
    BY <1>13 DEF HeapOK, Locked
  <2>4. DOMAIN r.byName \subseteq Names
    BY <1>2, <1>5, <1>6
  <2> QED
    BY <1>1, <1>5, <2>1, <2>2, <2>3, <2>4 DEF SInv, StructOK
<1>15. TokensOK(r)
  <2>1. ASSUME NEW t \in DOMAIN r.byToken
        PROVE  r.byToken[t] \in Locked(r) /\ r.byName[r.byToken[t]].token = t
    <3>1. CASE t = T
      BY <3>1, <1>1, <1>4, <1>8
    <3>2. CASE t # T
      <4>1. t \in DOMAIN s.byToken /\ r.byToken[t] = s.byToken[t]
        BY <3>2, <1>1
      <4>2. s.byToken[t] \in Locked(s) /\ s.byName[s.byToken[t]].token = t
        BY <4>1 DEF SInv, TokensOK
      <4> QED
        BY <4>1, <4>2, <1>8, <1>12
    <3> QED
      BY <3>1, <3>2
  <2>2. ASSUME NEW n \in Locked(r)
        PROVE  r.byName[n].token \in DOMAIN r.byToken /\ r.byToken[r.byName[n].token] = n
    <3>1. CASE n = root
      BY <3>1, <1>1, <1>4
    <3>2. CASE n \in Locked(s)
      <4>1. s.byName[n].token \in DOMAIN s.byToken /\ s.byToken[s.byName[n].token] = n
        BY <3>2 DEF SInv, TokensOK
      <4>2. r.byName[n].token = s.byName[n].token /\ s.byName[n].token # T
        BY <4>1, <3>2, <1>5, <1>12
      <4> QED
        BY <4>1, <4>2, <1>1
    <3> QED
      BY <3>1, <3>2, <1>8
  <2> QED
    BY <2>1, <2>2 DEF TokensOK
<1>16. \A n \in Names :
          LocksBelow(r, n) = IF n \in walkToRoot(root) THEN LocksBelow(s, n) \cup {root}
                             ELSE LocksBelow(s, n)
  BY <1>8 DEF LocksBelow
<1>17. RefCountsOK(r)
  <2>1. \A n \in Names : n \in DOMAIN s.byName <=> LocksBelow(s, n) # {}
    BY DEF SInv, RefCountsOK
  <2>2. \A n \in Names : n \in DOMAIN r.byName <=> LocksBelow(r, n) # {}
    BY <2>1, <1>2, <1>16
  <2>3. ASSUME NEW n \in DOMAIN r.byName
        PROVE  r.byName[n].refCount = Cardinality(LocksBelow(r, n))
    <3>1. n \in Names
      BY <1>14 DEF StructOK
    <3>2. nodeBefore(s, n).refCount = Cardinality(LocksBelow(s, n))
      <4>1. CASE n \in DOMAIN s.byName
        BY <4>1 DEF SInv, RefCountsOK, nodeBefore
      <4>2. CASE n \notin DOMAIN s.byName
        BY <4>2, <3>1, <2>1, FS_EmptySet DEF nodeBefore, freshNode
      <4> QED
        BY <4>1, <4>2
    <3>3. IsFiniteSet(LocksBelow(s, n)) /\ root \notin LocksBelow(s, n)
      BY <1>7, FS_Subset DEF SInv, LocksBelow
    <3>4. Cardinality(LocksBelow(s, n) \cup {root}) = Cardinality(LocksBelow(s, n)) + 1
          /\ Cardinality(LocksBelow(s, n)) \in Nat
      BY <3>3, FS_AddElement, FS_CardinalityType
    <3>5. r.byName[n].refCount = nodeBefore(s, n).refCount + IF n \in walkToRoot(root) THEN 1 ELSE 0
      BY <1>3
    <3>6. CASE n \in walkToRoot(root)
      <4>1. LocksBelow(r, n) = LocksBelow(s, n) \cup {root}
        BY <3>1, <3>6, <1>16
      <4> QED
        BY <4>1, <3>2, <3>4, <3>5, <3>6
    <3>7. CASE n \notin walkToRoot(root)
      <4>1. LocksBelow(r, n) = LocksBelow(s, n)
        BY <3>1, <3>7, <1>16
      <4> QED
        BY <4>1, <3>2, <3>4, <3>5, <3>7
    <3> QED
      BY <3>6, <3>7
  <2> QED
    BY <2>2, <2>3 DEF RefCountsOK
<1>18. IsFiniteSet(Locked(r))
  BY <1>8, FS_AddElement DEF SInv
<1>19. Disjoint(r)
  <2>1. \A n \in Locked(s) :
           Region(n, s.byName[n].zeroDepth) \cap Region(root, zeroDepth) = {}
    BY CanCreate
  <2>2. \A m, n \in Locked(s) : m # n =>
           Region(m, s.byName[m].zeroDepth) \cap Region(n, s.byName[n].zeroDepth) = {}
    BY DEF SInv, Disjoint
  <2>3. ASSUME NEW m \in Locked(r), NEW n \in Locked(r), m # n
        PROVE  Region(m, r.byName[m].zeroDepth) \cap Region(n, r.byName[n].zeroDepth) = {}
    <3>1. CASE m \in Locked(s) /\ n \in Locked(s)
      BY <3>1, <2>2, <2>3, <1>12
    <3>2. CASE m = root /\ n \in Locked(s)
      BY <3>2, <2>1, <1>4, <1>12
    <3>3. CASE n = root /\ m \in Locked(s)
      BY <3>3, <2>1, <1>4, <1>12
    <3> QED
      BY <3>1, <3>2, <3>3, <2>3, <1>8
  <2> QED
    BY <2>3 DEF Disjoint
<1>20. HeldSame(s, r)
  BY <1>1, <1>9, <1>12 DEF SInv, HeldAreLocked, HeldSame
<1> QED
  BY <1>1, <1>8, <1>10, <1>13, <1>14, <1>15, <1>17, <1>18, <1>19, <1>20 DEF SInv, r

\* Changing only the held flag or the timeout of a lock, with the heap kept in
\* step, keeps the invariant.
LEMMA UpdateInv ==
    ASSUME NEW s, SInv(s), NEW n \in Locked(s), NEW node \in memLSNode,
           node.token = s.byName[n].token,
           node.refCount = s.byName[n].refCount,
           node.zeroDepth = s.byName[n].zeroDepth,
           NEW r,
           r = [byName |-> [s.byName EXCEPT ![n] = node],
                byToken |-> s.byToken,
                byExpiry |-> IF node.duration >= 0 /\ ~node.held
                             THEN s.byExpiry \cup {n} ELSE s.byExpiry \ {n},
                gen |-> s.gen, panicked |-> s.panicked]
    PROVE  /\ SInv(r)
           /\ Locked(r) = Locked(s)
           /\ DOMAIN r.byName = DOMAIN s.byName
           /\ r.panicked = s.panicked
           /\ r.byName[n] = node
           /\ \A m \in DOMAIN s.byName : m # n => r.byName[m] = s.byName[m]
<1>1. n \in DOMAIN s.byName /\ DOMAIN s.byName \subseteq Names
      /\ s.byName \in [DOMAIN s.byName -> memLSNode]
  BY DEF SInv, StructOK, Locked
<1>2. /\ DOMAIN r.byName = DOMAIN s.byName
      /\ r.byName[n] = node
      /\ \A m \in DOMAIN s.byName : m # n => r.byName[m] = s.byName[m]
      /\ r.byName \in [DOMAIN r.byName -> memLSNode]
      /\ r.byToken = s.byToken /\ r.gen = s.gen /\ r.panicked = s.panicked
      /\ r.byExpiry = IF node.duration >= 0 /\ ~node.held
                      THEN s.byExpiry \cup {n} ELSE s.byExpiry \ {n}
      /\ r = [byName |-> r.byName, byToken |-> r.byToken, byExpiry |-> r.byExpiry,
              gen |-> r.gen, panicked |-> r.panicked]
  BY <1>1
<1>3. \A m \in DOMAIN s.byName : /\ r.byName[m].token = s.byName[m].token
                                 /\ r.byName[m].refCount = s.byName[m].refCount
                                 /\ r.byName[m].zeroDepth = s.byName[m].zeroDepth
  BY <1>2
<1>4. Locked(r) = Locked(s)
  BY <1>2, <1>3 DEF Locked
<1>5. HeldNodes(r) = IF node.held THEN HeldNodes(s) \cup {n} ELSE HeldNodes(s) \ {n}
  BY <1>1, <1>2 DEF HeldNodes
<1>6. HeldAreLocked(r)
  BY <1>4, <1>5 DEF SInv, HeldAreLocked
<1>7. HeapOK(r)
  <2>1. s.byExpiry = {m \in Locked(s) : s.byName[m].duration >= 0 /\ ~s.byName[m].held}
    BY DEF SInv, HeapOK
  <2>2. \A m \in Locked(s) : m \in DOMAIN s.byName
    BY DEF Locked
  <2> QED
    <3>1. ASSUME NEW m \in Locked(s)
          PROVE  m \in r.byExpiry <=> r.byName[m].duration >= 0 /\ ~r.byName[m].held
      BY <2>1, <2>2, <1>2
    <3>2. r.byExpiry \subseteq Locked(s)
      BY <2>1, <1>2
    <3> QED
      BY <3>1, <3>2, <1>4 DEF HeapOK
<1>8. StructOK(r)
  <2>1. r.byExpiry \subseteq DOMAIN r.byName
    BY <1>7 DEF HeapOK, Locked
  <2> QED
    BY <2>1, <1>1, <1>2 DEF SInv, StructOK
<1>9. TokensOK(r)
  BY <1>2, <1>3, <1>4 DEF SInv, TokensOK, Locked
<1>10. RefCountsOK(r)
  <2>1. \A m : LocksBelow(r, m) = LocksBelow(s, m)
    BY <1>4 DEF LocksBelow
  <2> QED
    <3>1. RefCountsOK(s)
      BY DEF SInv
    <3>2. ASSUME NEW m \in Names PROVE m \in DOMAIN r.byName <=> LocksBelow(r, m) # {}
      <4>1. LocksBelow(r, m) = LocksBelow(s, m) /\ DOMAIN r.byName = DOMAIN s.byName
        BY <2>1, <1>2
      <4> QED
        BY <4>1, <3>1 DEF RefCountsOK
    <3>3. ASSUME NEW m \in DOMAIN r.byName
          PROVE  r.byName[m].refCount = Cardinality(LocksBelow(r, m))
      <4>1. m \in DOMAIN s.byName /\ LocksBelow(r, m) = LocksBelow(s, m)
        BY <2>1, <1>2
      <4> QED
        BY <4>1, <3>1, <1>3 DEF RefCountsOK
    <3> QED
      BY <3>2, <3>3 DEF RefCountsOK
<1>11. Disjoint(r)
  BY <1>3, <1>4 DEF SInv, Disjoint, Locked
<1> QED
  BY <1>2, <1>4, <1>5, <1>6, <1>7, <1>8, <1>9, <1>10, <1>11 DEF SInv

\* The locks of s are in r as they were, but for what hold and unhold change.
LocksSame(s, r) ==
    /\ Locked(r) = Locked(s)
    /\ r.panicked = s.panicked
    /\ \A n \in Locked(s) : /\ r.byName[n].token = s.byName[n].token
                            /\ r.byName[n].zeroDepth = s.byName[n].zeroDepth
                            /\ r.byName[n].duration = s.byName[n].duration

\* hold keeps the invariant and marks one more lock.
LEMMA HoldInv ==
    ASSUME NEW s, SInv(s), NEW n \in Locked(s) \ HeldNodes(s)
    PROVE  /\ SInv(hold(s, n))
           /\ LocksSame(s, hold(s, n))
           /\ HeldNodes(hold(s, n)) = HeldNodes(s) \cup {n}
<1> DEFINE r == hold(s, n)
           node == [s.byName[n] EXCEPT !.held = TRUE]
<1>1. /\ n \in DOMAIN s.byName /\ n # NoName /\ ~s.byName[n].held
      /\ n \in Locked(s)
      /\ s.byName[n] \in memLSNode
      /\ s = [byName |-> s.byName, byToken |-> s.byToken, byExpiry |-> s.byExpiry,
              gen |-> s.gen, panicked |-> s.panicked]
  BY NamesAssumption DEF SInv, StructOK, Locked, HeldNodes
<1>2. /\ node \in memLSNode /\ node.held
      /\ node.token = s.byName[n].token
      /\ node.refCount = s.byName[n].refCount
      /\ node.zeroDepth = s.byName[n].zeroDepth
      /\ node.duration = s.byName[n].duration
  BY <1>1 DEF memLSNode
<1>3. r = [s EXCEPT !.byName = [s.byName EXCEPT ![n] = node], !.byExpiry = @ \ {n}]
  BY <1>1 DEF hold
<1> HIDE DEF r, node
<1>4. r = [byName |-> [s.byName EXCEPT ![n] = node], byToken |-> s.byToken,
           byExpiry |-> IF node.duration >= 0 /\ ~node.held
                        THEN s.byExpiry \cup {n} ELSE s.byExpiry \ {n},
           gen |-> s.gen, panicked |-> s.panicked]
  BY <1>1, <1>2, <1>3
<1>5. /\ SInv(r) /\ Locked(r) = Locked(s) /\ DOMAIN r.byName = DOMAIN s.byName
      /\ r.panicked = s.panicked /\ r.byName[n] = node
      /\ \A m \in DOMAIN s.byName : m # n => r.byName[m] = s.byName[m]
  BY <1>1, <1>2, <1>4, UpdateInv
<1>6. LocksSame(s, r)
  BY <1>2, <1>5 DEF LocksSame, Locked
<1>7. HeldNodes(r) = HeldNodes(s) \cup {n}
  BY <1>1, <1>2, <1>5 DEF HeldNodes
<1> QED
  BY <1>5, <1>6, <1>7 DEF r

\* unhold keeps the invariant and unmarks one lock.
LEMMA UnholdInv ==
    ASSUME NEW s, SInv(s), NEW n \in HeldNodes(s)
    PROVE  /\ SInv(unhold(s, n))
           /\ LocksSame(s, unhold(s, n))
           /\ HeldNodes(unhold(s, n)) = HeldNodes(s) \ {n}
<1> DEFINE r == unhold(s, n)
           node == [s.byName[n] EXCEPT !.held = FALSE]
<1>1. /\ n \in DOMAIN s.byName /\ n # NoName /\ s.byName[n].held
      /\ n \in Locked(s) /\ n \notin s.byExpiry
      /\ s.byName[n] \in memLSNode
      /\ s = [byName |-> s.byName, byToken |-> s.byToken, byExpiry |-> s.byExpiry,
              gen |-> s.gen, panicked |-> s.panicked]
  BY NamesAssumption DEF SInv, StructOK, HeldAreLocked, HeapOK, HeldNodes
<1>2. /\ node \in memLSNode /\ ~node.held
      /\ node.token = s.byName[n].token
      /\ node.refCount = s.byName[n].refCount
      /\ node.zeroDepth = s.byName[n].zeroDepth
      /\ node.duration = s.byName[n].duration
  BY <1>1 DEF memLSNode
<1>3. r = [s EXCEPT !.byName = [s.byName EXCEPT ![n] = node],
                    !.byExpiry = IF s.byName[n].duration >= 0 THEN @ \cup {n} ELSE @]
  BY <1>1 DEF unhold
<1> HIDE DEF r, node
<1>4. r = [byName |-> [s.byName EXCEPT ![n] = node], byToken |-> s.byToken,
           byExpiry |-> IF node.duration >= 0 /\ ~node.held
                        THEN s.byExpiry \cup {n} ELSE s.byExpiry \ {n},
           gen |-> s.gen, panicked |-> s.panicked]
  BY <1>1, <1>2, <1>3
<1>5. /\ SInv(r) /\ Locked(r) = Locked(s) /\ DOMAIN r.byName = DOMAIN s.byName
      /\ r.panicked = s.panicked /\ r.byName[n] = node
      /\ \A m \in DOMAIN s.byName : m # n => r.byName[m] = s.byName[m]
  BY <1>1, <1>2, <1>4, UpdateInv
<1>6. LocksSame(s, r)
  BY <1>2, <1>5 DEF LocksSame, Locked
<1>7. HeldNodes(r) = HeldNodes(s) \ {n}
  BY <1>1, <1>2, <1>5 DEF HeldNodes
<1> QED
  BY <1>5, <1>6, <1>7 DEF r

\* A set of naturals that is not empty has a smallest one.
LEMMA Smallest ==
    ASSUME NEW T \in SUBSET Nat, T # {}
    PROVE  \E x \in T : \A y \in T : x <= y
<1> DEFINE R == OpToRel(<, Nat)
<1>1. IsWellFoundedOn(R, Nat)
  BY NatLessThanWellFounded
<1>2. R = {ss \in Nat \X Nat : ss[1] < ss[2]}
  BY DEF OpToRel
<1> HIDE DEF R
<1>3. PICK x \in T : \A y \in T : ~(<<y, x>> \in R)
  BY <1>1, WFMin
<1>4. \A y \in T : ~(y < x)
  BY <1>2, <1>3
<1> QED
  BY <1>4

\* lookup returns no node, or a lock that is not held, covers the name and has one of the
\* tokens of the conditions.
LEMMA LookupResult ==
    ASSUME NEW s, SInv(s), NEW name \in Names \cup {NoName},
           NEW conditions, DOMAIN conditions \subseteq Nat
    PROVE  LET n == lookup(s, name, conditions)
           IN  n # NoName => /\ n \in Locked(s) \ HeldNodes(s)
                             /\ name # NoName
                             /\ Covers(n, s.byName[n].zeroDepth, name)
                             /\ \E i \in DOMAIN conditions : s.byName[n].token = conditions[i]
<1> DEFINE hits == {i \in DOMAIN conditions : matches(s, name, conditions[i])}
           n == lookup(s, name, conditions)
<1>1. CASE name = NoName \/ hits = {}
  BY <1>1 DEF lookup
<1>2. CASE name # NoName /\ hits # {}
  <2>1. hits \in SUBSET Nat
    OBVIOUS
  <2>2. \E i \in hits : \A j \in hits : i <= j
    BY <1>2, <2>1, Smallest
  <2>3. PICK i \in hits : n = s.byToken[conditions[i]]
    BY <1>2, <2>2 DEF lookup
  <2>4. matches(s, name, conditions[i])
    BY <2>3
  <2> QED
    <3>1. n \in Locked(s) /\ s.byName[n].token = conditions[i]
      BY <2>3, <2>4 DEF matches, SInv, TokensOK
    <3>2. n \notin HeldNodes(s) /\ Covers(n, s.byName[n].zeroDepth, name)
      BY <2>3, <2>4 DEF matches, HeldNodes
    <3> QED
      BY <1>2, <3>1, <3>2
<1> QED
  BY <1>1, <1>2

-----------------------------------------------------------------------------
(***************************************************************************)
(* The invariant of the specification                                      *)
(***************************************************************************)

\* The claims and the held nodes agree, a claim does not hold a node twice, and
\* each resource a claim was confirmed for is covered by a lock it holds.
ClaimInv(s, C) ==
    /\ ~s.panicked
    /\ HeldNodes(s) = UNION {ClaimedNodes(c) : c \in C}
    /\ \A c, d \in C : c # d => ClaimedNodes(c) \cap ClaimedNodes(d) = {}
    /\ \A c \in C : c.n0 = c.n1 => c.n0 = NoName
    /\ \A c \in C : \A x \in c.names :
          \E n \in ClaimedNodes(c) : Covers(n, s.byName[n].zeroDepth, x)

IInv == TypeOK /\ SInv(ls) /\ ClaimInv(ls, claims)

\* Outstanding claims only depend on the held locks.
LEMMA ClaimsKept ==
    ASSUME NEW s, NEW r, NEW C, ClaimInv(s, C), HeldSame(s, r)
    PROVE  ClaimInv(r, C)
<1>1. ASSUME NEW c \in C, NEW n \in ClaimedNodes(c) PROVE n \in HeldNodes(s)
  BY DEF ClaimInv
<1> QED
  BY <1>1 DEF ClaimInv, HeldSame

\* The locks held in s are in r, unchanged.
HeldKept(s, r) ==
    \A n \in HeldNodes(s) : /\ n \in DOMAIN r.byName
                            /\ r.byName[n].token = s.byName[n].token
                            /\ r.byName[n].zeroDepth = s.byName[n].zeroDepth
                            /\ r.byName[n].duration = s.byName[n].duration

\* Either way of keeping locks keeps the held ones.
LEMMA SameIsKept ==
    ASSUME NEW s, NEW r, SInv(s), HeldSame(s, r) \/ LocksSame(s, r)
    PROVE  HeldKept(s, r)
BY DEF HeldKept, HeldSame, LocksSame, HeldNodes, Locked, SInv, HeldAreLocked

\* The initial struct satisfies the invariant.
LEMMA InitInv == Init => IInv
<1> SUFFICES ASSUME Init PROVE IInv
  OBVIOUS
<1>1. /\ ls = NewMemLS /\ claims = {} /\ clock = 0
      /\ DOMAIN ls.byName = {} /\ DOMAIN ls.byToken = {} /\ ls.byExpiry = {}
      /\ ls.gen = 0 /\ ls.panicked = FALSE
  BY DEF Init, NewMemLS
<1>2. Locked(ls) = {} /\ HeldNodes(ls) = {} /\ \A n : LocksBelow(ls, n) = {}
  BY <1>1 DEF Locked, HeldNodes, LocksBelow
<1>3. StructOK(ls)
  BY <1>1 DEF StructOK, NewMemLS
<1>4. SInv(ls)
  BY <1>1, <1>2, <1>3, FS_EmptySet
     DEF SInv, RefCountsOK, TokensOK, HeapOK, HeldAreLocked, Disjoint
<1>5. ClaimInv(ls, claims)
  BY <1>1, <1>2 DEF ClaimInv
<1> QED
  BY <1>1, <1>3, <1>4, <1>5 DEF IInv, TypeOK

\* A step that keeps the struct invariant, the claims and the held locks.
LEMMA QuietStep ==
    ASSUME IInv, SInv(ls'), HeldSame(ls, ls'), claims' = claims, clock' = clock
    PROVE  IInv'
<1>1. ClaimInv(ls', claims')
  BY ClaimsKept DEF IInv
<1> QED
  BY <1>1 DEF IInv, TypeOK, SInv

\* Keeping the held locks is transitive.
LEMMA HeldSameTrans ==
    ASSUME NEW q, NEW s, NEW r, HeldSame(q, s), HeldSame(s, r)
    PROVE  HeldSame(q, r)
BY DEF HeldSame

\* A call of Create keeps the invariant.
LEMMA CreateStep ==
    ASSUME IInv, NEW now \in 0..clock, NEW root \in Names, NEW zeroDepth \in BOOLEAN,
           NEW d \in Durations, Create(now, root, zeroDepth, d)
    PROVE  IInv' /\ HeldSame(ls, ls')
<1> DEFINE s == collectExpiredNodes(ls, now)
<1>1. SInv(s) /\ HeldSame(ls, s)
  BY CollectInv DEF IInv
<1>2. now \in Nat /\ d \in Nat \cup {infiniteTimeout}
  BY BoundsAssumption DEF IInv, TypeOK
<1>3. ls' = (IF canCreate(s, root, zeroDepth)
             THEN addLock(s, now, root, zeroDepth, d) ELSE s)
      /\ claims' = claims /\ clock' = clock
  BY DEF Create
<1> HIDE DEF s
<1>4. SInv(ls') /\ HeldSame(ls, ls')
  <2>1. CASE canCreate(s, root, zeroDepth)
    BY <2>1, <1>1, <1>2, <1>3, AddInv, HeldSameTrans
  <2>2. CASE ~canCreate(s, root, zeroDepth)
    BY <2>2, <1>1, <1>3
  <2> QED
    BY <2>1, <2>2
<1> QED
  BY <1>3, <1>4, QuietStep

\* A call of Unlock keeps the invariant.
LEMMA UnlockStep ==
    ASSUME IInv, NEW now \in 0..clock, NEW t \in Issued, Unlock(now, t)
    PROVE  IInv' /\ HeldSame(ls, ls')
<1> DEFINE s == collectExpiredNodes(ls, now)
<1>1. SInv(s) /\ HeldSame(ls, s)
  BY CollectInv DEF IInv
<1>2. ls' = (IF free(s, t) THEN remove(s, {s.byToken[t]}) ELSE s)
      /\ claims' = claims /\ clock' = clock
  BY DEF Unlock
<1> HIDE DEF s
<1>3. SInv(ls') /\ HeldSame(ls, ls')
  <2>1. CASE free(s, t)
    <3>1. {s.byToken[t]} \subseteq Locked(s) \ HeldNodes(s)
      BY <2>1, <1>1 DEF free, SInv, TokensOK, HeldNodes
    <3> QED
      BY <3>1, <2>1, <1>1, <1>2, RemoveInv, HeldSameTrans
  <2>2. CASE ~free(s, t)
    BY <2>2, <1>1, <1>2
  <2> QED
    BY <2>1, <2>2
<1> QED
  BY <1>2, <1>3, QuietStep

\* A call of Refresh keeps the invariant.
LEMMA RefreshStep ==
    ASSUME IInv, NEW now \in 0..clock, NEW t \in Issued, NEW d \in Durations,
           Refresh(now, t, d)
    PROVE  IInv' /\ HeldSame(ls, ls')
<1> DEFINE s == collectExpiredNodes(ls, now)
           n == s.byToken[t]
           node == renewed(s.byName[n], now, d)
<1>1. SInv(s) /\ HeldSame(ls, s)
  BY CollectInv DEF IInv
<1>2. now \in Nat /\ d \in Nat \cup {infiniteTimeout}
  BY BoundsAssumption DEF IInv, TypeOK
<1>3. claims' = claims /\ clock' = clock
      /\ ls' = IF free(s, t) THEN [s EXCEPT !.byName = [s.byName EXCEPT ![n] = node],
                                           !.byExpiry = heapWith(s, n, d)] ELSE s
  BY DEF Refresh
<1> HIDE DEF s
<1>4. SInv(ls') /\ HeldSame(ls, ls')
  <2>1. CASE free(s, t)
    <3>1. n \in Locked(s) /\ n \notin HeldNodes(s) /\ ~s.byName[n].held
          /\ n \in DOMAIN s.byName
      BY <2>1, <1>1 DEF free, SInv, TokensOK, HeldNodes, Locked
    <3>2. s.byName[n] \in memLSNode
          /\ s = [byName |-> s.byName, byToken |-> s.byToken, byExpiry |-> s.byExpiry,
                  gen |-> s.gen, panicked |-> s.panicked]
      BY <3>1, <1>1 DEF SInv, StructOK
    <3> HIDE DEF n
    <3>3. /\ node \in memLSNode
          /\ node.token = s.byName[n].token
          /\ node.refCount = s.byName[n].refCount
          /\ node.zeroDepth = s.byName[n].zeroDepth
          /\ node.duration = d
      BY <3>2, <1>2, RenewedNode
    <3>4. node.held = s.byName[n].held
      BY <3>2, <1>2, RenewedNode
    <3> HIDE DEF node
    <3>5. ls' = [byName |-> [s.byName EXCEPT ![n] = node], byToken |-> s.byToken,
                 byExpiry |-> IF node.duration >= 0 /\ ~node.held
                              THEN s.byExpiry \cup {n} ELSE s.byExpiry \ {n},
                 gen |-> s.gen, panicked |-> s.panicked]
      BY <2>1, <3>1, <3>2, <3>3, <3>4, <1>3 DEF heapWith
    <3>6. SInv(ls') /\ ls'.panicked = s.panicked /\ DOMAIN ls'.byName = DOMAIN s.byName
          /\ ls'.byName[n] = node
          /\ \A m \in DOMAIN s.byName : m # n => ls'.byName[m] = s.byName[m]
      BY <3>1, <3>3, <3>5, <1>1, UpdateInv
    <3>8. HeldNodes(ls') = HeldNodes(s)
      BY <3>1, <3>4, <3>6 DEF HeldNodes
    <3>9. HeldSame(s, ls')
      BY <3>1, <3>6, <3>8 DEF HeldSame, HeldNodes
    <3> QED
      BY <3>6, <3>9, <1>1, HeldSameTrans
  <2>2. CASE ~free(s, t)
    BY <2>2, <1>1, <1>3
  <2> QED
    BY <2>1, <2>2
<1> QED
  BY <1>3, <1>4, QuietStep

\* Confirm holds one lock or two, none of them held before.
LEMMA ConfirmStep ==
    ASSUME IInv, NEW now \in 0..clock,
           NEW name0 \in Names \cup {NoName}, NEW name1 \in Names \cup {NoName},
           NEW conditions, DOMAIN conditions \subseteq Nat, Confirm(now, name0, name1, conditions)
    PROVE  IInv' /\ HeldKept(ls, ls')
<1> DEFINE s  == collectExpiredNodes(ls, now)
           n0 == lookup(s, name0, conditions)
           n1 == lookup(s, name1, conditions)
           n2 == second(n0, n1)
           failed == (name0 # NoName /\ n0 = NoName) \/ (name1 # NoName /\ n1 = NoName)
           c == [names |-> {name0, name1} \ {NoName}, n0 |-> n0, n1 |-> n2]
<1>1. SInv(s) /\ HeldSame(ls, s)
  BY CollectInv DEF IInv
<1>2. /\ ls' = (IF failed THEN s ELSE hold(hold(s, n0), n2))
      /\ claims' = (IF failed THEN claims ELSE claims \cup {c})
      /\ clock' = clock
  BY DEF Confirm
<1> HIDE DEF s
<1>3. CASE failed
  BY <1>1, <1>2, <1>3, QuietStep, SameIsKept DEF IInv
<1>4. CASE ~failed
  <2>1. n0 # NoName => /\ n0 \in Locked(s) \ HeldNodes(s) /\ name0 # NoName
                       /\ Covers(n0, s.byName[n0].zeroDepth, name0)
    BY <1>1, LookupResult
  <2>2. n1 # NoName => /\ n1 \in Locked(s) \ HeldNodes(s) /\ name1 # NoName
                       /\ Covers(n1, s.byName[n1].zeroDepth, name1)
    BY <1>1, LookupResult
  <2>3. (n0 = NoName <=> name0 = NoName) /\ (n1 = NoName <=> name1 = NoName)
    BY <1>4, <2>1, <2>2
  <2>4. n2 = (IF n1 = n0 THEN NoName ELSE n1) /\ (n0 = n2 => n0 = NoName)
    BY DEF second
  <2>5. /\ n2 # NoName => n2 \in Locked(s) \ HeldNodes(s)
        /\ {n0, n1} \ {NoName} = {n0, n2} \ {NoName}
    BY <2>2, <2>4
  <2> DEFINE a == hold(s, n0)
             b == hold(a, n2)
  <2>6. /\ SInv(a) /\ LocksSame(s, a)
        /\ HeldNodes(a) = HeldNodes(s) \cup ({n0} \ {NoName})
    <3>1. CASE n0 = NoName
      BY <3>1, <1>1 DEF hold, LocksSame
    <3>2. CASE n0 # NoName
      BY <3>2, <2>1, <1>1, HoldInv
    <3> QED
      BY <3>1, <3>2
  <2> HIDE DEF n0, n1, n2, a
  <2>7. /\ SInv(b) /\ LocksSame(a, b)
        /\ HeldNodes(b) = HeldNodes(a) \cup ({n2} \ {NoName})
    <3>1. CASE n2 = NoName
      BY <3>1, <2>6 DEF hold, LocksSame
    <3>2. CASE n2 # NoName
      <4>1. n2 \in Locked(a) \ HeldNodes(a)
        BY <3>2, <2>4, <2>5, <2>6 DEF LocksSame
      <4> QED
        BY <3>2, <4>1, <2>6, HoldInv
    <3> QED
      BY <3>1, <3>2
  <2> HIDE DEF b, failed
  <2>8. ls' = b /\ claims' = claims \cup {c} /\ clock' = clock
    BY <1>2, <1>4 DEF a, b
  <2>9. LocksSame(s, b) /\ HeldNodes(b) = HeldNodes(s) \cup ({n0, n2} \ {NoName})
    BY <2>6, <2>7 DEF LocksSame
  <2>10. c \in claimType /\ ClaimedNodes(c) = {n0, n2} \ {NoName}
         /\ (c.n0 = c.n1 => c.n0 = NoName)
    <3>1. n0 \in Names \cup {NoName} /\ n2 \in Names \cup {NoName}
      BY <2>1, <2>5, <1>1 DEF SInv, StructOK, Locked
    <3>2. {name0, name1} \ {NoName} \in SUBSET Names
      OBVIOUS
    <3> QED
      BY <3>1, <3>2, <2>4 DEF claimType, ClaimedNodes
  <2>11. ClaimInv(s, claims)
    BY <1>1, ClaimsKept DEF IInv
  <2>12. HeldNodes(s) \subseteq Locked(s)
    BY <1>1 DEF SInv, HeldAreLocked
  <2>13. ClaimedNodes(c) \cap HeldNodes(s) = {}
    BY <2>1, <2>5, <2>10
  <2>14. \A x \in c.names : \E n \in ClaimedNodes(c) : Covers(n, b.byName[n].zeroDepth, x)
    <3> SUFFICES ASSUME NEW x \in {name0, name1} \ {NoName}
                 PROVE  \E n \in ClaimedNodes(c) : Covers(n, b.byName[n].zeroDepth, x)
      OBVIOUS
    <3>1. CASE x = name0
      <4>1. n0 \in ClaimedNodes(c) /\ b.byName[n0].zeroDepth = s.byName[n0].zeroDepth
        BY <3>1, <2>1, <2>3, <2>9, <2>10 DEF LocksSame
      <4> QED
        BY <4>1, <3>1, <2>1, <2>3
    <3>2. CASE x = name1
      <4>1. n1 \in ClaimedNodes(c) /\ b.byName[n1].zeroDepth = s.byName[n1].zeroDepth
        BY <3>2, <2>2, <2>3, <2>5, <2>9, <2>10 DEF LocksSame
      <4> QED
        BY <4>1, <3>2, <2>2, <2>3
    <3> QED
      BY <3>1, <3>2
  <2> HIDE DEF c
  <2>15. ClaimInv(b, claims \cup {c})
    <3>1. ~b.panicked
      BY <2>9, <2>11 DEF LocksSame, ClaimInv
    <3>2. HeldNodes(b) = UNION {ClaimedNodes(x) : x \in claims \cup {c}}
      BY <2>9, <2>10, <2>11 DEF ClaimInv
    <3>3. \A x \in claims : ClaimedNodes(x) \subseteq HeldNodes(s)
      BY <2>11 DEF ClaimInv
    <3>4. \A x, y \in claims \cup {c} : x # y => ClaimedNodes(x) \cap ClaimedNodes(y) = {}
      BY <3>3, <2>11, <2>13 DEF ClaimInv
    <3>5. \A x \in claims \cup {c} : x.n0 = x.n1 => x.n0 = NoName
      BY <2>10, <2>11 DEF ClaimInv
    <3>6. ASSUME NEW x \in claims, NEW y \in x.names
          PROVE  \E n \in ClaimedNodes(x) : Covers(n, b.byName[n].zeroDepth, y)
      <4>1. PICK n \in ClaimedNodes(x) : Covers(n, s.byName[n].zeroDepth, y)
        BY <2>11 DEF ClaimInv
      <4>2. b.byName[n].zeroDepth = s.byName[n].zeroDepth
        BY <3>3, <2>9, <2>12 DEF LocksSame
      <4> QED
        BY <4>1, <4>2
    <3> QED
      BY <3>1, <3>2, <3>4, <3>5, <3>6, <2>14 DEF ClaimInv
  <2>16. claims' \subseteq claimType
    BY <2>8, <2>10 DEF IInv, TypeOK
  <2>17. IInv'
    BY <2>7, <2>8, <2>15, <2>16 DEF IInv, TypeOK, SInv
  <2>18. HeldKept(ls, s) /\ HeldKept(s, b) /\ HeldNodes(s) = HeldNodes(ls)
    BY <1>1, <2>9, SameIsKept DEF IInv, HeldSame
  <2> QED
    BY <2>8, <2>17, <2>18 DEF HeldKept
<1> QED
  BY <1>3, <1>4

\* Release unholds exactly the nodes of its claim.
LEMMA ReleaseStep ==
    ASSUME IInv, NEW c \in claims, Release(c)
    PROVE  IInv' /\ HeldKept(ls, ls')
<1>1. /\ SInv(ls) /\ ClaimInv(ls, claims) /\ c \in claimType
      /\ ClaimedNodes(c) \subseteq HeldNodes(ls)
  BY DEF IInv, TypeOK, ClaimInv
<1> DEFINE a == unhold(ls, c.n1)
           b == unhold(a, c.n0)
<1>2. /\ SInv(a) /\ LocksSame(ls, a)
      /\ HeldNodes(a) = HeldNodes(ls) \ ({c.n1} \ {NoName})
  <2>1. CASE c.n1 = NoName
    BY <2>1, <1>1 DEF unhold, LocksSame
  <2>2. CASE c.n1 # NoName
    <3>1. c.n1 \in HeldNodes(ls)
      BY <2>2, <1>1 DEF ClaimedNodes
    <3> QED
      BY <2>2, <3>1, <1>1, UnholdInv
  <2> QED
    BY <2>1, <2>2
<1> HIDE DEF a
<1>3. /\ SInv(b) /\ LocksSame(a, b)
      /\ HeldNodes(b) = HeldNodes(a) \ ({c.n0} \ {NoName})
  <2>1. CASE c.n0 = NoName
    BY <2>1, <1>2 DEF unhold, LocksSame
  <2>2. CASE c.n0 # NoName
    <3>1. c.n0 \in HeldNodes(ls) /\ c.n0 # c.n1
      BY <2>2, <1>1 DEF ClaimedNodes, ClaimInv
    <3>2. c.n0 \in HeldNodes(a)
      BY <3>1, <1>2
    <3> QED
      BY <2>2, <3>2, <1>2, UnholdInv
  <2> QED
    BY <2>1, <2>2
<1> HIDE DEF b
<1>4. ls' = b /\ claims' = claims \ {c} /\ clock' = clock
  BY DEF Release, a, b
<1>5. LocksSame(ls, b) /\ HeldNodes(b) = HeldNodes(ls) \ ClaimedNodes(c)
  BY <1>2, <1>3 DEF LocksSame, ClaimedNodes
<1>6. ClaimInv(b, claims \ {c})
  <2>1. ~b.panicked
    BY <1>1, <1>5 DEF LocksSame, ClaimInv
  <2>2. \A x \in claims \ {c} : ClaimedNodes(x) \cap ClaimedNodes(c) = {}
    BY <1>1 DEF ClaimInv
  <2>3. HeldNodes(b) = UNION {ClaimedNodes(x) : x \in claims \ {c}}
    BY <1>1, <1>5, <2>2 DEF ClaimInv
  <2>4. \A x, y \in claims \ {c} : x # y => ClaimedNodes(x) \cap ClaimedNodes(y) = {}
    BY <1>1 DEF ClaimInv
  <2>5. \A x \in claims \ {c} : x.n0 = x.n1 => x.n0 = NoName
    BY <1>1 DEF ClaimInv
  <2>6. ASSUME NEW x \in claims \ {c}, NEW y \in x.names
        PROVE  \E n \in ClaimedNodes(x) : Covers(n, b.byName[n].zeroDepth, y)
    <3>1. PICK n \in ClaimedNodes(x) : Covers(n, ls.byName[n].zeroDepth, y)
      BY <1>1 DEF ClaimInv
    <3>2. n \in HeldNodes(ls)
      BY <1>1 DEF ClaimInv
    <3>3. b.byName[n].zeroDepth = ls.byName[n].zeroDepth
      BY <3>2, <1>1, <1>5 DEF LocksSame, SInv, HeldAreLocked
    <3> QED
      BY <3>1, <3>3
  <2> QED
    BY <2>1, <2>3, <2>4, <2>5, <2>6 DEF ClaimInv
<1>7. HeldKept(ls, b)
  BY <1>1, <1>5, SameIsKept
<1> QED
  BY <1>3, <1>4, <1>6, <1>7 DEF IInv, TypeOK, SInv

\* Every step keeps the invariant, and every lock that is held before it.
LEMMA NextInv ==
    ASSUME IInv, [Next]_vars
    PROVE  IInv' /\ HeldKept(ls, ls')
<1>1. SInv(ls) /\ clock \in Nat
  BY DEF IInv, TypeOK
<1>2. ASSUME NEW now \in 0..clock, NEW root \in Names, NEW zeroDepth \in BOOLEAN,
             NEW d \in Durations, Create(now, root, zeroDepth, d)
      PROVE  IInv' /\ HeldKept(ls, ls')
  BY <1>1, <1>2, CreateStep, SameIsKept
<1>3. ASSUME NEW now \in 0..clock, NEW name0 \in Names \cup {NoName},
             NEW name1 \in Names \cup {NoName}, NEW conditions \in Conditions,
             Confirm(now, name0, name1, conditions)
      PROVE  IInv' /\ HeldKept(ls, ls')
  <2>1. DOMAIN conditions \subseteq Nat
    BY DEF Conditions
  <2> QED
    BY <1>3, <2>1, ConfirmStep
<1>4. ASSUME NEW c \in claims, Release(c)
      PROVE  IInv' /\ HeldKept(ls, ls')
  BY <1>4, ReleaseStep
<1>5. ASSUME NEW now \in 0..clock, NEW t \in Issued, NEW d \in Durations, Refresh(now, t, d)
      PROVE  IInv' /\ HeldKept(ls, ls')
  BY <1>1, <1>5, RefreshStep, SameIsKept
<1>6. ASSUME NEW now \in 0..clock, NEW t \in Issued, Unlock(now, t)
      PROVE  IInv' /\ HeldKept(ls, ls')
  BY <1>1, <1>6, UnlockStep, SameIsKept
<1>7. ASSUME Tick PROVE IInv' /\ HeldKept(ls, ls')
  <2>1. ls' = ls /\ claims' = claims /\ clock' \in Nat
    BY <1>1, <1>7 DEF Tick
  <2> QED
    BY <2>1 DEF IInv, TypeOK, HeldKept, HeldNodes
<1>8. ASSUME UNCHANGED vars PROVE IInv' /\ HeldKept(ls, ls')
  <2>1. ls' = ls /\ claims' = claims /\ clock' = clock
    BY <1>8 DEF vars
  <2> QED
    BY <2>1 DEF IInv, TypeOK, HeldKept, HeldNodes
<1> QED
  BY <1>2, <1>3, <1>4, <1>5, <1>6, <1>7, <1>8 DEF Next

\* The inductive invariant of memLS holds in every reachable state.
THEOREM Inductive == Spec => []IInv
<1>1. Init => IInv
  BY InitInv
<1>2. IInv /\ [Next]_vars => IInv'
  BY NextInv
<1> QED
  BY <1>1, <1>2, PTL DEF Spec

\* The memLS struct and the claims are always well formed.
THEOREM TypeCorrect == Spec => []TypeOK
<1>1. IInv => TypeOK
  BY DEF IInv
<1> QED
  BY <1>1, Inductive, PTL

\* The three indexes of memLS agree: refCount counts the locks at and below a
\* node, byToken inverts the tokens, and the heap holds the locks that can expire.
THEOREM IndexesAgree == Spec => []IndexesExact
<1>1. IInv => IndexesExact
  BY DEF IInv, SInv, IndexesExact, RefCountExact, TokensExact, HeapExact
<1> QED
  BY <1>1, Inductive, PTL

\* No two locks ever cover the same resource.
THEOREM LocksNeverConflict == Spec => []NoConflictingLocks
<1>1. IInv => NoConflictingLocks
  BY DEF IInv, SInv, NoConflictingLocks
<1> QED
  BY <1>1, Inductive, PTL

\* canCreate is exact in every reachable state: it allows a lock if and only if
\* no lock in place covers one of its resources.
THEOREM CanCreateIsExact == Spec => []CanCreateExact
<1>1. IInv => CanCreateExact
  BY CanCreate DEF IInv, CanCreateExact
<1> QED
  BY <1>1, Inductive, PTL

\* No call of memLS panics with "inconsistent held state", and a node is held
\* exactly while one outstanding release refers to it.
THEOREM HeldIsExact == Spec => []HeldExact
<1>1. IInv => HeldExact
  BY DEF IInv, ClaimInv, HeldExact
<1> QED
  BY <1>1, Inductive, PTL

\* Two outstanding releases were confirmed for different resources: the claim
\* to exclusive access in the comment on Confirm.
THEOREM ConfirmGivesExclusiveAccess == Spec => []ConfirmExclusive
<1>1. IInv => ConfirmExclusive
  <2> SUFFICES ASSUME IInv, NEW c \in claims, NEW d \in claims, c # d,
                      NEW x \in c.names \cap d.names
               PROVE  FALSE
    BY DEF ConfirmExclusive
  <2>1. SInv(ls) /\ ClaimInv(ls, claims) /\ x \in Names
    BY DEF IInv, TypeOK, claimType
  <2>2. PICK m \in ClaimedNodes(c) : Covers(m, ls.byName[m].zeroDepth, x)
    BY <2>1 DEF ClaimInv
  <2>3. PICK n \in ClaimedNodes(d) : Covers(n, ls.byName[n].zeroDepth, x)
    BY <2>1 DEF ClaimInv
  <2>4. m # n /\ m \in HeldNodes(ls) /\ n \in HeldNodes(ls)
    BY <2>1 DEF ClaimInv
  <2>5. m \in Locked(ls) /\ n \in Locked(ls)
    BY <2>1, <2>4 DEF SInv, HeldAreLocked
  <2>6. x \in Region(m, ls.byName[m].zeroDepth) \cap Region(n, ls.byName[n].zeroDepth)
    BY <2>1, <2>2, <2>3 DEF Region
  <2> QED
    BY <2>1, <2>4, <2>5, <2>6 DEF SInv, Disjoint
<1> QED
  BY <1>1, Inductive, PTL

\* No step of any caller removes or alters a lock that a Confirm holds.
THEOREM HeldLocksStay == Spec => HeldNodesStay
<1>1. IInv /\ [Next]_vars =>
        [\A n \in HeldNodes(ls) :
            /\ n \in DOMAIN ls'.byName
            /\ ls'.byName[n].token = ls.byName[n].token
            /\ ls'.byName[n].zeroDepth = ls.byName[n].zeroDepth
            /\ ls'.byName[n].duration = ls.byName[n].duration]_vars
  BY NextInv DEF HeldKept
<1> QED
  BY <1>1, Inductive, PTL DEF Spec, HeldNodesStay

-----------------------------------------------------------------------------
(***************************************************************************)
(* What every call does to the table of locks.                             *)
(***************************************************************************)

NodeOf(s, t) == s.byName[s.byToken[t]]

\* r has the locks of s but for those in E, unchanged but for the timeouts of those in R.
LocksLeft(s, r, E, R) ==
    /\ DOMAIN r.byToken = DOMAIN s.byToken \ E
    /\ \A t \in DOMAIN r.byToken : /\ r.byToken[t] = s.byToken[t]
                                   /\ NodeOf(r, t).zeroDepth = NodeOf(s, t).zeroDepth
                                   /\ t \notin R => NodeOf(r, t).duration = NodeOf(s, t).duration
    /\ r.gen = s.gen

\* The locks in E have passed their timeout at now, and nobody holds them.
Expired(s, E, now) ==
    /\ E \subseteq DOMAIN s.byToken
    /\ \A t \in E : /\ NodeOf(s, t).duration >= 0 /\ NodeOf(s, t).expiry <= now
                    /\ ~NodeOf(s, t).held

LEMMA RemoveKeeps ==
    ASSUME NEW s, SInv(s), NEW E, E \subseteq Locked(s) \ HeldNodes(s)
    PROVE  LocksLeft(s, remove(s, E), {s.byName[n].token : n \in E}, {})
<1> DEFINE r == remove(s, E)
           T == {s.byName[n].token : n \in E}
<1>1. /\ SInv(r) /\ Locked(r) = Locked(s) \ E /\ r.gen = s.gen
      /\ DOMAIN r.byToken = DOMAIN s.byToken \ T
      /\ \A t \in DOMAIN r.byToken : r.byToken[t] = s.byToken[t]
  BY RemoveInv
<1>2. Removed(s, E, r)
  <2>1. E \subseteq Locked(s)
    OBVIOUS
  <2> QED
    BY <2>1, RemoveFields
<1> HIDE DEF r, T
<1>3. ASSUME NEW t \in DOMAIN r.byToken
      PROVE  /\ NodeOf(r, t).zeroDepth = NodeOf(s, t).zeroDepth
             /\ NodeOf(r, t).duration = NodeOf(s, t).duration
  <2>1. r.byToken[t] \in DOMAIN r.byName /\ r.byToken[t] = s.byToken[t]
    BY <1>1 DEF SInv, TokensOK, Locked
  <2> QED
    BY <1>2, <2>1 DEF Removed, NodeOf
<1> QED
  BY <1>1, <1>3 DEF LocksLeft, r, T

LEMMA CollectKeeps ==
    ASSUME NEW s, SInv(s), NEW now
    PROVE  \E E : Expired(s, E, now) /\ LocksLeft(s, collectExpiredNodes(s, now), E, {})
<1> DEFINE G == {n \in s.byExpiry : s.byName[n].expiry <= now}
           E == {s.byName[n].token : n \in G}
<1>1. G \subseteq Locked(s) \ HeldNodes(s)
  BY DEF SInv, HeapOK, HeldNodes
<1>2. LocksLeft(s, collectExpiredNodes(s, now), E, {})
  BY <1>1, RemoveKeeps DEF collectExpiredNodes
<1>3. Expired(s, E, now)
  <2> SUFFICES ASSUME NEW n \in G
               PROVE  LET t == s.byName[n].token
                      IN  /\ t \in DOMAIN s.byToken /\ s.byToken[t] = n
                          /\ s.byName[n].duration >= 0 /\ s.byName[n].expiry <= now
                          /\ ~s.byName[n].held
    BY DEF Expired, NodeOf
  <2> QED
    BY <1>1 DEF SInv, TokensOK, HeapOK
<1> QED
  BY <1>2, <1>3

\* Taking locks away twice.
LEMMA LeftTrans ==
    ASSUME NEW q, NEW s, NEW r, NEW D, NEW E, NEW R,
           LocksLeft(q, s, D, {}), LocksLeft(s, r, E, R)
    PROVE  LocksLeft(q, r, D \cup E, R)
BY DEF LocksLeft

\* hold and unhold change no lock.
LEMMA HoldKeeps ==
    ASSUME NEW s, SInv(s), NEW n \in (Locked(s) \ HeldNodes(s)) \cup {NoName}
    PROVE  LocksLeft(s, hold(s, n), {}, {})
<1>1. CASE n = NoName
  BY <1>1 DEF hold, LocksLeft, NodeOf
<1>2. CASE n # NoName
  <2>1. SInv(hold(s, n)) /\ LocksSame(s, hold(s, n))
    BY <1>2, HoldInv
  <2>2. hold(s, n).byToken = s.byToken /\ hold(s, n).gen = s.gen
    BY <1>2 DEF hold, SInv, StructOK
  <2> QED
    BY <2>1, <2>2 DEF LocksLeft, LocksSame, NodeOf, SInv, TokensOK
<1> QED
  BY <1>1, <1>2

LEMMA UnholdKeeps ==
    ASSUME NEW s, SInv(s), NEW n \in HeldNodes(s) \cup {NoName}
    PROVE  LocksLeft(s, unhold(s, n), {}, {})
<1>1. CASE n = NoName
  BY <1>1 DEF unhold, LocksLeft, NodeOf
<1>2. CASE n # NoName
  <2>1. SInv(unhold(s, n)) /\ LocksSame(s, unhold(s, n))
    BY <1>2, UnholdInv
  <2>2. unhold(s, n).byToken = s.byToken /\ unhold(s, n).gen = s.gen
    BY <1>2 DEF unhold, SInv, StructOK
  <2> QED
    BY <2>1, <2>2 DEF LocksLeft, LocksSame, NodeOf, SInv, TokensOK
<1> QED
  BY <1>1, <1>2

\* r has in addition a new lock on root, which none of the locks left touches.
LockAdded(s, r, E, root, zeroDepth, d) ==
    /\ DOMAIN r.byToken = (DOMAIN s.byToken \ E) \cup {s.gen + 1}
    /\ r.gen = s.gen + 1
    /\ \A t \in DOMAIN s.byToken \ E : /\ r.byToken[t] = s.byToken[t]
                                       /\ NodeOf(r, t).zeroDepth = NodeOf(s, t).zeroDepth
                                       /\ NodeOf(r, t).duration = NodeOf(s, t).duration
    /\ r.byToken[s.gen + 1] = root /\ NodeOf(r, s.gen + 1).zeroDepth = zeroDepth
    /\ NodeOf(r, s.gen + 1).duration = d
    /\ \A t \in DOMAIN s.byToken \ E :
          Region(s.byToken[t], NodeOf(s, t).zeroDepth) \cap Region(root, zeroDepth) = {}

LEMMA AddKeeps ==
    ASSUME NEW s, SInv(s), NEW now \in Nat, NEW root \in Names,
           NEW zeroDepth \in BOOLEAN, NEW d \in Nat \cup {infiniteTimeout},
           canCreate(s, root, zeroDepth)
    PROVE  LockAdded(s, addLock(s, now, root, zeroDepth, d), {}, root, zeroDepth, d)
<1> DEFINE r == addLock(s, now, root, zeroDepth, d)
           new == s.gen + 1
<1>1. Added(s, root, zeroDepth, d, r)
  BY AddFields
<1>2. /\ DOMAIN r.byToken = DOMAIN s.byToken \cup {new} /\ r.gen = new /\ r.byToken[new] = root
      /\ \A t \in DOMAIN s.byToken : t # new => r.byToken[t] = s.byToken[t]
  BY DEF addLock
<1> HIDE DEF r
<1>3. new \notin DOMAIN s.byToken
  BY DEF SInv, StructOK
<1>4. ASSUME NEW t \in DOMAIN s.byToken
      PROVE  /\ r.byToken[t] = s.byToken[t]
             /\ NodeOf(r, t).zeroDepth = NodeOf(s, t).zeroDepth
             /\ NodeOf(r, t).duration = NodeOf(s, t).duration
             /\ Region(s.byToken[t], NodeOf(s, t).zeroDepth) \cap Region(root, zeroDepth) = {}
  <2> DEFINE m == s.byToken[t]
  <2>1. m \in Locked(s) /\ m \in DOMAIN s.byName
    BY DEF SInv, TokensOK, Locked
  <2>2. Region(m, s.byName[m].zeroDepth) \cap Region(root, zeroDepth) = {}
    BY <2>1, CanCreate
  <2>3. m # root
    <3>1. root \in Names /\ m \in Names
      BY <2>1 DEF SInv, StructOK
    <3>2. root \in Region(root, zeroDepth) /\ root \in Region(root, s.byName[m].zeroDepth)
      BY <3>1 DEF Region, Covers
    <3> QED
      BY <2>2, <3>2
  <2>4. /\ r.byName[m].zeroDepth = s.byName[m].zeroDepth
        /\ r.byName[m].duration = s.byName[m].duration
    BY <1>1, <2>1, <2>3 DEF Added, nodeBefore
  <2> QED
    BY <1>2, <1>3, <2>2, <2>4 DEF NodeOf
<1> QED
  BY <1>1, <1>2, <1>4 DEF LockAdded, Added, NodeOf, r

\* Adding a lock where others were taken away before.
LEMMA LeftAdded ==
    ASSUME NEW q, NEW s, NEW r, NEW E, NEW root, NEW zeroDepth, NEW d,
           LocksLeft(q, s, E, {}), LockAdded(s, r, {}, root, zeroDepth, d)
    PROVE  LockAdded(q, r, E, root, zeroDepth, d)
BY DEF LocksLeft, LockAdded

\* Create drops what has expired, and may add a lock.
LEMMA CreateDoes ==
    ASSUME IInv, NEW now \in 0..clock, NEW root \in Names, NEW zeroDepth \in BOOLEAN,
           NEW d \in Durations, Create(now, root, zeroDepth, d)
    PROVE  \E E : /\ Expired(ls, E, now)
                  /\ LocksLeft(ls, ls', E, {}) \/ LockAdded(ls, ls', E, root, zeroDepth, d)
<1> DEFINE s == collectExpiredNodes(ls, now)
<1>1. SInv(ls) /\ SInv(s)
  BY CollectInv DEF IInv
<1>2. PICK E : Expired(ls, E, now) /\ LocksLeft(ls, s, E, {})
  BY <1>1, CollectKeeps
<1>3. now \in Nat /\ d \in Nat \cup {infiniteTimeout}
  BY BoundsAssumption DEF IInv, TypeOK
<1>4. ls' = IF canCreate(s, root, zeroDepth) THEN addLock(s, now, root, zeroDepth, d) ELSE s
  BY DEF Create
<1> HIDE DEF s
<1>5. CASE canCreate(s, root, zeroDepth)
  <2>1. LockAdded(s, ls', {}, root, zeroDepth, d)
    BY <1>1, <1>3, <1>4, <1>5, AddKeeps
  <2> QED
    BY <1>2, <2>1, LeftAdded
<1>6. CASE ~canCreate(s, root, zeroDepth)
  BY <1>2, <1>4, <1>6
<1> QED
  BY <1>5, <1>6

\* Unlock drops what has expired, and the lock it names unless a Confirm holds it.
LEMMA UnlockDoes ==
    ASSUME IInv, NEW now \in 0..clock, NEW t, Unlock(now, t)
    PROVE  \E E : /\ Expired(ls, E, now)
                  /\ \/ LocksLeft(ls, ls', E, {}) /\ (t \in DOMAIN ls'.byToken => ls.byToken[t] \in HeldNodes(ls))
                     \/ LocksLeft(ls, ls', E \cup {t}, {}) /\ t \in DOMAIN ls.byToken /\ ls.byToken[t] \notin HeldNodes(ls)
<1> DEFINE s == collectExpiredNodes(ls, now)
<1>1. SInv(ls) /\ SInv(s) /\ HeldSame(ls, s)
  BY CollectInv DEF IInv
<1>2. PICK E : Expired(ls, E, now) /\ LocksLeft(ls, s, E, {})
  BY <1>1, CollectKeeps
<1>3. ls' = IF free(s, t) THEN remove(s, {s.byToken[t]}) ELSE s
  BY DEF Unlock
<1> HIDE DEF s
<1>4. CASE free(s, t)
  <2> DEFINE n == s.byToken[t]
  <2>1. t \in DOMAIN s.byToken /\ n \in Locked(s) \ HeldNodes(s) /\ s.byName[n].token = t
    BY <1>1, <1>4 DEF free, SInv, TokensOK, HeldNodes
  <2> HIDE DEF n
  <2>2. LocksLeft(s, remove(s, {n}), {s.byName[m].token : m \in {n}}, {})
    BY <1>1, <2>1, RemoveKeeps
  <2>3. {s.byName[m].token : m \in {n}} = {t}
    BY <2>1
  <2>4. LocksLeft(s, ls', {t}, {})
    BY <1>3, <1>4, <2>2, <2>3 DEF n
  <2>5. LocksLeft(ls, ls', E \cup {t}, {})
    BY <1>2, <2>4, LeftTrans
  <2>6. t \in DOMAIN ls.byToken /\ ls.byToken[t] = n
    BY <1>2, <2>1 DEF LocksLeft, n
  <2>7. ls.byToken[t] \notin HeldNodes(ls)
    BY <1>1, <2>1, <2>6 DEF HeldSame
  <2> QED
    BY <1>2, <2>5, <2>6, <2>7
<1>5. CASE ~free(s, t)
  <2>1. t \in DOMAIN s.byToken => ls.byToken[t] \in HeldNodes(s)
    BY <1>1, <1>2, <1>5 DEF free, SInv, TokensOK, HeldNodes, Locked, LocksLeft
  <2> QED
    BY <1>1, <1>2, <1>3, <1>5, <2>1 DEF HeldSame
<1> QED
  BY <1>4, <1>5

\* Refresh drops what has expired, and changes the timeout of the lock it names.
LEMMA RefreshDoes ==
    ASSUME IInv, NEW now \in 0..clock, NEW t, NEW d \in Durations, Refresh(now, t, d)
    PROVE  \E E : Expired(ls, E, now) /\ LocksLeft(ls, ls', E, {t})
<1> DEFINE s == collectExpiredNodes(ls, now)
           n == s.byToken[t]
           node == renewed(s.byName[n], now, d)
<1>1. SInv(ls) /\ SInv(s)
  BY CollectInv DEF IInv
<1>2. PICK E : Expired(ls, E, now) /\ LocksLeft(ls, s, E, {})
  BY <1>1, CollectKeeps
<1>3. ls' = IF free(s, t) THEN [s EXCEPT !.byName = [s.byName EXCEPT ![n] = node],
                                         !.byExpiry = heapWith(s, n, d)] ELSE s
  BY DEF Refresh
<1>4. now \in Nat /\ d \in Nat \cup {infiniteTimeout}
  BY BoundsAssumption DEF IInv, TypeOK
<1> HIDE DEF s
<1>5. CASE free(s, t)
  <2>1. t \in DOMAIN s.byToken /\ n \in DOMAIN s.byName /\ s.byName[n] \in memLSNode /\ s.byName[n].token = t
    BY <1>1, <1>5 DEF free, SInv, StructOK, TokensOK, Locked
  <2>2. node.zeroDepth = s.byName[n].zeroDepth
    <3>1. PICK x \in memLSNode : x = s.byName[n]
      BY <2>1
    <3>2. renewed(x, now, d).zeroDepth = x.zeroDepth
      BY <1>4, RenewedNode
    <3> QED
      BY <3>1, <3>2
  <2>3. s = [byName |-> s.byName, byToken |-> s.byToken, byExpiry |-> s.byExpiry,
             gen |-> s.gen, panicked |-> s.panicked]
    BY <1>1 DEF SInv, StructOK
  <2> HIDE DEF node
  <2>4. /\ ls'.byToken = s.byToken /\ ls'.gen = s.gen
        /\ ls'.byName = [s.byName EXCEPT ![n] = node]
    BY <1>3, <1>5, <2>3
  <2>5. ASSUME NEW u \in DOMAIN s.byToken
        PROVE  /\ NodeOf(ls', u).zeroDepth = NodeOf(s, u).zeroDepth
               /\ u # t => NodeOf(ls', u).duration = NodeOf(s, u).duration
    <3>1. s.byToken[u] \in DOMAIN s.byName /\ s.byName[s.byToken[u]].token = u
      BY <1>1 DEF SInv, TokensOK, Locked
    <3> QED
      BY <2>1, <2>2, <2>4, <3>1 DEF NodeOf
  <2>6. LocksLeft(s, ls', {}, {t})
    BY <2>4, <2>5 DEF LocksLeft
  <2>7. LocksLeft(ls, ls', E \cup {}, {t})
    BY <1>2, <2>6, LeftTrans
  <2> QED
    BY <1>2, <2>7
<1>6. CASE ~free(s, t)
  BY <1>2, <1>3, <1>6 DEF LocksLeft
<1> QED
  BY <1>5, <1>6

\* Confirm drops what has expired, and may claim locks that nobody held, among those its
\* conditions name.
ConfirmEffect(E, now, name0, name1, conditions) ==
    /\ Expired(ls, E, now) /\ LocksLeft(ls, ls', E, {})
    /\ \/ claims' = claims /\ HeldNodes(ls') = HeldNodes(ls)
       \/ \E c : /\ claims' = claims \cup {c} /\ c.names = {name0, name1} \ {NoName}
                 /\ HeldNodes(ls') = HeldNodes(ls) \cup ClaimedNodes(c)
                 /\ ClaimedNodes(c) \cap HeldNodes(ls) = {}
                 /\ c.names # {} => ClaimedNodes(c) # {}
                 /\ \A n \in ClaimedNodes(c) :
                       /\ n \in Locked(ls')
                       /\ \E i \in DOMAIN conditions : ls'.byName[n].token = conditions[i]

LEMMA ConfirmDoes ==
    ASSUME IInv, NEW now \in 0..clock,
           NEW name0 \in Names \cup {NoName}, NEW name1 \in Names \cup {NoName},
           NEW conditions, DOMAIN conditions \subseteq Nat, Confirm(now, name0, name1, conditions)
    PROVE  \E E : ConfirmEffect(E, now, name0, name1, conditions)
<1> DEFINE s  == collectExpiredNodes(ls, now)
           n0 == lookup(s, name0, conditions)
           n1 == lookup(s, name1, conditions)
           n2 == second(n0, n1)
           failed == (name0 # NoName /\ n0 = NoName) \/ (name1 # NoName /\ n1 = NoName)
           c == [names |-> {name0, name1} \ {NoName}, n0 |-> n0, n1 |-> n2]
<1>1. SInv(ls) /\ SInv(s) /\ HeldSame(ls, s)
  BY CollectInv DEF IInv
<1>2. PICK E : Expired(ls, E, now) /\ LocksLeft(ls, s, E, {})
  BY <1>1, CollectKeeps
<1>3. /\ ls' = (IF failed THEN s ELSE hold(hold(s, n0), n2))
      /\ claims' = (IF failed THEN claims ELSE claims \cup {c})
  BY DEF Confirm
<1> HIDE DEF s
<1>4. CASE failed
  BY <1>1, <1>2, <1>3, <1>4 DEF HeldSame, ConfirmEffect
<1>5. CASE ~failed
  <2> DEFINE Named(n) == \E i \in DOMAIN conditions : s.byName[n].token = conditions[i]
  <2>1. n0 # NoName => n0 \in Locked(s) \ HeldNodes(s) /\ name0 # NoName /\ Named(n0)
    BY <1>1, LookupResult
  <2>2. n1 # NoName => n1 \in Locked(s) \ HeldNodes(s) /\ name1 # NoName /\ Named(n1)
    BY <1>1, LookupResult
  <2>3. (n0 = NoName <=> name0 = NoName) /\ (n1 = NoName <=> name1 = NoName)
    BY <1>5, <2>1, <2>2
  <2>4. n2 = (IF n1 = n0 THEN NoName ELSE n1)
    BY DEF second
  <2> DEFINE a == hold(s, n0)
             b == hold(a, n2)
  <2>5. /\ SInv(a) /\ LocksSame(s, a) /\ LocksLeft(s, a, {}, {})
        /\ HeldNodes(a) = HeldNodes(s) \cup ({n0} \ {NoName})
    <3>1. LocksLeft(s, a, {}, {})
      BY <1>1, <2>1, HoldKeeps
    <3>2. CASE n0 = NoName
      BY <3>1, <3>2, <1>1 DEF hold, LocksSame
    <3>3. CASE n0 # NoName
      BY <3>1, <3>3, <2>1, <1>1, HoldInv
    <3> QED
      BY <3>2, <3>3
  <2> HIDE DEF n0, n1, n2, a
  <2>6. n2 # NoName => n2 \in Locked(a) \ HeldNodes(a)
    BY <2>2, <2>4, <2>5 DEF LocksSame
  <2>7. /\ LocksSame(a, b) /\ LocksLeft(a, b, {}, {})
        /\ HeldNodes(b) = HeldNodes(a) \cup ({n2} \ {NoName})
    <3>1. LocksLeft(a, b, {}, {})
      BY <2>5, <2>6, HoldKeeps
    <3>2. CASE n2 = NoName
      BY <3>1, <3>2, <2>5 DEF hold, LocksSame
    <3>3. CASE n2 # NoName
      BY <3>1, <3>3, <2>5, <2>6, HoldInv
    <3> QED
      BY <3>2, <3>3
  <2> HIDE DEF b, failed
  <2>8. ls' = b /\ claims' = claims \cup {c}
    BY <1>3, <1>5 DEF a, b
  <2>9. LocksSame(s, b) /\ HeldNodes(b) = HeldNodes(s) \cup ({n0, n2} \ {NoName})
    BY <2>5, <2>7 DEF LocksSame
  <2>10. LocksLeft(ls, b, E, {})
    BY <1>2, <2>5, <2>7 DEF LocksLeft
  <2>11. /\ ClaimedNodes(c) = {n0, n2} \ {NoName} /\ c.names = {name0, name1} \ {NoName}
         /\ ClaimedNodes(c) \subseteq {n0, n1} \ {NoName}
    BY <2>4 DEF ClaimedNodes
  <2>12. c.names # {} => ClaimedNodes(c) # {}
    BY <2>3, <2>4, <2>11
  <2> HIDE DEF c, Named
  <2>13. \A n \in ClaimedNodes(c) : n \in Locked(b) /\ n \notin HeldNodes(s) /\ Named(n) /\ b.byName[n].token = s.byName[n].token
    BY <2>1, <2>2, <2>9, <2>11 DEF LocksSame
  <2>14. \A n \in ClaimedNodes(c) : \E i \in DOMAIN conditions : b.byName[n].token = conditions[i]
    BY <2>13 DEF Named
  <2>15. HeldNodes(s) = HeldNodes(ls)
    BY <1>1 DEF HeldSame
  <2> QED
    BY <1>2, <2>8, <2>9, <2>10, <2>11, <2>12, <2>13, <2>14, <2>15 DEF ConfirmEffect
<1> QED
  BY <1>4, <1>5

\* Release changes no lock, and gives back those of its claim.
LEMMA ReleaseDoes ==
    ASSUME IInv, NEW c \in claims, Release(c)
    PROVE  /\ LocksLeft(ls, ls', {}, {}) /\ claims' = claims \ {c}
           /\ HeldNodes(ls') = HeldNodes(ls) \ ClaimedNodes(c)
           /\ ClaimedNodes(c) \subseteq HeldNodes(ls)
<1> DEFINE a == unhold(ls, c.n1)
           b == unhold(a, c.n0)
<1>1. SInv(ls) /\ ClaimInv(ls, claims) /\ ClaimedNodes(c) \subseteq HeldNodes(ls)
  BY DEF IInv, ClaimInv
<1>2. /\ SInv(a) /\ LocksLeft(ls, a, {}, {})
      /\ HeldNodes(a) = HeldNodes(ls) \ ({c.n1} \ {NoName})
  <2>1. c.n1 \in HeldNodes(ls) \cup {NoName}
    BY <1>1 DEF ClaimedNodes
  <2>2. LocksLeft(ls, a, {}, {})
    BY <1>1, <2>1, UnholdKeeps
  <2>3. CASE c.n1 = NoName
    BY <2>2, <2>3, <1>1 DEF unhold
  <2>4. CASE c.n1 # NoName
    BY <2>1, <2>2, <2>4, <1>1, UnholdInv
  <2> QED
    BY <2>3, <2>4
<1> HIDE DEF a
<1>3. LocksLeft(a, b, {}, {}) /\ HeldNodes(b) = HeldNodes(a) \ ({c.n0} \ {NoName})
  <2>1. c.n0 \in HeldNodes(a) \cup {NoName}
    BY <1>1, <1>2 DEF ClaimedNodes, ClaimInv
  <2>2. LocksLeft(a, b, {}, {})
    BY <1>2, <2>1, UnholdKeeps
  <2>3. CASE c.n0 = NoName
    BY <2>2, <2>3 DEF unhold
  <2>4. CASE c.n0 # NoName
    BY <2>1, <2>2, <2>4, <1>2, UnholdInv
  <2> QED
    BY <2>3, <2>4
<1> HIDE DEF b
<1>4. ls' = b /\ claims' = claims \ {c}
  BY DEF Release, a, b
<1>5. LocksLeft(ls, b, {}, {})
  BY <1>2, <1>3 DEF LocksLeft
<1> QED
  BY <1>1, <1>2, <1>3, <1>4, <1>5 DEF ClaimedNodes

-----------------------------------------------------------------------------
(***************************************************************************)
(* Locks go only when they are due, and memLS implements the lock table.   *)
(***************************************************************************)

\* A lock goes away only when its timeout has passed (collectExpiredNodes) or through an
\* Unlock of its own token: no other call of any caller takes a lock away.
THEOREM LocksGoOnlyWhenDue == Spec => GoneOnlyWhenDue
<1> DEFINE Due(t) == LET n == ls.byName[ls.byToken[t]]
                     IN  \/ n.duration >= 0 /\ n.expiry <= clock
                         \/ \E now \in 0..clock : Unlock(now, t)
<1>1. ASSUME IInv, [Next]_vars, NEW t \in DOMAIN ls.byToken \ DOMAIN ls'.byToken
      PROVE  Due(t)
  <2>1. clock \in Nat
    BY <1>1 DEF IInv, TypeOK
  <2>2. ASSUME NEW now \in 0..clock, NEW E, Expired(ls, E, now), t \in E
        PROVE  Due(t)
    <3>1. NodeOf(ls, t).duration >= 0 /\ NodeOf(ls, t).expiry <= now /\ NodeOf(ls, t) \in memLSNode
      BY <1>1, <2>2 DEF Expired, NodeOf, IInv, SInv, StructOK, TokensOK, Locked
    <3>2. NodeOf(ls, t).expiry <= clock
      BY <2>1, <3>1 DEF memLSNode
    <3> QED
      BY <3>1, <3>2 DEF NodeOf
  <2>3. ASSUME NEW now \in 0..clock, NEW root \in Names, NEW zeroDepth \in BOOLEAN,
               NEW d \in Durations, Create(now, root, zeroDepth, d)
        PROVE  Due(t)
    <3>1. PICK E : /\ Expired(ls, E, now)
                   /\ LocksLeft(ls, ls', E, {}) \/ LockAdded(ls, ls', E, root, zeroDepth, d)
      BY <1>1, <2>3, CreateDoes
    <3>2. t \in E
      BY <3>1 DEF LocksLeft, LockAdded
    <3> QED
      BY <2>2, <3>1, <3>2
  <2>4. ASSUME NEW now \in 0..clock, NEW name0 \in Names \cup {NoName},
               NEW name1 \in Names \cup {NoName}, NEW conditions \in Conditions,
               Confirm(now, name0, name1, conditions)
        PROVE  Due(t)
    <3>1. DOMAIN conditions \subseteq Nat
      BY DEF Conditions
    <3>2. PICK E : Expired(ls, E, now) /\ LocksLeft(ls, ls', E, {})
      BY <1>1, <2>4, <3>1, ConfirmDoes DEF ConfirmEffect
    <3>3. t \in E
      BY <3>2 DEF LocksLeft
    <3> QED
      BY <2>2, <3>2, <3>3
  <2>5. ASSUME NEW c \in claims, Release(c) PROVE Due(t)
    <3>1. LocksLeft(ls, ls', {}, {})
      BY <1>1, <2>5, ReleaseDoes
    <3> QED
      BY <3>1 DEF LocksLeft
  <2>6. ASSUME NEW now \in 0..clock, NEW u \in Issued, NEW d \in Durations, Refresh(now, u, d)
        PROVE  Due(t)
    <3>1. PICK E : Expired(ls, E, now) /\ LocksLeft(ls, ls', E, {u})
      BY <1>1, <2>6, RefreshDoes
    <3>2. t \in E
      BY <3>1 DEF LocksLeft
    <3> QED
      BY <2>2, <3>1, <3>2
  <2>7. ASSUME NEW now \in 0..clock, NEW u \in Issued, Unlock(now, u) PROVE Due(t)
    <3>1. PICK E : /\ Expired(ls, E, now)
                   /\ LocksLeft(ls, ls', E, {}) \/ LocksLeft(ls, ls', E \cup {u}, {})
      BY <1>1, <2>7, UnlockDoes
    <3>2. t \in E \/ t = u
      BY <3>1 DEF LocksLeft
    <3>3. CASE t \in E
      BY <2>2, <3>1, <3>3
    <3>4. CASE t = u
      BY <2>7, <3>4
    <3> QED
      BY <3>2, <3>3, <3>4
  <2>8. CASE Tick \/ UNCHANGED vars
    BY <1>1, <2>8 DEF Tick, vars
  <2> HIDE DEF Due
  <2> QED
    BY <1>1, <2>3, <2>4, <2>5, <2>6, <2>7, <2>8 DEF Next
<1>2. IInv /\ [Next]_vars => [\A t \in DOMAIN ls.byToken \ DOMAIN ls'.byToken : Due(t)]_vars
  BY <1>1
<1> QED
  BY <1>2, Inductive, PTL DEF Spec, GoneOnlyWhenDue

\* The table when the locks in E are gone, and what the claimed tokens become.
LEMMA TableLeft ==
    ASSUME IInv, NEW E, E \subseteq DOMAIN ls.byToken, NEW R, LocksLeft(ls, ls', E, R)
    PROVE  TableLocks' = Table!Without(E) /\ DOMAIN TableLocks = DOMAIN ls.byToken
BY DEF TableLocks, Table!Without, LocksLeft, NodeOf

LEMMA TableKept ==
    ASSUME IInv, IInv', HeldKept(ls, ls')
    PROVE  \A n \in HeldNodes(ls) : ls'.byName[n].token = ls.byName[n].token
BY DEF HeldKept

\* The locks that have expired, or that nobody holds, are not claimed.
LEMMA ExpiredUnclaimed ==
    ASSUME IInv, NEW t \in DOMAIN ls.byToken, ls.byToken[t] \notin HeldNodes(ls)
    PROVE  t \in Table!Unclaimed
<1>1. /\ SInv(ls) /\ HeldNodes(ls) \subseteq Locked(ls)
  BY DEF IInv, SInv, HeldAreLocked
<1>2. \A n \in HeldNodes(ls) : ls.byName[n].token # t
  BY <1>1 DEF SInv, TokensOK
<1> QED
  BY <1>2 DEF Table!Unclaimed, TableLocks, TableClaimed

LEMMA ExpiredIsFree ==
    ASSUME IInv, NEW now, NEW E, Expired(ls, E, now)
    PROVE  E \in SUBSET Table!Unclaimed /\ E \subseteq DOMAIN ls.byToken
<1>1. \A t \in E : t \in DOMAIN ls.byToken /\ ls.byToken[t] \notin HeldNodes(ls)
  BY DEF Expired, NodeOf, HeldNodes
<1> QED
  BY <1>1, ExpiredUnclaimed

\* A call that holds nothing and gives nothing back leaves the claimed tokens alone.
LEMMA ClaimedSame ==
    ASSUME IInv, HeldSame(ls, ls')
    PROVE  TableClaimed' = TableClaimed
BY DEF TableClaimed, HeldSame

\* Each call of memLS is one step of the table, or leaves it alone.
LEMMA TableCreate ==
    ASSUME IInv, NEW now \in 0..clock, NEW root \in Names, NEW zeroDepth \in BOOLEAN,
           NEW d \in Durations, Create(now, root, zeroDepth, d)
    PROVE  Table!TableNext
<1>1. TableClaimed' = TableClaimed
  BY CreateStep, ClaimedSame
<1>2. PICK E : /\ Expired(ls, E, now)
               /\ LocksLeft(ls, ls', E, {}) \/ LockAdded(ls, ls', E, root, zeroDepth, d)
  BY CreateDoes
<1>3. E \in SUBSET Table!Unclaimed /\ E \subseteq DOMAIN ls.byToken
  BY <1>2, ExpiredIsFree
<1>4. CASE LocksLeft(ls, ls', E, {})
  <2>1. Table!Drop(E)
    BY <1>1, <1>3, <1>4, TableLeft DEF Table!Drop, LocksLeft
  <2> QED
    BY <1>3, <2>1 DEF Table!TableNext
<1>5. CASE LockAdded(ls, ls', E, root, zeroDepth, d)
  <2> DEFINE region == Region(root, zeroDepth)
  <2>1. region \in {Region(n, z) : n \in Names, z \in BOOLEAN}
    OBVIOUS
  <2>2. /\ ls'.gen = ls.gen + 1 /\ DOMAIN TableLocks = DOMAIN ls.byToken
        /\ \A t \in DOMAIN ls.byToken \ E : TableLocks[t] \cap region = {}
    BY <1>3, <1>5 DEF LockAdded, TableLocks, NodeOf
  <2>3. ls.gen + 1 \notin DOMAIN ls.byToken
    BY DEF IInv, SInv, StructOK
  <2>4. TableLocks' = [t \in (DOMAIN TableLocks \ E) \cup {ls'.gen} |->
                         IF t = ls'.gen THEN region ELSE TableLocks[t]]
    <3> DEFINE dom == (DOMAIN TableLocks \ E) \cup {ls'.gen}
    <3>1. DOMAIN ls'.byToken = dom
      BY <1>5, <2>2 DEF LockAdded
    <3>2. ASSUME NEW t \in dom
          PROVE  Region(ls'.byToken[t], ls'.byName[ls'.byToken[t]].zeroDepth)
                   = IF t = ls'.gen THEN region ELSE TableLocks[t]
      BY <1>5, <2>2, <2>3 DEF LockAdded, TableLocks, NodeOf
    <3> HIDE DEF dom
    <3> QED
      BY <3>1, <3>2 DEF TableLocks, dom
  <2> HIDE DEF region
  <2>5. Table!Grant(E, region)
    BY <1>1, <2>2, <2>4 DEF Table!Grant
  <2> QED
    BY <1>3, <2>1, <2>5 DEF Table!TableNext
<1> QED
  BY <1>2, <1>4, <1>5

LEMMA TableUnlock ==
    ASSUME IInv, NEW now \in 0..clock, NEW t \in Issued, Unlock(now, t)
    PROVE  Table!TableNext
<1>1. TableClaimed' = TableClaimed
  BY UnlockStep, ClaimedSame
<1>2. PICK E : /\ Expired(ls, E, now)
               /\ \/ LocksLeft(ls, ls', E, {})
                  \/ LocksLeft(ls, ls', E \cup {t}, {}) /\ t \in DOMAIN ls.byToken /\ ls.byToken[t] \notin HeldNodes(ls)
  BY UnlockDoes
<1>3. E \in SUBSET Table!Unclaimed /\ E \subseteq DOMAIN ls.byToken
  BY <1>2, ExpiredIsFree
<1>4. PICK D : D \in SUBSET Table!Unclaimed /\ D \subseteq DOMAIN ls.byToken /\ LocksLeft(ls, ls', D, {})
  <2>1. CASE LocksLeft(ls, ls', E, {})
    BY <1>3, <2>1
  <2>2. CASE LocksLeft(ls, ls', E \cup {t}, {}) /\ t \in DOMAIN ls.byToken /\ ls.byToken[t] \notin HeldNodes(ls)
    <3>1. t \in Table!Unclaimed
      BY <2>2, ExpiredUnclaimed
    <3> QED
      BY <1>3, <2>2, <3>1
  <2> QED
    BY <1>2, <2>1, <2>2
<1>5. Table!Drop(D)
  BY <1>1, <1>4, TableLeft DEF Table!Drop, LocksLeft
<1> QED
  BY <1>4, <1>5 DEF Table!TableNext

LEMMA TableRefresh ==
    ASSUME IInv, NEW now \in 0..clock, NEW t \in Issued, NEW d \in Durations, Refresh(now, t, d)
    PROVE  Table!TableNext
<1>1. TableClaimed' = TableClaimed
  BY RefreshStep, ClaimedSame
<1>2. PICK E : Expired(ls, E, now) /\ LocksLeft(ls, ls', E, {t})
  BY RefreshDoes
<1>3. E \in SUBSET Table!Unclaimed /\ E \subseteq DOMAIN ls.byToken
  BY <1>2, ExpiredIsFree
<1>4. Table!Drop(E)
  BY <1>1, <1>2, <1>3, TableLeft DEF Table!Drop, LocksLeft
<1> QED
  BY <1>3, <1>4 DEF Table!TableNext

LEMMA TableConfirm ==
    ASSUME IInv, NEW now \in 0..clock,
           NEW name0 \in Names \cup {NoName}, NEW name1 \in Names \cup {NoName},
           NEW conditions, DOMAIN conditions \subseteq Nat, Confirm(now, name0, name1, conditions)
    PROVE  Table!TableNext
<1>1. IInv' /\ HeldKept(ls, ls')
  BY ConfirmStep
<1>2. PICK E : /\ Expired(ls, E, now) /\ LocksLeft(ls, ls', E, {})
               /\ \/ HeldNodes(ls') = HeldNodes(ls)
                  \/ \E c : /\ HeldNodes(ls') = HeldNodes(ls) \cup ClaimedNodes(c)
                            /\ ClaimedNodes(c) \cap HeldNodes(ls) = {}
                            /\ \A n \in ClaimedNodes(c) : n \in Locked(ls')
  BY ConfirmDoes DEF ConfirmEffect
<1>3. E \in SUBSET Table!Unclaimed /\ E \subseteq DOMAIN ls.byToken
  BY <1>2, ExpiredIsFree
<1>4. /\ TableLocks' = Table!Without(E) /\ ls'.gen = ls.gen
      /\ \A n \in HeldNodes(ls) : ls'.byName[n].token = ls.byName[n].token
  BY <1>1, <1>2, <1>3, TableLeft, TableKept DEF LocksLeft
<1>5. CASE HeldNodes(ls') = HeldNodes(ls)
  <2>1. TableClaimed' = TableClaimed
    BY <1>4, <1>5 DEF TableClaimed
  <2>2. Table!Drop(E)
    BY <1>4, <2>1 DEF Table!Drop
  <2> QED
    BY <1>3, <2>2 DEF Table!TableNext
<1>6. CASE \E c : /\ HeldNodes(ls') = HeldNodes(ls) \cup ClaimedNodes(c)
                  /\ ClaimedNodes(c) \cap HeldNodes(ls) = {}
                  /\ \A n \in ClaimedNodes(c) : n \in Locked(ls')
  <2>1. PICK c : /\ HeldNodes(ls') = HeldNodes(ls) \cup ClaimedNodes(c)
                 /\ ClaimedNodes(c) \cap HeldNodes(ls) = {}
                 /\ \A n \in ClaimedNodes(c) : n \in Locked(ls')
    BY <1>6
  <2> DEFINE T == {ls'.byName[n].token : n \in ClaimedNodes(c)}
  <2>2. ASSUME NEW n \in ClaimedNodes(c)
        PROVE  ls'.byName[n].token \in Table!Unclaimed \ E
    <3> DEFINE t == ls'.byName[n].token
    <3>1. t \in DOMAIN ls'.byToken /\ ls'.byToken[t] = n
      BY <1>1, <2>1 DEF IInv, SInv, TokensOK
    <3>2. t \in DOMAIN ls.byToken \ E /\ ls.byToken[t] = n
      BY <1>2, <3>1 DEF LocksLeft
    <3>3. t \in Table!Unclaimed
      BY <2>1, <3>2, ExpiredUnclaimed
    <3> QED
      BY <3>2, <3>3
  <2>3. T \in SUBSET Table!Unclaimed /\ T \subseteq Table!Unclaimed \ E
    BY <2>2
  <2>4. TableClaimed' = TableClaimed \cup T
    BY <1>4, <2>1 DEF TableClaimed
  <2> HIDE DEF T
  <2>5. Table!Claim(E, T)
    BY <1>4, <2>3, <2>4 DEF Table!Claim
  <2>6. \E T1 \in SUBSET Table!Unclaimed : Table!Claim(E, T1)
    BY <2>3, <2>5
  <2>7. \E E1 \in SUBSET Table!Unclaimed : \E T1 \in SUBSET Table!Unclaimed : Table!Claim(E1, T1)
    BY <1>3, <2>6
  <2> QED
    BY <2>7, SMTT(30) DEF Table!TableNext
<1> QED
  BY <1>2, <1>5, <1>6

LEMMA TableRelease ==
    ASSUME IInv, NEW c \in claims, Release(c)
    PROVE  Table!TableNext
<1>1. /\ LocksLeft(ls, ls', {}, {}) /\ HeldKept(ls, ls')
      /\ HeldNodes(ls') = HeldNodes(ls) \ ClaimedNodes(c)
      /\ ClaimedNodes(c) \subseteq HeldNodes(ls)
  BY ReleaseDoes, ReleaseStep
<1> DEFINE T == {ls.byName[n].token : n \in ClaimedNodes(c)}
<1>2. TableLocks' = TableLocks /\ ls'.gen = ls.gen
  <2>1. TableLocks' = Table!Without({})
    BY <1>1, TableLeft
  <2>2. Table!Without({}) = TableLocks
    BY DEF Table!Without, TableLocks
  <2> QED
    BY <1>1, <2>1, <2>2 DEF LocksLeft
<1>3. T \in SUBSET TableClaimed
  BY <1>1 DEF TableClaimed
<1>4. TableClaimed' = TableClaimed \ T
  <2>1. \A n \in HeldNodes(ls) : ls'.byName[n].token = ls.byName[n].token
    BY <1>1 DEF HeldKept
  <2>2. \A m, n \in HeldNodes(ls) : ls.byName[m].token = ls.byName[n].token => m = n
    BY DEF IInv, SInv, HeldAreLocked, TokensOK
  <2> QED
    BY <1>1, <2>1, <2>2 DEF TableClaimed
<1> HIDE DEF T
<1>5. Table!Return(T)
  BY <1>2, <1>3, <1>4 DEF Table!Return
<1> QED
  BY <1>3, <1>5 DEF Table!TableNext

\* memLS implements the lock table: a lock is its token and its region, the claimed ones
\* those that a Confirm holds; and every call of memLS, the expiries it collects on the way
\* included, is one grant, one claim, one return or one loss of unclaimed locks.
THEOREM MemLSImplementsTable == Spec => ImplementsLockTable
<1>1. Init => Table!TableInit
  <2> SUFFICES ASSUME Init PROVE Table!TableInit
    OBVIOUS
  <2>1. DOMAIN ls.byName = {} /\ DOMAIN ls.byToken = {} /\ ls.gen = 0
    BY DEF Init, NewMemLS
  <2>2. TableLocks = [t \in {} |-> {}]
    BY <2>1 DEF TableLocks
  <2>3. TableClaimed = {}
    BY <2>1 DEF TableClaimed, HeldNodes
  <2> QED
    BY <2>1, <2>2, <2>3 DEF Table!TableInit
<1>2. IInv /\ [Next]_vars => [Table!TableNext]_(Table!tableVars)
  <2> SUFFICES ASSUME IInv, [Next]_vars PROVE [Table!TableNext]_(Table!tableVars)
    OBVIOUS
  <2>1. ASSUME NEW now \in 0..clock, NEW root \in Names, NEW zeroDepth \in BOOLEAN,
               NEW d \in Durations, Create(now, root, zeroDepth, d)
        PROVE  Table!TableNext
    BY <2>1, TableCreate
  <2>2. ASSUME NEW now \in 0..clock, NEW name0 \in Names \cup {NoName},
               NEW name1 \in Names \cup {NoName}, NEW conditions \in Conditions,
               Confirm(now, name0, name1, conditions)
        PROVE  Table!TableNext
    <3>1. DOMAIN conditions \subseteq Nat
      BY DEF Conditions
    <3> QED
      BY <2>2, <3>1, TableConfirm
  <2>3. ASSUME NEW c \in claims, Release(c) PROVE Table!TableNext
    BY <2>3, TableRelease
  <2>4. ASSUME NEW now \in 0..clock, NEW t \in Issued, NEW d \in Durations, Refresh(now, t, d)
        PROVE  Table!TableNext
    BY <2>4, TableRefresh
  <2>5. ASSUME NEW now \in 0..clock, NEW t \in Issued, Unlock(now, t) PROVE Table!TableNext
    BY <2>5, TableUnlock
  <2>6. CASE Tick \/ UNCHANGED vars
    BY <2>6 DEF Tick, vars, Table!tableVars, TableLocks, TableClaimed, HeldNodes
  <2> QED
    BY <2>1, <2>2, <2>3, <2>4, <2>5, <2>6 DEF Next
<1> QED
  BY <1>1, <1>2, Inductive, PTL DEF Spec, ImplementsLockTable, Table!TableSpec
=============================================================================
