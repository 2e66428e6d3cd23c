------------------------------ MODULE ApiProofs ------------------------------
(* Proofs about the HTTP API.  Logins: tokens let in whom they were given to,   *)
(* and the count of failures stops the guessing, for any number of requests and *)
(* all bounds.  StorageLife: the rows of the storages and the map of what is    *)
(* mounted agree, for any number of storages, drivers and administrators.       *)
(* FsHandlers: the handlers that change files keep every file and stay within   *)
(* the rights of their user, for every tree, metas and request.                 *)
EXTENDS Logins, StorageLife, FsHandlers, TLAPS, WellFoundedInduction, FiniteSetTheorems

ARows == [there : BOOLEAN, pwd : Nat, ts : Nat, argon : BOOLEAN, disabled : BOOLEAN, otp : BOOLEAN]
ATokens == [ts : Nat, at : Nat, pwd : Nat]
ARequests ==
  [pc : {"idle", "check", "rehash", "token", "user", "in"}, kind : {"", "login", "dav"}, guess : Nat,
   code : BOOLEAN, count : Nat, tok : ATokens \cup {0}, row : ARows \cup {0}, out : BOOLEAN]
AGhosts ==
  [failed : Nat, overlap : BOOLEAN, used : SUBSET (Nat \X Nat), again : BOOLEAN, edited : BOOLEAN, out : SUBSET ATokens]

ATyped ==
  /\ arow \in ARows /\ avalid \subseteq ATokens
  /\ acount \in [n : Nat \cup {-1}, ends : BOOLEAN]
  /\ aproc \in [AProcs -> ARequests]
  /\ aclock \in [now : Nat, starts : Nat, changes : Nat]
  /\ aghost \in AGhosts

\* What a row or a token says of the password is something the user once had.
AKnown(x, used) == <<x.ts, x.pwd>> \in used

\* A request works with a row it has read, and with a token that was valid.
ARequestOK(x, used, again) ==
  /\ x.pc \in {"rehash", "token", "in"} => x.row \in ARows /\ AKnown(x.row, used)
  /\ x.pc \in {"user", "in"} => x.tok \in ATokens /\ AKnown(x.tok, used) /\ ~x.out
  /\ x.pc = "in" => again \/ x.tok.pwd = x.row.pwd

\* A timestamp tells the password, unless one came back; a password tells the
\* timestamp, unless an administrator reset it; and the next password is new.
AUsedOK(used, again, edited, changes) ==
  /\ \A u \in used : u[2] < 2 + changes
  /\ ~again => \A u, v \in used : u[1] = v[1] => u[2] = v[2]
  /\ ~edited => \A u, v \in used : u[2] = v[2] => u[1] = v[1]

ATokensKnown ==
  /\ AKnown(arow, aghost.used)
  /\ \A tok \in avalid : AKnown(tok, aghost.used)
  /\ avalid \cap aghost.out = {}

\* What LoginCache says to the next attempt.
ACounted == IF acount.n < 0 THEN 0 ELSE acount.n

\* Attempts one at a time: the count is the number of failures, also the copy of
\* it that the attempt under way took.
ACountRight ==
  ~aghost.overlap =>
    /\ aghost.failed = ACounted /\ aghost.failed <= AMax
    /\ \A p \in ATrying : aproc[p].count = aghost.failed /\ aghost.failed < AMax
    /\ \A p, q \in ATrying : p = q

AInv ==
  /\ ATyped
  /\ \A p \in AProcs : ARequestOK(aproc[p], aghost.used, aghost.again)
  /\ AUsedOK(aghost.used, aghost.again, aghost.edited, aclock.changes)
  /\ ATokensKnown
  /\ ACountRight

-----------------------------------------------------------------------------
(* What the parts of a step leave alone *)

(* What a request knows stays right when the user gets another password.        *)
LEMMA RequestStays ==
  ASSUME NEW x, NEW used, NEW used2, NEW again \in BOOLEAN, NEW again2 \in BOOLEAN,
         used \subseteq used2, again => again2, ARequestOK(x, used, again)
  PROVE  ARequestOK(x, used2, again2)
  BY DEF ARequestOK, AKnown

\* The ghosts may grow, but only as a write of the row makes them.
AGrows ==
  /\ aghost' \in AGhosts /\ aghost.used \subseteq aghost'.used
  /\ aghost.again => aghost'.again

(* A step of one request: the others keep what they know.                       *)
LEMMA OneMoves ==
  ASSUME AInv, AGrows, NEW p \in AProcs, NEW x \in ARequests, aproc' = [aproc EXCEPT ![p] = x],
         ARequestOK(x, aghost'.used, aghost'.again)
  PROVE  /\ aproc' \in [AProcs -> ARequests] /\ aproc'[p] = x
         /\ \A q \in AProcs : q # p => aproc'[q] = aproc[q]
         /\ \A q \in AProcs : ARequestOK(aproc'[q], aghost'.used, aghost'.again)
<1>1. /\ aproc' \in [AProcs -> ARequests] /\ aproc'[p] = x
      /\ \A q \in AProcs : q # p => aproc'[q] = aproc[q]
  BY DEF AInv, ATyped
<1>2. aghost.again \in BOOLEAN /\ aghost'.again \in BOOLEAN
  BY DEF AInv, ATyped, AGrows, AGhosts
<1>3. ASSUME NEW q \in AProcs, q # p
      PROVE  ARequestOK(aproc'[q], aghost'.used, aghost'.again)
  <2>1. ARequestOK(aproc[q], aghost.used, aghost.again)
    BY DEF AInv
  <2> QED BY <1>1, <1>2, <1>3, <2>1, RequestStays DEF AGrows
<1> QED BY <1>1, <1>3

(* A step that changes no request: all keep what they know.                     *)
LEMMA NoneMoves ==
  ASSUME AInv, AGrows, UNCHANGED aproc
  PROVE  /\ aproc' \in [AProcs -> ARequests]
         /\ \A q \in AProcs : ARequestOK(aproc'[q], aghost'.used, aghost'.again)
<1>1. aghost.again \in BOOLEAN /\ aghost'.again \in BOOLEAN
  BY DEF AInv, ATyped, AGrows, AGhosts
<1>2. ASSUME NEW q \in AProcs PROVE ARequestOK(aproc[q], aghost'.used, aghost'.again)
  <2>1. ARequestOK(aproc[q], aghost.used, aghost.again)
    BY DEF AInv
  <2> QED BY <1>1, <2>1, RequestStays DEF AGrows
<1> QED BY <1>2 DEF AInv, ATyped

(* The count stays right as long as the one who tries keeps its copy of it.     *)
LEMMA CountStays ==
  ASSUME AInv, acount'.n = acount.n, aghost'.failed = aghost.failed, aghost'.overlap = aghost.overlap,
         \A q \in ATrying' : q \in ATrying /\ aproc'[q].count = aproc[q].count
  PROVE  ACountRight'
  BY DEF AInv, ACountRight, ACounted

(* A user's row is written: with a pair of password and timestamp that was seen *)
(* before, or with the next password.                                           *)
LEMMA RowWritten ==
  ASSUME AInv, NEW row \in ARows, AWrites(row), aclock' \in [now : Nat, starts : Nat, changes : Nat],
         \/ AKnown(row, aghost.used) /\ aclock'.changes >= aclock.changes
         \/ row.pwd = ANewPwd /\ aclock'.changes = aclock.changes + 1
  PROVE  /\ AGrows /\ AUsedOK(aghost.used, aghost.again, aghost.edited, aclock.changes)'
         /\ AKnown(arow, aghost.used)' /\ arow' = row
         /\ aghost'.failed = aghost.failed /\ aghost'.overlap = aghost.overlap /\ aghost'.out = aghost.out
<1> DEFINE u == <<row.ts, row.pwd>>
<1>1. /\ row.ts \in Nat /\ row.pwd \in Nat /\ aclock.changes \in Nat /\ aclock'.changes \in Nat
      /\ aghost.used \subseteq Nat \X Nat /\ aghost.again \in BOOLEAN /\ aghost.edited \in BOOLEAN
  BY DEF ARows, AInv, ATyped, AGhosts
<1>2. /\ aghost'.used = aghost.used \cup {u}
      /\ aghost'.again = (aghost.again \/ \E v \in aghost.used : v[1] = u[1] /\ v[2] # u[2])
      /\ aghost'.edited = aghost.edited
      /\ aghost'.failed = aghost.failed /\ aghost'.overlap = aghost.overlap /\ aghost'.out = aghost.out
  BY DEF AWrites, AInv, ATyped, AGhosts
<1>3. AGrows
  <2> DEFINE b == aghost.again \/ \E v \in aghost.used : v[1] = row.ts /\ v[2] # row.pwd
             s == aghost.used \cup {u}
  <2>1. b \in BOOLEAN /\ s \in SUBSET (Nat \X Nat)
    BY <1>1
  <2>2. aghost' = [aghost EXCEPT !.used = s, !.again = b]
    BY DEF AWrites
  <2> HIDE DEF b, s
  <2>3. aghost' \in AGhosts
    BY <2>1, <2>2 DEF AInv, ATyped, AGhosts
  <2> QED BY <1>2, <2>3 DEF AGrows
<1>4. \/ u \in aghost.used /\ aclock'.changes >= aclock.changes
      \/ u[2] = ANewPwd /\ aclock'.changes = aclock.changes + 1
  BY DEF AKnown
<1>5. u \in Nat \X Nat /\ u[1] = row.ts /\ u[2] = row.pwd
  BY <1>1
<1> HIDE DEF u
<1>6. \A v \in aghost.used : v[2] < 2 + aclock.changes /\ v[2] \in Nat /\ v[1] \in Nat
  BY <1>1 DEF AInv, AUsedOK
<1>7. \A v \in aghost'.used : v[2] < 2 + aclock'.changes
  BY <1>1, <1>2, <1>4, <1>6 DEF ANewPwd
<1>8. ~aghost'.again => \A v, w \in aghost'.used : v[1] = w[1] => v[2] = w[2]
  <2> SUFFICES ASSUME ~aghost'.again PROVE \A v, w \in aghost'.used : v[1] = w[1] => v[2] = w[2]
    OBVIOUS
  <2>1. ~aghost.again /\ \A v \in aghost.used : v[1] = u[1] => v[2] = u[2]
    BY <1>2
  <2>2. \A v, w \in aghost.used : v[1] = w[1] => v[2] = w[2]
    BY <2>1 DEF AInv, AUsedOK
  <2> QED BY <1>2, <2>1, <2>2
<1>9. ~aghost'.edited => \A v, w \in aghost'.used : v[2] = w[2] => v[1] = w[1]
  <2>1. CASE u \in aghost.used
    BY <1>2, <2>1 DEF AInv, AUsedOK
  <2>2. CASE u[2] = ANewPwd
    <3>1. \A v \in aghost.used : v[2] # u[2]
      BY <1>1, <1>6, <2>2 DEF ANewPwd
    <3> QED BY <1>2, <3>1 DEF AInv, AUsedOK
  <2> QED BY <1>4, <2>1, <2>2
<1>10. AKnown(arow, aghost.used)' /\ arow' = row
  BY <1>2 DEF AWrites, AKnown, u
<1> QED BY <1>2, <1>3, <1>7, <1>8, <1>9, <1>10 DEF AUsedOK

-----------------------------------------------------------------------------
(* The actions *)

(* The ghosts grow when only the failures, the overlap and the tokens that were *)
(* logged out change.                                                           *)
LEMMA GhostsGrow ==
  ASSUME AInv, aghost' \in AGhosts, aghost'.used = aghost.used, aghost'.again = aghost.again,
         aghost'.edited = aghost.edited, aclock'.changes \in Nat, aclock'.changes >= aclock.changes
  PROVE  AGrows /\ AUsedOK(aghost.used, aghost.again, aghost.edited, aclock.changes)'
<1>1. AGrows
  BY DEF AGrows
<1>2. aghost.used \subseteq Nat \X Nat /\ aclock.changes \in Nat
  BY DEF AInv, ATyped, AGhosts
<1>3. \A u \in aghost.used : u[2] < 2 + aclock'.changes
  BY <1>2 DEF AInv, AUsedOK
<1> QED BY <1>1, <1>3 DEF AInv, AUsedOK

(* A request that begins, or ends: it knows nothing.                            *)
LEMMA NothingKnown ==
  ASSUME NEW x \in ARequests, x.pc \in {"idle", "check"}, NEW used, NEW again
  PROVE  ARequestOK(x, used, again)
  BY DEF ARequestOK

LEMMA IdleTyped == AIdle \in ARequests /\ AIdle.pc = "idle"
  BY DEF AIdle, ARequests

(* An attempt begins: loginHash and WebDAVAuth read the count of failures first.*)
LEMMA TryKeeps ==
  ASSUME AInv, NEW p \in AProcs, NEW kind \in {"login", "dav"}, NEW guess \in Nat, NEW code \in BOOLEAN,
         ATry(p, kind, guess, code)
  PROVE  AInv'
<1>1. aclock' \in [now : Nat, starts : Nat, changes : Nat] /\ aclock'.changes = aclock.changes /\ aclock.changes \in Nat
  BY DEF ATry, AStart, AInv, ATyped
<1>2. UNCHANGED <<arow, avalid>> /\ aproc[p].pc = "idle"
  BY DEF ATry, AStart, AFree
<1>3. CASE acount.n >= AMax
  <2>1. acount' = [acount EXCEPT !.ends = TRUE] /\ UNCHANGED <<aproc, aghost>>
    BY <1>3 DEF ATry, ALock
  <2>2. acount' \in [n : Nat \cup {-1}, ends : BOOLEAN] /\ acount'.n = acount.n
    BY <2>1 DEF AInv, ATyped
  <2>3. AGrows /\ AUsedOK(aghost.used, aghost.again, aghost.edited, aclock.changes)'
    BY <1>1, <2>1, GhostsGrow DEF AInv, ATyped
  <2>4. ACountRight'
    BY <2>1, <2>2, CountStays DEF ATrying
  <2>5. ATyped'
    BY <1>1, <1>2, <2>1, <2>2 DEF AInv, ATyped
  <2>6. ATokensKnown'
    BY <1>2, <2>1 DEF AInv, ATokensKnown, AKnown
  <2> QED BY <2>1, <2>3, <2>4, <2>5, <2>6, NoneMoves DEF AInv
<1>4. CASE ~(acount.n >= AMax)
  <2> DEFINE x == [AIdle EXCEPT !.pc = "check", !.kind = kind, !.guess = guess, !.code = code,
                                !.count = IF acount.n < 0 THEN 0 ELSE acount.n]
             b == aghost.overlap \/ ATrying # {}
  <2>1. /\ aproc' = [aproc EXCEPT ![p] = x] /\ acount' = acount
        /\ aghost' = [aghost EXCEPT !.overlap = b]
    BY <1>4 DEF ATry
  <2>2. x \in ARequests /\ x.pc = "check" /\ x.count = ACounted
    <3>1. ACounted \in Nat
      BY DEF AInv, ATyped, ACounted
    <3>2. x = [AIdle EXCEPT !.pc = "check", !.kind = kind, !.guess = guess, !.code = code, !.count = ACounted]
      BY DEF ACounted
    <3> HIDE DEF x
    <3> QED BY <3>1, <3>2 DEF AIdle, ARequests
  <2>3. b \in BOOLEAN
    BY DEF AInv, ATyped, AGhosts
  <2>4. /\ aghost' \in AGhosts /\ aghost'.used = aghost.used /\ aghost'.again = aghost.again /\ aghost'.out = aghost.out
        /\ aghost'.edited = aghost.edited /\ aghost'.failed = aghost.failed /\ aghost'.overlap = b
    <3> HIDE DEF b
    <3> QED BY <2>1, <2>3 DEF AInv, ATyped, AGhosts
  <2>5. ~aghost'.overlap => ~aghost.overlap /\ ATrying = {}
    BY <2>4
  <2> HIDE DEF x, b
  <2>6. AGrows /\ AUsedOK(aghost.used, aghost.again, aghost.edited, aclock.changes)'
    BY <1>1, <2>4, GhostsGrow
  <2>7. /\ aproc' \in [AProcs -> ARequests] /\ aproc'[p] = x
        /\ \A q \in AProcs : q # p => aproc'[q] = aproc[q]
        /\ \A q \in AProcs : ARequestOK(aproc'[q], aghost'.used, aghost'.again)
    BY <2>1, <2>2, <2>6, NothingKnown, OneMoves
  <2>8. ACountRight'
    <3> SUFFICES ASSUME ~aghost'.overlap PROVE /\ aghost'.failed = ACounted' /\ aghost'.failed <= AMax
                                               /\ \A q \in ATrying' : aproc'[q].count = aghost'.failed /\ aghost'.failed < AMax
                                               /\ \A q, r \in ATrying' : q = r
      BY DEF ACountRight
    <3>1. \A q \in ATrying' : q = p
      BY <2>5, <2>7 DEF ATrying
    <3>2. aghost'.failed = ACounted /\ aghost'.failed < AMax /\ ACounted' = ACounted
      BY <1>4, <2>1, <2>4, <2>5, AAssumption DEF AInv, ATyped, ACountRight, ACounted
    <3>3. aghost'.failed \in Nat /\ aghost'.failed <= AMax
      BY <2>4, <3>2, AAssumption DEF AGhosts
    <3>4. \A q \in ATrying' : aproc'[q].count = aghost'.failed
      BY <2>2, <2>7, <3>1, <3>2
    <3> QED BY <3>1, <3>2, <3>3, <3>4
  <2>9. ATyped'
    BY <1>1, <1>2, <2>1, <2>4, <2>7 DEF AInv, ATyped
  <2>10. ATokensKnown'
    BY <1>2, <2>4 DEF AInv, ATokensKnown, AKnown
  <2> QED BY <2>6, <2>7, <2>8, <2>9, <2>10 DEF AInv
<1> QED BY <1>3, <1>4

ATryingPcs == {"check", "rehash", "token"}

(* A step of one request that is no attempt's beginning or end, and writes no   *)
(* other row than it has read.                                                  *)
LEMMA OneKeeps ==
  ASSUME AInv, NEW p \in AProcs, NEW x \in ARequests, aproc' = [aproc EXCEPT ![p] = x],
         ARequestOK(x, aghost.used, aghost.again),
         x.pc \in ATryingPcs => aproc[p].pc \in ATryingPcs /\ x.count = aproc[p].count,
         arow' \in ARows, AKnown(arow', aghost.used), UNCHANGED <<acount, avalid, aghost>>,
         aclock' \in [now : Nat, starts : Nat, changes : Nat], aclock'.changes = aclock.changes
  PROVE  AInv'
<1>1. AGrows /\ AUsedOK(aghost.used, aghost.again, aghost.edited, aclock.changes)'
  BY GhostsGrow DEF AInv, ATyped
<1>2. /\ aproc' \in [AProcs -> ARequests] /\ aproc'[p] = x
      /\ \A q \in AProcs : q # p => aproc'[q] = aproc[q]
      /\ \A q \in AProcs : ARequestOK(aproc'[q], aghost'.used, aghost'.again)
  BY <1>1, OneMoves
<1>3. ACountRight'
  <2>1. \A q \in ATrying' : q \in ATrying /\ aproc'[q].count = aproc[q].count
    BY <1>2 DEF ATrying, ATryingPcs
  <2> QED BY <2>1, CountStays
<1>4. ATyped'
  BY <1>2 DEF AInv, ATyped
<1>5. ATokensKnown'
  BY DEF AInv, ATokensKnown, AKnown
<1> QED BY <1>1, <1>2, <1>3, <1>4, <1>5 DEF AInv

(* A request that ends at rest: what it knew is forgotten.                      *)
LEMMA EndKeeps ==
  ASSUME AInv, NEW p \in AProcs, AEnd(p), UNCHANGED <<arow, acount, avalid, aclock, aghost>>
  PROVE  AInv'
<1>1. ARequestOK(AIdle, aghost.used, aghost.again) /\ AIdle.pc \notin ATryingPcs
  BY IdleTyped, NothingKnown DEF ATryingPcs
<1> QED BY <1>1, IdleTyped, OneKeeps DEF AEnd, AInv, ATyped, ATokensKnown

(* A failed attempt is counted on top of what it read when it began.            *)
LEMMA FailKeeps ==
  ASSUME AInv, NEW p \in AProcs, aproc[p].pc \in ATryingPcs, AFail(p)
  PROVE  AInv'
<1>1. /\ acount' = [n |-> aproc[p].count + 1, ends |-> FALSE] /\ aproc' = [aproc EXCEPT ![p] = AIdle]
      /\ aghost' = [aghost EXCEPT !.failed = @ + 1] /\ UNCHANGED <<arow, avalid, aclock>>
  BY DEF AFail, ACountFailure, AEnd
<1>2. /\ aghost' \in AGhosts /\ aghost'.used = aghost.used /\ aghost'.again = aghost.again /\ aghost'.out = aghost.out
      /\ aghost'.edited = aghost.edited /\ aghost'.failed = aghost.failed + 1 /\ aghost'.overlap = aghost.overlap
  BY <1>1 DEF AInv, ATyped, AGhosts
<1>3. aproc[p].count \in Nat /\ aghost.failed \in Nat
  BY DEF AInv, ATyped, ARequests, AGhosts
<1>4. acount' \in [n : Nat \cup {-1}, ends : BOOLEAN] /\ acount'.n = aproc[p].count + 1
  BY <1>1, <1>3
<1>5. AGrows /\ AUsedOK(aghost.used, aghost.again, aghost.edited, aclock.changes)'
  BY <1>1, <1>2, GhostsGrow DEF AInv, ATyped
<1>6. /\ aproc' \in [AProcs -> ARequests] /\ aproc'[p] = AIdle
      /\ \A q \in AProcs : q # p => aproc'[q] = aproc[q]
      /\ \A q \in AProcs : ARequestOK(aproc'[q], aghost'.used, aghost'.again)
  BY <1>1, <1>5, IdleTyped, NothingKnown, OneMoves
<1>7. ACountRight'
  <2> SUFFICES ASSUME ~aghost'.overlap PROVE /\ aghost'.failed = ACounted' /\ aghost'.failed <= AMax
                                             /\ ATrying' = {}
    BY DEF ACountRight
  <2>1. aproc[p].count = aghost.failed /\ aghost.failed < AMax /\ \A q \in ATrying : q = p
    BY <1>2 DEF AInv, ACountRight, ATrying, ATryingPcs
  <2>2. ATrying' = {}
    BY <1>6, <2>1, IdleTyped DEF ATrying
  <2> QED BY <1>2, <1>3, <1>4, <2>1, <2>2, AAssumption DEF ACounted
<1>8. ATyped'
  BY <1>1, <1>2, <1>4, <1>6 DEF AInv, ATyped
<1>9. ATokensKnown'
  BY <1>1, <1>2 DEF AInv, ATokensKnown, AKnown
<1> QED BY <1>5, <1>6, <1>7, <1>8, <1>9 DEF AInv

(* The password is right: the row is kept for the rehash or the token.          *)
LEMMA PassKeeps ==
  ASSUME AInv, NEW p \in AProcs, aproc[p].pc = "check", APassed(p), UNCHANGED <<arow, acount, avalid, aclock, aghost>>
  PROVE  AInv'
<1> DEFINE x == [aproc[p] EXCEPT !.pc = IF arow.argon THEN "token" ELSE "rehash", !.row = arow, !.guess = 0, !.code = FALSE]
<1>1. aproc' = [aproc EXCEPT ![p] = x]
  BY DEF APassed
<1>2. aproc[p] \in ARequests /\ arow \in ARows
  BY DEF AInv, ATyped
<1>3. x \in ARequests /\ x.pc \in {"token", "rehash"} /\ x.row = arow /\ x.count = aproc[p].count
  BY <1>2 DEF ARequests
<1>4. ARequestOK(x, aghost.used, aghost.again)
  BY <1>2, <1>3 DEF ARequestOK, AInv, ATokensKnown
<1> HIDE DEF x
<1>5. /\ arow' \in ARows /\ AKnown(arow', aghost.used) /\ aclock'.changes = aclock.changes
      /\ aclock' \in [now : Nat, starts : Nat, changes : Nat] /\ aproc[p].pc \in ATryingPcs
  BY DEF AInv, ATyped, ATokensKnown, ATryingPcs
<1> QED BY <1>1, <1>3, <1>4, <1>5, OneKeeps

(* The first login after an upgrade writes the row that it read, with a new     *)
(* hash and the old timestamp.                                                  *)
LEMMA RehashKeeps ==
  ASSUME AInv, NEW p \in AProcs, ARehash(p)
  PROVE  AInv'
<1>1. aproc[p].pc = "rehash"
  BY DEF ARehash
<1>2. CASE /\ arow' = ARehashed(aproc[p].row)
           /\ aproc' = [aproc EXCEPT ![p].pc = "token", ![p].row = ARehashed(@)]
           /\ UNCHANGED <<acount, avalid, aclock, aghost>>
  <2> DEFINE row == ARehashed(aproc[p].row)
             x == [aproc[p] EXCEPT !.pc = "token", !.row = row]
  <2>1. aproc[p] \in ARequests /\ aproc[p].row \in ARows /\ AKnown(aproc[p].row, aghost.used)
    BY <1>1 DEF AInv, ATyped, ARequestOK
  <2>2. row \in ARows /\ row.ts = aproc[p].row.ts /\ row.pwd = aproc[p].row.pwd
    BY <2>1 DEF ARehashed, ARows
  <2>3. aproc' = [aproc EXCEPT ![p] = x] /\ arow' = row
    BY <1>2, <2>1 DEF AInv, ATyped, ARequests
  <2> HIDE DEF row
  <2>4. x \in ARequests /\ x.pc = "token" /\ x.row = row /\ x.count = aproc[p].count
    BY <2>1, <2>2 DEF ARequests
  <2>5. AKnown(row, aghost.used)
    BY <2>1, <2>2 DEF AKnown
  <2> HIDE DEF x
  <2>6. ARequestOK(x, aghost.used, aghost.again)
    BY <2>2, <2>4, <2>5 DEF ARequestOK
  <2>7. /\ arow' \in ARows /\ AKnown(arow', aghost.used) /\ aclock'.changes = aclock.changes
        /\ aclock' \in [now : Nat, starts : Nat, changes : Nat] /\ aproc[p].pc \in ATryingPcs
    BY <1>1, <1>2, <2>2, <2>3, <2>5 DEF AInv, ATyped, ATryingPcs
  <2> QED BY <1>2, <2>3, <2>4, <2>6, <2>7, OneKeeps
<1>3. CASE AFail(p)
  BY <1>1, <1>3, FailKeeps DEF ATryingPcs
<1>4. CASE AEnd(p) /\ UNCHANGED <<arow, acount, avalid, aclock, aghost>>
  BY <1>4, EndKeeps
<1> QED BY <1>2, <1>3, <1>4 DEF ARehash

LEMMA CheckKeeps ==
  ASSUME AInv, NEW p \in AProcs, ACheckLogin(p) \/ ACheckDav(p)
  PROVE  AInv'
<1>1. aproc[p].pc = "check"
  BY DEF ACheckLogin, ACheckDav
<1>2. \/ AFail(p)
      \/ APassed(p) /\ UNCHANGED <<arow, acount, avalid, aclock, aghost>>
  BY DEF ACheckLogin, ACheckDav
<1> QED BY <1>1, <1>2, FailKeeps, PassKeeps DEF ATryingPcs

(* One attempt at a time: when it is over, nobody tries.                        *)
LEMMA LastOfTrying ==
  ASSUME NEW p \in ATrying, ~(Cardinality(ATrying) > 1)
  PROVE  \A q \in ATrying : q = p
<1>1. IsFiniteSet(ATrying)
  BY AAssumption, FS_Subset DEF ATrying
<1>2. /\ IsFiniteSet(ATrying \ {p}) /\ Cardinality(ATrying \ {p}) = Cardinality(ATrying) - 1
      /\ Cardinality(ATrying) \in Nat /\ Cardinality(ATrying \ {p}) \in Nat
  BY <1>1, FS_RemoveElement, FS_CardinalityType
<1>3. Cardinality(ATrying \ {p}) = 0
  BY <1>2
<1>4. ATrying \ {p} = {}
  BY <1>2, <1>3, FS_EmptySet
<1> QED BY <1>4

(* A login gives a token for the row that was checked, and the failures are     *)
(* forgotten.                                                                   *)
LEMMA GrantKeeps ==
  ASSUME AInv, NEW p \in AProcs, AGranted(p)
  PROVE  AInv'
<1> DEFINE tok == [ts |-> aproc[p].row.ts, at |-> aclock.now, pwd |-> aproc[p].row.pwd]
           b == Cardinality(ATrying) > 1
<1>1. /\ aproc[p].pc = "token" /\ acount' = ANoCount /\ aproc' = [aproc EXCEPT ![p] = AIdle]
      /\ UNCHANGED <<arow, aclock>>
  BY DEF AGranted, AEnd
<1>2. tok \in ATokens /\ AKnown(tok, aghost.used)
  <2>1. aproc[p].row \in ARows /\ AKnown(aproc[p].row, aghost.used) /\ aclock.now \in Nat
    BY <1>1 DEF AInv, ATyped, ARequestOK
  <2> QED BY <2>1 DEF ARows, ATokens, AKnown
<1>3. \/ avalid' = avalid \cup {tok} /\ aghost' = [aghost EXCEPT !.failed = 0, !.overlap = b, !.out = @ \ {tok}]
      \/ avalid' = avalid /\ aghost' = [aghost EXCEPT !.failed = 0, !.overlap = b]
  BY DEF AGranted
<1>4. b \in BOOLEAN
  OBVIOUS
<1>5. ~b => \A q \in ATrying : q = p
  BY <1>1, LastOfTrying DEF ATrying
<1> HIDE DEF tok, b
<1>6. /\ aghost' \in AGhosts /\ aghost'.used = aghost.used /\ aghost'.again = aghost.again
      /\ aghost'.edited = aghost.edited /\ aghost'.failed = 0 /\ aghost'.overlap = b
      /\ \/ avalid' = avalid \cup {tok} /\ aghost'.out = aghost.out \ {tok}
         \/ avalid' = avalid /\ aghost'.out = aghost.out
  <2>1. aghost \in AGhosts
    BY DEF AInv, ATyped
  <2>2. CASE avalid' = avalid \cup {tok} /\ aghost' = [aghost EXCEPT !.failed = 0, !.overlap = b, !.out = @ \ {tok}]
    <3> DEFINE s == aghost.out \ {tok}
    <3>1. s \in SUBSET ATokens /\ aghost' = [aghost EXCEPT !.failed = 0, !.overlap = b, !.out = s]
      BY <2>1, <2>2 DEF AGhosts
    <3> HIDE DEF s
    <3>2. /\ aghost' \in AGhosts /\ aghost'.used = aghost.used /\ aghost'.again = aghost.again /\ aghost'.out = s
          /\ aghost'.edited = aghost.edited /\ aghost'.failed = 0 /\ aghost'.overlap = b
      BY <1>4, <2>1, <3>1 DEF AGhosts
    <3> QED BY <2>2, <3>2 DEF s
  <2>3. CASE avalid' = avalid /\ aghost' = [aghost EXCEPT !.failed = 0, !.overlap = b]
    BY <1>4, <2>1, <2>3 DEF AGhosts
  <2> QED BY <1>3, <2>2, <2>3
<1>7. AGrows /\ AUsedOK(aghost.used, aghost.again, aghost.edited, aclock.changes)'
  BY <1>1, <1>6, GhostsGrow DEF AInv, ATyped
<1>8. /\ aproc' \in [AProcs -> ARequests] /\ aproc'[p] = AIdle
      /\ \A q \in AProcs : q # p => aproc'[q] = aproc[q]
      /\ \A q \in AProcs : ARequestOK(aproc'[q], aghost'.used, aghost'.again)
  BY <1>1, <1>7, IdleTyped, NothingKnown, OneMoves
<1>9. ACountRight'
  <2>1. ~b => ATrying' = {}
    BY <1>5, <1>8, IdleTyped DEF ATrying
  <2>2. ACounted' = 0 /\ 0 <= AMax
    BY <1>1, AAssumption DEF ACounted, ANoCount
  <2> QED BY <1>6, <2>1, <2>2 DEF ACountRight
<1>10. ATyped'
  BY <1>1, <1>2, <1>6, <1>8 DEF AInv, ATyped, ANoCount
<1>11. ATokensKnown'
  BY <1>1, <1>2, <1>6 DEF AInv, ATokensKnown, AKnown
<1> QED BY <1>7, <1>8, <1>9, <1>10, <1>11 DEF AInv

(* The lock runs out, and the failures are forgotten.                           *)
LEMMA LockEndsKeeps ==
  ASSUME AInv, ALockEnds
  PROVE  AInv'
<1> DEFINE b == ATrying # {}
<1>1. /\ acount' = ANoCount /\ UNCHANGED <<arow, avalid, aproc, aclock>>
      /\ aghost' = [aghost EXCEPT !.failed = 0, !.overlap = b] /\ b \in BOOLEAN
  BY DEF ALockEnds
<1>2. ~b => ATrying' = {}
  BY <1>1 DEF ATrying
<1> HIDE DEF b
<1>3. /\ aghost' \in AGhosts /\ aghost'.used = aghost.used /\ aghost'.again = aghost.again /\ aghost'.out = aghost.out
      /\ aghost'.edited = aghost.edited /\ aghost'.failed = 0 /\ aghost'.overlap = b
  BY <1>1 DEF AInv, ATyped, AGhosts
<1>4. AGrows /\ AUsedOK(aghost.used, aghost.again, aghost.edited, aclock.changes)'
  BY <1>1, <1>3, GhostsGrow DEF AInv, ATyped
<1>5. ACountRight'
  <2>1. ACounted' = 0 /\ 0 <= AMax
    BY <1>1, AAssumption DEF ACounted, ANoCount
  <2> QED BY <1>2, <1>3, <2>1 DEF ACountRight
<1>6. ATyped'
  BY <1>1, <1>3 DEF AInv, ATyped, ANoCount
<1>7. ATokensKnown'
  BY <1>1, <1>3 DEF AInv, ATokensKnown, AKnown
<1> QED BY <1>1, <1>4, <1>5, <1>6, <1>7, NoneMoves DEF AInv

(* ParseToken looks for the token among the valid ones; one that was logged out *)
(* is not there.                                                                *)
LEMMA BearerKeeps ==
  ASSUME AInv, NEW p \in AProcs, NEW tok, ABearer(p, tok)
  PROVE  AInv'
<1>1. aclock' \in [now : Nat, starts : Nat, changes : Nat] /\ aclock'.changes = aclock.changes
  BY DEF ABearer, AStart, AInv, ATyped
<1>2. UNCHANGED <<arow, acount, avalid, aghost>> /\ arow \in ARows /\ AKnown(arow, aghost.used)
  BY DEF ABearer, AInv, ATyped, ATokensKnown
<1>3. CASE tok \in avalid
  <2> DEFINE b == tok \in aghost.out
             x == [AIdle EXCEPT !.pc = "user", !.tok = tok, !.out = b]
  <2>1. aproc' = [aproc EXCEPT ![p] = x]
    BY <1>3 DEF ABearer
  <2>2. b = FALSE /\ tok \in ATokens /\ AKnown(tok, aghost.used)
    BY <1>3 DEF AInv, ATyped, ATokensKnown
  <2> HIDE DEF b
  <2>3. x \in ARequests /\ x.pc = "user" /\ x.tok = tok /\ x.out = FALSE
    BY <2>2 DEF AIdle, ARequests
  <2> HIDE DEF x
  <2>4. ARequestOK(x, aghost.used, aghost.again)
    BY <2>2, <2>3 DEF ARequestOK
  <2> QED BY <1>1, <1>2, <2>1, <2>3, <2>4, OneKeeps DEF ATryingPcs
<1>4. CASE tok \notin avalid
  <2>1. UNCHANGED aproc
    BY <1>4 DEF ABearer
  <2>2. AGrows /\ AUsedOK(aghost.used, aghost.again, aghost.edited, aclock.changes)'
    BY <1>1, <1>2, GhostsGrow DEF AInv, ATyped
  <2>3. ACountRight'
    BY <1>2, <2>1, CountStays DEF ATrying
  <2>4. ATyped'
    BY <1>1, <1>2, <2>1 DEF AInv, ATyped
  <2>5. ATokensKnown'
    BY <1>2 DEF AInv, ATokensKnown, AKnown
  <2> QED BY <2>1, <2>2, <2>3, <2>4, <2>5, NoneMoves DEF AInv
<1> QED BY <1>3, <1>4

(* Auth compares the timestamp of the token with the one of the user's row: if  *)
(* no timestamp came back, the password is the one the token was given for.     *)
LEMMA AuthKeeps ==
  ASSUME AInv, NEW p \in AProcs, AAuth(p)
  PROVE  AInv'
<1>1. aproc[p].pc = "user" /\ UNCHANGED <<arow, acount, avalid, aclock, aghost>>
  BY DEF AAuth
<1>2. CASE AAdmits(arow, aproc[p].tok) /\ aproc' = [aproc EXCEPT ![p].pc = "in", ![p].row = arow]
  <2> DEFINE x == [aproc[p] EXCEPT !.pc = "in", !.row = arow]
  <2>1. /\ aproc[p] \in ARequests /\ arow \in ARows /\ AKnown(arow, aghost.used) /\ arow.ts = aproc[p].tok.ts
        /\ aproc[p].tok \in ATokens /\ AKnown(aproc[p].tok, aghost.used) /\ ~aproc[p].out
    BY <1>1, <1>2 DEF AInv, ATyped, ATokensKnown, ARequestOK, AAdmits
  <2>2. aghost.again \/ aproc[p].tok.pwd = arow.pwd
    BY <2>1 DEF AInv, AUsedOK, AKnown
  <2>3. aproc' = [aproc EXCEPT ![p] = x]
    BY <1>2, <2>1 DEF AInv, ATyped
  <2>4. x \in ARequests /\ x.pc = "in" /\ x.row = arow /\ x.tok = aproc[p].tok /\ x.out = aproc[p].out
    BY <2>1 DEF ARequests
  <2> HIDE DEF x
  <2>5. ARequestOK(x, aghost.used, aghost.again)
    BY <2>1, <2>2, <2>4 DEF ARequestOK
  <2>6. aclock' \in [now : Nat, starts : Nat, changes : Nat] /\ aclock'.changes = aclock.changes
    BY <1>1 DEF AInv, ATyped
  <2> QED BY <1>1, <2>1, <2>3, <2>4, <2>5, <2>6, OneKeeps DEF ATryingPcs
<1>3. CASE AEnd(p)
  BY <1>1, <1>3, EndKeeps
<1> QED BY <1>2, <1>3 DEF AAuth

(* A step that writes the row, or none, and ends at most one request.           *)
LEMMA WriteKeeps ==
  ASSUME AInv, AGrows, AUsedOK(aghost.used, aghost.again, aghost.edited, aclock.changes)',
         arow' \in ARows, AKnown(arow, aghost.used)', UNCHANGED <<acount, avalid>>,
         aghost'.failed = aghost.failed, aghost'.overlap = aghost.overlap, aghost'.out = aghost.out,
         aclock' \in [now : Nat, starts : Nat, changes : Nat],
         UNCHANGED aproc \/ \E p \in AProcs : AEnd(p)
  PROVE  AInv'
<1>1. /\ aproc' \in [AProcs -> ARequests]
      /\ \A q \in AProcs : aproc'[q] \in {aproc[q], AIdle}
      /\ \A q \in AProcs : ARequestOK(aproc'[q], aghost'.used, aghost'.again)
  <2>1. CASE UNCHANGED aproc
    BY <2>1, NoneMoves
  <2>2. ASSUME NEW p \in AProcs, AEnd(p)
        PROVE  /\ aproc' \in [AProcs -> ARequests]
               /\ \A q \in AProcs : aproc'[q] \in {aproc[q], AIdle}
               /\ \A q \in AProcs : ARequestOK(aproc'[q], aghost'.used, aghost'.again)
    <3>1. aproc' = [aproc EXCEPT ![p] = AIdle] /\ ARequestOK(AIdle, aghost'.used, aghost'.again)
      BY <2>2, IdleTyped, NothingKnown DEF AEnd
    <3> QED BY <3>1, IdleTyped, OneMoves
  <2> QED BY <2>1, <2>2
<1>2. ACountRight'
  <2>1. \A q \in ATrying' : q \in ATrying /\ aproc'[q].count = aproc[q].count
    BY <1>1, IdleTyped DEF ATrying
  <2> QED BY <2>1, CountStays
<1>3. ATyped'
  BY <1>1 DEF AInv, ATyped, AGrows
<1>4. ATokensKnown'
  BY DEF AInv, ATokensKnown, AGrows, AKnown
<1> QED BY <1>1, <1>2, <1>3, <1>4 DEF AInv

(* No row is written, but the next password becomes another.                    *)
LEMMA NoWriteKeeps ==
  ASSUME AInv, arow' \in ARows, arow'.ts = arow.ts, arow'.pwd = arow.pwd, UNCHANGED <<acount, avalid, aghost>>,
         aclock' \in [now : Nat, starts : Nat, changes : Nat], aclock'.changes >= aclock.changes,
         UNCHANGED aproc \/ \E p \in AProcs : AEnd(p)
  PROVE  AInv'
<1>1. AGrows /\ AUsedOK(aghost.used, aghost.again, aghost.edited, aclock.changes)'
  BY GhostsGrow DEF AInv, ATyped
<1>2. AKnown(arow, aghost.used)'
  BY DEF AInv, ATokensKnown, AKnown
<1> QED BY <1>1, <1>2, WriteKeeps

LEMMA ChangeCounts ==
  ASSUME AInv, AChange
  PROVE  /\ aclock' \in [now : Nat, starts : Nat, changes : Nat] /\ aclock'.changes = aclock.changes + 1
         /\ aclock'.changes >= aclock.changes
  BY DEF AChange, AInv, ATyped

(* A new password is one that the user never had.                               *)
LEMMA PasswordTyped ==
  ASSUME AInv, NEW row \in ARows
  PROVE  ASetPassword(row) \in ARows /\ ASetPassword(row).pwd = ANewPwd
<1>1. ANewPwd \in Nat /\ aclock.now \in Nat
  BY DEF ANewPwd, AInv, ATyped
<1> QED BY <1>1 DEF ASetPassword, ARows

(* UpdateCurrent and Verify2FA write the row as the request read it.            *)
LEMMA SelfKeeps ==
  ASSUME AInv, NEW p \in AProcs, AUpdateCurrent(p) \/ AVerify2FA(p)
  PROVE  AInv'
<1> DEFINE old == aproc[p].row
           otp == [old EXCEPT !.otp = TRUE]
<1>1. aproc[p].pc = "in" /\ AChange /\ AEnd(p) /\ UNCHANGED <<acount, avalid>>
  BY DEF AUpdateCurrent, AVerify2FA
<1>2. old \in ARows /\ AKnown(old, aghost.used) /\ arow \in ARows
  BY <1>1 DEF AInv, ATyped, ARequestOK
<1>3. CASE AWrites(ASetPassword(old))
  <2>1. ASetPassword(old) \in ARows /\ ASetPassword(old).pwd = ANewPwd
    BY <1>2, PasswordTyped
  <2> DEFINE row == ASetPassword(old)
  <2> HIDE DEF row
  <2>2. row \in ARows /\ row.pwd = ANewPwd /\ AWrites(row)
    BY <1>3, <2>1 DEF row
  <2> QED BY <1>1, <2>2, ChangeCounts, RowWritten, WriteKeeps
<1>4. CASE AWrites(otp)
  <2>1. otp \in ARows /\ AKnown(otp, aghost.used)
    BY <1>2 DEF ARows, AKnown
  <2> HIDE DEF otp
  <2> QED BY <1>1, <1>4, <2>1, ChangeCounts, RowWritten, WriteKeeps
<1>5. CASE UNCHANGED <<arow, aghost>>
  BY <1>1, <1>2, <1>5, ChangeCounts, NoWriteKeeps
<1> QED BY <1>3, <1>4, <1>5 DEF AUpdateCurrent, AVerify2FA

(* The requests of an administrator.                                            *)
LEMMA AdminKeeps ==
  ASSUME AInv, (\E disabled, pwd \in BOOLEAN : AEdit(disabled, pwd)) \/ ACancel2FA \/ ADelete \/ ACreate
  PROVE  AInv'
<1>1. AChange /\ UNCHANGED <<acount, avalid, aproc>>
  BY DEF AEdit, ACancel2FA, ADelete, ACreate
<1>2. arow \in ARows /\ AKnown(arow, aghost.used)
  BY DEF AInv, ATyped, ATokensKnown
<1>3. ASSUME NEW row \in ARows, AWrites(row), row.pwd = ANewPwd \/ AKnown(row, aghost.used)
      PROVE  AInv'
  <2>1. /\ AGrows /\ AUsedOK(aghost.used, aghost.again, aghost.edited, aclock.changes)'
        /\ AKnown(arow, aghost.used)' /\ arow' = row
        /\ aghost'.failed = aghost.failed /\ aghost'.overlap = aghost.overlap /\ aghost'.out = aghost.out
    BY <1>1, <1>3, ChangeCounts, RowWritten
  <2> QED BY <1>1, <1>3, <2>1, ChangeCounts, WriteKeeps
<1>4. ASSUME NEW disabled \in BOOLEAN, NEW pwd \in BOOLEAN, AEdit(disabled, pwd)
      PROVE  AInv'
  <2> DEFINE row == [arow EXCEPT !.disabled = disabled]
  <2>1. row \in ARows /\ row.pwd = arow.pwd
    BY <1>2 DEF ARows
  <2>2. CASE pwd
    <3> DEFINE new == ASetPassword(row)
    <3>1. new \in ARows /\ new.pwd = ANewPwd /\ AWrites(new)
      BY <1>4, <2>1, <2>2, PasswordTyped DEF AEdit
    <3> HIDE DEF new
    <3> QED BY <1>3, <3>1
  <2>3. CASE ~pwd
    <3> DEFINE b == aghost.again \/ \E u \in aghost.used : u[1] = 0 /\ u[2] # row.pwd
               s == aghost.used \cup {<<0, row.pwd>>}
    <3>1. /\ arow' = [row EXCEPT !.ts = 0] /\ aghost' = [aghost EXCEPT !.edited = TRUE, !.used = s, !.again = b]
          /\ b \in BOOLEAN
      BY <1>4, <2>3 DEF AEdit
    <3>2. row.pwd \in Nat /\ aghost \in AGhosts /\ s \in SUBSET (Nat \X Nat) /\ aghost.used \subseteq Nat \X Nat
      BY <1>2, <2>1 DEF ARows, AInv, ATyped, AGhosts
    <3>3. arow' \in ARows /\ arow'.ts = 0 /\ arow'.pwd = row.pwd
      BY <2>1, <3>1 DEF ARows
    <3>4. ~b => ~aghost.again /\ \A u \in aghost.used : u[1] = 0 => u[2] = row.pwd
      OBVIOUS
    <3>5. aghost.again => b
      OBVIOUS
    <3> HIDE DEF b
    <3>6. s = aghost.used \cup {<<0, row.pwd>>}
      OBVIOUS
    <3> HIDE DEF s
    <3>7. /\ aghost' \in AGhosts /\ aghost'.used = s /\ aghost'.again = b /\ aghost'.edited = TRUE
          /\ aghost'.failed = aghost.failed /\ aghost'.overlap = aghost.overlap /\ aghost'.out = aghost.out
      BY <3>1, <3>2 DEF AGhosts
    <3>8. AGrows /\ AKnown(arow, aghost.used)'
      BY <3>3, <3>5, <3>6, <3>7 DEF AGrows, AKnown
    <3>9. AUsedOK(aghost.used, aghost.again, aghost.edited, aclock.changes)'
      <4>1. \A u \in aghost.used : u[2] < 2 + aclock.changes /\ u[2] \in Nat
        BY <3>2 DEF AInv, AUsedOK
      <4>2. aclock.changes \in Nat /\ aclock'.changes = aclock.changes + 1
        BY <1>1, ChangeCounts DEF AInv, ATyped
      <4>3. row.pwd < 2 + aclock.changes
        BY <1>2, <2>1, <4>1 DEF AKnown
      <4>4. \A u \in s : u[2] < 2 + aclock'.changes
        BY <3>2, <3>6, <4>1, <4>2, <4>3
      <4>5. ~b => \A u, v \in s : u[1] = v[1] => u[2] = v[2]
        BY <3>4, <3>6 DEF AInv, AUsedOK
      <4> QED BY <3>7, <4>4, <4>5 DEF AUsedOK
    <3> QED BY <1>1, <3>3, <3>7, <3>8, <3>9, ChangeCounts, WriteKeeps
  <2> QED BY <2>2, <2>3
<1>5. CASE ACancel2FA
  <2> DEFINE row == [arow EXCEPT !.otp = FALSE]
  <2>1. row \in ARows /\ AKnown(row, aghost.used) /\ AWrites(row)
    BY <1>2, <1>5 DEF ARows, AKnown, ACancel2FA
  <2> HIDE DEF row
  <2> QED BY <1>3, <2>1
<1>6. CASE ADelete
  <2>1. arow' = [arow EXCEPT !.there = FALSE] /\ UNCHANGED aghost
    BY <1>6 DEF ADelete
  <2>2. arow' \in ARows /\ arow'.ts = arow.ts /\ arow'.pwd = arow.pwd
    BY <1>2, <2>1 DEF ARows
  <2> QED BY <1>1, <2>1, <2>2, ChangeCounts, NoWriteKeeps
<1>7. CASE ACreate
  <2> DEFINE row == [ASetPassword(arow) EXCEPT !.there = TRUE, !.disabled = FALSE, !.otp = FALSE]
  <2>1. row \in ARows /\ row.pwd = ANewPwd
    BY <1>2, PasswordTyped DEF ARows
  <2>2. AWrites(row)
    BY <1>7 DEF ACreate
  <2> HIDE DEF row
  <2> QED BY <1>3, <2>1, <2>2
<1> QED BY <1>4, <1>5, <1>6, <1>7

(* Logout takes the token out of the valid ones.                                *)
LEMMA LogOutKeeps ==
  ASSUME AInv, NEW p \in AProcs, ALogOut(p)
  PROVE  AInv'
<1> DEFINE tok == aproc[p].tok
           s == aghost.out \cup {tok}
<1>1. /\ aproc[p].pc = "in" /\ avalid' = avalid \ {tok} /\ aghost' = [aghost EXCEPT !.out = s]
      /\ aproc' = [aproc EXCEPT ![p] = AIdle] /\ UNCHANGED <<arow, acount, aclock>>
  BY DEF ALogOut, AEnd, AInv, ATyped, AGhosts
<1>2. aghost \in AGhosts /\ s \in SUBSET ATokens /\ s = aghost.out \cup {tok}
  BY <1>1 DEF AInv, ATyped, ARequestOK, AGhosts
<1> HIDE DEF tok, s
<1>3. /\ aghost' \in AGhosts /\ aghost'.used = aghost.used /\ aghost'.again = aghost.again /\ aghost'.out = s
      /\ aghost'.edited = aghost.edited /\ aghost'.failed = aghost.failed /\ aghost'.overlap = aghost.overlap
  BY <1>1, <1>2 DEF AGhosts
<1>4. AGrows /\ AUsedOK(aghost.used, aghost.again, aghost.edited, aclock.changes)'
  BY <1>1, <1>3, GhostsGrow DEF AInv, ATyped
<1>5. /\ aproc' \in [AProcs -> ARequests] /\ aproc'[p] = AIdle
      /\ \A q \in AProcs : q # p => aproc'[q] = aproc[q]
      /\ \A q \in AProcs : ARequestOK(aproc'[q], aghost'.used, aghost'.again)
  BY <1>1, <1>4, IdleTyped, NothingKnown, OneMoves
<1>6. ACountRight'
  <2>1. \A q \in ATrying' : q \in ATrying /\ aproc'[q].count = aproc[q].count
    BY <1>5, IdleTyped DEF ATrying
  <2> QED BY <1>1, <1>3, <2>1, CountStays
<1>7. ATyped'
  BY <1>1, <1>3, <1>5 DEF AInv, ATyped
<1>8. ATokensKnown'
  BY <1>1, <1>2, <1>3 DEF AInv, ATokensKnown, AKnown
<1> QED BY <1>4, <1>5, <1>6, <1>7, <1>8 DEF AInv

(* A second passes.                                                             *)
LEMMA TickKeeps ==
  ASSUME AInv, ATick
  PROVE  AInv'
<1>1. /\ UNCHANGED <<arow, acount, avalid, aproc, aghost>> /\ aclock'.changes >= aclock.changes
      /\ aclock' \in [now : Nat, starts : Nat, changes : Nat]
  BY DEF ATick, AInv, ATyped
<1> QED BY <1>1, NoWriteKeeps DEF AInv, ATyped

(* After a restart the caches are empty, and every token is refused.            *)
LEMMA RestartKeeps ==
  ASSUME AInv, ARestart
  PROVE  AInv'
<1>1. /\ AChange /\ acount' = ANoCount /\ avalid' = {} /\ aproc' = [p \in AProcs |-> AIdle]
      /\ aghost' = [aghost EXCEPT !.failed = 0, !.overlap = FALSE] /\ UNCHANGED arow
  BY DEF ARestart
<1>2. /\ aghost' \in AGhosts /\ aghost'.used = aghost.used /\ aghost'.again = aghost.again /\ aghost'.out = aghost.out
      /\ aghost'.edited = aghost.edited /\ aghost'.failed = 0
  BY <1>1 DEF AInv, ATyped, AGhosts
<1>3. AGrows /\ AUsedOK(aghost.used, aghost.again, aghost.edited, aclock.changes)'
  <2>1. aclock'.changes \in Nat /\ aclock'.changes >= aclock.changes
    BY <1>1, ChangeCounts
  <2> QED BY <1>2, <2>1, GhostsGrow
<1>4. \A q \in AProcs : ARequestOK(aproc'[q], aghost'.used, aghost'.again)
  BY <1>1, IdleTyped, NothingKnown
<1>5. ACountRight'
  <2>1. ATrying' = {}
    BY <1>1, IdleTyped DEF ATrying
  <2>2. ACounted' = 0 /\ 0 <= AMax
    BY <1>1, AAssumption DEF ACounted, ANoCount
  <2> QED BY <1>2, <2>1, <2>2 DEF ACountRight
<1>6. ATyped'
  BY <1>1, <1>2, IdleTyped, ChangeCounts DEF AInv, ATyped, ANoCount
<1>7. ATokensKnown'
  BY <1>1, <1>2 DEF AInv, ATokensKnown, AKnown
<1> QED BY <1>3, <1>4, <1>5, <1>6, <1>7 DEF AInv

-----------------------------------------------------------------------------
(* The results *)

LEMMA LoginsStart == AInit => AInv
<1> SUFFICES ASSUME AInit PROVE AInv
  OBVIOUS
<1>1. /\ arow \in ARows /\ arow.pwd = 1 /\ arow.ts = 0 /\ acount = ANoCount /\ avalid = {}
      /\ aproc = [p \in AProcs |-> AIdle] /\ aclock = [now |-> 1, starts |-> 0, changes |-> 0]
      /\ aghost = [failed |-> 0, overlap |-> FALSE, used |-> {<<0, 1>>}, again |-> FALSE, edited |-> FALSE, out |-> {}]
  <2>1. arow \in ARows /\ arow.pwd = 1 /\ arow.ts = 0
    <3>1. arow \in [there : {TRUE}, pwd : {1}, ts : {0}, argon : BOOLEAN, disabled : {FALSE}, otp : {FALSE}]
      BY DEF AInit
    <3>2. [there : {TRUE}, pwd : {1}, ts : {0}, argon : BOOLEAN, disabled : {FALSE}, otp : {FALSE}] \subseteq ARows
      <4>1. {TRUE} \subseteq BOOLEAN /\ {FALSE} \subseteq BOOLEAN /\ {1} \subseteq Nat /\ {0} \subseteq Nat
        OBVIOUS
      <4> QED BY <4>1, Zenon DEF ARows
    <3>3. arow.pwd \in {1} /\ arow.ts \in {0}
      BY <3>1, Zenon
    <3> QED BY <3>1, <3>2, <3>3
  <2>2. aghost = [failed |-> 0, overlap |-> FALSE, used |-> {<<arow.ts, 1>>}, again |-> FALSE, edited |-> FALSE, out |-> {}]
    BY DEF AInit
  <2> QED BY <2>1, <2>2 DEF AInit
<1>2. ATyped
  BY <1>1, IdleTyped DEF ATyped, ANoCount, AGhosts
<1>3. \A p \in AProcs : ARequestOK(aproc[p], aghost.used, aghost.again)
  BY <1>1, IdleTyped, NothingKnown
<1>4. AUsedOK(aghost.used, aghost.again, aghost.edited, aclock.changes) /\ ATokensKnown
  BY <1>1 DEF AUsedOK, ATokensKnown, AKnown
<1>5. ACountRight
  <2>1. ATrying = {}
    BY <1>1, IdleTyped DEF ATrying
  <2>2. ACounted = 0 /\ 0 <= AMax
    BY <1>1, AAssumption DEF ACounted, ANoCount
  <2> QED BY <1>1, <2>1, <2>2 DEF ACountRight
<1> QED BY <1>2, <1>3, <1>4, <1>5 DEF AInv

LEMMA LoginsStep == AInv /\ [ANext]_loginVars => AInv'
<1> SUFFICES ASSUME AInv, [ANext]_loginVars PROVE AInv'
  OBVIOUS
<1>1. CASE UNCHANGED loginVars
  BY <1>1 DEF loginVars, AInv, ATyped, ARequestOK, AUsedOK, ATokensKnown, AKnown, ACountRight, ACounted, ATrying
<1>2. ASSUME NEW p \in AProcs, NEW guess \in {1, ANewPwd - 1}, NEW code \in {FALSE, arow.otp},
             ATry(p, "login", guess, code) \/ ATry(p, "dav", guess, FALSE)
      PROVE  AInv'
  <2>1. guess \in Nat /\ code \in BOOLEAN
    <3>1. aclock.changes \in Nat /\ arow.otp \in BOOLEAN
      BY DEF AInv, ATyped, ARows
    <3>2. ANewPwd - 1 \in Nat
      BY <3>1 DEF ANewPwd
    <3>3. code \in BOOLEAN
      BY <3>1, Zenon
    <3> QED BY <3>2, <3>3
  <2> QED BY <1>2, <2>1, TryKeeps
<1>3. ASSUME NEW p \in AProcs, ACheckLogin(p) \/ ACheckDav(p) \/ ARehash(p) \/ AGranted(p)
      PROVE  AInv'
  BY <1>3, CheckKeeps, RehashKeeps, GrantKeeps
<1>4. ASSUME NEW p \in AProcs, NEW tok \in avalid \cup aghost.out, ABearer(p, tok)
      PROVE  AInv'
  BY <1>4, BearerKeeps
<1>5. ASSUME NEW p \in AProcs, AAuth(p) \/ AUpdateCurrent(p) \/ AVerify2FA(p) \/ ALogOut(p)
      PROVE  AInv'
  BY <1>5, AuthKeeps, SelfKeeps, LogOutKeeps
<1>6. ASSUME NEW p \in AProcs, AServe(p)
      PROVE  AInv'
  BY <1>6, EndKeeps DEF AServe
<1>7. CASE (\E disabled, pwd \in BOOLEAN : AEdit(disabled, pwd)) \/ ACancel2FA \/ ADelete \/ ACreate
  BY <1>7, AdminKeeps
<1>8. CASE ATick \/ ARestart \/ ALockEnds
  BY <1>8, TickKeeps, RestartKeeps, LockEndsKeeps
<1> QED BY <1>1, <1>2, <1>3, <1>4, <1>5, <1>6, <1>7, <1>8 DEF ANext

(* However requests overlap: a request that is let in has a token that was not  *)
(* logged out and was given for the password the user has (Auth), the rehash at *)
(* login logs nobody out (RehashPasswordStaticHash), and attempts one at a time *)
(* stop after DefaultMaxAuthRetries failures (loginHash, WebDAVAuth).           *)
THEOREM LoginsAreRight == ASpec => []LoginsRight
<1>1. AInv => LoginsRight
  <2> SUFFICES ASSUME AInv PROVE LoginsRight
    OBVIOUS
  <2>1. ATokenRight
    BY DEF AInv, ATokenRight, ARequestOK
  <2>2. ARehashKeeps
    <3>1. \A tok \in avalid : <<tok.ts, tok.pwd>> \in aghost.used /\ <<arow.ts, arow.pwd>> \in aghost.used
      BY DEF AInv, ATokensKnown, AKnown
    <3> QED BY <3>1 DEF AInv, AUsedOK, ARehashKeeps
  <2>3. ALimited
    BY DEF AInv, ACountRight, ALimited
  <2> QED BY <2>1, <2>2, <2>3 DEF LoginsRight
<1> QED BY <1>1, LoginsStart, LoginsStep, PTL DEF ASpec

-----------------------------------------------------------------------------
(* Storages: what the rows, the map, the drivers and the calls are              *)

SReal == [mount : SMounts, disabled : BOOLEAN, ok : BOOLEAN]
SRowsOf == SReal \cup {SNoRow}
SCallsOf == [pc : {"idle", "enable", "drop", "off", "delete", "update", "set", "init", "save", "next"},
             op : {"none", "create", "enable", "disable", "update", "delete", "loadall", "boot"},
             id : SIds \cup {0}, row : SRowsOf, old : SRowsOf, drv : SDrivers \cup {0},
             todo : SUBSET [id : SIds, row : SReal]]
SObjects == [id : SIds \cup {0}, row : SRowsOf, live : BOOLEAN]
STyped ==
  /\ srows \in [SIds -> SRowsOf] /\ smap \in [SMounts -> SDrivers \cup {0}]
  /\ sdrv \in [SDrivers -> SObjects]
  /\ sadm \in [SAdmins -> SCallsOf]
  /\ sloaded \in BOOLEAN /\ sclean \in BOOLEAN
\* A call has its object while it drops or loads one, and a row that it will write.
SSound(a) ==
  /\ a.pc \in {"drop", "set", "init", "save"} => a.drv \in SDrivers
  /\ a.pc \in {"enable", "update", "off", "set", "init"} \/ (a.pc = "drop" /\ a.op # "delete") => a.row \in SReal
  /\ a.pc = "update" => a.old \in SReal
SHasDriver == \A p \in SAdmins :
  SSound(sadm[p]) /\ (sadm[p].pc = "init" => sdrv[sadm[p].drv].row \in SReal)
\* No two rows have a mount path.
SDistinct == \A i, j \in SIds : srows[i] # SNoRow /\ srows[j] # SNoRow /\ srows[i].mount = srows[j].mount => i = j

\* A row is served: its mount path leads to a driver that has the row.
SServed(i) ==
  LET d == smap[srows[i].mount]
  IN  d \in SDrivers /\ sdrv[d].id = i /\ sdrv[d].row = srows[i] /\ sdrv[d].live = srows[i].ok
\* All enabled rows but those in I are served, nothing else is mounted, and no
\* driver but those in D runs off the map.
SRest(I, D) ==
  /\ \A i \in SEnabledRows \ I : SServed(i)
  /\ \A m \in SMounts : smap[m] # 0 => \E i \in SEnabledRows : srows[i].mount = m
  /\ \A d \in SDrivers \ D : sdrv[d].live => \E i \in SEnabledRows \ I : smap[srows[i].mount] = d

\* The rows that a restart has still to load.
SWaiting(a) == IF a.op = "boot" THEN {e.id : e \in a.todo} ELSE {}
\* What a call has done so far, at each of its steps, when it is the only one.
SList(a) ==
  a.op \in {"boot", "loadall"} =>
    \A e \in a.todo : e.id \in SEnabledRows /\ srows[e.id] = e.row /\ (a.pc # "next" => e.id # a.id)
SEnabling(a) ==
  /\ a.id \in SIds /\ srows[a.id] # SNoRow /\ srows[a.id].disabled /\ a.op = "enable"
  /\ a.row = [srows[a.id] EXCEPT !.disabled = FALSE] /\ SRest({}, {})
SUpdating(a) ==
  /\ a.id \in SIds /\ srows[a.id] # SNoRow /\ a.old = srows[a.id] /\ a.op = "update"
  /\ a.row.disabled = a.old.disabled /\ a.row.mount \in SMounts /\ SRest({}, {})
SDropping(a) ==
  /\ a.id \in SEnabledRows /\ a.op \in {"update", "disable", "delete", "loadall"}
  /\ a.op = "update" => /\ a.row = srows[a.id] /\ SRest({a.id}, {a.drv})
                        /\ sdrv[a.drv].id = a.id /\ smap[a.row.mount] \in {0, a.drv}
  /\ a.op # "update" => SRest({}, {}) /\ a.drv = smap[srows[a.id].mount]
  /\ a.op = "loadall" => a.row = srows[a.id]
  /\ a.op \in {"disable", "delete"} => a.old = srows[a.id]
  /\ a.op = "disable" => a.row = [a.old EXCEPT !.disabled = TRUE, !.ok = FALSE]
SDisabling(a) ==
  /\ a.id \in SEnabledRows /\ a.op = "disable" /\ SRest({a.id}, {})
  /\ a.row = [srows[a.id] EXCEPT !.disabled = TRUE, !.ok = FALSE]
SDeleting(a) ==
  /\ a.id \in SIds /\ srows[a.id] # SNoRow /\ a.op = "delete"
  /\ SRest({a.id}, {}) /\ smap[srows[a.id].mount] = 0
SStarting(a) ==
  /\ a.id \in SEnabledRows /\ a.row = srows[a.id] /\ ~sdrv[a.drv].live
  /\ SRest({a.id} \cup SWaiting(a), {})
  /\ \A j \in SEnabledRows \ {a.id} : smap[srows[j].mount] # a.drv
  /\ a.pc = "init" => sdrv[a.drv].id = a.id /\ sdrv[a.drv].row = a.row
SSaving(a) ==
  /\ a.id \in SEnabledRows /\ smap[srows[a.id].mount] = a.drv /\ sdrv[a.drv].id = a.id
  /\ sdrv[a.drv].row = [srows[a.id] EXCEPT !.ok = sdrv[a.drv].live]
  /\ SRest({a.id} \cup SWaiting(a), {a.drv})
SPhase(a) ==
  /\ SList(a)
  /\ a.pc = "enable" => SEnabling(a)
  /\ a.pc = "update" => SUpdating(a)
  /\ a.pc = "drop" => SDropping(a)
  /\ a.pc = "off" => SDisabling(a)
  /\ a.pc = "delete" => SDeleting(a)
  /\ a.pc \in {"set", "init"} => SStarting(a)
  /\ a.pc = "save" => SSaving(a)
  /\ a.pc = "next" => a.op \in {"boot", "loadall"} /\ SRest(SWaiting(a), {})
SOrderly ==
  sclean =>
    /\ \A p, q \in SAdmins : sadm[p].pc # "idle" /\ sadm[q].pc # "idle" => p = q
    /\ \A p \in SAdmins : sadm[p].pc # "idle" => SPhase(sadm[p])
    /\ SAllIdle => SRest({}, {})
    /\ ~sloaded => \E p \in SAdmins : sadm[p].pc # "idle" /\ sadm[p].op \in {"boot", "loadall"}
SInd == STyped /\ SHasDriver /\ SDistinct /\ SOrderly

-----------------------------------------------------------------------------
LEMMA RealRows == SNoRow \notin SReal
BY SAssumption DEF SReal, SNoRow

\* driverNew takes an object that nobody has.
LEMMA Fresh == ASSUME SFree # {} PROVE SFresh \in SFree
<1>1. SFree \subseteq Nat
  BY SAssumption DEF SFree
<1> DEFINE R == OpToRel(<, Nat)
<1>2. IsWellFoundedOn(R, Nat)
  BY NatLessThanWellFounded
<1>3. IsWellFoundedOn(R, SFree)
  BY <1>1, <1>2, IsWellFoundedOnSubset
<1>4. PICK x \in SFree : \A y \in SFree : ~(<<y, x>> \in R)
  BY <1>3, WFMin
<1>5. \A y \in SFree : x <= y
  <2>1. ASSUME NEW y \in SFree PROVE ~(y < x)
    BY <1>1, <1>4 DEF OpToRel
  <2> QED BY <1>1, <2>1
<1> QED BY <1>5 DEF SFresh

\* A call that goes on: the types.
LEMMA CallTyped ==
  ASSUME STyped, SHasDriver, NEW p \in SAdmins, NEW b \in SCallsOf, sadm' = [sadm EXCEPT ![p] = b],
         SSound(b), b.pc = "init" => sdrv'[b.drv].row \in SReal,
         \A d \in SDrivers : sdrv[d].row \in SReal => sdrv'[d].row \in SReal
  PROVE  sadm' \in [SAdmins -> SCallsOf] /\ SHasDriver'
<1>1. sadm'[p] = b /\ \A q \in SAdmins \ {p} : sadm'[q] = sadm[q]
  BY DEF STyped
<1>2. \A q \in SAdmins : sadm[q].pc = "init" => sadm[q].drv \in SDrivers
  BY DEF SHasDriver, SSound
<1>3. \A q \in SAdmins : SSound(sadm'[q])
  BY <1>1 DEF SHasDriver
<1>4. \A q \in SAdmins : sadm'[q].pc = "init" => sdrv'[sadm'[q].drv].row \in SReal
  BY <1>1, <1>2 DEF SHasDriver
<1> QED BY <1>3, <1>4 DEF STyped, SHasDriver

\* The only call goes on or ends.
LEMMA OnlyCall ==
  ASSUME STyped, NEW p \in SAdmins, NEW b \in SCallsOf, sadm' = [sadm EXCEPT ![p] = b],
         \A q \in SAdmins \ {p} : sadm[q].pc = "idle",
         b.pc # "idle" => SPhase(b)',
         b.pc = "idle" => SRest({}, {})',
         ~sloaded' => b.pc # "idle" /\ b.op \in {"boot", "loadall"}
  PROVE  SOrderly'
<1>1. sadm'[p] = b /\ \A q \in SAdmins \ {p} : sadm'[q].pc = "idle"
  BY DEF STyped
<1>2. \A q \in SAdmins : sadm'[q].pc # "idle" => q = p
  BY <1>1
<1>3. SAllIdle' => b.pc = "idle"
  BY <1>1 DEF SAllIdle
<1> QED BY <1>1, <1>2, <1>3 DEF SOrderly

\* A call that starts alone finds all rows served.
LEMMA StartsAlone ==
  ASSUME SInd, SAllIdle, sclean
  PROVE  SRest({}, {}) /\ sloaded
BY DEF SInd, SOrderly, SAllIdle
\* The calls other than the only one.
LEMMA OthersIdle ==
  ASSUME SInd, sclean, NEW p \in SAdmins, sadm[p].pc # "idle"
  PROVE  SPhase(sadm[p]) /\ (\A q \in SAdmins \ {p} : sadm[q].pc = "idle")
         /\ (~sloaded => sadm[p].op \in {"boot", "loadall"})
BY DEF SInd, SOrderly

\* A row that is written or refused.
LEMMA RowSaved ==
  ASSUME STyped, SDistinct, NEW i, NEW row \in SRowsOf, SSaved(i, row) \/ SRefused(i, row)
  PROVE  /\ srows' \in [SIds -> SRowsOf] /\ SDistinct'
         /\ SWorks \/ SFails
BY DEF STyped, SDistinct, SSaved, SRefused, STaken
LEMMA Unclean == ASSUME SFails PROVE ~sclean'
BY DEF SFails
LEMMA NotOrderly == ASSUME ~sclean' PROVE SOrderly'
BY DEF SOrderly

\* A row that is mounted where none of the call's was, by a new object.
LEMMA RowStarts ==
  ASSUME STyped, SRest({}, {}), NEW i \in SIds, i \notin SEnabledRows, NEW row \in SReal, ~row.disabled,
         srows' = [srows EXCEPT ![i] = row], UNCHANGED <<smap, sdrv>>,
         NEW d \in SDrivers, sdrv[d] = SDead, \A k \in SMounts : smap[k] # d,
         NEW b, b.pc = "set", b.op # "boot", b.op # "loadall", b.id = i, b.row = row, b.drv = d
  PROVE  SPhase(b)'
<1>1. SEnabledRows' = SEnabledRows \cup {i} /\ srows'[i] = row
  BY RealRows DEF STyped, SEnabledRows
<1>2. \A j \in SEnabledRows : srows'[j] = srows[j] /\ j # i
  BY <1>1 DEF STyped, SEnabledRows
<1>3. SRest({i}, {})'
  BY <1>1, <1>2 DEF SRest, SServed
<1>4. \A j \in SEnabledRows : srows[j].mount \in SMounts
  BY DEF STyped, SEnabledRows, SRowsOf, SReal
<1>5. \A j \in SEnabledRows' \ {i} : smap'[srows'[j].mount] # d
  BY <1>1, <1>2, <1>4
<1>6. ~sdrv'[d].live
  BY DEF SDead
<1>7. SWaiting(b) = {} /\ SList(b)'
  BY DEF SWaiting, SList
<1>8. {b.id} \cup SWaiting(b) = {i}
  BY <1>7
<1>9. SStarting(b)'
  BY <1>1, <1>3, <1>5, <1>6, <1>8 DEF SStarting
<1> QED BY <1>7, <1>9 DEF SPhase

-----------------------------------------------------------------------------
(* A call starts. *)

LEMMA CreateKeeps ==
  ASSUME SInd, NEW p \in SAdmins, NEW i \in SIds, NEW m \in SMounts, NEW off \in BOOLEAN, CreateStorage(p, i, m, off)
  PROVE  SInd'
<1>3. PICK d : d = SFresh
  OBVIOUS
<1> DEFINE row == [mount |-> m, disabled |-> off, ok |-> FALSE]
           b == [pc |-> "set", op |-> "create", id |-> i, row |-> row, old |-> SNoRow, drv |-> d, todo |-> {}]
<1>1. /\ sadm' = [sadm EXCEPT ![p] = b] /\ srows' = [srows EXCEPT ![i] = row] /\ ~STaken(i, row)
      /\ sclean' = (sclean /\ SAllIdle /\ ~off) /\ SFree # {} /\ UNCHANGED <<smap, sdrv, sloaded>>
      /\ srows[i] = SNoRow /\ sadm[p].pc = "idle"
  BY <1>3 DEF CreateStorage, SGo, SStart
<1>2. STyped /\ SHasDriver /\ SDistinct
  BY DEF SInd
<1>4. d \in SDrivers /\ sdrv[d] = SDead /\ (\A k \in SMounts : smap[k] # d)
  BY <1>1, <1>3, Fresh DEF SFree
<1>5. row \in SRowsOf /\ b \in SCallsOf
  BY <1>4 DEF SRowsOf, SReal, SCallsOf
<1>6. sadm' \in [SAdmins -> SCallsOf] /\ SHasDriver'
  <2>1. SSound(b) /\ b.pc # "init"
    BY <1>4 DEF SSound, SReal
  <2> HIDE DEF b
  <2> QED BY <1>1, <1>2, <1>5, <2>1, CallTyped
<1>7. srows' \in [SIds -> SRowsOf] /\ SDistinct'
  BY <1>1, <1>2, <1>5 DEF STyped, SDistinct, STaken
<1>8. STyped'
  BY <1>1, <1>2, <1>6, <1>7 DEF STyped
<1>9. SOrderly'
  <2>1. CASE ~sclean'
    BY <2>1, NotOrderly
  <2>2. CASE sclean'
    <3>1. sclean /\ SAllIdle /\ ~off
      BY <1>1, <2>2
    <3>2. SRest({}, {}) /\ sloaded
      BY <3>1, StartsAlone
    <3>3. SPhase(b)'
      <4>1. i \notin SEnabledRows /\ row \in SReal /\ ~row.disabled
        BY <1>1, <3>1 DEF SEnabledRows, SReal
      <4>2. b.pc = "set" /\ b.op = "create" /\ b.id = i /\ b.row = row /\ b.drv = d
        OBVIOUS
      <4> HIDE DEF b, row
      <4> QED BY <1>1, <1>2, <1>4, <3>2, <4>1, <4>2, RowStarts
    <3>4. \A q \in SAdmins \ {p} : sadm[q].pc = "idle"
      BY <3>1 DEF SAllIdle
    <3>5. b.pc # "idle" /\ sloaded'
      BY <1>1, <3>2
    <3> HIDE DEF b
    <3> QED BY <1>1, <1>2, <1>5, <3>3, <3>4, <3>5, OnlyCall
  <2> QED BY <2>1, <2>2
<1> QED BY <1>6, <1>7, <1>8, <1>9 DEF SInd

LEMMA SameRest ==
  ASSUME UNCHANGED <<srows, smap, sdrv>>, NEW I, NEW D, SRest(I, D) PROVE SRest(I, D)'
BY DEF SRest, SServed, SEnabledRows

\* What a call has done does not change while the storages do not.
LEMMA SamePhase == ASSUME UNCHANGED <<srows, smap, sdrv>>, NEW b, SPhase(b) PROVE SPhase(b)'
<1>1. SEnabledRows' = SEnabledRows
  BY DEF SEnabledRows
<1>2. \A I, D : SRest(I, D) => SRest(I, D)'
  BY SameRest
<1>3. SList(b)'
  BY <1>1 DEF SPhase, SList
<1>4. (b.pc = "enable" => SEnabling(b)') /\ (b.pc = "update" => SUpdating(b)')
  BY <1>2 DEF SPhase, SEnabling, SUpdating
<1>5. b.pc = "drop" => SDropping(b)'
  BY <1>1, <1>2 DEF SPhase, SDropping
<1>6. (b.pc = "off" => SDisabling(b)') /\ (b.pc = "delete" => SDeleting(b)')
  BY <1>1, <1>2 DEF SPhase, SDisabling, SDeleting
<1>7. (b.pc \in {"set", "init"} => SStarting(b)') /\ (b.pc = "save" => SSaving(b)')
  BY <1>1, <1>2 DEF SPhase, SStarting, SSaving
<1>8. b.pc = "next" => b.op \in {"boot", "loadall"} /\ SRest(SWaiting(b), {})'
  BY <1>2 DEF SPhase
<1> QED BY <1>3, <1>4, <1>5, <1>6, <1>7, <1>8 DEF SPhase

\* The calls that change nothing yet.
LEMMA Starts ==
  ASSUME SInd, NEW p \in SAdmins, NEW b \in SCallsOf, sadm[p].pc = "idle", sadm' = [sadm EXCEPT ![p] = b],
         UNCHANGED <<srows, smap, sdrv>>, sclean' \in BOOLEAN, sloaded' \in BOOLEAN, b.pc # "idle",
         SSound(b), b.pc # "init",
         sclean' => sclean /\ SAllIdle,
         sloaded /\ ~sloaded' => b.op \in {"boot", "loadall"},
         SRest({}, {}) /\ sclean' => SPhase(b)
  PROVE  SInd'
<1>1. STyped /\ SHasDriver /\ SDistinct
  BY DEF SInd
<1>2. sadm' \in [SAdmins -> SCallsOf] /\ SHasDriver'
  BY <1>1, CallTyped
<1>3. STyped'
  BY <1>1, <1>2 DEF STyped
<1>4. SDistinct'
  BY <1>1 DEF SDistinct
<1>5. SOrderly'
  <2>1. CASE ~sclean'
    BY <2>1, NotOrderly
  <2>2. CASE sclean'
    <3>1. SRest({}, {}) /\ sloaded
      BY <2>2, StartsAlone
    <3>2. SPhase(b)'
      BY <2>2, <3>1, SamePhase
    <3>3. \A q \in SAdmins \ {p} : sadm[q].pc = "idle"
      BY <2>2 DEF SAllIdle
    <3> QED BY <1>1, <3>1, <3>2, <3>3, OnlyCall
  <2> QED BY <2>1, <2>2
<1> QED BY <1>2, <1>3, <1>4, <1>5 DEF SInd

LEMMA EnableKeeps == ASSUME SInd, NEW p \in SAdmins, NEW i \in SIds, EnableStorage(p, i) PROVE SInd'
<1> DEFINE row == [srows[i] EXCEPT !.disabled = FALSE]
<1>1. PICK r : r = srows[i]
  OBVIOUS
<1> DEFINE b == [pc |-> "enable", op |-> "enable", id |-> i, row |-> [r EXCEPT !.disabled = FALSE], old |-> r, drv |-> 0, todo |-> {}]
<1>2. /\ sadm[p].pc = "idle" /\ sadm' = [sadm EXCEPT ![p] = b] /\ UNCHANGED <<srows, smap, sdrv, sloaded>>
      /\ sclean' = (sclean /\ SAllIdle) /\ r # SNoRow /\ r.disabled
  BY <1>1 DEF EnableStorage, SStart, SGo, SAlone
<1>3. STyped /\ r \in SRowsOf
  BY <1>1 DEF SInd, STyped
<1>4. [r EXCEPT !.disabled = FALSE] \in SReal
  BY <1>2, <1>3 DEF SRowsOf, SReal
<1>5. b \in SCallsOf
  BY <1>3, <1>4 DEF SCallsOf, SRowsOf
<1>6. b.pc = "enable" /\ b.op = "enable" /\ b.id = i /\ b.row = [srows[i] EXCEPT !.disabled = FALSE]
  BY <1>1
<1> HIDE DEF b
<1>7. SRest({}, {}) => SPhase(b)
  BY <1>1, <1>2, <1>6 DEF SPhase, SList, SEnabling
<1>8. SSound(b)
  BY <1>1, <1>4, <1>6 DEF SSound
<1> QED BY <1>2, <1>3, <1>5, <1>6, <1>7, <1>8, Starts DEF STyped

LEMMA DisableKeeps == ASSUME SInd, NEW p \in SAdmins, NEW i \in SIds, DisableStorage(p, i) PROVE SInd'
<1>1. PICK r, d : r = srows[i] /\ d = smap[srows[i].mount]
  OBVIOUS
<1> DEFINE row == [r EXCEPT !.disabled = TRUE, !.ok = FALSE]
           b == [pc |-> "drop", op |-> "disable", id |-> i, row |-> row, old |-> r, drv |-> d, todo |-> {}]
<1>2. /\ sadm[p].pc = "idle" /\ sadm' = [sadm EXCEPT ![p] = b] /\ UNCHANGED <<srows, smap, sdrv, sloaded>>
      /\ sclean' = (sclean /\ SAllIdle) /\ i \in SEnabledRows /\ d # 0
  BY <1>1 DEF DisableStorage, SStart, SGo, SAlone
<1>3. STyped /\ r \in SRowsOf /\ r # SNoRow
  BY <1>1, <1>2 DEF SInd, STyped, SEnabledRows
<1>4. row \in SReal /\ d \in SDrivers
  BY <1>1, <1>2, <1>3 DEF SRowsOf, SReal, STyped
<1>5. b \in SCallsOf
  BY <1>3, <1>4 DEF SCallsOf, SRowsOf
<1>6. b.pc = "drop" /\ b.op = "disable" /\ b.id = i /\ b.row = row /\ b.old = r /\ b.drv = d
  OBVIOUS
<1> HIDE DEF b
<1>7. SRest({}, {}) => SPhase(b)
  BY <1>1, <1>2, <1>6 DEF SPhase, SList, SDropping
<1>8. SSound(b)
  BY <1>4, <1>6 DEF SSound
<1> QED BY <1>2, <1>3, <1>5, <1>6, <1>7, <1>8, Starts DEF STyped

LEMMA UpdateKeeps ==
  ASSUME SInd, NEW p \in SAdmins, NEW i \in SIds, NEW m \in SMounts, NEW off \in BOOLEAN, UpdateStorage(p, i, m, off)
  PROVE  SInd'
<1>1. PICK r : r = srows[i]
  OBVIOUS
<1> DEFINE row == [mount |-> m, disabled |-> off, ok |-> FALSE]
           b == [pc |-> "update", op |-> "update", id |-> i, row |-> row, old |-> r, drv |-> 0, todo |-> {}]
<1>2. /\ sadm[p].pc = "idle" /\ sadm' = [sadm EXCEPT ![p] = b] /\ UNCHANGED <<srows, smap, sdrv, sloaded>>
      /\ sclean' = (sclean /\ SAllIdle /\ off = r.disabled) /\ r # SNoRow
  BY <1>1 DEF UpdateStorage, SStart, SGo
<1>3. STyped /\ r \in SRowsOf /\ row \in SReal
  BY <1>1 DEF SInd, STyped, SReal
<1>5. b \in SCallsOf
  BY <1>3 DEF SCallsOf, SRowsOf
<1>6. b.pc = "update" /\ b.op = "update" /\ b.id = i /\ b.row = row /\ b.old = r
  OBVIOUS
<1> HIDE DEF b
<1>7. ASSUME SRest({}, {}), sclean' PROVE SPhase(b)
  <2>1. off = r.disabled
    BY <1>2, <1>7
  <2>2. b.row.disabled = b.old.disabled /\ b.row.mount \in SMounts
    BY <1>6, <2>1
  <2>3. SUpdating(b)
    BY <1>1, <1>2, <1>6, <1>7, <2>2 DEF SUpdating
  <2> QED BY <1>6, <2>3 DEF SPhase, SList
<1>8. SSound(b)
  BY <1>2, <1>3, <1>6 DEF SSound, SRowsOf
<1> QED BY <1>2, <1>3, <1>5, <1>6, <1>7, <1>8, Starts DEF STyped

LEMMA DeleteKeeps == ASSUME SInd, NEW p \in SAdmins, NEW i \in SIds, DeleteStorageById(p, i) PROVE SInd'
<1>1. PICK r, d : r = srows[i] /\ d = smap[srows[i].mount]
  OBVIOUS
<1> DEFINE pc == IF r.disabled THEN "delete" ELSE "drop"
           drv == IF r.disabled THEN 0 ELSE d
           b == [pc |-> pc, op |-> "delete", id |-> i, row |-> SNoRow, old |-> r, drv |-> drv, todo |-> {}]
<1>2. /\ sadm[p].pc = "idle" /\ sadm' = [sadm EXCEPT ![p] = b] /\ UNCHANGED <<srows, smap, sdrv, sloaded>>
      /\ sclean' = (sclean /\ SAllIdle) /\ r # SNoRow /\ (~r.disabled => d # 0)
  BY <1>1 DEF DeleteStorageById, SStart, SGo, SAlone
<1>3. STyped /\ r \in SRowsOf /\ SDistinct
  BY <1>1 DEF SInd, STyped
<1>4. SNoRow \in SRowsOf /\ (~r.disabled => d \in SDrivers) /\ r.mount \in SMounts
  BY <1>1, <1>2, <1>3 DEF SRowsOf, SReal, STyped
<1>5. b \in SCallsOf
  BY <1>3, <1>4 DEF SCallsOf
<1>6. b.pc = pc /\ b.op = "delete" /\ b.id = i /\ b.old = r /\ b.drv = drv
  OBVIOUS
<1> HIDE DEF b
<1>7. ASSUME SRest({}, {}) PROVE SPhase(b)
  <2>1. SList(b)
    BY <1>6 DEF SList
  <2>2. CASE r.disabled
    <3>1. i \notin SEnabledRows
      BY <1>1, <2>2 DEF SEnabledRows
    <3>2. smap[srows[i].mount] = 0
      BY <1>1, <1>2, <1>3, <1>4, <1>7, <3>1 DEF SRest, SEnabledRows, SDistinct
    <3>3. SRest({i}, {})
      BY <1>7, <3>1 DEF SRest
    <3> QED BY <1>1, <1>2, <1>6, <2>1, <2>2, <3>2, <3>3 DEF SPhase, SDeleting
  <2>3. CASE ~r.disabled
    <3>1. i \in SEnabledRows
      BY <1>1, <1>2, <2>3 DEF SEnabledRows
    <3>2. SDropping(b)
      BY <1>1, <1>6, <1>7, <2>3, <3>1 DEF SDropping
    <3> QED BY <1>6, <2>1, <2>3, <3>2 DEF SPhase
  <2> QED BY <2>2, <2>3
<1>8. SSound(b) /\ b.pc # "init"
  BY <1>4, <1>6 DEF SSound
<1>9. b.pc # "idle" /\ sclean' \in BOOLEAN /\ sloaded' \in BOOLEAN /\ (sclean' => sclean /\ SAllIdle) /\ ~(sloaded /\ ~sloaded')
  BY <1>2, <1>3, <1>6 DEF STyped
<1> QED BY <1>2, <1>5, <1>7, <1>8, <1>9, Starts

LEMMA ListCall ==
  ASSUME NEW T \in SUBSET [id : SIds, row : SReal], NEW o \in {"loadall", "boot"}
  PROVE  LET b == [SIdle EXCEPT !.pc = "next", !.op = o, !.todo = T]
         IN  b \in SCallsOf /\ b.pc = "next" /\ b.op = o /\ b.todo = T
<1>1. PICK x \in SCallsOf : x = SIdle
  BY DEF SIdle, SCallsOf, SRowsOf
<1> HIDE DEF SRowsOf, SReal
<1> DEFINE b == [x EXCEPT !.pc = "next", !.op = o, !.todo = T]
<1>2. b \in SCallsOf
  BY DEF SCallsOf
<1>3. b.pc = "next" /\ b.op = o /\ b.todo = T
  BY DEF SCallsOf
<1> QED BY <1>1, <1>2, <1>3

LEMMA LoadAllKeeps == ASSUME SInd, NEW p \in SAdmins, LoadAllStorages(p) PROVE SInd'
<1>1. PICK T : T = SToLoad
  OBVIOUS
<1> DEFINE b == [SIdle EXCEPT !.pc = "next", !.op = "loadall", !.todo = T]
<1>2. /\ sadm[p].pc = "idle" /\ sadm' = [sadm EXCEPT ![p] = b] /\ UNCHANGED <<srows, smap, sdrv>>
      /\ sclean' = (sclean /\ SAllIdle) /\ sloaded' = FALSE
  BY <1>1 DEF LoadAllStorages, SStart, SAlone
<1>3. STyped /\ T \in SUBSET [id : SIds, row : SReal]
  BY <1>1 DEF SInd, STyped, SToLoad, SEnabledRows, SRowsOf
<1>5. b \in SCallsOf /\ b.pc = "next" /\ b.op = "loadall" /\ b.todo = T
  BY <1>3, ListCall
<1>8. SSound(b)
  BY <1>5 DEF SSound
<1> HIDE DEF b
<1>6. SList(b) /\ SWaiting(b) = {}
  BY <1>1, <1>5 DEF SList, SToLoad, SWaiting
<1>7. SRest({}, {}) => SPhase(b)
  BY <1>5, <1>6 DEF SPhase
<1> QED BY <1>2, <1>3, <1>5, <1>7, <1>8, Starts DEF STyped

-----------------------------------------------------------------------------
(* A call goes on. *)

LEMMA Goes ==
  ASSUME SInd, NEW p \in SAdmins, sadm[p].pc # "idle", NEW b \in SCallsOf, sadm' = [sadm EXCEPT ![p] = b],
         srows' \in [SIds -> SRowsOf], SDistinct', smap' \in [SMounts -> SDrivers \cup {0}],
         sdrv' \in [SDrivers -> SObjects], sloaded' \in BOOLEAN,
         SSound(b), b.pc = "init" => sdrv'[b.drv].row \in SReal,
         \A d \in SDrivers : sdrv[d].row \in SReal => sdrv'[d].row \in SReal,
         SWorks \/ SFails,
         ASSUME SPhase(sadm[p]), SWorks, sclean', ~sloaded => sadm[p].op \in {"boot", "loadall"}
         PROVE  /\ b.pc # "idle" => SPhase(b)'
                /\ b.pc = "idle" => SRest({}, {})'
                /\ ~sloaded' => b.pc # "idle" /\ b.op \in {"boot", "loadall"}
  PROVE  SInd'
<1>1. STyped /\ SHasDriver
  BY DEF SInd
<1>2. sadm' \in [SAdmins -> SCallsOf] /\ SHasDriver'
  BY <1>1, CallTyped
<1>3. sclean' \in BOOLEAN
  BY <1>1 DEF STyped, SWorks, SFails
<1>4. STyped'
  BY <1>2, <1>3 DEF STyped
<1>5. SOrderly'
  <2>1. CASE ~sclean'
    BY <2>1, NotOrderly
  <2>2. CASE sclean'
    <3>1. SWorks /\ sclean
      BY <2>2, Unclean DEF SWorks
    <3>2. SPhase(sadm[p]) /\ (\A q \in SAdmins \ {p} : sadm[q].pc = "idle")
          /\ (~sloaded => sadm[p].op \in {"boot", "loadall"})
      BY <3>1, OthersIdle
    <3> QED BY <1>1, <2>2, <3>1, <3>2, OnlyCall
  <2> QED BY <2>1, <2>2
<1> QED BY <1>2, <1>4, <1>5 DEF SInd

\* A call that ends.
LEMMA IdleCall == SIdle \in SCallsOf /\ SIdle.pc = "idle" /\ SIdle.op = "none" /\ SSound(SIdle)
BY DEF SIdle, SCallsOf, SRowsOf, SSound

LEMMA EnableRowKeeps == ASSUME SInd, NEW p \in SAdmins, EnableRow(p) PROVE SInd'
<1>1. PICK a, d : a = sadm[p] /\ d = SFresh
  OBVIOUS
<1>2. STyped /\ SHasDriver /\ SDistinct /\ a \in SCallsOf /\ SSound(a) /\ a.pc = "enable"
  BY <1>1 DEF SInd, STyped, SHasDriver, EnableRow
<1>3. /\ SSaved(a.id, a.row) \/ SRefused(a.id, a.row)
      /\ UNCHANGED <<smap, sdrv, sloaded>> /\ sloaded \in BOOLEAN
  BY <1>1, <1>2 DEF EnableRow, STyped
<1>4. a.row \in SRowsOf
  BY <1>2 DEF SCallsOf
<1>5. srows' \in [SIds -> SRowsOf] /\ SDistinct' /\ (SWorks \/ SFails)
  BY <1>2, <1>3, <1>4, RowSaved
<1>6. CASE SRefused(a.id, a.row) /\ SEnd(p)
  <2>1. ASSUME SPhase(a) PROVE SRest({}, {})' /\ a.op = "enable"
    BY <1>2, <1>3, <1>6, <2>1, SameRest DEF SPhase, SEnabling, SRefused
  <2> QED BY <1>1, <1>2, <1>3, <1>5, <1>6, <2>1, IdleCall, Goes DEF SEnd, STyped
<1>7. CASE SSaved(a.id, a.row) /\ SFree # {} /\ SGo(p, "set", "enable", a.id, a.row, a.old, d)
  <2> DEFINE b == [pc |-> "set", op |-> "enable", id |-> a.id, row |-> a.row, old |-> a.old, drv |-> d, todo |-> {}]
  <2>1. d \in SDrivers /\ sdrv[d] = SDead /\ (\A k \in SMounts : smap[k] # d)
    BY <1>1, <1>7, Fresh DEF SFree
  <2>2. b \in SCallsOf
    BY <1>2, <2>1 DEF SCallsOf
  <2>3. b.pc = "set" /\ b.op = "enable" /\ b.id = a.id /\ b.row = a.row /\ b.drv = d /\ sadm' = [sadm EXCEPT ![p] = b]
    BY <1>7 DEF SGo
  <2> HIDE DEF b
  <2>4. ASSUME SPhase(a) PROVE SPhase(b)' /\ a.op = "enable"
    <3>1. SEnabling(a)
      BY <1>2, <2>4 DEF SPhase
    <3>2. a.id \in SIds /\ a.id \notin SEnabledRows /\ a.op = "enable" /\ ~a.row.disabled /\ a.row \in SReal /\ SRest({}, {})
      BY <1>2, <3>1 DEF SEnabling, SEnabledRows, SSound, SRowsOf, SReal, STyped
    <3> QED BY <1>2, <1>3, <1>7, <2>1, <2>3, <3>2, RowStarts DEF SSaved
  <2>5. SSound(b)
    BY <1>2, <1>7, <2>1, <2>3 DEF SSound
  <2> QED BY <1>1, <1>2, <1>3, <1>5, <2>2, <2>3, <2>4, <2>5, Goes DEF STyped
<1> QED BY <1>1, <1>6, <1>7 DEF EnableRow

LEMMA UpdatingServed ==
  ASSUME STyped, NEW a, a.pc = "update", ~a.row.disabled, SPhase(a)
  PROVE  /\ SUpdating(a) /\ a.id \in SEnabledRows /\ SServed(a.id) /\ a.op = "update" /\ SRest({}, {})
         /\ smap[a.old.mount] # 0
<1>1. SUpdating(a)
  BY DEF SPhase
<1>2. a.id \in SEnabledRows /\ a.op = "update" /\ SRest({}, {}) /\ a.old = srows[a.id]
  BY <1>1 DEF SUpdating, SEnabledRows
<1> QED BY <1>1, <1>2, SAssumption DEF SRest, SServed

LEMMA UpdateRowKeeps == ASSUME SInd, NEW p \in SAdmins, UpdateRow(p) PROVE SInd'
<1>1. PICK a, d : a = sadm[p] /\ d = smap[a.old.mount]
  OBVIOUS
<1>2. STyped /\ SHasDriver /\ SDistinct /\ a \in SCallsOf /\ SSound(a) /\ a.pc = "update" /\ a.row \in SReal
  BY <1>1 DEF SInd, STyped, SHasDriver, UpdateRow, SSound
<1>3. /\ SSaved(a.id, a.row) \/ SRefused(a.id, a.row)
      /\ UNCHANGED <<sdrv, sloaded>> /\ sloaded \in BOOLEAN
      /\ smap' = smap \/ smap' = Unmounted(a.old.mount, a.row.mount)
  BY <1>1, <1>2 DEF UpdateRow, STyped
<1>4. srows' \in [SIds -> SRowsOf] /\ SDistinct' /\ (SWorks \/ SFails)
  BY <1>2, <1>3, RowSaved DEF SRowsOf
<1>5. smap' \in [SMounts -> SDrivers \cup {0}]
  BY <1>2, <1>3 DEF STyped, Unmounted
<1>6. CASE UNCHANGED <<srows, smap>> /\ SEnd(p)
  <2>1. ASSUME SPhase(a) PROVE SRest({}, {})' /\ a.op = "update"
    BY <1>2, <1>3, <1>6, <2>1, SameRest DEF SPhase, SUpdating
  <2> QED BY <1>1, <1>2, <1>3, <1>4, <1>5, <1>6, <2>1, IdleCall, Goes DEF SEnd, STyped
<1>7. CASE SSaved(a.id, a.row) /\ a.row.disabled /\ SEnd(p) /\ UNCHANGED smap
  <2>1. ASSUME SPhase(a) PROVE SRest({}, {})' /\ a.op = "update"
    <3>1. SUpdating(a)
      BY <1>2, <2>1 DEF SPhase
    <3>2. a.id \in SIds /\ a.id \notin SEnabledRows /\ SRest({}, {}) /\ a.op = "update"
      BY <1>7, <3>1 DEF SUpdating, SEnabledRows
    <3>3. SEnabledRows' = SEnabledRows /\ \A j \in SEnabledRows : srows'[j] = srows[j]
      BY <1>2, <1>7, <3>2 DEF SSaved, SEnabledRows, STyped
    <3> QED BY <1>3, <1>7, <3>2, <3>3 DEF SRest, SServed
  <2> QED BY <1>1, <1>2, <1>3, <1>4, <1>5, <1>7, <2>1, IdleCall, Goes DEF SEnd, STyped
<1>8. CASE /\ SSaved(a.id, a.row) /\ ~a.row.disabled /\ smap' = Unmounted(a.old.mount, a.row.mount)
           /\ IF d = 0 THEN SEnd(p) ELSE SGo(p, "drop", "update", a.id, a.row, a.old, d)
  <2>1. d \in SDrivers \cup {0}
    BY <1>1, <1>2 DEF STyped, SSound, SReal
  <2>2. CASE d = 0
    <3>1. ~SPhase(a)
      BY <1>1, <1>2, <1>8, <2>2, UpdatingServed
    <3> QED BY <1>1, <1>2, <1>3, <1>4, <1>5, <1>8, <2>2, <3>1, IdleCall, Goes DEF SEnd, STyped
  <2>3. CASE d # 0
    <3> DEFINE b == [pc |-> "drop", op |-> "update", id |-> a.id, row |-> a.row, old |-> a.old, drv |-> d, todo |-> {}]
    <3>1. b \in SCallsOf
      BY <1>2, <2>1, <2>3 DEF SCallsOf
    <3>2. /\ b.pc = "drop" /\ b.op = "update" /\ b.id = a.id /\ b.row = a.row /\ b.drv = d
          /\ sadm' = [sadm EXCEPT ![p] = b]
      BY <1>8, <2>3 DEF SGo
    <3> HIDE DEF b
    <3>3. SSound(b)
      BY <1>2, <2>1, <2>3, <3>2 DEF SSound
    <3>4. ASSUME SPhase(a) PROVE SPhase(b)' /\ a.op = "update"
      <4>1. SUpdating(a) /\ a.id \in SEnabledRows /\ SServed(a.id) /\ a.op = "update" /\ SRest({}, {})
        BY <1>2, <1>8, <3>4, UpdatingServed
      <4>2. a.old = srows[a.id] /\ a.old.mount \in SMounts /\ a.row.mount \in SMounts /\ a.row # SNoRow /\ sdrv[d].id = a.id
        BY <1>1, <1>2, <4>1, RealRows DEF SUpdating, SSound, SReal, SServed
      <4>3. /\ SEnabledRows' = SEnabledRows /\ srows'[a.id] = a.row
            /\ \A j \in SEnabledRows \ {a.id} : srows'[j] = srows[j]
        BY <1>2, <1>8, <4>1, <4>2 DEF SSaved, SEnabledRows, STyped
      <4>4. \A j \in SEnabledRows \ {a.id} : srows[j].mount # a.old.mount /\ srows[j].mount # a.row.mount /\ srows[j].mount \in SMounts
        BY <1>2, <1>8, <4>1, <4>2 DEF SSaved, STaken, SDistinct, SEnabledRows, STyped, SRowsOf, SReal
      <4>5. \A j \in SEnabledRows \ {a.id} : smap'[srows[j].mount] = smap[srows[j].mount]
        BY <1>2, <1>8, <4>4 DEF Unmounted, STyped
      <4>6. \A m \in SMounts : smap'[m] # 0 => smap'[m] = smap[m] /\ (m = a.old.mount => a.row.mount = m)
        BY <1>2, <1>8, <4>2 DEF Unmounted, STyped
      <4>7. SRest({a.id}, {d})'
        <5>1. \A j \in SEnabledRows' \ {a.id} : SServed(j)'
          BY <1>3, <4>1, <4>3, <4>5 DEF SRest, SServed
        <5>2. \A m \in SMounts : smap'[m] # 0 => \E j \in SEnabledRows' : srows'[j].mount = m
          BY <4>1, <4>2, <4>3, <4>6 DEF SRest
        <5>3. \A e \in SDrivers \ {d} : sdrv'[e].live => \E j \in SEnabledRows' \ {a.id} : smap'[srows'[j].mount] = e
          BY <1>1, <1>3, <4>1, <4>2, <4>3, <4>5 DEF SRest
        <5> QED BY <5>1, <5>2, <5>3 DEF SRest
      <4>8. smap'[a.row.mount] \in {0, d}
        <5>1. smap'[a.row.mount] # 0 => \E j \in SEnabledRows : srows[j].mount = a.row.mount
          BY <4>1, <4>2, <4>6 DEF SRest
        <5>2. smap'[a.row.mount] # 0 => a.row.mount = a.old.mount
          BY <4>2, <4>4, <5>1
        <5> QED BY <1>1, <4>2, <4>6, <5>2
      <4>9. SDropping(b)'
        BY <1>3, <3>2, <4>1, <4>2, <4>3, <4>7, <4>8 DEF SDropping
      <4> QED BY <3>2, <4>1, <4>9 DEF SPhase, SList
    <3> QED BY <1>1, <1>2, <1>3, <1>4, <1>5, <3>1, <3>2, <3>3, <3>4, Goes DEF STyped
  <2> QED BY <2>2, <2>3
<1>9. SRefused(a.id, a.row) => UNCHANGED srows
  BY DEF SRefused
<1> QED BY <1>1, <1>6, <1>7, <1>8, <1>9 DEF UpdateRow

\* The object that a call drops is the one of its row and of no other.
LEMMA Dropping ==
  ASSUME STyped, SDistinct, NEW a, a.pc = "drop", SPhase(a), a.drv \in SDrivers
  PROVE  a.id \in SEnabledRows /\ sdrv[a.drv].id = a.id /\ SRest({a.id}, {a.drv}) /\ SDropping(a) /\ SList(a)
<1>1. SDropping(a) /\ SList(a) /\ a.id \in SEnabledRows
  BY DEF SPhase, SDropping
<1>2. CASE a.op = "update"
  BY <1>1, <1>2 DEF SDropping
<1>3. CASE a.op # "update"
  <2>1. SRest({}, {}) /\ a.drv = smap[srows[a.id].mount]
    BY <1>1, <1>3 DEF SDropping
  <2>2. SServed(a.id) /\ \A j \in SEnabledRows : SServed(j)
    BY <1>1, <2>1 DEF SRest
  <2>3. \A e \in SDrivers \ {a.drv} : sdrv[e].live => \E j \in SEnabledRows \ {a.id} : smap[srows[j].mount] = e
    BY <2>1 DEF SRest
  <2>4. SRest({a.id}, {a.drv})
    BY <2>1, <2>2, <2>3 DEF SRest
  <2> QED BY <1>1, <2>1, <2>2, <2>4 DEF SServed
<1> QED BY <1>2, <1>3
LEMMA Dropped ==
  ASSUME STyped, SDistinct, NEW i \in SEnabledRows, NEW d \in SDrivers, sdrv[d].id = i, SRest({i}, {d}),
         UNCHANGED srows, sdrv' = [sdrv EXCEPT ![d].live = FALSE],
         smap' = smap \/ smap' = [smap EXCEPT ![srows[i].mount] = 0]
  PROVE  /\ SEnabledRows' = SEnabledRows /\ ~sdrv'[d].live /\ SRest({i}, {})'
         /\ \A j \in SEnabledRows \ {i} : smap'[srows[j].mount] # d
<1>1. SEnabledRows' = SEnabledRows /\ ~sdrv'[d].live
  BY DEF SEnabledRows, STyped
<1>2. \A j \in SEnabledRows \ {i} : srows[j].mount # srows[i].mount /\ srows[j].mount \in SMounts
  BY DEF SDistinct, SEnabledRows, STyped, SRowsOf, SReal
<1>3. \A j \in SEnabledRows \ {i} : smap'[srows[j].mount] = smap[srows[j].mount] /\ SServed(j)
  BY <1>2 DEF STyped, SRest
<1>4. \A j \in SEnabledRows \ {i} : smap'[srows[j].mount] # d /\ SServed(j)'
  <2> TAKE j \in SEnabledRows \ {i}
  <2>1. smap[srows[j].mount] \in SDrivers /\ smap[srows[j].mount] # d
    BY <1>3 DEF SServed
  <2>2. sdrv'[smap[srows[j].mount]] = sdrv[smap[srows[j].mount]]
    BY <2>1 DEF STyped
  <2>3. PICK e : e = smap[srows[j].mount]
    OBVIOUS
  <2>4. smap'[srows'[j].mount] = e /\ sdrv'[e] = sdrv[e] /\ srows'[j] = srows[j]
    BY <1>3, <2>2, <2>3
  <2>5. e \in SDrivers /\ e # d /\ sdrv[e].id = j /\ sdrv[e].row = srows[j] /\ sdrv[e].live = srows[j].ok
    BY <1>3, <2>1, <2>3 DEF SServed
  <2>6. SServed(j)'
    BY <2>4, <2>5 DEF SServed
  <2> QED BY <2>4, <2>5, <2>6
<1>5. \A m \in SMounts : smap'[m] # 0 => \E j \in SEnabledRows : srows[j].mount = m
  BY DEF SRest, STyped
<1>6. \A e \in SDrivers : sdrv'[e].live => \E j \in SEnabledRows \ {i} : smap'[srows[j].mount] = e
  <2> TAKE e \in SDrivers
  <2>1. CASE e = d
    BY <1>1, <2>1
  <2>2. CASE e # d
    <3>1. sdrv'[e] = sdrv[e]
      BY <2>2 DEF STyped
    <3> QED BY <1>3, <2>2, <3>1 DEF SRest
  <2> QED BY <2>1, <2>2
<1> QED BY <1>1, <1>4, <1>5, <1>6 DEF SRest

LEMMA NextCall ==
  ASSUME NEW a \in SCallsOf, NEW x \in {"off", "set", "delete", "next", "init", "save"}
  PROVE  LET b == [a EXCEPT !.pc = x]
         IN  /\ b \in SCallsOf /\ b.pc = x /\ b.op = a.op /\ b.id = a.id /\ b.row = a.row /\ b.old = a.old
             /\ b.drv = a.drv /\ b.todo = a.todo
BY DEF SCallsOf
LEMMA FreshCall ==
  ASSUME NEW a \in SCallsOf, NEW e \in SDrivers
  PROVE  LET b == [a EXCEPT !.pc = "set", !.drv = e]
         IN  /\ b \in SCallsOf /\ b.pc = "set" /\ b.op = a.op /\ b.id = a.id /\ b.row = a.row /\ b.old = a.old
             /\ b.drv = e /\ b.todo = a.todo
BY DEF SCallsOf

LEMMA DropKeeps == ASSUME SInd, NEW p \in SAdmins, Drop(p) PROVE SInd'
<1>1. PICK a, e : a = sadm[p] /\ e = SFresh
  OBVIOUS
<1>2. STyped /\ SHasDriver /\ SDistinct /\ a \in SCallsOf /\ SSound(a) /\ a.pc = "drop" /\ a.drv \in SDrivers
  BY <1>1 DEF SInd, STyped, SHasDriver, Drop, SSound
<1>3. UNCHANGED <<srows, sloaded>> /\ srows' \in [SIds -> SRowsOf] /\ SDistinct' /\ sloaded' \in BOOLEAN
  BY <1>2 DEF Drop, STyped, SDistinct
<1>4. /\ \A d \in SDrivers : sdrv[d].row \in SReal => sdrv'[d].row \in SReal
      /\ sdrv' \in [SDrivers -> SObjects]
  <2>1. sdrv' = sdrv \/ sdrv' = [sdrv EXCEPT ![a.drv].live = FALSE]
    BY <1>1 DEF Drop
  <2>2. PICK x \in SObjects : x = sdrv[a.drv]
    BY <1>2 DEF STyped
  <2>3. [x EXCEPT !.live = FALSE] \in SObjects /\ [x EXCEPT !.live = FALSE].row = x.row
    BY DEF SObjects
  <2>4. sdrv' = sdrv \/ sdrv' = [sdrv EXCEPT ![a.drv] = [x EXCEPT !.live = FALSE]]
    BY <1>2, <2>1, <2>2
  <2> HIDE DEF SObjects
  <2> QED BY <1>2, <2>2, <2>3, <2>4 DEF STyped
<1>5. smap' \in [SMounts -> SDrivers \cup {0}]
  BY <1>1, <1>2 DEF Drop, STyped
<1>6. SWorks \/ SFails
  BY DEF Drop
<1>7. ASSUME SPhase(a), sclean', SWorks
      PROVE  /\ a.id \in SEnabledRows /\ SDropping(a) /\ SList(a) /\ SEnabledRows' = SEnabledRows
             /\ SRest({a.id}, {})' /\ ~sdrv'[a.drv].live /\ sdrv' = [sdrv EXCEPT ![a.drv].live = FALSE]
             /\ \A j \in SEnabledRows \ {a.id} : smap'[srows[j].mount] # a.drv
  <2>1. SDropping(a) /\ SList(a) /\ a.id \in SEnabledRows /\ sdrv[a.drv].id = a.id /\ SRest({a.id}, {a.drv})
    BY <1>2, <1>7, Dropping
  <2>2. sdrv' = [sdrv EXCEPT ![a.drv].live = FALSE]
    BY <1>1, <1>7, Unclean DEF Drop
  <2>3. smap' = smap \/ smap' = [smap EXCEPT ![srows[a.id].mount] = 0]
    <3>1. smap' # smap => a.op = "delete" /\ smap' = [smap EXCEPT ![a.old.mount] = 0]
      BY <1>1 DEF Drop
    <3>2. a.op = "delete" => a.old = srows[a.id]
      BY <2>1 DEF SDropping
    <3> QED BY <3>1, <3>2
  <2> QED BY <1>2, <1>3, <2>1, <2>2, <2>3, Dropped
<1>8. CASE a.op = "disable" /\ SPc(p, "off") /\ UNCHANGED smap
  <2> DEFINE b == [a EXCEPT !.pc = "off"]
  <2>1. b \in SCallsOf /\ b.pc = "off" /\ b.op = a.op /\ b.id = a.id /\ b.row = a.row
    BY <1>2, NextCall
  <2>2. sadm' = [sadm EXCEPT ![p] = b]
    BY <1>1, <1>2, <1>8 DEF SPc, STyped
  <2> HIDE DEF b
  <2>3. SSound(b)
    BY <1>2, <1>8, <2>1 DEF SSound
  <2>4. ASSUME SPhase(a), sclean', SWorks PROVE SPhase(b)'
    <3>1. SDisabling(b)'
      BY <1>3, <1>7, <1>8, <2>1, <2>4 DEF SDropping, SDisabling
    <3> QED BY <1>8, <2>1, <3>1 DEF SPhase, SList
  <2> QED BY <1>1, <1>2, <1>3, <1>4, <1>5, <1>6, <1>8, <2>1, <2>2, <2>3, <2>4, Goes
<1>9. CASE a.op = "update" /\ SPc(p, "set") /\ UNCHANGED smap
  <2> DEFINE b == [a EXCEPT !.pc = "set"]
  <2>1. b \in SCallsOf /\ b.pc = "set" /\ b.op = a.op /\ b.id = a.id /\ b.row = a.row /\ b.drv = a.drv
    BY <1>2, NextCall
  <2>2. sadm' = [sadm EXCEPT ![p] = b]
    BY <1>1, <1>2, <1>9 DEF SPc, STyped
  <2> HIDE DEF b
  <2>3. SSound(b)
    BY <1>2, <1>9, <2>1 DEF SSound
  <2>4. ASSUME SPhase(a), sclean', SWorks PROVE SPhase(b)'
    <3>1. SWaiting(b) = {} /\ SList(b)'
      BY <1>9, <2>1 DEF SWaiting, SList
    <3>2. {b.id} \cup SWaiting(b) = {a.id} /\ b.row = srows[b.id]
      BY <1>7, <1>9, <2>1, <2>4, <3>1 DEF SDropping
    <3>3. SStarting(b)'
      BY <1>3, <1>7, <1>9, <2>1, <2>4, <3>2 DEF SStarting
    <3> QED BY <2>1, <3>1, <3>3 DEF SPhase
  <2> QED BY <1>1, <1>2, <1>3, <1>4, <1>5, <1>6, <1>9, <2>1, <2>2, <2>3, <2>4, Goes
<1>10. CASE /\ a.op = "loadall" /\ SFree # {} /\ sadm' = [sadm EXCEPT ![p].pc = "set", ![p].drv = e] /\ UNCHANGED smap
            /\ SWorks /\ sdrv' = [sdrv EXCEPT ![a.drv].live = FALSE]
  <2>5. e \in SDrivers /\ sdrv[e] = SDead /\ (\A k \in SMounts : smap[k] # e) /\ e # a.drv
    BY <1>1, <1>10, Fresh DEF SFree
  <2> DEFINE b == [a EXCEPT !.pc = "set", !.drv = e]
  <2>1. b \in SCallsOf /\ b.pc = "set" /\ b.op = a.op /\ b.id = a.id /\ b.row = a.row /\ b.drv = e /\ b.todo = a.todo
    BY <1>2, <2>5, FreshCall
  <2>2. sadm' = [sadm EXCEPT ![p] = b]
    BY <1>1, <1>2, <1>10 DEF STyped
  <2> HIDE DEF b
  <2>3. SSound(b)
    BY <1>2, <1>10, <2>1, <2>5 DEF SSound
  <2>4. ASSUME SPhase(a), sclean', SWorks PROVE SPhase(b)'
    <3>1. SWaiting(b) = {} /\ SList(b)'
      BY <1>2, <1>3, <1>7, <1>10, <2>1, <2>4 DEF SWaiting, SList
    <3>2. {b.id} \cup SWaiting(b) = {a.id} /\ b.row = srows[b.id]
      BY <1>7, <1>10, <2>1, <2>4, <3>1 DEF SDropping
    <3>3. ~sdrv'[e].live /\ \A j \in SEnabledRows : smap'[srows[j].mount] # e
      BY <1>2, <1>10, <2>5 DEF SDead, STyped, SEnabledRows, SRowsOf, SReal
    <3>4. SStarting(b)'
      BY <1>3, <1>7, <1>10, <2>1, <2>4, <3>2, <3>3 DEF SStarting
    <3> QED BY <2>1, <3>1, <3>4 DEF SPhase
  <2> QED BY <1>1, <1>2, <1>3, <1>4, <1>5, <1>6, <1>10, <2>1, <2>2, <2>3, <2>4, Goes
<1>11. CASE a.op = "delete" /\ SPc(p, "delete") /\ smap' = [smap EXCEPT ![a.old.mount] = 0]
  <2> DEFINE b == [a EXCEPT !.pc = "delete"]
  <2>1. b \in SCallsOf /\ b.pc = "delete" /\ b.op = a.op /\ b.id = a.id
    BY <1>2, NextCall
  <2>2. sadm' = [sadm EXCEPT ![p] = b]
    BY <1>1, <1>2, <1>11 DEF SPc, STyped
  <2> HIDE DEF b
  <2>3. SSound(b)
    BY <2>1 DEF SSound
  <2>4. ASSUME SPhase(a), sclean', SWorks PROVE SPhase(b)'
    <3>1. a.old = srows[a.id] /\ srows[a.id].mount \in SMounts /\ a.id \in SIds /\ srows[a.id] # SNoRow
      BY <1>2, <1>7, <1>11, <2>4 DEF SDropping, SEnabledRows, STyped, SRowsOf, SReal
    <3>2. smap'[srows[a.id].mount] = 0
      BY <1>2, <1>11, <3>1 DEF STyped
    <3>3. SDeleting(b)'
      BY <1>3, <1>7, <1>11, <2>1, <2>4, <3>1, <3>2 DEF SDeleting
    <3> QED BY <1>11, <2>1, <3>3 DEF SPhase, SList
  <2> QED BY <1>1, <1>2, <1>3, <1>4, <1>5, <1>6, <1>11, <2>1, <2>2, <2>3, <2>4, Goes
<1>12. CASE SFails /\ a.op # "delete" /\ SAfter(p)
  <2> DEFINE b == IF a.op \in {"boot", "loadall"} THEN [a EXCEPT !.pc = "next"] ELSE SIdle
  <2>1. b \in SCallsOf /\ SSound(b) /\ b.pc # "init"
    <3>1. CASE a.op \in {"boot", "loadall"}
      <4>1. b \in SCallsOf /\ b.pc = "next"
        BY <1>2, <3>1, NextCall
      <4> QED BY <4>1 DEF SSound
    <3> QED BY <3>1, IdleCall
  <2>2. sadm' = [sadm EXCEPT ![p] = b]
    BY <1>1, <1>2, <1>12 DEF SAfter, SPc, SEnd, STyped
  <2> HIDE DEF b
  <2> QED BY <1>1, <1>2, <1>3, <1>4, <1>5, <1>6, <1>12, <2>1, <2>2, Goes, Unclean
<1> QED BY <1>1, <1>8, <1>9, <1>10, <1>11, <1>12 DEF Drop

\* A row that is not to be mounted any more.
LEMMA RowEnds ==
  ASSUME STyped, SDistinct, NEW i \in SIds, srows[i] # SNoRow, SRest({i}, {}), UNCHANGED sdrv,
         NEW row \in SRowsOf, row.disabled, srows' = [srows EXCEPT ![i] = row],
         \A m \in SMounts : smap'[m] = IF m = srows[i].mount THEN 0 ELSE smap[m]
  PROVE  SRest({}, {})'
<1>1. SEnabledRows' = SEnabledRows \ {i} /\ \A j \in SEnabledRows \ {i} : srows'[j] = srows[j]
  BY DEF STyped, SEnabledRows
<1>2. \A j \in SEnabledRows \ {i} : srows[j].mount # srows[i].mount /\ srows[j].mount \in SMounts
  BY DEF STyped, SDistinct, SEnabledRows, SRowsOf, SReal
<1>3. \A j \in SEnabledRows \ {i} : smap'[srows[j].mount] = smap[srows[j].mount] /\ SServed(j)
  BY <1>2 DEF SRest
<1>4. \A j \in SEnabledRows' : SServed(j)'
  BY <1>1, <1>3 DEF SServed
<1>5. \A m \in SMounts : smap'[m] # 0 => \E j \in SEnabledRows' : srows'[j].mount = m
  BY <1>1 DEF SRest
<1>6. \A e \in SDrivers : sdrv'[e].live => \E j \in SEnabledRows' : smap'[srows'[j].mount] = e
  BY <1>1, <1>3 DEF SRest
<1> QED BY <1>4, <1>5, <1>6 DEF SRest

LEMMA DisableRowKeeps == ASSUME SInd, NEW p \in SAdmins, DisableRow(p) PROVE SInd'
<1>1. PICK a : a = sadm[p]
  OBVIOUS
<1>2. STyped /\ SHasDriver /\ SDistinct /\ a \in SCallsOf /\ SSound(a) /\ a.pc = "off" /\ a.row \in SReal
  BY <1>1 DEF SInd, STyped, SHasDriver, DisableRow, SSound
<1>3. /\ SSaved(a.id, a.row) \/ SRefused(a.id, a.row)
      /\ UNCHANGED <<sdrv, sloaded>> /\ sloaded \in BOOLEAN /\ sadm' = [sadm EXCEPT ![p] = SIdle]
      /\ smap' \in [SMounts -> SDrivers \cup {0}]
  BY <1>1, <1>2 DEF DisableRow, STyped, SEnd
<1>4. srows' \in [SIds -> SRowsOf] /\ SDistinct' /\ (SWorks \/ SFails)
  BY <1>2, <1>3, RowSaved DEF SRowsOf
<1>5. ASSUME SPhase(a), sclean' PROVE SRest({}, {})' /\ a.op = "disable"
  <2>1. SDisabling(a)
    BY <1>2, <1>5 DEF SPhase
  <2>2. /\ a.id \in SIds /\ srows[a.id] # SNoRow /\ srows[a.id] \in SReal /\ SRest({a.id}, {}) /\ a.op = "disable"
        /\ a.row = [srows[a.id] EXCEPT !.disabled = TRUE, !.ok = FALSE]
    BY <1>2, <2>1 DEF SDisabling, SEnabledRows, STyped, SRowsOf
  <2>3. a.row.disabled /\ a.row.mount = srows[a.id].mount /\ a.row.mount \in SMounts
    BY <2>2 DEF SReal
  <2>4. ~STaken(a.id, a.row)
    BY <1>2, <2>2, <2>3 DEF STaken, SDistinct
  <2>5. srows' = [srows EXCEPT ![a.id] = a.row] /\ smap' = [smap EXCEPT ![a.row.mount] = 0]
    BY <1>1, <1>5, <2>4, Unclean DEF DisableRow, SSaved, SRefused
  <2> QED BY <1>2, <1>3, <2>2, <2>3, <2>5, RowEnds DEF SRowsOf, STyped
<1> QED BY <1>1, <1>2, <1>3, <1>4, <1>5, IdleCall, Goes DEF STyped

LEMMA DeleteRowKeeps == ASSUME SInd, NEW p \in SAdmins, DeleteRow(p) PROVE SInd'
<1>1. PICK a : a = sadm[p]
  OBVIOUS
<1>2. STyped /\ SHasDriver /\ SDistinct /\ a \in SCallsOf /\ a.pc = "delete"
  BY <1>1 DEF SInd, STyped, SHasDriver, DeleteRow
<1>3. /\ UNCHANGED <<smap, sdrv, sloaded>> /\ sloaded \in BOOLEAN /\ sadm' = [sadm EXCEPT ![p] = SIdle]
      /\ srows' = srows \/ srows' = [srows EXCEPT ![a.id] = SNoRow]
      /\ SWorks \/ SFails
  BY <1>1, <1>2 DEF DeleteRow, STyped, SEnd
<1>4. srows' \in [SIds -> SRowsOf] /\ SDistinct'
  BY <1>2, <1>3 DEF STyped, SDistinct, SRowsOf
<1>5. ASSUME SPhase(a), sclean' PROVE SRest({}, {})' /\ a.op = "delete"
  <2>1. SDeleting(a)
    BY <1>2, <1>5 DEF SPhase
  <2>2. a.id \in SIds /\ srows[a.id] # SNoRow /\ SRest({a.id}, {}) /\ a.op = "delete" /\ smap[srows[a.id].mount] = 0
    BY <2>1 DEF SDeleting
  <2>3. srows' = [srows EXCEPT ![a.id] = SNoRow]
    BY <1>1, <1>5, Unclean DEF DeleteRow
  <2>4. SNoRow \in SRowsOf /\ SNoRow.disabled
    BY DEF SRowsOf, SNoRow
  <2> QED BY <1>2, <1>3, <2>2, <2>3, <2>4, RowEnds
<1> QED BY <1>1, <1>2, <1>3, <1>4, <1>5, IdleCall, Goes DEF STyped

LEMMA SetStorageKeeps == ASSUME SInd, NEW p \in SAdmins, SetStorage(p) PROVE SInd'
<1>1. PICK a : a = sadm[p]
  OBVIOUS
<1>2. STyped /\ SHasDriver /\ SDistinct /\ a \in SCallsOf /\ SSound(a) /\ a.pc = "set" /\ a.row \in SReal /\ a.drv \in SDrivers
  BY <1>1 DEF SInd, STyped, SHasDriver, SetStorage, SSound
<1> DEFINE b == [a EXCEPT !.pc = "init"]
<1>3. b \in SCallsOf /\ b.pc = "init" /\ b.op = a.op /\ b.id = a.id /\ b.row = a.row /\ b.drv = a.drv /\ b.todo = a.todo
  BY <1>2, NextCall
<1>4. PICK x \in SObjects : x = sdrv[a.drv]
  BY <1>2 DEF STyped
<1>5. PICK y \in SObjects : y = [x EXCEPT !.id = a.id, !.row = a.row] /\ y.id = a.id /\ y.row = a.row /\ y.live = x.live
  <2> DEFINE z == [x EXCEPT !.id = a.id, !.row = a.row]
  <2>1. a.id \in SIds \cup {0} /\ a.row \in SRowsOf
    BY <1>2 DEF SCallsOf
  <2>2. z \in SObjects
    BY <2>1 DEF SObjects
  <2>3. z.id = a.id /\ z.row = a.row /\ z.live = x.live
    BY DEF SObjects
  <2> HIDE DEF z
  <2>4. PICK y : y = z
    OBVIOUS
  <2> QED BY <2>2, <2>3, <2>4 DEF z
<1>6. /\ sadm' = [sadm EXCEPT ![p] = b] /\ sdrv' = [sdrv EXCEPT ![a.drv] = y]
      /\ UNCHANGED <<srows, smap, sloaded, sclean, sfaults>>
  BY <1>1, <1>2, <1>4, <1>5 DEF SetStorage, SPc, STyped
<1> HIDE DEF b
<1>7. /\ srows' \in [SIds -> SRowsOf] /\ SDistinct' /\ smap' \in [SMounts -> SDrivers \cup {0}]
      /\ sloaded' \in BOOLEAN /\ SWorks
  BY <1>2, <1>6 DEF STyped, SDistinct, SWorks
<1>8. SSound(b)
  BY <1>2, <1>3 DEF SSound
<1>9. sdrv'[a.drv] = y /\ (\A d \in SDrivers \ {a.drv} : sdrv'[d] = sdrv[d]) /\ sdrv' \in [SDrivers -> SObjects]
  BY <1>2, <1>6 DEF STyped
<1>10. ASSUME SPhase(a) PROVE SPhase(b)'
  <2>1. SStarting(a) /\ SList(a)
    BY <1>2, <1>10 DEF SPhase
  <2>2. SEnabledRows' = SEnabledRows /\ SWaiting(b) = SWaiting(a)
    BY <1>3, <1>6 DEF SEnabledRows, SWaiting
  <2>3. /\ a.id \in SEnabledRows /\ a.row = srows[a.id] /\ ~x.live /\ SRest({a.id} \cup SWaiting(a), {})
        /\ \A j \in SEnabledRows \ {a.id} : smap[srows[j].mount] # a.drv
    BY <1>4, <2>1 DEF SStarting
  <2>4. PICK I : I = {a.id} \cup SWaiting(a)
    OBVIOUS
  <2>5. \A j \in SEnabledRows \ I : SServed(j)'
    <3> TAKE j \in SEnabledRows \ I
    <3>1. SServed(j) /\ smap[srows[j].mount] # a.drv
      BY <2>3, <2>4 DEF SRest
    <3>2. PICK d : d = smap[srows[j].mount]
      OBVIOUS
    <3>3. d \in SDrivers \ {a.drv} /\ smap'[srows'[j].mount] = d /\ sdrv'[d] = sdrv[d] /\ srows'[j] = srows[j]
      BY <1>6, <1>9, <3>1, <3>2 DEF SServed
    <3> QED BY <3>1, <3>2, <3>3 DEF SServed
  <2>6. \A d \in SDrivers : sdrv'[d].live => sdrv[d].live
    BY <1>5, <1>9, <2>3
  <2>7. SRest(I, {})'
    BY <1>6, <2>2, <2>3, <2>4, <2>5, <2>6 DEF SRest
  <2>8. {b.id} \cup SWaiting(b) = I
    BY <1>3, <2>2, <2>4
  <2>9. SStarting(b)'
    BY <1>3, <1>5, <1>6, <1>9, <2>2, <2>3, <2>7, <2>8 DEF SStarting
  <2>10. SList(b)'
    BY <1>2, <1>3, <1>6, <2>1, <2>2 DEF SList
  <2> QED BY <1>3, <2>9, <2>10 DEF SPhase
<1>11. ASSUME SPhase(a), ~sloaded => a.op \in {"boot", "loadall"} PROVE ~sloaded' => b.op \in {"boot", "loadall"}
  BY <1>3, <1>6, <1>11
<1>12. \A d \in SDrivers : sdrv[d].row \in SReal => sdrv'[d].row \in SReal
  BY <1>2, <1>5, <1>9
<1>13. sdrv'[b.drv].row \in SReal /\ b.pc # "idle"
  BY <1>2, <1>3, <1>5, <1>9
<1> QED BY <1>1, <1>2, <1>3, <1>6, <1>7, <1>8, <1>9, <1>10, <1>11, <1>12, <1>13, Goes

LEMMA InitKeeps == ASSUME SInd, NEW p \in SAdmins, NEW ok \in BOOLEAN, InitDriver(p, ok) PROVE SInd'
<1>1. PICK a : a = sadm[p]
  OBVIOUS
<1>2. STyped /\ SHasDriver /\ SDistinct /\ a \in SCallsOf /\ SSound(a) /\ a.pc = "init" /\ a.row \in SReal /\ a.drv \in SDrivers
  BY <1>1 DEF SInd, STyped, SHasDriver, InitDriver, SSound
<1> DEFINE b == [a EXCEPT !.pc = "save"]
<1>3. b \in SCallsOf /\ b.pc = "save" /\ b.op = a.op /\ b.id = a.id /\ b.row = a.row /\ b.drv = a.drv /\ b.todo = a.todo
  BY <1>2, NextCall
<1>4. PICK x \in SObjects : x = sdrv[a.drv]
  BY <1>2 DEF STyped
<1>14. x.row \in SReal
  BY <1>1, <1>2, <1>4 DEF SHasDriver
<1>5. PICK y \in SObjects : y = [x EXCEPT !.live = ok, !.row.ok = ok] /\ y.id = x.id /\ y.row = [x.row EXCEPT !.ok = ok] /\ y.live = ok
  <2> DEFINE z == [x EXCEPT !.live = ok, !.row.ok = ok]
  <2>1. [x.row EXCEPT !.ok = ok] \in SReal
    BY <1>14 DEF SReal
  <2>3. z.id = x.id /\ z.row = [x.row EXCEPT !.ok = ok] /\ z.live = ok
    BY DEF SObjects
  <2>2. z \in SObjects
    BY <2>1 DEF SObjects, SRowsOf
  <2> HIDE DEF z
  <2>4. PICK w : w = z
    OBVIOUS
  <2> QED BY <2>2, <2>3, <2>4 DEF z
<1>6. /\ sadm' = [sadm EXCEPT ![p] = b] /\ sdrv' = [sdrv EXCEPT ![a.drv] = y]
      /\ smap' = [smap EXCEPT ![x.row.mount] = a.drv]
      /\ UNCHANGED <<srows, sloaded, sclean, sfaults>>
  <2>1. /\ SPc(p, "save") /\ sdrv' = [sdrv EXCEPT ![a.drv].live = ok, ![a.drv].row.ok = ok]
        /\ smap' = [smap EXCEPT ![x.row.mount] = a.drv]
        /\ UNCHANGED <<srows, sloaded, sclean, sfaults>>
    BY <1>1, <1>4 DEF InitDriver
  <2>2. sdrv' = [sdrv EXCEPT ![a.drv] = [x EXCEPT !.live = ok, !.row.ok = ok]]
    BY <1>2, <1>4, <2>1 DEF STyped
  <2>3. sadm' = [sadm EXCEPT ![p] = b]
    BY <1>1, <1>2, <2>1 DEF SPc, STyped
  <2> QED BY <1>5, <2>1, <2>2, <2>3
<1> HIDE DEF b
<1>7. /\ srows' \in [SIds -> SRowsOf] /\ SDistinct' /\ smap' \in [SMounts -> SDrivers \cup {0}]
      /\ sloaded' \in BOOLEAN /\ SWorks
  BY <1>2, <1>6 DEF STyped, SDistinct, SWorks
<1>8. SSound(b)
  BY <1>2, <1>3 DEF SSound
<1>9. sdrv'[a.drv] = y /\ (\A d \in SDrivers \ {a.drv} : sdrv'[d] = sdrv[d]) /\ sdrv' \in [SDrivers -> SObjects]
  BY <1>2, <1>6 DEF STyped
<1>10. ASSUME SPhase(a) PROVE SPhase(b)'
  <2>1. SStarting(a) /\ SList(a)
    BY <1>2, <1>10 DEF SPhase
  <2>2. SEnabledRows' = SEnabledRows /\ SWaiting(b) = SWaiting(a)
    BY <1>3, <1>6 DEF SEnabledRows, SWaiting
  <2>3. /\ a.id \in SEnabledRows /\ x.row = srows[a.id] /\ x.id = a.id /\ SRest({a.id} \cup SWaiting(a), {})
        /\ \A j \in SEnabledRows \ {a.id} : smap[srows[j].mount] # a.drv
    BY <1>2, <1>4, <2>1 DEF SStarting
  <2>4. PICK I : I = {a.id} \cup SWaiting(a)
    OBVIOUS
  <2>11. \A j \in SEnabledRows \ I : smap'[srows[j].mount] = smap[srows[j].mount]
    <3> TAKE j \in SEnabledRows \ I
    <3>1. srows[j].mount # x.row.mount /\ srows[j].mount \in SMounts
      BY <1>2, <2>3, <2>4 DEF SDistinct, SEnabledRows, STyped, SRowsOf, SReal
    <3> QED BY <1>2, <1>6, <3>1 DEF STyped
  <2>5. \A j \in SEnabledRows \ I : SServed(j)'
    <3> TAKE j \in SEnabledRows \ I
    <3>1. SServed(j) /\ smap[srows[j].mount] # a.drv
      BY <2>3, <2>4 DEF SRest
    <3>2. PICK d : d = smap[srows[j].mount]
      OBVIOUS
    <3>3. d \in SDrivers \ {a.drv} /\ smap'[srows'[j].mount] = d /\ sdrv'[d] = sdrv[d] /\ srows'[j] = srows[j]
      BY <1>6, <1>9, <2>11, <3>1, <3>2 DEF SServed
    <3> QED BY <3>1, <3>2, <3>3 DEF SServed
  <2>6. \A m \in SMounts : smap'[m] # 0 => \E j \in SEnabledRows : srows[j].mount = m
    <3> TAKE m \in SMounts
    <3>1. CASE m = x.row.mount
      BY <2>3, <3>1
    <3>2. CASE m # x.row.mount
      BY <1>2, <1>6, <2>3, <3>2 DEF STyped, SRest
    <3> QED BY <3>1, <3>2
  <2>12. \A d \in SDrivers \ {a.drv} : sdrv'[d].live => \E j \in SEnabledRows \ I : smap'[srows[j].mount] = d
    BY <1>9, <2>3, <2>4, <2>11 DEF SRest
  <2>7. SRest(I, {a.drv})'
    BY <1>6, <2>2, <2>5, <2>6, <2>12 DEF SRest
  <2>8. {b.id} \cup SWaiting(b) = I
    BY <1>3, <2>2, <2>4
  <2>13. smap'[srows[a.id].mount] = a.drv
    BY <1>2, <1>6, <1>14, <2>3 DEF STyped, SReal
  <2>9. SSaving(b)'
    BY <1>3, <1>5, <1>6, <1>9, <2>2, <2>3, <2>7, <2>8, <2>13 DEF SSaving
  <2>10. SList(b)'
    BY <1>2, <1>3, <1>6, <2>1, <2>2 DEF SList
  <2> QED BY <1>3, <2>9, <2>10 DEF SPhase
<1>11. ASSUME SPhase(a), ~sloaded => a.op \in {"boot", "loadall"} PROVE ~sloaded' => b.op \in {"boot", "loadall"}
  BY <1>3, <1>6, <1>11
<1>12. \A d \in SDrivers : sdrv[d].row \in SReal => sdrv'[d].row \in SReal
  <2>1. y.row \in SReal
    BY <1>5, <1>14 DEF SReal
  <2> QED BY <1>9, <2>1
<1>13. b.pc # "idle" /\ b.pc # "init"
  BY <1>3
<1> QED BY <1>1, <1>2, <1>3, <1>6, <1>7, <1>8, <1>9, <1>10, <1>11, <1>12, <1>13, Goes

LEMMA SaveKeeps == ASSUME SInd, NEW p \in SAdmins, saveDriverStorage(p) PROVE SInd'
<1>1. PICK a, x : a = sadm[p] /\ x = sdrv[sadm[p].drv]
  OBVIOUS
<1>2. STyped /\ SHasDriver /\ SDistinct /\ a \in SCallsOf /\ SSound(a) /\ a.pc = "save" /\ a.drv \in SDrivers /\ x \in SObjects
  BY <1>1 DEF SInd, STyped, SHasDriver, saveDriverStorage, SSound
<1>3. /\ SSaved(x.id, x.row) \/ SRefused(x.id, x.row)
      /\ UNCHANGED <<smap, sdrv, sloaded>> /\ sloaded \in BOOLEAN
  BY <1>1, <1>2 DEF saveDriverStorage, STyped
<1>4. srows' \in [SIds -> SRowsOf] /\ SDistinct' /\ (SWorks \/ SFails)
  BY <1>2, <1>3, RowSaved DEF SObjects
<1> DEFINE b == IF a.op \in {"boot", "loadall"} THEN [a EXCEPT !.pc = "next"] ELSE SIdle
<1>5. b \in SCallsOf /\ SSound(b) /\ b.pc # "init"
  <2>1. CASE a.op \in {"boot", "loadall"}
    <3>1. b \in SCallsOf /\ b.pc = "next"
      BY <1>2, <2>1, NextCall
    <3> QED BY <3>1 DEF SSound
  <2> QED BY <2>1, IdleCall
<1>6. a.op \in {"boot", "loadall"} => b.pc = "next" /\ b.op = a.op /\ b.id = a.id /\ b.todo = a.todo
  BY <1>2, NextCall
<1>7. a.op \notin {"boot", "loadall"} => b.pc = "idle" /\ b.op = "none"
  BY IdleCall
<1>8. sadm' = [sadm EXCEPT ![p] = b]
  BY <1>1, <1>2 DEF saveDriverStorage, SAfter, SPc, SEnd, STyped
<1> HIDE DEF b
<1>9. ASSUME SPhase(a), sclean' PROVE SRest(SWaiting(a), {})' /\ SList(b)' /\ (b.pc = "next" => SWaiting(b) = SWaiting(a))
  <2>1. SSaving(a) /\ SList(a)
    BY <1>2, <1>9 DEF SPhase
  <2>2. /\ a.id \in SIds /\ srows[a.id] \in SReal /\ srows[a.id] # SNoRow /\ ~srows[a.id].disabled /\ x.id = a.id
        /\ x.row = [srows[a.id] EXCEPT !.ok = x.live]
        /\ SRest({a.id} \cup SWaiting(a), {a.drv}) /\ smap[srows[a.id].mount] = a.drv
    BY <1>1, <1>2, <2>1 DEF SSaving, SEnabledRows, STyped, SRowsOf
  <2>3. ~x.row.disabled /\ x.row.mount = srows[a.id].mount /\ x.row.ok = x.live /\ x.row \in SReal
    BY <1>2, <2>2 DEF SReal, SObjects
  <2>4. ~STaken(x.id, x.row)
    BY <1>2, <2>2, <2>3 DEF STaken, SDistinct
  <2>5. srows' = [srows EXCEPT ![a.id] = x.row]
    BY <1>3, <1>9, <2>2, <2>4, Unclean DEF SSaved, SRefused
  <2>6. /\ SEnabledRows' = SEnabledRows /\ a.id \in SEnabledRows /\ srows'[a.id] = x.row
        /\ \A j \in SEnabledRows \ {a.id} : srows'[j] = srows[j]
    BY <1>2, <2>2, <2>3, <2>5, RealRows DEF STyped, SEnabledRows
  <2>7. a.id \notin SWaiting(a)
    BY <1>2, <2>1 DEF SList, SWaiting
  <2>8. PICK W : W = SWaiting(a)
    OBVIOUS
  <2>9. \A j \in SEnabledRows' \ W : SServed(j)'
    <3>1. SServed(a.id)'
      BY <1>1, <1>2, <1>3, <2>2, <2>3, <2>6 DEF SServed
    <3>2. \A j \in SEnabledRows \ (W \cup {a.id}) : SServed(j)'
      BY <1>3, <2>2, <2>6, <2>8 DEF SRest, SServed
    <3> QED BY <2>6, <3>1, <3>2
  <2>10. \A m \in SMounts : smap'[m] # 0 => \E j \in SEnabledRows' : srows'[j].mount = m
    <3>1. \A j \in SEnabledRows : srows'[j].mount = srows[j].mount
      BY <2>3, <2>6
    <3> QED BY <1>3, <2>2, <2>6, <3>1 DEF SRest
  <2>11. \A d \in SDrivers : sdrv'[d].live => \E j \in SEnabledRows' \ W : smap'[srows'[j].mount] = d
    <3>1. smap'[srows'[a.id].mount] = a.drv /\ a.id \in SEnabledRows \ W
      BY <1>3, <2>2, <2>3, <2>6, <2>7, <2>8
    <3>2. \A d \in SDrivers \ {a.drv} : sdrv'[d].live => \E j \in SEnabledRows \ (W \cup {a.id}) : smap'[srows'[j].mount] = d
      BY <1>3, <2>2, <2>6, <2>8 DEF SRest
    <3> QED BY <2>6, <3>1, <3>2
  <2>12. SRest(W, {})'
    BY <2>9, <2>10, <2>11 DEF SRest
  <2>13. SList(b)'
    BY <1>2, <1>6, <1>7, <2>1, <2>6, IdleCall DEF SList
  <2>14. b.pc = "next" => SWaiting(b) = SWaiting(a)
    BY <1>6, <1>7 DEF SWaiting
  <2> QED BY <2>8, <2>12, <2>13, <2>14
<1>10. ASSUME SPhase(a), sclean', ~sloaded => a.op \in {"boot", "loadall"}
       PROVE  /\ b.pc # "idle" => SPhase(b)'
              /\ b.pc = "idle" => SRest({}, {})'
              /\ ~sloaded' => b.pc # "idle" /\ b.op \in {"boot", "loadall"}
  <2>1. SRest(SWaiting(a), {})' /\ SList(b)' /\ (b.pc = "next" => SWaiting(b) = SWaiting(a))
    BY <1>9, <1>10
  <2>2. CASE a.op \in {"boot", "loadall"}
    BY <1>3, <1>6, <2>1, <2>2 DEF SPhase
  <2>3. CASE a.op \notin {"boot", "loadall"}
    <3>1. SWaiting(a) = {}
      BY <2>3 DEF SWaiting
    <3> QED BY <1>3, <1>7, <1>10, <2>1, <2>3, <3>1
  <2> QED BY <2>2, <2>3
<1> QED BY <1>1, <1>2, <1>3, <1>4, <1>5, <1>8, <1>10, Goes DEF STyped

LEMMA LoadNextKeeps == ASSUME SInd, NEW p \in SAdmins, LoadNext(p) PROVE SInd'
<1>1. PICK a, f : a = sadm[p] /\ f = SFresh
  OBVIOUS
<1>2. STyped /\ SHasDriver /\ SDistinct /\ a \in SCallsOf /\ a.pc = "next"
  BY <1>1 DEF SInd, STyped, SHasDriver, LoadNext
<1>3. PICK e \in a.todo : LET c == [a EXCEPT !.todo = @ \ {e}, !.id = e.id, !.row = e.row]
                              d == smap[e.row.mount]
                          IN  /\ c.op = "boot" => SFree # {}
                              /\ sadm' = [sadm EXCEPT ![p] = IF c.op = "boot" THEN [c EXCEPT !.pc = "set", !.drv = f]
                                                              ELSE IF d = 0 THEN c ELSE [c EXCEPT !.pc = "drop", !.drv = d]]
  BY <1>1 DEF LoadNext
<1>4. UNCHANGED <<srows, smap, sdrv, sloaded, sclean, sfaults>>
  BY DEF LoadNext
<1>5. PICK T, d : T = a.todo \ {e} /\ d = smap[e.row.mount]
  OBVIOUS
<1>6. e.id \in SIds /\ e.row \in SReal /\ T \in SUBSET [id : SIds, row : SReal] /\ d \in SDrivers \cup {0}
  BY <1>2, <1>5 DEF SCallsOf, STyped, SReal
<1>7. PICK c \in SCallsOf : /\ c = [a EXCEPT !.todo = T, !.id = e.id, !.row = e.row]
                            /\ c.pc = "next" /\ c.op = a.op /\ c.todo = T /\ c.id = e.id /\ c.row = e.row
  <2> DEFINE z == [a EXCEPT !.todo = T, !.id = e.id, !.row = e.row]
  <2>1. e.row \in SRowsOf
    BY <1>6 DEF SRowsOf
  <2>2. z \in SCallsOf
    BY <1>2, <1>6, <2>1 DEF SCallsOf
  <2>3. z.pc = "next" /\ z.op = a.op /\ z.todo = T /\ z.id = e.id /\ z.row = e.row
    BY <1>2 DEF SCallsOf
  <2> HIDE DEF z
  <2>4. PICK w : w = z
    OBVIOUS
  <2> QED BY <2>2, <2>3, <2>4 DEF z
<1>8. c = [a EXCEPT !.todo = @ \ {e}, !.id = e.id, !.row = e.row]
  BY <1>2, <1>5, <1>7 DEF SCallsOf
<1>15. /\ a.op = "boot" => SFree # {}
       /\ sadm' = [sadm EXCEPT ![p] = IF a.op = "boot" THEN [c EXCEPT !.pc = "set", !.drv = f]
                                       ELSE IF d = 0 THEN c ELSE [c EXCEPT !.pc = "drop", !.drv = d]]
  <2>1. /\ c.op = "boot" => SFree # {}
        /\ sadm' = [sadm EXCEPT ![p] = IF c.op = "boot" THEN [c EXCEPT !.pc = "set", !.drv = f]
                                        ELSE IF d = 0 THEN c ELSE [c EXCEPT !.pc = "drop", !.drv = d]]
    BY <1>3, <1>5, <1>8
  <2>2. c.op = a.op
    BY <1>7
  <2> QED BY <2>1, <2>2
<1>9. /\ srows' \in [SIds -> SRowsOf] /\ SDistinct' /\ smap' \in [SMounts -> SDrivers \cup {0}]
      /\ sdrv' \in [SDrivers -> SObjects] /\ sloaded' \in BOOLEAN /\ SWorks
  BY <1>2, <1>4 DEF STyped, SDistinct, SWorks
<1>10. ASSUME SPhase(a)
       PROVE  /\ SRest(SWaiting(a), {}) /\ a.op \in {"boot", "loadall"} /\ e.id \in SEnabledRows /\ srows[e.id] = e.row
              /\ \A g \in T : g.id \in SEnabledRows /\ srows[g.id] = g.row /\ g.id # e.id
  <2>1. SList(a) /\ SRest(SWaiting(a), {}) /\ a.op \in {"boot", "loadall"}
    BY <1>2, <1>10 DEF SPhase
  <2>2. \A g \in a.todo : g.id \in SEnabledRows /\ srows[g.id] = g.row
    BY <2>1 DEF SList
  <2>3. \A g \in T : g.id # e.id
    <3> SUFFICES ASSUME NEW g \in T, g.id = e.id PROVE FALSE
      OBVIOUS
    <3>1. g \in [id : SIds, row : SReal] /\ e \in [id : SIds, row : SReal] /\ g # e /\ g.row = e.row
      BY <1>2, <1>5, <1>6, <2>2 DEF SCallsOf
    <3> QED BY <3>1
  <2> QED BY <1>5, <2>1, <2>2, <2>3
<1>11. SEnabledRows' = SEnabledRows /\ \A d1 \in SDrivers : sdrv[d1].row \in SReal => sdrv'[d1].row \in SReal
  BY <1>4 DEF SEnabledRows
<1>12. CASE a.op = "boot"
  <2>5. f \in SDrivers /\ sdrv[f] = SDead /\ (\A k \in SMounts : smap[k] # f)
    BY <1>1, <1>12, <1>15, Fresh DEF SFree
  <2> DEFINE b == [c EXCEPT !.pc = "set", !.drv = f]
  <2>1. b \in SCallsOf /\ b.pc = "set" /\ b.op = "boot" /\ b.id = e.id /\ b.row = e.row /\ b.drv = f /\ b.todo = T
    <3>1. b \in SCallsOf /\ b.pc = "set" /\ b.op = c.op /\ b.id = c.id /\ b.row = c.row /\ b.drv = f /\ b.todo = c.todo
      BY <2>5, FreshCall
    <3> HIDE DEF b
    <3> QED BY <1>7, <1>12, <3>1
  <2>2. sadm' = [sadm EXCEPT ![p] = b]
    BY <1>12, <1>15
  <2> HIDE DEF b
  <2>3. SSound(b)
    BY <1>6, <2>1, <2>5 DEF SSound
  <2>4. ASSUME SPhase(a) PROVE SPhase(b)'
    <3>1. SWaiting(a) = {e.id} \cup SWaiting(b)
      BY <1>5, <1>12, <2>1 DEF SWaiting
    <3>2. SRest({b.id} \cup SWaiting(b), {})'
      BY <1>4, <1>10, <2>1, <2>4, <3>1, SameRest
    <3>3. SList(b)'
      BY <1>4, <1>10, <1>11, <2>1, <2>4 DEF SList
    <3>4. ~sdrv'[f].live /\ \A j \in SEnabledRows : smap'[srows[j].mount] # f
      BY <1>2, <1>4, <2>5 DEF SDead, STyped, SEnabledRows, SRowsOf, SReal
    <3>5. SStarting(b)'
      BY <1>4, <1>10, <1>11, <2>1, <2>4, <3>2, <3>4 DEF SStarting
    <3> QED BY <2>1, <3>3, <3>5 DEF SPhase
  <2>6. b.pc # "idle" /\ b.pc # "init"
    BY <2>1
  <2> QED BY <1>1, <1>2, <1>4, <1>9, <1>11, <1>12, <2>1, <2>2, <2>3, <2>4, <2>6, Goes
<1>13. CASE a.op # "boot" /\ d = 0
  <2>1. sadm' = [sadm EXCEPT ![p] = c]
    BY <1>13, <1>15
  <2>2. SSound(c)
    BY <1>7 DEF SSound
  <2>3. ASSUME SPhase(a) PROVE SPhase(c)' /\ c.op = "loadall"
    <3>1. SWaiting(c) = {} /\ SWaiting(a) = {} /\ c.op = "loadall"
      BY <1>7, <1>10, <1>13, <2>3 DEF SWaiting
    <3>2. SRest(SWaiting(c), {})'
      BY <1>4, <1>10, <2>3, <3>1, SameRest
    <3>3. SList(c)'
      BY <1>4, <1>7, <1>10, <1>11, <2>3 DEF SList
    <3> QED BY <1>7, <3>1, <3>2, <3>3 DEF SPhase
  <2> QED BY <1>1, <1>2, <1>4, <1>7, <1>9, <1>11, <2>1, <2>2, <2>3, Goes
<1>14. CASE a.op # "boot" /\ d # 0
  <2> DEFINE b == [c EXCEPT !.pc = "drop", !.drv = d]
  <2>1. b \in SCallsOf /\ b.pc = "drop" /\ b.op = a.op /\ b.id = e.id /\ b.row = e.row /\ b.drv = d /\ b.todo = T
    BY <1>6, <1>7 DEF SCallsOf
  <2>2. sadm' = [sadm EXCEPT ![p] = b]
    BY <1>14, <1>15
  <2> HIDE DEF b
  <2>3. SSound(b)
    BY <1>6, <1>14, <2>1 DEF SSound
  <2>4. ASSUME SPhase(a) PROVE SPhase(b)' /\ b.op = "loadall"
    <3>1. SWaiting(a) = {} /\ b.op = "loadall"
      BY <1>10, <1>14, <2>1, <2>4 DEF SWaiting
    <3>2. SRest({}, {})'
      BY <1>4, <1>10, <2>4, <3>1, SameRest
    <3>3. SList(b)'
      BY <1>4, <1>10, <1>11, <2>1, <2>4 DEF SList
    <3>4. SDropping(b)'
      BY <1>4, <1>5, <1>10, <1>11, <2>1, <2>4, <3>1, <3>2 DEF SDropping
    <3> QED BY <2>1, <3>1, <3>3, <3>4 DEF SPhase
  <2> QED BY <1>1, <1>2, <1>4, <1>9, <1>11, <2>1, <2>2, <2>3, <2>4, Goes
<1> QED BY <1>12, <1>13, <1>14

LEMMA SignalKeeps == ASSUME SInd, NEW p \in SAdmins, SendStoragesLoadedSignal(p) PROVE SInd'
<1>1. PICK a : a = sadm[p]
  OBVIOUS
<1>2. STyped /\ SHasDriver /\ SDistinct /\ a.pc = "next" /\ a.todo = {}
  BY <1>1 DEF SInd, SendStoragesLoadedSignal
<1>3. sadm' = [sadm EXCEPT ![p] = SIdle] /\ sloaded' = TRUE /\ UNCHANGED <<srows, smap, sdrv, sclean, sfaults>>
  BY DEF SendStoragesLoadedSignal, SEnd
<1>4. srows' \in [SIds -> SRowsOf] /\ SDistinct' /\ smap' \in [SMounts -> SDrivers \cup {0}]
      /\ sdrv' \in [SDrivers -> SObjects] /\ SWorks
  BY <1>2, <1>3 DEF STyped, SDistinct, SWorks
<1>5. ASSUME SPhase(a) PROVE SRest({}, {})'
  <2>1. SRest(SWaiting(a), {}) /\ SWaiting(a) = {}
    BY <1>2, <1>5 DEF SPhase, SWaiting
  <2> QED BY <1>3, <2>1, SameRest
<1> QED BY <1>1, <1>2, <1>3, <1>4, <1>5, IdleCall, Goes

-----------------------------------------------------------------------------
(* The process starts. *)

LEMMA BootKeeps == ASSUME SInd, NEW p \in SAdmins, LoadStorages(p) PROVE SInd'
<1>1. PICK T : T = SToLoad
  OBVIOUS
<1> DEFINE b == [SIdle EXCEPT !.pc = "next", !.op = "boot", !.todo = T]
<1>2. /\ smap' = [m \in SMounts |-> 0] /\ sdrv' = [d \in SDrivers |-> SDead] /\ UNCHANGED srows
      /\ sadm' = [q \in SAdmins |-> IF q = p THEN b ELSE SIdle] /\ sloaded' = FALSE /\ sclean' = TRUE
  BY <1>1 DEF LoadStorages
<1>3. STyped /\ SDistinct /\ T \in SUBSET [id : SIds, row : SReal]
  BY <1>1 DEF SInd, STyped, SToLoad, SEnabledRows, SRowsOf
<1>4. b \in SCallsOf /\ b.pc = "next" /\ b.op = "boot" /\ b.todo = T
  BY <1>3, ListCall
<1> HIDE DEF b
<1>5. SDead \in SObjects /\ ~SDead.live
  BY DEF SDead, SObjects, SRowsOf
<1>6. SSound(b)
  BY <1>4 DEF SSound
<1>7. STyped' /\ SHasDriver' /\ SDistinct'
  <2>1. smap' \in [SMounts -> SDrivers \cup {0}] /\ sdrv' \in [SDrivers -> SObjects] /\ sadm' \in [SAdmins -> SCallsOf]
    BY <1>2, <1>4, <1>5, IdleCall
  <2>2. \A q \in SAdmins : SSound(sadm'[q]) /\ sadm'[q].pc # "init"
    BY <1>2, <1>4, <1>6, IdleCall
  <2> QED BY <1>2, <1>3, <2>1, <2>2 DEF STyped, SHasDriver, SDistinct
<1>8. SEnabledRows' = SEnabledRows /\ SWaiting(b) = SEnabledRows
  <2>1. SEnabledRows' = SEnabledRows
    BY <1>2 DEF SEnabledRows
  <2>2. SWaiting(b) = {e.id : e \in SToLoad}
    BY <1>1, <1>4 DEF SWaiting
  <2>3. \A i \in SEnabledRows : i \in {e.id : e \in SToLoad}
    <3> TAKE i \in SEnabledRows
    <3>1. PICK e \in SToLoad : e = [id |-> i, row |-> srows[i]]
      BY DEF SToLoad
    <3> QED BY <3>1
  <2>4. \A e \in SToLoad : e.id \in SEnabledRows
    BY DEF SToLoad
  <2> HIDE DEF SToLoad
  <2> QED BY <2>1, <2>2, <2>3, <2>4
<1>9. SRest(SWaiting(b), {})'
  BY <1>2, <1>5, <1>8 DEF SRest
<1>10. SList(b)'
  BY <1>1, <1>2, <1>4, <1>8 DEF SList, SToLoad
<1>11. SPhase(b)'
  BY <1>4, <1>9, <1>10 DEF SPhase
<1>12. /\ sadm'[p] = b /\ \A q \in SAdmins \ {p} : sadm'[q].pc = "idle"
  BY <1>2, IdleCall
<1>13. SOrderly'
  BY <1>4, <1>11, <1>12 DEF SOrderly, SAllIdle
<1> QED BY <1>7, <1>13 DEF SInd

LEMMA InitIsOrderly == SInitial => SInd
<1> SUFFICES ASSUME SInitial PROVE SInd
  OBVIOUS
<1>1. SDead \in SObjects /\ ~SDead.live /\ SNoRow \in SRowsOf
  BY DEF SDead, SObjects, SRowsOf
<1>2. STyped /\ SHasDriver
  BY <1>1, IdleCall DEF SInitial, STyped, SHasDriver
<1>3. SEnabledRows = {} /\ SDistinct
  BY DEF SInitial, SEnabledRows, SDistinct
<1>4. SRest({}, {})
  BY <1>1, <1>3 DEF SInitial, SRest
<1>5. SOrderly
  BY <1>4, IdleCall DEF SInitial, SOrderly
<1> QED BY <1>2, <1>3, <1>5 DEF SInd

LEMMA StorageStutters == SInd /\ UNCHANGED storageVars => SInd'
<1> SUFFICES ASSUME SInd, UNCHANGED storageVars PROVE SInd'
  OBVIOUS
<1>1. UNCHANGED <<srows, smap, sdrv, sadm, sloaded, sclean>>
  BY DEF storageVars
<1>2. STyped' /\ SHasDriver' /\ SDistinct'
  BY <1>1 DEF SInd, STyped, SHasDriver, SDistinct
<1>3. SOrderly'
  <2>1. ASSUME NEW p \in SAdmins, SPhase(sadm[p]) PROVE SPhase(sadm[p])'
    <3>1. PICK a : a = sadm[p]
      OBVIOUS
    <3>2. SPhase(a)'
      BY <1>1, <2>1, <3>1, SamePhase
    <3> QED BY <1>1, <3>1, <3>2
  <2>2. SAllIdle' = SAllIdle /\ (SRest({}, {}) => SRest({}, {})')
    BY <1>1, SameRest DEF SAllIdle
  <2> QED BY <1>1, <2>1, <2>2 DEF SInd, SOrderly
<1> QED BY <1>2, <1>3 DEF SInd

LEMMA StorageSteps == SInd /\ [SNext]_storageVars => SInd'
<1> SUFFICES ASSUME SInd, [SNext]_storageVars PROVE SInd'
  OBVIOUS
<1>1. CASE LoadStorages(SMain)
  BY <1>1, BootKeeps, SAssumption
<1>2. ASSUME NEW p \in SAdmins, SCall(p) PROVE SInd'
  BY <1>2, CreateKeeps, UpdateKeeps, EnableKeeps, DisableKeeps, DeleteKeeps, LoadAllKeeps DEF SCall
<1>3. ASSUME NEW p \in SAdmins, SStep(p) PROVE SInd'
  <2>1. CASE EnableRow(p) \/ UpdateRow(p) \/ Drop(p) \/ DisableRow(p) \/ DeleteRow(p)
    BY <2>1, EnableRowKeeps, UpdateRowKeeps, DropKeeps, DisableRowKeeps, DeleteRowKeeps
  <2>2. CASE SetStorage(p) \/ (\E ok \in BOOLEAN : InitDriver(p, ok)) \/ saveDriverStorage(p)
    BY <2>2, SetStorageKeeps, InitKeeps, SaveKeeps
  <2>3. CASE LoadNext(p) \/ SendStoragesLoadedSignal(p)
    BY <2>3, LoadNextKeeps, SignalKeeps
  <2> QED BY <1>3, <2>1, <2>2, <2>3 DEF SStep
<1>4. CASE UNCHANGED storageVars
  BY <1>4, StorageStutters
<1> QED BY <1>1, <1>2, <1>3, <1>4 DEF SNext

LEMMA OrderlyMatches == SInd => SMountsMatch
<1> SUFFICES ASSUME SInd, sclean, SAllIdle PROVE SMountsMatch
  BY DEF SMountsMatch
<1>1. SRest({}, {}) /\ sloaded
  BY StartsAlone
<1>2. \A i \in SEnabledRows : SServed(i) /\ srows[i].mount \in SMounts
  BY <1>1 DEF SInd, STyped, SRest, SEnabledRows, SRowsOf, SReal
<1>3. SMounted = {srows[i].mount : i \in SEnabledRows}
  <2>1. \A m \in SMounted : m \in {srows[i].mount : i \in SEnabledRows}
    BY <1>1 DEF SRest, SMounted
  <2>2. \A i \in SEnabledRows : srows[i].mount \in SMounted
    BY <1>2, SAssumption DEF SServed, SMounted
  <2> QED BY <2>1, <2>2
<1>4. \A d \in SDrivers : sdrv[d].live => \E m \in SMounted : smap[m] = d
  BY <1>1, <1>2, SAssumption DEF SRest, SMounted
<1>5. \A i \in SEnabledRows : LET d == sdrv[smap[srows[i].mount]] IN d.id = i /\ d.row = srows[i] /\ d.live = d.row.ok
  BY <1>2 DEF SServed
<1> QED BY <1>1, <1>3, <1>4, <1>5 DEF SMountsMatch

(* The rows of the database and the map of the mounted storages agree whenever  *)
(* no call is under way and none failed, overlapped another or was left half    *)
(* done, for any number of storages, mount paths, drivers and administrators    *)
(* (op/storage.go).                                                             *)
THEOREM StoragesMatchRows == SSpec => []SMountsMatch
BY InitIsOrderly, StorageSteps, OrderlyMatches, PTL DEF SSpec

-----------------------------------------------------------------------------
(* Handlers that change files: paths, element by element                       *)

LEMMA PrefixMeans ==
  ASSUME NEW S, NEW p \in Seq(S), NEW q \in Seq(S)
  PROVE  IsPrefix(p, q) <=> Len(p) <= Len(q) /\ \A i \in 1..Len(p) : p[i] = q[i]
<1>1. Len(p) \in Nat /\ Len(q) \in Nat
  OBVIOUS
<1>2. CASE Len(p) <= Len(q)
  <2> DEFINE u == SubSeq(p, 1, Len(p))
             v == SubSeq(q, 1, Len(p))
  <2>1. u \in Seq(S) /\ Len(u) = Len(p) /\ \A i \in 1..Len(p) : u[i] = p[i]
    BY <1>1
  <2>2. v \in Seq(S) /\ Len(v) = Len(p) /\ \A i \in 1..Len(p) : v[i] = q[i]
    BY <1>1, <1>2
  <2>3. IsPrefix(p, q) <=> u = v
    BY <1>2 DEF IsPrefix
  <2> HIDE DEF u, v
  <2>4. u = v <=> \A i \in 1..Len(p) : u[i] = v[i]
    BY <2>1, <2>2
  <2> QED BY <1>2, <2>1, <2>2, <2>3, <2>4
<1>3. CASE ~(Len(p) <= Len(q))
  BY <1>3 DEF IsPrefix
<1> QED BY <1>2, <1>3

LEMMA PrefixTrans ==
  ASSUME NEW S, NEW p \in Seq(S), NEW q \in Seq(S), NEW r \in Seq(S), IsPrefix(p, q), IsPrefix(q, r)
  PROVE  IsPrefix(p, r)
<1>1. Len(p) <= Len(q) /\ \A i \in 1..Len(p) : p[i] = q[i]
  BY PrefixMeans
<1>2. Len(q) <= Len(r) /\ \A i \in 1..Len(q) : q[i] = r[i]
  BY PrefixMeans
<1>3. Len(p) \in Nat /\ Len(q) \in Nat /\ Len(r) \in Nat
  OBVIOUS
<1>4. Len(p) <= Len(r) /\ \A i \in 1..Len(p) : p[i] = r[i]
  BY <1>1, <1>2, <1>3
<1> QED BY <1>4, PrefixMeans

\* Of two prefixes of a path the shorter one is a prefix of the other.
LEMMA PrefixesNest ==
  ASSUME NEW S, NEW p \in Seq(S), NEW q \in Seq(S), NEW r \in Seq(S),
         IsPrefix(p, r), IsPrefix(q, r), Len(p) <= Len(q)
  PROVE  IsPrefix(p, q)
<1>1. Len(p) <= Len(r) /\ \A i \in 1..Len(p) : p[i] = r[i]
  BY PrefixMeans
<1>2. Len(q) <= Len(r) /\ \A i \in 1..Len(q) : q[i] = r[i]
  BY PrefixMeans
<1>3. Len(p) \in Nat /\ Len(q) \in Nat /\ Len(r) \in Nat
  OBVIOUS
<1>4. \A i \in 1..Len(p) : p[i] = q[i]
  BY <1>1, <1>2, <1>3
<1> QED BY <1>4, PrefixMeans

LEMMA PrefixLong ==
  ASSUME NEW S, NEW p \in Seq(S), NEW q \in Seq(S), IsPrefix(p, q)
  PROVE  /\ Len(p) \in Nat /\ Len(q) \in Nat /\ Len(p) <= Len(q)
         /\ Len(p) = Len(q) => p = q
         /\ q = <<>> => p = <<>>
<1>1. Len(p) <= Len(q) /\ \A i \in 1..Len(p) : p[i] = q[i]
  BY PrefixMeans
<1>2. Len(p) \in Nat /\ Len(q) \in Nat
  OBVIOUS
<1>3. Len(p) = Len(q) => p = q
  BY <1>1
<1>4. q = <<>> => p = <<>>
  BY <1>1, <1>2
<1> QED BY <1>1, <1>2, <1>3, <1>4

LEMMA PrefixSelf ==
  ASSUME NEW S, NEW p \in Seq(S)
  PROVE  IsPrefix(p, p) /\ IsPrefix(<<>>, p)
<1>1. <<>> \in Seq(S) /\ Len(<<>>) = 0 /\ Len(p) \in Nat
  OBVIOUS
<1>2. IsPrefix(p, p)
  BY <1>1, PrefixMeans
<1>3. IsPrefix(<<>>, p)
  <2> DEFINE z == <<>>
  <2>1. z \in Seq(S) /\ Len(z) <= Len(p) /\ \A i \in 1..Len(z) : z[i] = p[i]
    BY <1>1
  <2> HIDE DEF z
  <2>2. IsPrefix(z, p)
    BY <2>1, PrefixMeans
  <2> QED BY <2>2 DEF z
<1> QED BY <1>2, <1>3

\* A path above another one is above the directory that holds it.
LEMMA FrontOf ==
  ASSUME NEW S, NEW p \in Seq(S), p # <<>>
  PROVE  /\ Front(p) \in Seq(S) /\ Last(p) \in S /\ p = Append(Front(p), Last(p))
         /\ Len(Front(p)) = Len(p) - 1 /\ IsStrictPrefix(Front(p), p)
         /\ \A q \in Seq(S) : IsStrictPrefix(q, p) => IsPrefix(q, Front(p))
<1> DEFINE f == Front(p)
<1>1. Len(p) \in Nat \ {0} /\ p[Len(p)] \in S
  OBVIOUS
<1>2. f \in Seq(S) /\ Len(f) = Len(p) - 1 /\ \A i \in 1..(Len(p) - 1) : f[i] = p[i]
  <2>1. PICK k \in Nat : k = Len(p) - 1
    BY <1>1
  <2>2. SubSeq(p, 1, k) \in Seq(S) /\ Len(SubSeq(p, 1, k)) = k /\ \A i \in 1..k : SubSeq(p, 1, k)[i] = p[i]
    BY <1>1, <2>1
  <2> QED BY <2>1, <2>2 DEF Front
<1>3. p = Append(f, p[Len(p)])
  <2> DEFINE a == Append(f, p[Len(p)])
  <2> HIDE DEF f
  <2>1. a \in Seq(S) /\ Len(a) = Len(p) /\ \A i \in 1..Len(p) : a[i] = p[i]
    BY <1>1, <1>2
  <2> QED BY <2>1
<1> HIDE DEF f
<1>4. IsPrefix(f, p)
  BY <1>1, <1>2, PrefixMeans
<1>5. f # p
  BY <1>1, <1>2
<1>6. ASSUME NEW q \in Seq(S), IsStrictPrefix(q, p) PROVE IsPrefix(q, f)
  <2>1. IsPrefix(q, p) /\ q # p
    BY <1>6 DEF IsStrictPrefix
  <2>2. Len(q) \in Nat /\ Len(q) <= Len(p) /\ Len(q) # Len(p)
    BY <2>1, PrefixLong
  <2>3. Len(q) <= Len(f)
    BY <1>1, <1>2, <2>2
  <2> QED BY <1>2, <1>4, <2>1, <2>3, PrefixesNest
<1>7. IsStrictPrefix(f, p)
  BY <1>4, <1>5 DEF IsStrictPrefix
<1>8. f = Front(p)
  BY DEF f
<1> QED BY <1>1, <1>2, <1>3, <1>6, <1>7, <1>8 DEF Last

\* Cutting the last name shortens a path by one.
LEMMA FrontShorter ==
  ASSUME NEW S, NEW g \in Seq(S), g # <<>>
  PROVE  Len(Front(g)) = Len(g) - 1 /\ Len(g) \in Nat
BY FrontOf

LEMMA PathOfName ==
  ASSUME NEW S, NEW s \in Seq(S), NEW n \in S
  PROVE  /\ Append(s, n) \in Seq(S) /\ Len(Append(s, n)) = Len(s) + 1 /\ Append(s, n) # <<>>
         /\ Front(Append(s, n)) = s /\ Last(Append(s, n)) = n
<1>1. Append(s, n) \in Seq(S) /\ Len(Append(s, n)) = Len(s) + 1 /\ Append(s, n)[Len(s) + 1] = n /\ Len(s) \in Nat
  OBVIOUS
<1>2. SubSeq(Append(s, n), 1, Len(s)) = s
  OBVIOUS
<1> QED BY <1>1, <1>2 DEF Front, Last

LEMMA JoinedPath ==
  ASSUME NEW S, NEW a \in Seq(S), NEW b \in Seq(S)
  PROVE  /\ a \o b \in Seq(S) /\ Len(a \o b) = Len(a) + Len(b)
         /\ \A i \in 1..Len(a) : (a \o b)[i] = a[i]
         /\ \A i \in 1..Len(b) : (a \o b)[Len(a) + i] = b[i]
<1>1. Len(a) \in Nat /\ Len(b) \in Nat
  OBVIOUS
<1>2. a \o b \in Seq(S) /\ Len(a \o b) = Len(a) + Len(b)
  OBVIOUS
<1>3. ASSUME NEW i \in 1..Len(a) PROVE (a \o b)[i] = a[i]
  BY <1>1
<1>4. ASSUME NEW i \in 1..Len(b) PROVE (a \o b)[Len(a) + i] = b[i]
  BY <1>1
<1> QED BY <1>2, <1>3, <1>4

\* What is below src is below dst once it is moved, and goes back.
LEMMA ImageOf ==
  ASSUME NEW S, NEW q \in Seq(S), NEW src \in Seq(S), NEW dst \in Seq(S), IsPrefix(src, q)
  PROVE  /\ EImage(q, src, dst) \in Seq(S) /\ IsPrefix(dst, EImage(q, src, dst))
         /\ Len(EImage(q, src, dst)) = Len(dst) + (Len(q) - Len(src))
         /\ EImage(EImage(q, src, dst), dst, src) = q
         /\ \A i \in 1..Len(dst) : EImage(q, src, dst)[i] = dst[i]
         /\ \A i \in 1..(Len(q) - Len(src)) : EImage(q, src, dst)[Len(dst) + i] = q[Len(src) + i]
<1> DEFINE t == SubSeq(q, Len(src) + 1, Len(q))
           u == dst \o t
           b == SubSeq(u, Len(dst) + 1, Len(u))
           v == src \o b
<1>1. Len(src) \in Nat /\ Len(q) \in Nat /\ Len(dst) \in Nat /\ Len(src) <= Len(q) /\ \A i \in 1..Len(src) : src[i] = q[i]
  BY PrefixMeans
<1>2. t \in Seq(S) /\ Len(t) = Len(q) - Len(src) /\ \A i \in 1..Len(t) : t[i] = q[Len(src) + i]
  BY <1>1
<1> HIDE DEF t
<1>3. u \in Seq(S) /\ Len(u) = Len(dst) + Len(t) /\ (\A i \in 1..Len(dst) : u[i] = dst[i]) /\ \A i \in 1..Len(t) : u[Len(dst) + i] = t[i]
  <2>1. t \in Seq(S)
    BY <1>2
  <2>2. /\ dst \o t \in Seq(S) /\ Len(dst \o t) = Len(dst) + Len(t)
        /\ \A i \in 1..Len(dst) : (dst \o t)[i] = dst[i]
        /\ \A i \in 1..Len(t) : (dst \o t)[Len(dst) + i] = t[i]
    BY <2>1, JoinedPath
  <2> QED BY <2>2
<1> HIDE DEF u
<1>4. b \in Seq(S) /\ Len(b) = Len(t) /\ \A i \in 1..Len(t) : b[i] = t[i]
  BY <1>1, <1>2, <1>3
<1> HIDE DEF b
<1>5. v \in Seq(S) /\ Len(v) = Len(src) + Len(b) /\ (\A i \in 1..Len(src) : v[i] = src[i]) /\ \A i \in 1..Len(b) : v[Len(src) + i] = b[i]
  <2>1. b \in Seq(S)
    BY <1>4
  <2>2. /\ src \o b \in Seq(S) /\ Len(src \o b) = Len(src) + Len(b)
        /\ \A i \in 1..Len(src) : (src \o b)[i] = src[i]
        /\ \A i \in 1..Len(b) : (src \o b)[Len(src) + i] = b[i]
    BY <2>1, JoinedPath
  <2> QED BY <2>2
<1> HIDE DEF v
<1>10. Len(v) = Len(q)
  BY <1>1, <1>2, <1>4, <1>5
<1>6. \A i \in 1..Len(q) : v[i] = q[i]
  <2> TAKE i \in 1..Len(q)
  <2>1. CASE i <= Len(src)
    BY <1>1, <1>5, <2>1
  <2>2. CASE i > Len(src)
    <3> DEFINE k == i - Len(src)
    <3>1. i \in Int /\ Len(src) \in Int
      BY <1>1
    <3>2. k \in 1..Len(t) /\ i = Len(src) + k
      BY <1>1, <1>2, <2>2, <3>1
    <3>3. v[i] = b[k] /\ b[k] = t[k] /\ t[k] = q[Len(src) + k]
      BY <1>2, <1>4, <1>5, <3>2
    <3> QED BY <3>2, <3>3
  <2> QED BY <1>1, <2>1, <2>2
<1>7. v = q
  BY <1>5, <1>6, <1>10
<1>8. IsPrefix(dst, u)
  <2>1. u \in Seq(S) /\ Len(dst) <= Len(u) /\ \A i \in 1..Len(dst) : dst[i] = u[i]
    BY <1>1, <1>2, <1>3
  <2> QED BY <2>1, PrefixMeans
<1>9. EImage(q, src, dst) = u /\ EImage(u, dst, src) = v
  BY DEF EImage, t, u, b, v
<1> QED BY <1>1, <1>2, <1>3, <1>7, <1>8, <1>9

-----------------------------------------------------------------------------
(* Trees: what each change of the storage leaves, and where it changes something *)

ESamePlace(t, p) == (p \in DOMAIN t <=> p \in DOMAIN etree) /\ (p \in DOMAIN t => t[p] = etree[p])

LEMMA AncestorsOf ==
  ASSUME NEW p \in EPaths
  PROVE  /\ IsFiniteSet(EAncestors(p)) /\ EAncestors(p) \subseteq EPaths \ {<<>>}
         /\ \A q \in EAncestors(p) : IsPrefix(q, p) /\ Len(q) <= Len(p) /\ Len(q) \in Nat /\ (Front(q) # <<>> => Front(q) \in EAncestors(p))
         /\ p # <<>> => p \in EAncestors(p)
         /\ \A q \in EPaths \ {<<>>} : IsPrefix(q, p) => q \in EAncestors(p)
<1>1. Len(p) \in Nat /\ p \in Seq(ENames)
  BY DEF EPaths
<1>2. ASSUME NEW k \in 1..Len(p)
      PROVE  /\ SubSeq(p, 1, k) \in EPaths /\ Len(SubSeq(p, 1, k)) = k /\ SubSeq(p, 1, k) # <<>>
             /\ IsPrefix(SubSeq(p, 1, k), p)
  <2> DEFINE u == SubSeq(p, 1, k)
  <2>1. u \in Seq(ENames) /\ Len(u) = k /\ \A i \in 1..k : u[i] = p[i]
    BY <1>1
  <2> HIDE DEF u
  <2>2. IsPrefix(u, p)
    BY <1>1, <2>1, PrefixMeans
  <2>3. u # <<>> /\ u \in EPaths
    BY <2>1 DEF EPaths
  <2> QED BY <2>1, <2>2, <2>3 DEF u
<1>3. IsFiniteSet(EAncestors(p))
  <2> DEFINE f == [k \in 1..Len(p) |-> SubSeq(p, 1, k)]
  <2>1. f \in Surjection(1..Len(p), EAncestors(p))
    BY DEF Surjection, EAncestors
  <2>2. IsFiniteSet(1..Len(p))
    BY <1>1, FS_Interval
  <2> QED BY <2>1, <2>2, FS_Surjection
<1>4. ASSUME NEW q \in EPaths \ {<<>>}, IsPrefix(q, p) PROVE q \in EAncestors(p)
  <2>1. q \in Seq(ENames) /\ Len(q) \in 1..Len(p)
    BY <1>1, <1>4, PrefixLong DEF EPaths
  <2> DEFINE u == SubSeq(p, 1, Len(q))
  <2>2. u \in Seq(ENames) /\ IsPrefix(u, p) /\ Len(u) = Len(q)
    BY <1>2, <2>1 DEF EPaths
  <2> HIDE DEF u
  <2>3. IsPrefix(q, u)
    BY <1>1, <1>4, <2>1, <2>2, PrefixesNest
  <2>4. q = u
    BY <2>1, <2>2, <2>3, PrefixLong
  <2> QED BY <2>1, <2>4 DEF EAncestors, u
<1>5. ASSUME NEW q \in EAncestors(p)
      PROVE  /\ q \in EPaths \ {<<>>} /\ IsPrefix(q, p) /\ Len(q) <= Len(p) /\ Len(q) \in Nat
             /\ Front(q) # <<>> => Front(q) \in EAncestors(p)
  <2>4. PICK k \in 1..Len(p) : q = SubSeq(p, 1, k)
    BY DEF EAncestors
  <2>5. q \in EPaths /\ q # <<>> /\ IsPrefix(q, p) /\ Len(q) = k
    BY <1>2, <2>4
  <2>1. q \in EPaths \ {<<>>} /\ IsPrefix(q, p) /\ Len(q) <= Len(p) /\ Len(q) \in Nat
    BY <1>1, <2>4, <2>5
  <2>2. Front(q) \in EPaths /\ IsPrefix(Front(q), q)
    BY <2>1, FrontOf DEF EPaths, IsStrictPrefix
  <2>3. IsPrefix(Front(q), p)
    BY <1>1, <2>1, <2>2, PrefixTrans DEF EPaths
  <2> QED BY <1>4, <2>1, <2>2, <2>3
<1>6. p # <<>> => p \in EAncestors(p)
  BY <1>1, <1>4, PrefixSelf DEF EPaths
<1> QED BY <1>3, <1>4, <1>5, <1>6

LEMMA UnderOf ==
  ASSUME ETreeOk(etree), NEW p \in EPaths
  PROVE  /\ EUnder(p) \subseteq DOMAIN etree /\ IsFiniteSet(EUnder(p))
         /\ \A q \in DOMAIN etree : q \in EUnder(p) <=> IsPrefix(p, q)
         /\ p \in DOMAIN etree => p \in EUnder(p)
<1>1. EUnder(p) \subseteq DOMAIN etree /\ \A q \in DOMAIN etree : q \in EUnder(p) <=> IsPrefix(p, q)
  BY DEF EUnder
<1>2. IsFiniteSet(EUnder(p))
  BY <1>1, FS_Subset DEF ETreeOk
<1>3. IsPrefix(p, p)
  BY PrefixSelf DEF EPaths
<1> QED BY <1>1, <1>2, <1>3

LEMMA WithDirsOk ==
  ASSUME ETreeOk(etree), NEW p \in EPaths, EDirsOn(p)
  PROVE  /\ ETreeOk(EWithDirs(p)) /\ DOMAIN EWithDirs(p) = DOMAIN etree \cup EAncestors(p)
         /\ \A q \in DOMAIN etree : EWithDirs(p)[q] = etree[q]
         /\ \A q \in EAncestors(p) : EWithDirs(p)[q] = "dir"
         /\ \A q : ESamePlace(EWithDirs(p), q) \/ q \in EAncestors(p)
<1> DEFINE t == EWithDirs(p)
<1>1. t = [q \in DOMAIN etree \cup EAncestors(p) |-> IF q \in DOMAIN etree THEN etree[q] ELSE "dir"]
  BY DEF EWithDirs
<1> HIDE DEF t
<1>2. DOMAIN t = DOMAIN etree \cup EAncestors(p) /\ \A q \in DOMAIN t : t[q] = IF q \in DOMAIN etree THEN etree[q] ELSE "dir"
  BY <1>1
<1>3. \A q \in EAncestors(p) : t[q] = "dir"
  BY <1>2 DEF EDirsOn
<1>4. t = [q \in DOMAIN t |-> t[q]]
  BY <1>1
<1>5. IsFiniteSet(DOMAIN t) /\ DOMAIN t \subseteq EPaths \ {<<>>}
  <2>1. IsFiniteSet(EAncestors(p)) /\ EAncestors(p) \subseteq EPaths \ {<<>>}
    BY AncestorsOf
  <2>2. IsFiniteSet(DOMAIN etree) /\ DOMAIN etree \subseteq EPaths \ {<<>>}
    BY DEF ETreeOk
  <2>3. IsFiniteSet(DOMAIN etree \cup EAncestors(p))
    BY <2>1, <2>2, FS_Union
  <2> QED BY <1>2, <2>1, <2>2, <2>3
<1>6. ASSUME NEW q \in DOMAIN t, Front(q) # <<>> PROVE Front(q) \in DOMAIN t /\ t[Front(q)] = "dir"
  <2>1. CASE q \in DOMAIN etree
    BY <1>2, <1>6, <2>1 DEF ETreeOk
  <2>2. CASE q \in EAncestors(p)
    BY <1>2, <1>3, <1>6, <2>2, AncestorsOf
  <2> QED BY <1>2, <2>1, <2>2
<1>7. ETreeOk(t)
  BY <1>4, <1>5, <1>6 DEF ETreeOk
<1>8. \A q : ESamePlace(t, q) \/ q \in EAncestors(p)
  BY <1>2 DEF ESamePlace
<1>9. \A q \in DOMAIN etree : t[q] = etree[q]
  BY <1>2
<1> QED BY <1>2, <1>3, <1>7, <1>8, <1>9 DEF t

LEMMA RemovedOk ==
  ASSUME ETreeOk(etree), NEW p \in EPaths
  PROVE  /\ ETreeOk(ERemoved(p)) /\ DOMAIN ERemoved(p) = {q \in DOMAIN etree : ~IsPrefix(p, q)}
         /\ \A q \in DOMAIN ERemoved(p) : ERemoved(p)[q] = etree[q]
         /\ \A q : ESamePlace(ERemoved(p), q) \/ (q \in DOMAIN etree /\ IsPrefix(p, q))
<1> DEFINE t == ERemoved(p)
<1>1. t = [q \in DOMAIN etree \ EUnder(p) |-> etree[q]]
  BY DEF ERemoved, Restrict
<1> HIDE DEF t
<1>2. DOMAIN t = {q \in DOMAIN etree : ~IsPrefix(p, q)} /\ \A q \in DOMAIN t : t[q] = etree[q]
  BY <1>1 DEF EUnder
<1>3. t = [q \in DOMAIN t |-> t[q]]
  BY <1>1
<1>4. IsFiniteSet(DOMAIN t) /\ DOMAIN t \subseteq EPaths \ {<<>>}
  BY <1>2, FS_Subset DEF ETreeOk
<1>5. ASSUME NEW q \in DOMAIN t, Front(q) # <<>> PROVE Front(q) \in DOMAIN t /\ t[Front(q)] = "dir"
  <2>1. q \in DOMAIN etree /\ ~IsPrefix(p, q) /\ Front(q) \in DOMAIN etree /\ etree[Front(q)] = "dir" /\ q \in EPaths \ {<<>>}
    BY <1>2, <1>5 DEF ETreeOk
  <2>2. IsPrefix(Front(q), q) /\ Front(q) \in EPaths
    BY <2>1, FrontOf DEF EPaths, IsStrictPrefix
  <2>3. ~IsPrefix(p, Front(q))
    BY <2>1, <2>2, PrefixTrans DEF EPaths
  <2> QED BY <1>2, <2>1, <2>3
<1>6. ETreeOk(t)
  BY <1>3, <1>4, <1>5 DEF ETreeOk
<1>7. \A q : ESamePlace(t, q) \/ (q \in DOMAIN etree /\ IsPrefix(p, q))
  BY <1>2 DEF ESamePlace
<1> QED BY <1>2, <1>6, <1>7 DEF t

LEMMA ImageFront ==
  ASSUME NEW S, NEW q \in Seq(S), NEW src \in Seq(S), NEW dst \in Seq(S), IsStrictPrefix(src, q)
  PROVE  /\ Front(q) \in Seq(S) /\ IsPrefix(src, Front(q)) /\ Len(EImage(q, src, dst)) > Len(dst)
         /\ EImage(Front(q), src, dst) = Front(EImage(q, src, dst))
<1> DEFINE f == Front(q)
           y == EImage(q, src, dst)
           g == EImage(f, src, dst)
<1>1. IsPrefix(src, q) /\ src # q
  BY DEF IsStrictPrefix
<1>2. Len(src) \in Nat /\ Len(q) \in Nat /\ Len(dst) \in Nat /\ Len(src) < Len(q)
  BY <1>1, PrefixLong
<1>3. q # <<>>
  BY <1>2
<1>4. f \in Seq(S) /\ IsPrefix(src, f) /\ Len(f) = Len(q) - 1 /\ IsPrefix(f, q)
  BY <1>3, FrontOf DEF IsStrictPrefix
<1>5. \A i \in 1..Len(f) : f[i] = q[i]
  BY <1>4, PrefixMeans
<1>6. /\ y \in Seq(S) /\ Len(y) = Len(dst) + (Len(q) - Len(src))
      /\ \A i \in 1..Len(dst) : y[i] = dst[i]
      /\ \A i \in 1..(Len(q) - Len(src)) : y[Len(dst) + i] = q[Len(src) + i]
  <2>1. EImage(q, src, dst) \in Seq(S) /\ Len(EImage(q, src, dst)) = Len(dst) + (Len(q) - Len(src))
    BY <1>1, ImageOf
  <2>2. \A i \in 1..Len(dst) : EImage(q, src, dst)[i] = dst[i]
    BY <1>1, ImageOf
  <2>3. \A i \in 1..(Len(q) - Len(src)) : EImage(q, src, dst)[Len(dst) + i] = q[Len(src) + i]
    BY <1>1, ImageOf
  <2> QED BY <2>1, <2>2, <2>3
<1>7. /\ g \in Seq(S) /\ Len(g) = Len(dst) + (Len(f) - Len(src))
      /\ \A i \in 1..Len(dst) : g[i] = dst[i]
      /\ \A i \in 1..(Len(f) - Len(src)) : g[Len(dst) + i] = f[Len(src) + i]
  <2>1. ASSUME NEW r \in Seq(S), IsPrefix(src, r)
        PROVE  EImage(r, src, dst) \in Seq(S) /\ Len(EImage(r, src, dst)) = Len(dst) + (Len(r) - Len(src))
    BY <2>1, ImageOf
  <2>2. ASSUME NEW r \in Seq(S), IsPrefix(src, r)
        PROVE  \A i \in 1..Len(dst) : EImage(r, src, dst)[i] = dst[i]
    BY <2>2, ImageOf
  <2>3. ASSUME NEW r \in Seq(S), IsPrefix(src, r)
        PROVE  \A i \in 1..(Len(r) - Len(src)) : EImage(r, src, dst)[Len(dst) + i] = r[Len(src) + i]
    BY <2>3, ImageOf
  <2> HIDE DEF f
  <2> QED BY <1>4, <2>1, <2>2, <2>3
<1> HIDE DEF f, y, g
<1>8. Len(y) > Len(dst) /\ Len(g) = Len(y) - 1 /\ y # <<>> /\ Len(g) \in Nat
  BY <1>2, <1>4, <1>6, <1>7
<1>9. Front(y) \in Seq(S) /\ Len(Front(y)) = Len(g) /\ IsPrefix(Front(y), y)
  BY <1>6, <1>8, FrontOf DEF IsStrictPrefix
<1>10. \A i \in 1..Len(g) : Front(y)[i] = y[i]
  BY <1>6, <1>9, PrefixMeans
<1>11. ASSUME NEW i \in 1..Len(g) PROVE g[i] = y[i]
  <2>1. CASE i <= Len(dst)
    BY <1>2, <1>6, <1>7, <2>1
  <2>2. CASE i > Len(dst)
    <3> DEFINE k == i - Len(dst)
    <3>1. k \in 1..(Len(f) - Len(src)) /\ i = Len(dst) + k
      BY <1>2, <1>4, <1>7, <1>8, <2>2
    <3> HIDE DEF k
    <3>2. g[i] = f[Len(src) + k]
      BY <1>7, <3>1
    <3>3. y[i] = q[Len(src) + k]
      <4>1. k \in 1..(Len(q) - Len(src))
        BY <1>2, <1>4, <3>1
      <4> QED BY <1>6, <3>1, <4>1
    <3>4. Len(src) + k \in 1..Len(f)
      BY <1>2, <1>4, <3>1
    <3> QED BY <1>5, <3>2, <3>3, <3>4
  <2> QED BY <1>2, <1>8, <2>1, <2>2
<1>12. g = Front(y)
  <2>1. ASSUME NEW a \in Seq(S), NEW b \in Seq(S), Len(a) = Len(b), \A i \in 1..Len(b) : a[i] = b[i] PROVE a = b
    BY <2>1
  <2>2. g \in Seq(S) /\ Front(y) \in Seq(S) /\ Len(g) = Len(Front(y)) /\ \A i \in 1..Len(Front(y)) : g[i] = Front(y)[i]
    BY <1>7, <1>9, <1>10, <1>11
  <2> QED BY <2>1, <2>2
<1>13. f \in Seq(S) /\ IsPrefix(src, f) /\ Len(y) > Len(dst) /\ g = Front(y)
  BY <1>4, <1>8, <1>12
<1> QED BY <1>13 DEF f, y, g

\* The tree after what is at and below src was put at dst, the paths new.
EPlacedSo(t, kept, new, src, dst) ==
  /\ t = [q \in kept \cup new |-> t[q]]
  /\ DOMAIN t = kept \cup new /\ IsFiniteSet(kept \cup new)
  /\ \A q \in EUnder(src) : EImage(q, src, dst) \in new
  /\ \A q \in new : /\ EImage(q, dst, src) \in EUnder(src) /\ q = EImage(EImage(q, dst, src), src, dst)
                    /\ IsPrefix(dst, q) /\ Len(q) = Len(dst) + (Len(EImage(q, dst, src)) - Len(src))
                    /\ t[q] = etree[EImage(q, dst, src)]
  /\ \A q \in kept \ new : t[q] = etree[q]

LEMMA PlacedIs ==
  ASSUME ETreeOk(etree), NEW src \in EPaths, NEW dst \in EPaths, NEW kept \in SUBSET DOMAIN etree, NEW t, t = EPlaced(kept, src, dst)
  PROVE  \E new \in SUBSET EPaths : EPlacedSo(t, kept, new, src, dst)
<1> DEFINE new == {EImage(q, src, dst) : q \in EUnder(src)}
<1>1. t = [q \in kept \cup new |-> IF q \in new THEN etree[EImage(q, dst, src)] ELSE etree[q]]
  BY DEF EPlaced
<1>2. EUnder(src) \subseteq EPaths /\ IsFiniteSet(EUnder(src)) /\ \A q \in EUnder(src) : IsPrefix(src, q)
  BY UnderOf DEF ETreeOk
<1>3. ASSUME NEW q \in EUnder(src)
      PROVE  /\ EImage(q, src, dst) \in EPaths /\ IsPrefix(dst, EImage(q, src, dst))
             /\ EImage(EImage(q, src, dst), dst, src) = q /\ Len(EImage(q, src, dst)) = Len(dst) + (Len(q) - Len(src))
  BY <1>2, ImageOf DEF EPaths
<1>4. \A q \in EUnder(src) : EImage(q, src, dst) \in new
  OBVIOUS
<1>5. IsFiniteSet(new)
  <2> DEFINE f == [q \in EUnder(src) |-> EImage(q, src, dst)]
  <2>1. f \in Surjection(EUnder(src), new)
    BY DEF Surjection
  <2> QED BY <1>2, <2>1, FS_Surjection
<1>6. new \in SUBSET EPaths
  BY <1>3
<1>7. ASSUME NEW q \in new
      PROVE  /\ EImage(q, dst, src) \in EUnder(src) /\ q = EImage(EImage(q, dst, src), src, dst)
             /\ IsPrefix(dst, q) /\ Len(q) = Len(dst) + (Len(EImage(q, dst, src)) - Len(src))
  <2>1. PICK x \in EUnder(src) : q = EImage(x, src, dst)
    OBVIOUS
  <2>2. EImage(q, dst, src) = x /\ IsPrefix(dst, q) /\ Len(q) = Len(dst) + (Len(x) - Len(src))
    BY <1>3, <2>1
  <2> QED BY <2>1, <2>2
<1> HIDE DEF new
<1>8. \A q \in new : t[q] = etree[EImage(q, dst, src)]
  BY <1>1
<1>9. \A q \in kept \ new : t[q] = etree[q]
  BY <1>1
<1>10. DOMAIN t = kept \cup new /\ t = [q \in kept \cup new |-> t[q]]
  BY <1>1
<1>11. IsFiniteSet(kept \cup new)
  <2>1. IsFiniteSet(kept)
    BY FS_Subset DEF ETreeOk
  <2> QED BY <1>5, <2>1, FS_Union
<1> QED BY <1>4, <1>6, <1>7, <1>8, <1>9, <1>10, <1>11 DEF EPlacedSo

LEMMA PutOk ==
  ASSUME ETreeOk(etree), NEW p \in EPaths \ {<<>>}, EDirsOn(Front(p)), NEW t,
         t = LET made == EWithDirs(Front(p))
                 kept == {q \in DOMAIN made : ~IsPrefix(p, q)}
             IN  [q \in kept \cup {p} |-> IF q = p THEN "new" ELSE made[q]]
  PROVE  /\ ETreeOk(t) /\ p \in DOMAIN t
         /\ \A q : ESamePlace(t, q) \/ IsPrefix(p, q) \/ (q \in EAncestors(Front(p)))
         /\ \A q \in DOMAIN etree : ~IsPrefix(p, q) => q \in DOMAIN t /\ t[q] = etree[q]
         /\ \A q \in EAncestors(Front(p)) : q \in DOMAIN t /\ t[q] = "dir"
<1> DEFINE made == EWithDirs(Front(p))
           kept == {q \in DOMAIN made : ~IsPrefix(p, q)}
<1>1. Front(p) \in EPaths /\ Len(Front(p)) = Len(p) - 1 /\ Len(p) \in Nat /\ IsPrefix(Front(p), p) /\ p \in Seq(ENames)
  BY FrontOf DEF EPaths, IsStrictPrefix
<1>2. /\ ETreeOk(made) /\ DOMAIN made = DOMAIN etree \cup EAncestors(Front(p))
      /\ \A q \in DOMAIN etree : made[q] = etree[q]
      /\ \A q \in EAncestors(Front(p)) : made[q] = "dir"
  BY <1>1, WithDirsOk
<1> HIDE DEF made
<1>3. t = [q \in kept \cup {p} |-> IF q = p THEN "new" ELSE made[q]]
  BY DEF made
<1>4. \A q \in EAncestors(Front(p)) : ~IsPrefix(p, q) /\ q # p
  <2> TAKE q \in EAncestors(Front(p))
  <2>1. q \in EPaths /\ Len(q) <= Len(Front(p)) /\ Len(q) \in Nat
    BY <1>1, AncestorsOf
  <2> QED BY <1>1, <2>1, PrefixLong DEF EPaths
<1>5. IsPrefix(p, p)
  BY <1>1, PrefixSelf
<1>6. DOMAIN t = kept \cup {p} /\ t = [q \in DOMAIN t |-> t[q]] /\ p \notin kept /\ \A q \in kept : t[q] = made[q]
  BY <1>3, <1>5
<1>7. IsFiniteSet(DOMAIN t) /\ DOMAIN t \subseteq EPaths \ {<<>>}
  <2>1. IsFiniteSet(kept) /\ kept \subseteq EPaths \ {<<>>}
    BY <1>2, FS_Subset DEF ETreeOk
  <2> QED BY <1>6, <2>1, FS_AddElement
<1>8. ASSUME NEW q \in DOMAIN t, Front(q) # <<>> PROVE Front(q) \in DOMAIN t /\ t[Front(q)] = "dir"
  <2>1. CASE q = p
    <3>1. Front(p) \in EAncestors(Front(p))
      BY <1>1, <1>8, <2>1, AncestorsOf
    <3> QED BY <1>2, <1>4, <1>6, <2>1, <3>1
  <2>2. CASE q \in kept
    <3>1. q \in DOMAIN made /\ ~IsPrefix(p, q) /\ Front(q) \in DOMAIN made /\ made[Front(q)] = "dir" /\ q \in EPaths \ {<<>>}
      BY <1>2, <1>8, <2>2 DEF ETreeOk
    <3>2. IsPrefix(Front(q), q) /\ Front(q) \in EPaths
      BY <3>1, FrontOf DEF EPaths, IsStrictPrefix
    <3>3. ~IsPrefix(p, Front(q))
      BY <3>1, <3>2, PrefixTrans DEF EPaths
    <3> QED BY <1>6, <3>1, <3>3
  <2> QED BY <1>6, <2>1, <2>2
<1>9. ETreeOk(t)
  BY <1>6, <1>7, <1>8 DEF ETreeOk
<1>10. \A q \in DOMAIN etree : ~IsPrefix(p, q) => q \in DOMAIN t /\ t[q] = etree[q]
  BY <1>2, <1>6
<1>11. \A q \in EAncestors(Front(p)) : q \in DOMAIN t /\ t[q] = "dir"
  BY <1>2, <1>4, <1>6
<1>12. \A q : ESamePlace(t, q) \/ IsPrefix(p, q) \/ q \in EAncestors(Front(p))
  <2> TAKE q
  <2> SUFFICES ASSUME ~IsPrefix(p, q), q \notin EAncestors(Front(p)) PROVE ESamePlace(t, q)
    OBVIOUS
  <2>1. q \in DOMAIN t <=> q \in DOMAIN etree
    BY <1>2, <1>5, <1>6
  <2> QED BY <1>10, <2>1 DEF ESamePlace
<1> QED BY <1>6, <1>9, <1>10, <1>11, <1>12

LEMMA MovedOk ==
  ASSUME ETreeOk(etree), NEW src \in EPaths, NEW dst \in EPaths \ {<<>>}, EMayLand(src, dst)
  PROVE  /\ ETreeOk(EMoved(src, dst))
         /\ \A q : ESamePlace(EMoved(src, dst), q) \/ IsPrefix(src, q) \/ IsPrefix(dst, q)
         /\ \A q \in DOMAIN etree : ~IsPrefix(src, q) /\ ~IsPrefix(dst, q) => q \in DOMAIN EMoved(src, dst) /\ EMoved(src, dst)[q] = etree[q]
         /\ \A q \in EUnder(src) : EImage(q, src, dst) \in DOMAIN EMoved(src, dst) /\ EMoved(src, dst)[EImage(q, src, dst)] = etree[q]
         /\ \A q \in DOMAIN EMoved(src, dst) :
              \/ q \in DOMAIN etree /\ EMoved(src, dst)[q] = etree[q] /\ ~IsPrefix(src, q) /\ ~IsPrefix(dst, q)
              \/ /\ IsPrefix(dst, q) /\ EImage(q, dst, src) \in EUnder(src) /\ q = EImage(EImage(q, dst, src), src, dst)
                 /\ EMoved(src, dst)[q] = etree[EImage(q, dst, src)]
                 /\ Len(q) = Len(dst) + (Len(EImage(q, dst, src)) - Len(src))
<1> DEFINE kept == DOMAIN etree \ (EUnder(src) \cup EUnder(dst))
           t == EMoved(src, dst)
<1>1. kept \in SUBSET DOMAIN etree /\ t = EPlaced(kept, src, dst)
  BY DEF EMoved
<1>2. PICK new \in SUBSET EPaths : EPlacedSo(t, kept, new, src, dst)
  <2> HIDE DEF kept, t
  <2> QED BY <1>1, PlacedIs
<1> HIDE DEF t
<1>20. /\ t = [q \in kept \cup new |-> t[q]]
       /\ DOMAIN t = kept \cup new /\ IsFiniteSet(kept \cup new)
       /\ \A q \in EUnder(src) : EImage(q, src, dst) \in new
       /\ \A q \in new : /\ EImage(q, dst, src) \in EUnder(src) /\ q = EImage(EImage(q, dst, src), src, dst)
                         /\ IsPrefix(dst, q) /\ Len(q) = Len(dst) + (Len(EImage(q, dst, src)) - Len(src))
                         /\ t[q] = etree[EImage(q, dst, src)]
       /\ \A q \in kept \ new : t[q] = etree[q]
  BY <1>2 DEF EPlacedSo
<1>3. /\ EUnder(src) \subseteq DOMAIN etree /\ DOMAIN etree \subseteq EPaths \ {<<>>}
      /\ \A q \in DOMAIN etree : (q \in EUnder(src) <=> IsPrefix(src, q)) /\ (q \in EUnder(dst) <=> IsPrefix(dst, q))
  BY UnderOf DEF ETreeOk
<1>4. \A q \in kept : q \in DOMAIN etree /\ ~IsPrefix(src, q) /\ ~IsPrefix(dst, q) /\ q \notin new /\ t[q] = etree[q]
  BY <1>20, <1>3
<1>5. \A q \in DOMAIN etree : ~IsPrefix(src, q) /\ ~IsPrefix(dst, q) => q \in kept
  BY <1>3
<1> HIDE DEF kept
<1>6. src \in EUnder(src) /\ src # <<>> /\ src \in DOMAIN etree
  BY <1>3, PrefixSelf DEF EMayLand, EPaths
<1>7. /\ Front(dst) \in EPaths /\ Len(Front(dst)) = Len(dst) - 1 /\ Len(dst) \in Nat /\ IsPrefix(Front(dst), dst)
      /\ ~IsPrefix(dst, Front(dst)) /\ ~IsPrefix(src, Front(dst))
  <2>1. Front(dst) \in EPaths /\ Len(Front(dst)) = Len(dst) - 1 /\ Len(dst) \in Nat /\ IsPrefix(Front(dst), dst)
    BY FrontOf DEF EPaths, IsStrictPrefix
  <2>2. ~IsPrefix(dst, Front(dst))
    BY <2>1, PrefixLong DEF EPaths
  <2>3. ASSUME IsPrefix(src, Front(dst)) PROVE FALSE
    <3>1. IsPrefix(src, dst)
      BY <2>1, <2>3, PrefixTrans DEF EPaths
    <3>2. src = dst
      BY <3>1 DEF EMayLand, IsStrictPrefix
    <3> QED BY <2>2, <2>3, <3>2
  <2> QED BY <2>1, <2>2, <2>3
<1>8. DOMAIN t \subseteq EPaths \ {<<>>} /\ IsFiniteSet(DOMAIN t) /\ t = [q \in DOMAIN t |-> t[q]]
  <2>1. \A q \in new : q # <<>>
    BY <1>20, PrefixLong DEF EPaths
  <2>2. IsFiniteSet(DOMAIN t) /\ t = [q \in DOMAIN t |-> t[q]]
    BY <1>20
  <2> QED BY <1>20, <1>3, <1>4, <2>1, <2>2
<1>9. ASSUME NEW q \in DOMAIN t, Front(q) # <<>> PROVE Front(q) \in DOMAIN t /\ t[Front(q)] = "dir"
  <2>1. CASE q \in kept
    <3>1. /\ q \in EPaths \ {<<>>} /\ Front(q) \in DOMAIN etree /\ etree[Front(q)] = "dir"
          /\ ~IsPrefix(src, q) /\ ~IsPrefix(dst, q)
      BY <1>3, <1>4, <1>9, <2>1 DEF ETreeOk
    <3>2. IsPrefix(Front(q), q) /\ Front(q) \in EPaths
      BY <3>1, FrontOf DEF EPaths, IsStrictPrefix
    <3>3. ~IsPrefix(src, Front(q)) /\ ~IsPrefix(dst, Front(q))
      BY <3>1, <3>2, PrefixTrans DEF EPaths
    <3> QED BY <1>20, <1>4, <1>5, <3>1, <3>3
  <2>2. CASE q \in new
    <3> DEFINE x == EImage(q, dst, src)
    <3>1. x \in EUnder(src) /\ q = EImage(x, src, dst) /\ x \in EPaths /\ x # <<>> /\ x \in DOMAIN etree /\ IsPrefix(src, x)
      BY <1>20, <1>3, <2>2
    <3> HIDE DEF x
    <3>2. CASE x = src
      <4>1. EImage(src, src, dst) = dst
        <5>1. q \in EPaths /\ IsPrefix(dst, q) /\ Len(q) = Len(dst) + (Len(src) - Len(src)) /\ Len(src) \in Nat
          BY <1>20, <2>2, <3>1, <3>2 DEF x, EPaths
        <5>2. q = dst
          BY <1>7, <5>1, PrefixLong DEF EPaths
        <5> QED BY <3>1, <3>2, <5>2
      <4>2. q = dst
        BY <3>1, <3>2, <4>1
      <4>3. Front(dst) \in DOMAIN etree /\ etree[Front(dst)] = "dir"
        BY <1>9, <4>2 DEF EMayLand, EIsDir
      <4> QED BY <1>20, <1>4, <1>5, <1>7, <4>2, <4>3
    <3>3. CASE x # src
      <4>1. /\ Front(x) \in EPaths /\ IsPrefix(src, Front(x))
            /\ EImage(Front(x), src, dst) = Front(q)
        BY <3>1, <3>3, ImageFront DEF EPaths, IsStrictPrefix
      <4>2. Front(x) # <<>>
        BY <1>6, <4>1, PrefixLong DEF EPaths
      <4>3. Front(x) \in DOMAIN etree /\ etree[Front(x)] = "dir"
        BY <3>1, <4>2 DEF ETreeOk
      <4>4. Front(x) \in EUnder(src)
        BY <1>3, <4>1, <4>3
      <4>5. Front(q) \in new
        BY <1>20, <4>1, <4>4
      <4>6. EImage(Front(q), dst, src) = Front(x)
        BY <4>1, ImageOf DEF EPaths
      <4> QED BY <1>20, <4>3, <4>5, <4>6
    <3> QED BY <3>2, <3>3
  <2> QED BY <1>20, <1>9, <2>1, <2>2
<1>10. ETreeOk(t)
  BY <1>8, <1>9 DEF ETreeOk
<1>11. \A q : ESamePlace(t, q) \/ IsPrefix(src, q) \/ IsPrefix(dst, q)
  BY <1>20, <1>4, <1>5 DEF ESamePlace
<1>12. \A q \in DOMAIN etree : ~IsPrefix(src, q) /\ ~IsPrefix(dst, q) => q \in DOMAIN t /\ t[q] = etree[q]
  BY <1>20, <1>4, <1>5
<1>13. ASSUME NEW q \in EUnder(src) PROVE EImage(q, src, dst) \in DOMAIN t /\ t[EImage(q, src, dst)] = etree[q]
  <2>1. EImage(EImage(q, src, dst), dst, src) = q
    BY <1>3, ImageOf DEF EPaths
  <2> QED BY <1>20, <2>1
<1>14. \A q \in DOMAIN t :
         \/ q \in DOMAIN etree /\ t[q] = etree[q] /\ ~IsPrefix(src, q) /\ ~IsPrefix(dst, q)
         \/ /\ IsPrefix(dst, q) /\ EImage(q, dst, src) \in EUnder(src) /\ q = EImage(EImage(q, dst, src), src, dst)
            /\ t[q] = etree[EImage(q, dst, src)]
            /\ Len(q) = Len(dst) + (Len(EImage(q, dst, src)) - Len(src))
  BY <1>20, <1>4
<1> QED BY <1>10, <1>11, <1>12, <1>13, <1>14 DEF t

EFree(src, dst) == \A q \in EUnder(src) : EImage(q, src, dst) \in DOMAIN etree => EIsDir(q) /\ EIsDir(EImage(q, src, dst))
LEMMA CopiedOk ==
  ASSUME ETreeOk(etree), NEW src \in DOMAIN etree, NEW dst \in EPaths \ {<<>>}, EIsDir(Front(dst)), ~IsPrefix(src, dst), EFree(src, dst)
  PROVE  /\ ETreeOk(EPlaced(DOMAIN etree, src, dst))
         /\ \A q : ESamePlace(EPlaced(DOMAIN etree, src, dst), q) \/ IsPrefix(dst, q)
         /\ \A q \in DOMAIN etree : q \in DOMAIN EPlaced(DOMAIN etree, src, dst) /\ EPlaced(DOMAIN etree, src, dst)[q] = etree[q]
<1> DEFINE kept == DOMAIN etree
           t == EPlaced(kept, src, dst)
<1>1. src \in EPaths /\ src # <<>> /\ DOMAIN etree \subseteq EPaths \ {<<>>} /\ kept \in SUBSET DOMAIN etree
  BY DEF ETreeOk
<1>2. PICK new \in SUBSET EPaths : EPlacedSo(t, kept, new, src, dst)
  <2> HIDE DEF kept
  <2>1. t = EPlaced(kept, src, dst)
    OBVIOUS
  <2> HIDE DEF t
  <2> QED BY <1>1, <2>1, PlacedIs
<1> HIDE DEF t
<1>20. /\ t = [q \in kept \cup new |-> t[q]]
       /\ DOMAIN t = kept \cup new /\ IsFiniteSet(kept \cup new)
       /\ \A q \in EUnder(src) : EImage(q, src, dst) \in new
       /\ \A q \in new : /\ EImage(q, dst, src) \in EUnder(src) /\ q = EImage(EImage(q, dst, src), src, dst)
                         /\ IsPrefix(dst, q) /\ Len(q) = Len(dst) + (Len(EImage(q, dst, src)) - Len(src))
                         /\ t[q] = etree[EImage(q, dst, src)]
       /\ \A q \in kept \ new : t[q] = etree[q]
  BY <1>2 DEF EPlacedSo
<1>3. EUnder(src) \subseteq DOMAIN etree /\ \A q \in DOMAIN etree : (q \in EUnder(src) <=> IsPrefix(src, q))
  BY <1>1, UnderOf
<1>4. \A q \in DOMAIN etree : q \in DOMAIN t /\ t[q] = etree[q]
  <2> SUFFICES ASSUME NEW q \in DOMAIN etree PROVE q \in DOMAIN t /\ t[q] = etree[q]
    OBVIOUS
  <2>1. CASE q \in new
    <3>1. EImage(q, dst, src) \in EUnder(src) /\ q = EImage(EImage(q, dst, src), src, dst) /\ t[q] = etree[EImage(q, dst, src)]
      BY <1>20, <2>1
    <3>2. EIsDir(q) /\ EIsDir(EImage(q, dst, src))
      BY <3>1 DEF EFree
    <3> QED BY <1>1, <1>20, <1>3, <3>1, <3>2 DEF EIsDir
  <2> QED BY <1>20, <2>1
<1>5. /\ Front(dst) \in EPaths /\ Len(dst) \in Nat
  BY FrontOf DEF EPaths
<1>6. DOMAIN t \subseteq EPaths \ {<<>>} /\ IsFiniteSet(DOMAIN t) /\ t = [q \in DOMAIN t |-> t[q]]
  <2>1. \A q \in new : q # <<>>
    BY <1>20, PrefixLong DEF EPaths
  <2>2. IsFiniteSet(DOMAIN t) /\ t = [q \in DOMAIN t |-> t[q]]
    BY <1>20
  <2> QED BY <1>1, <1>20, <2>1, <2>2
<1>7. ASSUME NEW q \in DOMAIN t, Front(q) # <<>> PROVE Front(q) \in DOMAIN t /\ t[Front(q)] = "dir"
  <2>1. CASE q \in DOMAIN etree
    <3>1. Front(q) \in DOMAIN etree /\ etree[Front(q)] = "dir"
      BY <1>7, <2>1 DEF ETreeOk
    <3> QED BY <1>4, <3>1
  <2>2. CASE q \in new
    <3> DEFINE x == EImage(q, dst, src)
    <3>1. x \in EUnder(src) /\ q = EImage(x, src, dst) /\ x \in EPaths /\ x # <<>> /\ x \in DOMAIN etree /\ IsPrefix(src, x)
      BY <1>1, <1>20, <1>3, <2>2
    <3> HIDE DEF x
    <3>2. CASE x = src
      <4>1. q \in EPaths /\ IsPrefix(dst, q) /\ Len(q) = Len(dst) + (Len(src) - Len(src)) /\ Len(src) \in Nat
        BY <1>1, <1>20, <2>2, <3>1, <3>2 DEF x, EPaths
      <4>2. q = dst
        BY <1>5, <4>1, PrefixLong DEF EPaths
      <4>3. Front(dst) \in DOMAIN etree /\ etree[Front(dst)] = "dir"
        BY <1>7, <4>2 DEF EIsDir
      <4> QED BY <1>4, <4>2, <4>3
    <3>3. CASE x # src
      <4>1. /\ Front(x) \in EPaths /\ IsPrefix(src, Front(x))
            /\ EImage(Front(x), src, dst) = Front(q)
        BY <1>1, <3>1, <3>3, ImageFront DEF EPaths, IsStrictPrefix
      <4>2. Front(x) # <<>>
        BY <1>1, <4>1, PrefixLong DEF EPaths
      <4>3. Front(x) \in DOMAIN etree /\ etree[Front(x)] = "dir"
        BY <3>1, <4>2 DEF ETreeOk
      <4>4. Front(x) \in EUnder(src)
        BY <1>3, <4>1, <4>3
      <4>5. Front(q) \in new
        BY <1>20, <4>1, <4>4
      <4>6. EImage(Front(q), dst, src) = Front(x)
        BY <1>1, <4>1, ImageOf DEF EPaths
      <4> QED BY <1>20, <4>3, <4>5, <4>6
    <3> QED BY <3>2, <3>3
  <2> QED BY <1>20, <1>7, <2>1, <2>2
<1>8. ETreeOk(t)
  BY <1>6, <1>7 DEF ETreeOk
<1>9. \A q : ESamePlace(t, q) \/ IsPrefix(dst, q)
  BY <1>20, <1>4 DEF ESamePlace
<1> QED BY <1>4, <1>8, <1>9 DEF t

\* A call that stops half way leaves a tree between what it does not touch and
\* what it would have made.
LEMMA PartIs ==
  ASSUME NEW u, ETreeOk(u), NEW rest \in SUBSET DOMAIN u, NEW t \in EPartOf(u, rest)
  PROVE  ETreeOk(t) /\ rest \subseteq DOMAIN t /\ DOMAIN t \subseteq DOMAIN u /\ \A q \in DOMAIN t : t[q] = u[q]
<1>1. PICK D \in SUBSET DOMAIN u : /\ t = Restrict(u, D) /\ rest \subseteq D
                                 /\ \A q \in D : Front(q) = <<>> \/ Front(q) \in D
  BY DEF EPartOf
<1>2. t = [q \in D |-> u[q]]
  BY <1>1 DEF Restrict
<1>3. DOMAIN t = D /\ t = [q \in DOMAIN t |-> t[q]] /\ \A q \in DOMAIN t : t[q] = u[q]
  BY <1>2
<1>4. IsFiniteSet(D) /\ D \subseteq EPaths \ {<<>>}
  BY FS_Subset DEF ETreeOk
<1>5. \A q \in D : Front(q) # <<>> => Front(q) \in D /\ t[Front(q)] = "dir"
  BY <1>1, <1>3 DEF ETreeOk
<1>6. ETreeOk(t)
  BY <1>3, <1>4, <1>5 DEF ETreeOk
<1> QED BY <1>1, <1>3, <1>6

LEMMA PartAdded ==
  ASSUME ETreeOk(etree), NEW u, ETreeOk(u), \A q \in DOMAIN etree : q \in DOMAIN u /\ u[q] = etree[q],
         NEW t \in EPartOf(u, DOMAIN etree)
  PROVE  /\ ETreeOk(t) /\ \A q \in DOMAIN etree : q \in DOMAIN t /\ t[q] = etree[q]
         /\ \A q : ESamePlace(u, q) => ESamePlace(t, q)
<1>1. ETreeOk(t) /\ DOMAIN etree \subseteq DOMAIN t /\ DOMAIN t \subseteq DOMAIN u /\ \A q \in DOMAIN t : t[q] = u[q]
  BY PartIs
<1> QED BY <1>1 DEF ESamePlace

LEMMA PartRemoved ==
  ASSUME ETreeOk(etree), NEW p \in EPaths, NEW t \in ERemovedPartly(p)
  PROVE  /\ ETreeOk(t) /\ \A q \in DOMAIN t : q \in DOMAIN etree /\ t[q] = etree[q]
         /\ \A q \in DOMAIN etree : ~IsPrefix(p, q) => q \in DOMAIN t /\ t[q] = etree[q]
         /\ \A q : ESamePlace(t, q) \/ IsPrefix(p, q)
<1>1. \A q \in DOMAIN etree : ~IsPrefix(p, q) => q \in DOMAIN etree \ EUnder(p)
  BY DEF EUnder
<1>2. /\ ETreeOk(t) /\ DOMAIN etree \ EUnder(p) \subseteq DOMAIN t /\ DOMAIN t \subseteq DOMAIN etree
      /\ \A q \in DOMAIN t : t[q] = etree[q]
  BY PartIs DEF ERemovedPartly
<1> QED BY <1>1, <1>2 DEF ESamePlace

LEMMA UploadedOk ==
  ASSUME ETreeOk(etree), NEW p \in EPaths \ {<<>>}, p \notin DOMAIN etree, EIsDir(Front(p)), NEW t,
         t = [q \in DOMAIN etree \cup {p} |-> IF q = p THEN "other" ELSE etree[q]]
  PROVE  /\ ETreeOk(t) /\ DOMAIN t = DOMAIN etree \cup {p} /\ t[p] = "other" /\ \A q \in DOMAIN etree : t[q] = etree[q]
<1>1. DOMAIN t = DOMAIN etree \cup {p} /\ t[p] = "other" /\ \A q \in DOMAIN etree : t[q] = etree[q]
  OBVIOUS
<1>2. t = [q \in DOMAIN t |-> t[q]]
  OBVIOUS
<1>3. IsFiniteSet(DOMAIN t) /\ DOMAIN t \subseteq EPaths \ {<<>>}
  BY <1>1, FS_AddElement DEF ETreeOk
<1>4. ASSUME NEW q \in DOMAIN t, Front(q) # <<>> PROVE Front(q) \in DOMAIN t /\ t[Front(q)] = "dir"
  <2>1. Front(q) \in DOMAIN etree /\ etree[Front(q)] = "dir"
    BY <1>1, <1>4 DEF ETreeOk, EIsDir
  <2> QED BY <1>1, <2>1
<1>5. ETreeOk(t)
  BY <1>2, <1>3, <1>4 DEF ETreeOk
<1> QED BY <1>1, <1>5

-----------------------------------------------------------------------------
(* Rights: a tree that may be written may be written at every path of it *)

LEMMA RightsDown ==
  ASSUME \A m \in emetas : m.path \in EPaths, NEW p \in EPaths, NEW q \in EPaths, CanWriteTree(p), IsPrefix(p, q)
  PROVE  CanWritePath(q)
<1> SUFFICES ASSUME NEW m \in NearestMetas(q), m.nowrite, MetaCoversPath(m.path, q, m.wsub)
             PROVE  FALSE
  BY DEF CanWritePath, CanWriteBy
<1>1. m \in emetas /\ m.path \in EPaths /\ IsPrefix(m.path, q) /\ \A k \in emetas : IsPrefix(k.path, q) => Len(k.path) <= Len(m.path)
  BY DEF NearestMetas
<1>2. Len(m.path) \in Nat /\ Len(p) \in Nat
  BY <1>1 DEF EPaths
<1>3. ~IsPrefix(p, m.path)
  BY <1>1 DEF CanWriteTree
<1>4. ~(Len(p) <= Len(m.path))
  BY <1>1, <1>3, PrefixesNest DEF EPaths
<1>5. IsPrefix(m.path, p)
  BY <1>1, <1>2, <1>4, PrefixesNest DEF EPaths
<1>6. \A k \in emetas : IsPrefix(k.path, p) => Len(k.path) <= Len(m.path)
  BY <1>1, PrefixTrans DEF EPaths
<1>7. m \in NearestMetas(p)
  BY <1>1, <1>5, <1>6 DEF NearestMetas
<1>8. ~m.wsub
  BY <1>5, <1>7 DEF CanWriteTree, CanWritePath, CanWriteBy, MetaCoversPath
<1>9. m.path = q
  BY <1>8 DEF MetaCoversPath
<1> QED BY <1>3, <1>9

-----------------------------------------------------------------------------
(* The invariant *)

ERenamesOf == [from : ENames, to : ENames]
EMovable == {p \in EPaths : CanWriteTree(p) /\ CanWriteTree(EBaseIn(ereq.dst, p))}
ECopyable == {p \in EPaths : CanWriteTree(EBaseIn(ereq.dst, p))}
ERemovable == {p \in EPaths : CanWriteTree(p)}
EBelow == {p \in EPaths : IsStrictPrefix(ereq.dir, p)}
ECalls ==
  [pc : {"start", "look", "put", "check", "act", "listdst", "gather", "remove", "done"}, i : Nat \ {0}, n : Nat \ {0},
   queue : Seq(EPaths), seen : SUBSET ENames, list : Seq(EPaths) \cup Seq(ERenamesOf), gone : SUBSET EPaths,
   ans : {"none", "ok", "error", "denied", "exists", "bad"}]
\* What a request has looked at before it acts.
EWorkSound(w) ==
  /\ w \in ECalls /\ (w.ans # "none" => w.pc = "done")
  /\ w.pc = "put" => ereq.op \in {"stream", "form"}
  /\ ereq.op \in {"stream", "form"} /\ w.pc \in {"look", "put"} => CanWritePath(ereq.path)
  /\ ereq.op = "rename" /\ w.pc = "act" =>
       ereq.path # <<>> /\ CanWriteTree(ereq.path) /\ CanWriteTree(Append(Front(ereq.path), ereq.name))
  /\ ereq.op \in {"gather", "empties"} /\ w.pc \notin {"start", "done"} => CanWriteTree(ereq.dir)
  /\ ereq.op = "move" => w.list \in Seq(EMovable)
  /\ ereq.op = "copy" => w.list \in Seq(ECopyable)
  /\ ereq.op = "remove" => w.list \in Seq(ERemovable)
  /\ ereq.op \in {"gather", "empties"} => w.queue \in Seq(EBelow) /\ w.list \in Seq(EBelow)
  /\ ereq.op \in {"renames", "regex"} => w.list \in Seq(ERenamesOf)
  /\ ereq.op = "empties" /\ w.pc = "remove" => w.queue # <<>>

EUntouched == DOMAIN etree \ eother.up = DOMAIN eorig /\ \A p \in DOMAIN eorig : etree[p] = eorig[p]
EEarly(w) == w.pc \in {"start", "check", "listdst", "gather"} \/ (w.pc \in {"look", "put"} /\ ereq.op \in {"stream", "form"})
ERefusedBy(w) == w.ans = "exists" \/ (w.ans = "denied" /\ ereq.op \notin {"gather", "renames", "regex"})
EPast == EEarly(ework) \/ ERefusedBy(ework) => EUntouched
EMayWrite(p) ==
  \/ ereq.op \in {"mkdir", "stream", "form"} /\ (IsStrictPrefix(p, ereq.path) \/ IsStrictPrefix(ereq.path, p))
  \/ CanWritePath(p)
EFrom(p, v) == v = "other" \/ \E q \in DOMAIN eorig : v = eorig[q] /\ Len(p) = Len(q)
ESameDepth == ereq.op \in {"renames", "regex"} => \A p \in DOMAIN etree : EFrom(p, etree[p])
ETyped ==
  /\ ETreeOk(etree) /\ ETreeOk(eorig) /\ EReqOk(ereq) /\ \A m \in emetas : m.path \in EPaths
  /\ eother \in [up : SUBSET EPaths, faults : Nat]
EInd == ETyped /\ EWorkSound(ework) /\ EPast /\ EWithinRights /\ ESameDepth

LEMMA WorkStays ==
  ASSUME NEW w, EWorkSound(w), ework' = w, emetas' = emetas, ereq' = ereq
  PROVE  EWorkSound(ework)'
<1>1. \A p : CanWritePath(p)' <=> CanWritePath(p)
  BY DEF CanWritePath, CanWriteBy, NearestMetas, MetaCoversPath
<1>2. \A p : CanWriteTree(p)' <=> CanWriteTree(p)
  BY <1>1 DEF CanWriteTree
<1>3. EMovable' = EMovable /\ ECopyable' = ECopyable /\ ERemovable' = ERemovable /\ EBelow' = EBelow
  BY <1>2 DEF EMovable, ECopyable, ERemovable, EBelow
<1> QED BY <1>1, <1>2, <1>3 DEF EWorkSound

LEMMA QuietKeeps ==
  ASSUME EInd, NEW w, ework' = w, EWorkSound(w), UNCHANGED <<etree, eorig, emetas, ereq>>,
         eother' \in [up : SUBSET EPaths, faults : Nat], eother'.up = eother.up,
         EEarly(w) \/ ERefusedBy(w) => EEarly(ework)
  PROVE  EInd'
<1>1. EWorkSound(ework)'
  BY WorkStays
<1>2. ETyped'
  BY DEF EInd, ETyped
<1>3. EPast'
  BY DEF EInd, EPast, EUntouched, EEarly, ERefusedBy
<1>4. EWithinRights'
  BY DEF EInd, EWithinRights, CanWritePath, CanWriteBy, NearestMetas, MetaCoversPath
<1>5. ESameDepth'
  BY DEF EInd, ESameDepth, EFrom
<1> QED BY <1>1, <1>2, <1>3, <1>4, <1>5 DEF EInd

LEMMA WritesKeep ==
  ASSUME EInd, NEW w, ework' = w, EWorkSound(w), NEW t, etree' = t, ETreeOk(t), UNCHANGED <<eorig, emetas, ereq>>,
         eother' \in [up : SUBSET EPaths, faults : Nat], eother'.up = eother.up,
         ~EEarly(w), ~ERefusedBy(w), \A q \in EPaths : ESamePlace(t, q) \/ EMayWrite(q),
         ereq.op \in {"renames", "regex"} => \A p \in DOMAIN t : EFrom(p, t[p])
  PROVE  EInd'
<1>1. EWorkSound(ework)'
  BY WorkStays
<1>2. ETyped'
  BY DEF EInd, ETyped
<1>3. EPast'
  BY DEF EInd, EPast, EEarly, ERefusedBy
<1>4. EWithinRights'
  <2>1. \A p : CanWritePath(p)' <=> CanWritePath(p)
    BY DEF CanWritePath, CanWriteBy, NearestMetas, MetaCoversPath
  <2>2. DOMAIN t \subseteq EPaths /\ DOMAIN eorig \subseteq EPaths
    BY DEF ETreeOk, EInd, ETyped
  <2>3. ASSUME NEW p \in (DOMAIN t \cup DOMAIN eorig) \ eother.up
        PROVE  \/ p \in DOMAIN t /\ p \in DOMAIN eorig /\ t[p] = eorig[p]
               \/ EMayWrite(p)
    <3>1. CASE ESamePlace(t, p)
      BY <2>3, <3>1 DEF ESamePlace, EInd, EWithinRights, EMayWrite
    <3> QED BY <2>2, <2>3, <3>1
  <2> QED BY <2>1, <2>3 DEF EWithinRights, EMayWrite
<1>5. ESameDepth'
  BY DEF EInd, ESameDepth, EFrom
<1> QED BY <1>1, <1>2, <1>3, <1>4, <1>5 DEF EInd

LEMMA ChangeKeeps ==
  ASSUME EInd, NEW w, ework' = w, EWorkSound(w), NEW t, etree' = t, ETreeOk(t), EKeep,
         ~EEarly(w), ~ERefusedBy(w), \A q \in EPaths : ESamePlace(t, q) \/ EMayWrite(q),
         ereq.op \in {"renames", "regex"} => \A p \in DOMAIN t : EFrom(p, t[p])
  PROVE  EInd'
<1>1. eother' \in [up : SUBSET EPaths, faults : Nat] /\ eother'.up = eother.up /\ UNCHANGED <<eorig, emetas, ereq>>
  BY DEF EInd, ETyped, EKeep
<1> QED BY <1>1, WritesKeep

LEMMA AnswerSound ==
  ASSUME EInd, NEW a \in {"ok", "error", "denied", "exists", "bad"}, NEW w, w = [ework EXCEPT !.pc = "done", !.ans = a]
  PROVE  EWorkSound(w) /\ ~EEarly(w) /\ w.ans = a
<1>1. ework \in ECalls
  BY DEF EInd, EWorkSound
<1>2. /\ w \in ECalls /\ w.pc = "done" /\ w.ans = a /\ w.list = ework.list /\ w.queue = ework.queue
  BY <1>1 DEF ECalls
<1> QED BY <1>2 DEF EInd, EWorkSound, EEarly

\* A change that stops half way.
LEMMA HalfKeeps ==
  ASSUME EInd, EFails, NEW t, etree' = t, ETreeOk(t), ereq.op \notin {"renames", "regex"},
         \A q \in EPaths : ESamePlace(t, q) \/ EMayWrite(q)
  PROVE  EInd'
<1>1. PICK w : w = [ework EXCEPT !.pc = "done", !.ans = "error"]
  OBVIOUS
<1>2. EWorkSound(w) /\ ~EEarly(w) /\ w.ans = "error"
  BY <1>1, AnswerSound
<1>3. ~ERefusedBy(w)
  BY <1>2 DEF ERefusedBy
<1>4. ework' = w /\ UNCHANGED <<eorig, emetas, ereq>>
  BY <1>1 DEF EFails
<1>5. eother' \in [up : SUBSET EPaths, faults : Nat] /\ eother'.up = eother.up
  BY DEF EInd, ETyped, EFails
<1> QED BY <1>2, <1>3, <1>4, <1>5, WritesKeep

LEMMA AnswerKeeps ==
  ASSUME EInd, NEW a \in {"ok", "error", "denied", "exists", "bad"}, EAnswer(a), UNCHANGED <<eorig, emetas, ereq>>,
         eother' \in [up : SUBSET EPaths, faults : Nat], eother'.up = eother.up,
         a \in {"ok", "error", "bad"} \/ EEarly(ework) \/ (a = "denied" /\ ereq.op \in {"gather", "renames", "regex"})
  PROVE  EInd'
<1>1. PICK w : w = [ework EXCEPT !.pc = "done", !.ans = a]
  OBVIOUS
<1>2. ework' = w /\ etree' = etree
  BY <1>1 DEF EAnswer
<1>3. EWorkSound(w) /\ ~EEarly(w) /\ w.ans = a
  BY <1>1, AnswerSound
<1>4. ERefusedBy(w) => EEarly(ework)
  BY <1>3 DEF ERefusedBy
<1> QED BY <1>2, <1>3, <1>4, QuietKeeps

EFailed ==
  /\ EAnswer("error") /\ UNCHANGED <<eorig, emetas, ereq>>
  /\ eother' = eother \/ eother' = [eother EXCEPT !.faults = @ + 1]
LEMMA RefusalKeeps == ASSUME EInd, EFailed PROVE EInd'
<1>1. eother' \in [up : SUBSET EPaths, faults : Nat] /\ eother'.up = eother.up
  BY DEF EInd, ETyped, EFailed
<1> QED BY <1>1, AnswerKeeps DEF EFailed

LEMMA QuietStep ==
  ASSUME EInd, NEW w, ework' = w, EWorkSound(w), UNCHANGED etree, EKeep, EEarly(w) \/ ERefusedBy(w) => EEarly(ework)
  PROVE  EInd'
<1>1. eother' \in [up : SUBSET EPaths, faults : Nat] /\ eother'.up = eother.up /\ UNCHANGED <<etree, eorig, emetas, ereq>>
  BY DEF EInd, ETyped, EKeep
<1> QED BY <1>1, QuietKeeps

LEMMA AnswerStep ==
  ASSUME EInd, NEW a \in {"ok", "error", "denied", "exists", "bad"}, EAnswer(a), EKeep,
         a \in {"ok", "error", "bad"} \/ EEarly(ework) \/ (a = "denied" /\ ereq.op \in {"gather", "renames", "regex"})
  PROVE  EInd'
<1>1. eother' \in [up : SUBSET EPaths, faults : Nat] /\ eother'.up = eother.up /\ UNCHANGED <<eorig, emetas, ereq>>
  BY DEF EInd, ETyped, EKeep
<1> QED BY <1>1, AnswerKeeps

LEMMA GoStep ==
  ASSUME EInd, NEW c \in {"look", "put", "check", "act", "gather"}, EGo(c), EKeep, EEarly(ework),
         c \in {"look", "put"} => ereq.op \in {"stream", "form"} /\ CanWritePath(ereq.path),
         ereq.op = "rename" /\ c = "act" => ereq.path # <<>> /\ CanWriteTree(ereq.path) /\ CanWriteTree(Append(Front(ereq.path), ereq.name)),
         ereq.op \in {"gather", "empties"} => CanWriteTree(ereq.dir)
  PROVE  EInd'
<1>1. PICK w : w = [ework EXCEPT !.pc = c]
  OBVIOUS
<1>2. ework' = w /\ etree' = etree
  BY <1>1 DEF EGo
<1>3. ework \in ECalls /\ ework.pc # "done"
  BY DEF EInd, EWorkSound, EEarly
<1>4. /\ w \in ECalls /\ w.pc = c /\ w.ans = ework.ans /\ w.list = ework.list /\ w.queue = ework.queue
  BY <1>1, <1>3 DEF ECalls
<1>5. EWorkSound(w)
  BY <1>3, <1>4 DEF EInd, EWorkSound
<1>6. EEarly(w) \/ ERefusedBy(w) => EEarly(ework)
  OBVIOUS
<1> QED BY <1>2, <1>5, <1>6, QuietStep

\* The next of the names is taken for the list.
LEMMA ListedStep ==
  ASSUME EInd, ework.pc = "check", ereq.op \in {"move", "copy", "remove"}, EKeep, UNCHANGED etree, NEW x \in EPaths,
         ework' = [ENextName EXCEPT !.list = Append(@, x)],
         ereq.op = "move" => x \in EMovable, ereq.op = "copy" => x \in ECopyable, ereq.op = "remove" => x \in ERemovable
  PROVE  EInd'
<1>1. PICK w : w = [ENextName EXCEPT !.list = Append(@, x)]
  OBVIOUS
<1>2. ework \in ECalls
  BY DEF EInd, EWorkSound
<1>3. ework.list \in Seq(EPaths)
  BY DEF EInd, EWorkSound, EMovable, ECopyable, ERemovable
<1>4. PICK l : l = Append(ework.list, x)
  OBVIOUS
<1>5. l \in Seq(EPaths)
  BY <1>3, <1>4
<1>6. w = [ework EXCEPT !.i = ework.i + 1, !.list = l]
  BY <1>1, <1>2, <1>4 DEF ENextName, ECalls
<1>11. ework.i + 1 \in Nat \ {0} /\ l \in Seq(EPaths) \cup Seq(ERenamesOf)
  BY <1>2, <1>5 DEF ECalls
<1>12. w \in ECalls
  BY <1>2, <1>6, <1>11 DEF ECalls
<1>7. /\ w \in ECalls /\ w.pc = "check" /\ w.ans = ework.ans /\ w.list = l
  BY <1>2, <1>6, <1>12 DEF ECalls
<1>8. /\ ereq.op = "move" => l \in Seq(EMovable)
      /\ ereq.op = "copy" => l \in Seq(ECopyable)
      /\ ereq.op = "remove" => l \in Seq(ERemovable)
  BY <1>4 DEF EInd, EWorkSound
<1>9. EWorkSound(w)
  BY <1>7, <1>8 DEF EInd, EWorkSound
<1>10. EEarly(w) \/ ERefusedBy(w) => EEarly(ework)
  BY DEF EEarly
<1> QED BY <1>1, <1>9, <1>10, QuietStep

\* A name that leads out of the directory is passed over.
LEMMA PassedStep ==
  ASSUME EInd, ework.pc = "check", EKeep, UNCHANGED etree, ework' = ENextName
  PROVE  EInd'
<1>1. PICK w : w = ENextName
  OBVIOUS
<1>2. ework \in ECalls
  BY DEF EInd, EWorkSound
<1>3. /\ w \in ECalls /\ w.pc = "check" /\ w.ans = ework.ans /\ w.list = ework.list /\ w.queue = ework.queue
  BY <1>1, <1>2 DEF ECalls, ENextName
<1>4. EWorkSound(w)
  BY <1>3 DEF EInd, EWorkSound
<1>5. EEarly(w) \/ ERefusedBy(w) => EEarly(ework)
  BY DEF EEarly
<1> QED BY <1>1, <1>4, <1>5, QuietStep

LEMMA NextOneSound ==
  ASSUME EInd, ework.pc = "act", NEW w, w = ENextOne
  PROVE  EWorkSound(w) /\ ~EEarly(w) /\ ~ERefusedBy(w)
<1>1. ework \in ECalls
  BY DEF EInd, EWorkSound
<1>4. w = [ework EXCEPT !.n = ework.n + 1] /\ ework.n + 1 \in Nat \ {0}
  BY <1>1 DEF ENextOne, ECalls
<1>5. w \in ECalls
  BY <1>1, <1>4 DEF ECalls
<1>2. /\ w \in ECalls /\ w.pc = "act" /\ w.ans = ework.ans /\ w.list = ework.list /\ w.queue = ework.queue
  BY <1>1, <1>4, <1>5 DEF ECalls
<1>3. w.ans = "none"
  BY <1>2 DEF EInd, EWorkSound
<1> QED BY <1>2, <1>3 DEF EInd, EWorkSound, EEarly, ERefusedBy

LEMMA DoneOk ==
  ASSUME EInd, NEW w, w = [ework EXCEPT !.pc = "done", !.ans = "ok"]
  PROVE  EWorkSound(w) /\ ~EEarly(w) /\ ~ERefusedBy(w)
<1>1. EWorkSound(w) /\ ~EEarly(w) /\ w.ans = "ok"
  BY AnswerSound
<1> QED BY <1>1 DEF ERefusedBy

\* A change at and below paths that may be written.
LEMMA WriteOk ==
  ASSUME EInd, NEW p \in EPaths, CanWriteTree(p), NEW q \in EPaths, IsPrefix(p, q)
  PROVE  EMayWrite(q)
<1>1. \A m \in emetas : m.path \in EPaths
  BY DEF EInd, ETyped
<1> QED BY <1>1, RightsDown DEF EMayWrite

LEMMA BaseOf ==
  ASSUME NEW d \in EPaths, NEW p \in EPaths
  PROVE  /\ EBaseIn(d, p) \in EPaths
         /\ p # <<>> => EBaseIn(d, p) = Append(d, Last(p)) /\ EBaseIn(d, p) # <<>> /\ Front(EBaseIn(d, p)) = d /\ Last(p) \in ENames
                        /\ Last(EBaseIn(d, p)) = Last(p)
<1>1. CASE p = <<>>
  BY <1>1 DEF EBaseIn
<1>2. CASE p # <<>>
  <2>1. Last(p) \in ENames
    BY <1>2, FrontOf DEF EPaths
  <2> QED BY <1>2, <2>1, PathOfName DEF EBaseIn, EPaths
<1> QED BY <1>1, <1>2

\* What EMoved does when both ends may be written.
LEMMA MovedStep ==
  ASSUME EInd, NEW src \in EPaths, NEW dst \in EPaths \ {<<>>}, CanWriteTree(src), CanWriteTree(dst), EMayLand(src, dst),
         ereq.op \in {"renames", "regex"} => Len(src) = Len(dst),
         NEW w, ework' = w, EWorkSound(w), ~EEarly(w), ~ERefusedBy(w), etree' = EMoved(src, dst), EKeep
  PROVE  EInd'
<1>1. ETreeOk(etree)
  BY DEF EInd, ETyped
<1>2. PICK t : t = EMoved(src, dst)
  OBVIOUS
<1>3. ETreeOk(t) /\ \A q : ESamePlace(t, q) \/ IsPrefix(src, q) \/ IsPrefix(dst, q)
  BY <1>1, <1>2, MovedOk
<1>4. \A q \in EPaths : ESamePlace(t, q) \/ EMayWrite(q)
  BY <1>3, WriteOk
<1>5. ASSUME ereq.op \in {"renames", "regex"}, NEW q \in DOMAIN t PROVE EFrom(q, t[q])
  <2>1. CASE q \in DOMAIN etree /\ t[q] = etree[q]
    BY <1>5, <2>1 DEF EInd, ESameDepth
  <2>2. CASE ~(q \in DOMAIN etree /\ t[q] = etree[q])
    <3>1. PICK x : x = EImage(q, dst, src)
      OBVIOUS
    <3>2. x \in EUnder(src) /\ t[q] = etree[x] /\ Len(q) = Len(dst) + (Len(x) - Len(src))
      BY <1>1, <1>2, <1>5, <2>2, <3>1, MovedOk
    <3>3. x \in DOMAIN etree /\ x \in EPaths
      BY <1>1, <3>2 DEF EUnder, ETreeOk
    <3>4. Len(x) \in Nat /\ Len(dst) \in Nat /\ Len(src) \in Nat
      BY <3>3 DEF EPaths
    <3>5. Len(q) = Len(x)
      BY <1>5, <3>2, <3>4
    <3>6. EFrom(x, etree[x])
      BY <1>5, <3>3 DEF EInd, ESameDepth
    <3> QED BY <3>2, <3>5, <3>6 DEF EFrom
  <2> QED BY <2>1, <2>2
<1> QED BY <1>2, <1>3, <1>4, <1>5, ChangeKeeps

LEMMA ReqFacts ==
  ASSUME EInd
  PROVE  /\ ETreeOk(etree) /\ ETreeOk(eorig) /\ ereq.dir \in EPaths /\ ereq.dst \in EPaths /\ ereq.path \in EPaths
         /\ ework \in ECalls /\ (ework.pc # "done" => ework.ans = "none")
         /\ ~EAllSeen => ENamed \in EPaths
<1>1. ETreeOk(etree) /\ ETreeOk(eorig) /\ ereq.dir \in EPaths /\ ereq.dst \in EPaths /\ ereq.path \in EPaths
  BY DEF EInd, ETyped, EReqOk
<1>2. ework \in ECalls /\ (ework.pc # "done" => ework.ans = "none")
  BY DEF EInd, EWorkSound
<1>3. ASSUME ~EAllSeen PROVE ENamed \in EPaths
  <2>1. ereq.names \in Seq(Seq(ENames \cup {".", ".."})) /\ \A n \in DOMAIN ereq.names : EJoin(ereq.dir, ereq.names[n]) \in EPaths
    BY DEF EInd, ETyped, EReqOk
  <2>2. ework.i \in Nat \ {0}
    BY <1>2 DEF ECalls
  <2>3. ework.i \in DOMAIN ereq.names
    BY <1>3, <2>1, <2>2 DEF EAllSeen
  <2> QED BY <2>1, <2>3 DEF ENamed
<1> QED BY <1>1, <1>2, <1>3

LEMMA MkdirKeeps == ASSUME EInd, EMkdir PROVE EInd'
<1>1. ETreeOk(etree) /\ ereq.path \in EPaths /\ ework.pc = "start" /\ ereq.op = "mkdir"
  BY ReqFacts DEF EMkdir, EAt
<1>2. CASE EAnswer("denied") /\ EKeep
  BY <1>1, <1>2, AnswerStep DEF EEarly
<1>3. CASE EFailed
  BY <1>3, RefusalKeeps
<1>4. CASE /\ CanWritePath(ereq.path) /\ EDirsOn(ereq.path) /\ etree' = EWithDirs(ereq.path)
           /\ ework' = [ework EXCEPT !.pc = "done", !.ans = "ok"] /\ EKeep
  <2>1. PICK t : t = EWithDirs(ereq.path)
    OBVIOUS
  <2>2. PICK w : w = [ework EXCEPT !.pc = "done", !.ans = "ok"]
    OBVIOUS
  <2>3. EWorkSound(w) /\ ~EEarly(w) /\ ~ERefusedBy(w)
    BY <2>2, DoneOk
  <2>4. ETreeOk(t) /\ \A q : ESamePlace(t, q) \/ q \in EAncestors(ereq.path)
    BY <1>1, <1>4, <2>1, WithDirsOk
  <2>5. \A q \in EAncestors(ereq.path) : EMayWrite(q)
    BY <1>1, <1>4, AncestorsOf DEF EMayWrite, IsStrictPrefix
  <2> QED BY <1>1, <1>4, <2>1, <2>2, <2>3, <2>4, <2>5, ChangeKeeps
<1>5. ASSUME NEW t \in EPartOf(EWithDirs(ereq.path), DOMAIN etree), etree' = t, EFails, CanWritePath(ereq.path), EDirsOn(ereq.path)
      PROVE  EInd'
  <2>1. /\ ETreeOk(EWithDirs(ereq.path)) /\ DOMAIN EWithDirs(ereq.path) = DOMAIN etree \cup EAncestors(ereq.path)
        /\ \A q \in DOMAIN etree : EWithDirs(ereq.path)[q] = etree[q]
        /\ \A q : ESamePlace(EWithDirs(ereq.path), q) \/ q \in EAncestors(ereq.path)
    BY <1>1, <1>5, WithDirsOk
  <2>2. PICK u : u = EWithDirs(ereq.path)
    OBVIOUS
  <2>3. ETreeOk(t) /\ \A q : ESamePlace(u, q) => ESamePlace(t, q)
    BY <1>1, <1>5, <2>1, <2>2, PartAdded
  <2>4. \A q \in EAncestors(ereq.path) : EMayWrite(q)
    BY <1>1, <1>5, AncestorsOf DEF EMayWrite, IsStrictPrefix
  <2>5. \A q \in EPaths : ESamePlace(t, q) \/ EMayWrite(q)
    BY <2>1, <2>2, <2>3, <2>4
  <2> QED BY <1>1, <1>5, <2>3, <2>5, HalfKeeps
<1> QED BY <1>2, <1>3, <1>4, <1>5 DEF EMkdir, EHalf, ECall, EFails, EAnswer, EFailed, EKeep

LEMMA UploadStartKeeps == ASSUME EInd, EUploadStart PROVE EInd'
<1>1. EEarly(ework) /\ ereq.op \in {"stream", "form"} /\ EKeep
  BY DEF EUploadStart, EEarly
<1>2. CASE EAnswer("denied")
  BY <1>1, <1>2, AnswerStep
<1>3. CASE CanWritePath(ereq.path) /\ EGo("look")
  BY <1>1, <1>3, GoStep
<1> QED BY <1>2, <1>3 DEF EUploadStart

LEMMA LookKeeps == ASSUME EInd, EStream \/ EForm PROVE EInd'
<1>1. EEarly(ework) /\ ereq.op \in {"stream", "form"} /\ EKeep /\ ework.pc = "look"
  BY DEF EStream, EForm, ELook, EEarly, EAt
<1>2. CASE EAnswer("exists")
  BY <1>1, <1>2, AnswerStep
<1>3. CASE EAnswer("bad")
  BY <1>1, <1>3, AnswerStep
<1>4. CASE EGo("put")
  <2>1. CanWritePath(ereq.path)
    BY <1>1 DEF EInd, EWorkSound
  <2> QED BY <1>1, <1>4, <2>1, GoStep
<1> QED BY <1>2, <1>3, <1>4 DEF EStream, EForm, ELook

LEMMA PutKeeps == ASSUME EInd, EPut PROVE EInd'
<1>1. /\ ETreeOk(etree) /\ ereq.path \in EPaths /\ ework.pc = "put" /\ ereq.op \in {"stream", "form"}
      /\ CanWritePath(ereq.path)
  BY ReqFacts DEF EPut, EInd, EWorkSound
<1>2. PICK t : t = LET made == EWithDirs(Front(ereq.path))
                       kept == {q \in DOMAIN made : ~IsPrefix(ereq.path, q)}
                   IN  [q \in kept \cup {ereq.path} |-> IF q = ereq.path THEN "new" ELSE made[q]]
  OBVIOUS
<1>3. CASE EFailed
  BY <1>3, RefusalKeeps
<1>5. ASSUME ereq.path # <<>>, NEW q, IsPrefix(ereq.path, q) \/ q \in EAncestors(Front(ereq.path)) PROVE EMayWrite(q)
  <2>1. CASE q \in EAncestors(Front(ereq.path))
    <3>1. Front(ereq.path) \in EPaths /\ IsPrefix(Front(ereq.path), ereq.path) /\ Len(Front(ereq.path)) = Len(ereq.path) - 1 /\ Len(ereq.path) \in Nat
      BY <1>1, <1>5, FrontOf DEF EPaths, IsStrictPrefix
    <3>2. q \in EPaths /\ IsPrefix(q, Front(ereq.path)) /\ Len(q) <= Len(Front(ereq.path)) /\ Len(q) \in Nat
      BY <2>1, <3>1, AncestorsOf
    <3>3. IsPrefix(q, ereq.path)
      BY <1>1, <3>1, <3>2, PrefixTrans DEF EPaths
    <3>4. q # ereq.path
      BY <3>1, <3>2
    <3> QED BY <1>1, <3>3, <3>4 DEF EMayWrite, IsStrictPrefix
  <2>2. CASE IsPrefix(ereq.path, q)
    BY <1>1, <2>2 DEF EMayWrite, IsStrictPrefix
  <2> QED BY <1>5, <2>1, <2>2
<1>4. CASE /\ ereq.path # <<>> /\ EDirsOn(Front(ereq.path)) /\ etree' = t
           /\ ework' = [ework EXCEPT !.pc = "done", !.ans = "ok"] /\ EKeep
  <2>2. PICK w : w = [ework EXCEPT !.pc = "done", !.ans = "ok"]
    OBVIOUS
  <2>3. EWorkSound(w) /\ ~EEarly(w) /\ ~ERefusedBy(w)
    BY <2>2, DoneOk
  <2>4. ETreeOk(t) /\ \A q : ESamePlace(t, q) \/ IsPrefix(ereq.path, q) \/ q \in EAncestors(Front(ereq.path))
    BY <1>1, <1>2, <1>4, PutOk
  <2> QED BY <1>1, <1>4, <1>5, <2>2, <2>3, <2>4, ChangeKeeps
<1>6. ASSUME NEW t2, etree' = t2, EFails, ereq.path # <<>>, EDirsOn(Front(ereq.path)),
             t2 \in ERemovedPartly(ereq.path) \/ t2 \in EPartOf(EWithDirs(Front(ereq.path)), DOMAIN etree)
      PROVE  EInd'
  <2>1. ETreeOk(t2) /\ \A q : ESamePlace(t2, q) \/ IsPrefix(ereq.path, q) \/ q \in EAncestors(Front(ereq.path))
    <3>1. CASE t2 \in ERemovedPartly(ereq.path)
      BY <1>1, <3>1, PartRemoved
    <3>2. CASE t2 \in EPartOf(EWithDirs(Front(ereq.path)), DOMAIN etree)
      <4>1. Front(ereq.path) \in EPaths
        BY <1>1, <1>6, FrontOf DEF EPaths
      <4>2. PICK u : u = EWithDirs(Front(ereq.path))
        OBVIOUS
      <4>3. /\ ETreeOk(u) /\ DOMAIN u = DOMAIN etree \cup EAncestors(Front(ereq.path))
            /\ \A q \in DOMAIN etree : u[q] = etree[q]
            /\ \A q : ESamePlace(u, q) \/ q \in EAncestors(Front(ereq.path))
        BY <1>1, <1>6, <4>1, <4>2, WithDirsOk
      <4>4. ETreeOk(t2) /\ \A q : ESamePlace(u, q) => ESamePlace(t2, q)
        BY <1>1, <3>2, <4>2, <4>3, PartAdded
      <4> QED BY <4>3, <4>4
    <3> QED BY <1>6, <3>1, <3>2
  <2> QED BY <1>1, <1>5, <1>6, <2>1, HalfKeeps
<1> QED BY <1>2, <1>3, <1>4, <1>6 DEF EPut, EHalf, ECall, EFails, EAnswer, EFailed, EKeep

LEMMA MoveStartKeeps == ASSUME EInd, EMoveStart \/ ECopyStart \/ ERemoveStart PROVE EInd'
<1>1. EEarly(ework) /\ ereq.op \in {"move", "copy", "remove"} /\ EKeep
  BY DEF EMoveStart, ECopyStart, ERemoveStart, EEarly, EAt
<1>2. CASE EAnswer("denied")
  BY <1>1, <1>2, AnswerStep
<1>3. CASE EGo("check")
  BY <1>1, <1>3, GoStep
<1> QED BY <1>2, <1>3 DEF EMoveStart, ECopyStart, ERemoveStart

LEMMA ChecksKeep == ASSUME EInd, EMoveCheck \/ ECopyCheck \/ ERemoveCheck PROVE EInd'
<1>1. EEarly(ework) /\ ereq.op \in {"move", "copy", "remove"} /\ EKeep /\ ework.pc = "check"
  BY DEF EMoveCheck, ECopyCheck, ERemoveCheck, EEarly, EAt
<1>2. CASE EAnswer("denied") \/ EAnswer("bad") \/ EAnswer("exists")
  BY <1>1, <1>2, AnswerStep
<1>3. CASE EGo("act")
  BY <1>1, <1>3, GoStep
<1>4. CASE ework' = ENextName /\ UNCHANGED etree
  BY <1>1, <1>4, PassedStep
<1>5. CASE /\ ~EAllSeen /\ ework' = [ENextName EXCEPT !.list = Append(@, ENamed)] /\ UNCHANGED etree
           /\ \/ ereq.op = "move" /\ CanWriteTree(ENamed) /\ CanWriteTree(ETarget)
              \/ ereq.op = "copy" /\ CanWriteTree(ETarget)
              \/ ereq.op = "remove" /\ CanWriteTree(ENamed)
  <2>1. PICK x : x = ENamed
    OBVIOUS
  <2>2. x \in EPaths /\ ETarget = EBaseIn(ereq.dst, x)
    BY <1>5, <2>1, ReqFacts DEF ETarget, ENamed
  <2>3. /\ ereq.op = "move" => x \in EMovable
        /\ ereq.op = "copy" => x \in ECopyable
        /\ ereq.op = "remove" => x \in ERemovable
    BY <1>5, <2>1, <2>2 DEF EMovable, ECopyable, ERemovable
  <2>4. ework' = [ENextName EXCEPT !.list = Append(@, x)]
    BY <1>5, <2>1
  <2> QED BY <1>1, <1>5, <2>2, <2>3, <2>4, ListedStep
<1> QED BY <1>2, <1>3, <1>4, <1>5 DEF EMoveCheck, ECopyCheck, ERemoveCheck, EAt

LEMMA TakenIs ==
  ASSUME NEW S, NEW s \in Seq(S), ework.list = s, ework \in ECalls, ~EAllDone
  PROVE  ework.n \in DOMAIN s /\ ework.list[ework.n] \in S
<1>1. ework.n \in Nat \ {0} /\ ~(ework.n > Len(s)) /\ Len(s) \in Nat
  BY DEF ECalls, EAllDone
<1>2. ework.n \in 1..Len(s)
  BY <1>1
<1> QED BY <1>2

LEMMA MoveKeeps == ASSUME EInd, EMove PROVE EInd'
<1>1. /\ ereq.op = "move" /\ ework.pc = "act" /\ ~EAllDone /\ ework \in ECalls /\ ereq.dst \in EPaths
      /\ ework.list \in Seq(EMovable)
  BY ReqFacts DEF EMove, EMoveAct, EAt, EInd, EWorkSound
<1>2. PICK src : src = ework.list[ework.n]
  OBVIOUS
<1>3. PICK dst : dst = EBaseIn(ereq.dst, src)
  OBVIOUS
<1>4. src \in EPaths /\ CanWriteTree(src) /\ CanWriteTree(dst)
  BY <1>1, <1>2, <1>3, TakenIs DEF EMovable
<1>5. CASE EFailed
  BY <1>5, RefusalKeeps
<1>6. CASE src # <<>> /\ EMayLand(src, dst) /\ etree' = EMoved(src, dst) /\ ework' = ENextOne /\ EKeep
  <2>1. dst \in EPaths \ {<<>>}
    BY <1>1, <1>3, <1>4, <1>6, BaseOf
  <2>2. PICK w : w = ENextOne
    OBVIOUS
  <2>3. EWorkSound(w) /\ ~EEarly(w) /\ ~ERefusedBy(w)
    BY <1>1, <2>2, NextOneSound
  <2>4. ereq.op \notin {"renames", "regex"}
    BY <1>1
  <2> QED BY <1>4, <1>6, <2>1, <2>2, <2>3, <2>4, MovedStep
<1> QED BY <1>2, <1>3, <1>5, <1>6 DEF EMove, ECall, EFails, EAnswer, EFailed, EKeep

LEMMA CopyKeeps == ASSUME EInd, ECopy PROVE EInd'
<1>1. /\ ereq.op = "copy" /\ ework.pc = "act" /\ ~EAllDone /\ ework \in ECalls /\ ereq.dst \in EPaths
      /\ ework.list \in Seq(ECopyable) /\ ETreeOk(etree)
  BY ReqFacts DEF ECopy, EAt, EInd, EWorkSound
<1>2. PICK src : src = ework.list[ework.n]
  OBVIOUS
<1>3. PICK dst : dst = EBaseIn(ereq.dst, src)
  OBVIOUS
<1>4. src \in EPaths /\ CanWriteTree(dst) /\ dst \in EPaths
  BY <1>1, <1>2, <1>3, TakenIs, BaseOf DEF ECopyable
<1>5. CASE EFailed
  BY <1>5, RefusalKeeps
<1>6. PICK w : w = ENextOne
  OBVIOUS
<1>7. EWorkSound(w) /\ ~EEarly(w) /\ ~ERefusedBy(w)
  BY <1>1, <1>6, NextOneSound
<1>8. CASE etree' = etree /\ ework' = ENextOne /\ EKeep
  BY <1>6, <1>7, <1>8, QuietStep
<1>9. ASSUME EThere(src), EIsDir(ereq.dst), ~IsPrefix(src, dst), EFree(src, dst),
             NEW t \in EPartOf(EPlaced(DOMAIN etree, src, dst), DOMAIN etree), etree' = t,
             (ework' = ENextOne /\ EKeep) \/ EFails
      PROVE  EInd'
  <2>1. src # <<>>
    BY <1>4, <1>9, PrefixSelf DEF EPaths
  <2>2. src \in DOMAIN etree /\ dst \in EPaths \ {<<>>} /\ Front(dst) = ereq.dst
    BY <1>1, <1>3, <1>4, <1>9, <2>1, BaseOf DEF EThere
  <2>3. PICK u : u = EPlaced(DOMAIN etree, src, dst)
    OBVIOUS
  <2>4. ETreeOk(u) /\ (\A q : ESamePlace(u, q) \/ IsPrefix(dst, q)) /\ \A q \in DOMAIN etree : q \in DOMAIN u /\ u[q] = etree[q]
    BY <1>1, <1>9, <2>2, <2>3, CopiedOk
  <2>7. ETreeOk(t) /\ \A q : ESamePlace(u, q) => ESamePlace(t, q)
    BY <1>1, <1>9, <2>3, <2>4, PartAdded
  <2>5. \A q \in EPaths : ESamePlace(t, q) \/ EMayWrite(q)
    BY <1>4, <2>4, <2>7, WriteOk
  <2>6. ereq.op \notin {"renames", "regex"}
    BY <1>1
  <2>8. CASE ework' = ENextOne /\ EKeep
    BY <1>6, <1>7, <1>9, <2>5, <2>6, <2>7, <2>8, ChangeKeeps
  <2>9. CASE EFails
    BY <1>9, <2>5, <2>6, <2>7, <2>9, HalfKeeps
  <2> QED BY <1>9, <2>8, <2>9
<1>10. CASE \/ EFailed
            \/ etree' = etree /\ ework' = ENextOne /\ EKeep
            \/ /\ EThere(src) /\ EIsDir(ereq.dst) /\ ~IsPrefix(src, dst) /\ EFree(src, dst)
               /\ \E t \in EPartOf(EPlaced(DOMAIN etree, src, dst), DOMAIN etree) :
                    etree' = t /\ ((ework' = ENextOne /\ EKeep) \/ EFails)
  BY <1>5, <1>8, <1>9, <1>10
<1> QED BY <1>2, <1>3, <1>10 DEF ECopy, ECall, EHalf, EFails, EAnswer, EFailed, EKeep, EFree

LEMMA RenameKeeps == ASSUME EInd, ERename PROVE EInd'
<1>1. EEarly(ework) /\ ereq.op = "rename" /\ EKeep
  BY DEF ERename, EEarly, EAt
<1>2. CASE EAnswer("denied") \/ EAnswer("exists") \/ EAnswer("error")
  BY <1>1, <1>2, AnswerStep
<1>3. CASE /\ ereq.path # <<>> /\ CanWriteTree(ereq.path) /\ CanWriteTree(Append(Front(ereq.path), ereq.name))
           /\ EGo("act")
  BY <1>1, <1>3, GoStep
<1> QED BY <1>2, <1>3 DEF ERename

LEMMA RenameActKeeps == ASSUME EInd, ERenameAct PROVE EInd'
<1>1. ereq.op = "rename" /\ ework.pc = "act" /\ ereq.path \in EPaths /\ ereq.name \in ENames
  BY ReqFacts DEF ERenameAct, EAt, EInd, ETyped, EReqOk
<1>2. PICK dst : dst = Append(Front(ereq.path), ereq.name)
  OBVIOUS
<1>3. ereq.path # <<>> /\ CanWriteTree(ereq.path) /\ CanWriteTree(dst)
  BY <1>1, <1>2 DEF EInd, EWorkSound
<1>4. CASE EFailed
  BY <1>4, RefusalKeeps
<1>5. CASE EMayLand(ereq.path, dst) /\ etree' = EMoved(ereq.path, dst) /\ ework' = [ework EXCEPT !.pc = "done", !.ans = "ok"] /\ EKeep
  <2>1. dst \in EPaths \ {<<>>}
    <3>1. Front(ereq.path) \in Seq(ENames)
      BY <1>1, <1>3, FrontOf DEF EPaths
    <3> QED BY <1>1, <1>2, <3>1, PathOfName DEF EPaths
  <2>2. PICK w : w = [ework EXCEPT !.pc = "done", !.ans = "ok"]
    OBVIOUS
  <2>3. EWorkSound(w) /\ ~EEarly(w) /\ ~ERefusedBy(w)
    BY <2>2, DoneOk
  <2>4. ereq.op \notin {"renames", "regex"}
    BY <1>1
  <2> QED BY SMTT(30), <1>1, <1>3, <1>5, <2>1, <2>2, <2>3, <2>4, MovedStep
<1> QED BY <1>2, <1>4, <1>5 DEF ERenameAct, ECall, EFails, EAnswer, EFailed, EKeep

\* What ERemoved does to a tree that may be written.
LEMMA RemovedStep ==
  ASSUME EInd, NEW p \in EPaths, CanWriteTree(p), ereq.op \notin {"renames", "regex"},
         NEW w, ework' = w, EWorkSound(w), ~EEarly(w), ~ERefusedBy(w), etree' = ERemoved(p), EKeep
  PROVE  EInd'
<1>1. ETreeOk(etree)
  BY ReqFacts
<1>2. PICK t : t = ERemoved(p)
  OBVIOUS
<1>3. ETreeOk(t) /\ \A q : ESamePlace(t, q) \/ IsPrefix(p, q)
  BY <1>1, <1>2, RemovedOk
<1>4. \A q \in EPaths : ESamePlace(t, q) \/ EMayWrite(q)
  BY <1>3, WriteOk
<1> QED BY <1>2, <1>3, <1>4, ChangeKeeps

LEMMA RemovedHalf ==
  ASSUME EInd, NEW p \in EPaths, CanWriteTree(p), ereq.op \notin {"renames", "regex"}, EHalf(ERemovedPartly(p))
  PROVE  EInd'
<1>1. ETreeOk(etree)
  BY ReqFacts
<1>2. PICK t \in ERemovedPartly(p) : etree' = t /\ EFails
  BY DEF EHalf
<1>3. ETreeOk(t) /\ \A q : ESamePlace(t, q) \/ IsPrefix(p, q)
  BY <1>1, <1>2, PartRemoved
<1>4. \A q \in EPaths : ESamePlace(t, q) \/ EMayWrite(q)
  BY <1>3, WriteOk
<1> QED BY <1>2, <1>3, <1>4, HalfKeeps

LEMMA RemoveKeeps == ASSUME EInd, ERemove PROVE EInd'
<1>1. /\ ereq.op = "remove" /\ ework.pc = "act" /\ ~EAllDone /\ ework \in ECalls
      /\ ework.list \in Seq(ERemovable)
  BY ReqFacts DEF ERemove, EAt, EInd, EWorkSound
<1>2. PICK p : p = ework.list[ework.n]
  OBVIOUS
<1>4. p \in EPaths /\ CanWriteTree(p)
  BY <1>1, <1>2, TakenIs DEF ERemovable
<1>5. CASE EFailed
  BY <1>5, RefusalKeeps
<1>6. CASE etree' = ERemoved(p) /\ ework' = ENextOne /\ EKeep
  <2>1. PICK w : w = ENextOne
    OBVIOUS
  <2>2. EWorkSound(w) /\ ~EEarly(w) /\ ~ERefusedBy(w)
    BY <1>1, <2>1, NextOneSound
  <2>3. ereq.op \notin {"renames", "regex"}
    BY <1>1
  <2> QED BY <1>4, <1>6, <2>1, <2>2, <2>3, RemovedStep
<1>7. CASE EHalf(ERemovedPartly(p))
  BY <1>1, <1>4, <1>7, RemovedHalf
<1> QED BY <1>2, <1>5, <1>6, <1>7 DEF ERemove, ECall, EFails, EAnswer, EFailed, EKeep

LEMMA FinishKeeps == ASSUME EInd, EFinish \/ ERegexFinish PROVE EInd'
<1>1. EAnswer("ok") /\ EKeep
  BY DEF EFinish, ERegexFinish
<1> QED BY <1>1, AnswerStep

-----------------------------------------------------------------------------
(* FsRecursiveMove and FsRemoveEmptyDirectory stay below their directory *)

LEMMA SomeOrder ==
  ASSUME NEW T, NEW S \in SUBSET T, IsFiniteSet(S), NEW s \in EInSomeOrder(S)
  PROVE  s \in Seq(T) /\ s \in Seq(S)
<1>1. Cardinality(S) \in Nat /\ s \in [1..Cardinality(S) -> S]
  BY FS_CardinalityType DEF EInSomeOrder
<1>2. s \in Seq(S)
  BY <1>1
<1> QED BY <1>2

LEMMA ListedBelow ==
  ASSUME EInd, NEW p \in EPaths, p = ereq.dir \/ p \in EBelow
  PROVE  EListed(p) \subseteq EBelow /\ IsFiniteSet(EListed(p)) /\ ESubDirs(p) \subseteq EBelow /\ IsFiniteSet(ESubDirs(p))
<1>1. ETreeOk(etree) /\ ereq.dir \in EPaths
  BY ReqFacts
<1>2. ESubDirs(p) \subseteq EListed(p) /\ EListed(p) \subseteq DOMAIN etree
  BY DEF ESubDirs, EListed, EMembers
<1>3. IsFiniteSet(EListed(p)) /\ IsFiniteSet(ESubDirs(p))
  BY <1>1, <1>2, FS_Subset DEF ETreeOk
<1>4. ASSUME NEW q \in EListed(p) PROVE q \in EBelow
  <2>1. q \in EPaths /\ q # <<>> /\ Front(q) = p
    BY <1>1 DEF EListed, EMembers, ETreeOk
  <2>2. IsPrefix(p, q) /\ p # q /\ Len(p) = Len(q) - 1 /\ Len(q) \in Nat
    BY <2>1, FrontOf DEF EPaths, IsStrictPrefix
  <2>3. IsPrefix(ereq.dir, p) /\ Len(ereq.dir) <= Len(p)
    BY <1>1, PrefixSelf, PrefixLong DEF EPaths, EBelow, IsStrictPrefix
  <2>4. IsPrefix(ereq.dir, q)
    BY <1>1, <2>1, <2>2, <2>3, PrefixTrans DEF EPaths
  <2>5. ereq.dir # q
    BY <2>2, <2>3
  <2> QED BY <2>1, <2>4, <2>5 DEF EBelow, IsStrictPrefix
<1> QED BY <1>2, <1>3, <1>4

\* What is below the directory may be written when the whole of it may.
LEMMA BelowMay ==
  ASSUME EInd, CanWriteTree(ereq.dir), NEW p \in EBelow
  PROVE  CanWriteTree(p) /\ p \in EPaths /\ p # <<>>
<1>1. ereq.dir \in EPaths /\ p \in EPaths /\ IsPrefix(ereq.dir, p) /\ ereq.dir # p
  BY ReqFacts DEF EBelow, IsStrictPrefix
<1>2. p # <<>>
  BY <1>1, PrefixLong DEF EPaths
<1>3. \A m \in emetas : m.path \in EPaths
  BY DEF EInd, ETyped
<1>4. CanWritePath(p)
  BY <1>1, <1>3, RightsDown
<1>5. \A m \in emetas : IsPrefix(p, m.path) => IsPrefix(ereq.dir, m.path)
  BY <1>1, <1>3, PrefixTrans DEF EPaths
<1> QED BY <1>1, <1>2, <1>4, <1>5 DEF CanWriteTree

LEMMA QueueIs ==
  ASSUME EInd, ereq.op \in {"gather", "empties"}, ework.queue # <<>>
  PROVE  /\ ework.queue \in Seq(EBelow) /\ Head(ework.queue) \in EBelow /\ Tail(ework.queue) \in Seq(EBelow)
         /\ \A s \in Seq(EBelow) : Tail(ework.queue) \o s \in Seq(EBelow)
<1>1. ework.queue \in Seq(EBelow)
  BY DEF EInd, EWorkSound
<1> QED BY <1>1

\* A step that changes the queue, and what goes with it.
LEMMA QueueStep ==
  ASSUME EInd, ereq.op \in {"gather", "empties"}, CanWriteTree(ereq.dir), EKeep, UNCHANGED etree,
         NEW u \in Seq(EBelow), NEW c \in {"look", "listdst", "gather", "remove"},
         NEW seen \in SUBSET ENames, NEW l \in Seq(EBelow),
         ework' = [ework EXCEPT !.queue = u, !.pc = c, !.seen = seen, !.list = l],
         c = "remove" => u # <<>>, c \in {"listdst", "gather"} => EEarly(ework), ework.pc # "done"
  PROVE  EInd'
<1>1. PICK w : w = [ework EXCEPT !.queue = u, !.pc = c, !.seen = seen, !.list = l]
  OBVIOUS
<1>2. ework \in ECalls /\ ework.ans = "none"
  BY ReqFacts
<1>3. u \in Seq(EPaths) /\ l \in Seq(EPaths)
  BY DEF EBelow
<1>4. w \in ECalls
  BY <1>1, <1>2, <1>3 DEF ECalls
<1>5. w.queue = u /\ w.pc = c /\ w.list = l /\ w.ans = "none"
  BY <1>1, <1>2 DEF ECalls
<1>6. EWorkSound(w)
  BY <1>4, <1>5 DEF EWorkSound
<1>7. EEarly(w) \/ ERefusedBy(w) => EEarly(ework)
  BY <1>5 DEF EEarly, ERefusedBy
<1> QED BY <1>1, <1>6, <1>7, QuietStep

LEMMA GatherStartKeeps == ASSUME EInd, EGatherStart \/ EEmptyStart PROVE EInd'
<1>1. EEarly(ework) /\ ework.pc = "start" /\ ereq.op \in {"gather", "empties"} /\ EKeep /\ ework \in ECalls /\ ereq.dir \in EPaths
  BY ReqFacts DEF EGatherStart, EEmptyStart, EEarly, EAt
<1>2. CASE EAnswer("denied") \/ EAnswer("error")
  BY <1>1, <1>2, AnswerStep
<1>3. ASSUME NEW S \in {EListed(ereq.dir), ESubDirs(ereq.dir)}, NEW s \in EInSomeOrder(S), NEW c \in {"listdst", "look"},
             CanWriteTree(ereq.dir), ework' = [ework EXCEPT !.queue = s, !.pc = c], UNCHANGED etree
      PROVE  EInd'
  <2>1. S \subseteq EBelow /\ IsFiniteSet(S)
    BY <1>1, <1>3, ListedBelow
  <2>2. s \in Seq(EBelow)
    BY <1>3, <2>1, SomeOrder
  <2>3. PICK u : u = s
    OBVIOUS
  <2>4. PICK seen : seen = ework.seen
    OBVIOUS
  <2>5. PICK l : l = ework.list
    OBVIOUS
  <2>6. ework' = [ework EXCEPT !.queue = u, !.pc = c, !.seen = seen, !.list = l]
    BY <1>1, <1>3, <2>3, <2>4, <2>5 DEF ECalls
  <2>8. seen \in SUBSET ENames
    BY <1>1, <2>4 DEF ECalls
  <2>9. l \in Seq(EBelow)
    BY <1>1, <2>5 DEF EInd, EWorkSound
  <2>7. seen \in SUBSET ENames /\ l \in Seq(EBelow)
    BY <2>8, <2>9
  <2>10. u \in Seq(EBelow) /\ c \in {"look", "listdst", "gather", "remove"} /\ c # "remove" /\ ework.pc # "done"
    BY <1>1, <2>2, <2>3
  <2>11. CASE c = "listdst"
    BY ZenonT(30), <1>1, <1>3, <2>6, <2>7, <2>10, <2>11, QueueStep
  <2>12. CASE c = "look"
    BY ZenonT(30), <1>1, <1>3, <2>6, <2>7, <2>10, <2>12, QueueStep
  <2> QED BY <2>11, <2>12
<1>4. CASE EGatherStart /\ ~EAnswer("denied") /\ ~EAnswer("error")
  BY <1>3, <1>4 DEF EGatherStart
<1>5. CASE EEmptyStart /\ ~EAnswer("denied") /\ ~EAnswer("error")
  BY <1>3, <1>5 DEF EEmptyStart
<1> QED BY <1>2, <1>4, <1>5

LEMMA ListDstKeeps == ASSUME EInd, EListDst PROVE EInd'
<1>1. /\ EEarly(ework) /\ ework.pc = "listdst" /\ ereq.op = "gather" /\ EKeep /\ ework \in ECalls /\ ereq.dst \in EPaths
      /\ CanWriteTree(ereq.dir) /\ ETreeOk(etree)
  BY ReqFacts DEF EListDst, EEarly, EAt, EInd, EWorkSound
<1>2. CASE EAnswer("error")
  BY <1>1, <1>2, AnswerStep
<1>3. CASE EGo("gather")
  BY <1>1, <1>3, GoStep
<1>4. CASE ework' = [ework EXCEPT !.seen = {Last(q) : q \in EListed(ereq.dst)}, !.pc = "gather"] /\ UNCHANGED etree
  <2>1. PICK seen : seen = {Last(q) : q \in EListed(ereq.dst)}
    OBVIOUS
  <2>2. \A q \in EListed(ereq.dst) : q \in EPaths /\ q # <<>>
    BY <1>1 DEF EListed, EMembers, ETreeOk
  <2>3. seen \in SUBSET ENames
    BY <2>1, <2>2, FrontOf DEF EPaths
  <2>4. PICK u : u = ework.queue
    OBVIOUS
  <2>5. PICK l : l = ework.list
    OBVIOUS
  <2>6. ework' = [ework EXCEPT !.queue = u, !.pc = "gather", !.seen = seen, !.list = l]
    BY <1>1, <1>4, <2>1, <2>4, <2>5 DEF ECalls
  <2>7. u \in Seq(EBelow) /\ l \in Seq(EBelow)
    BY <1>1, <2>4, <2>5 DEF EInd, EWorkSound
  <2> QED BY <1>1, <1>4, <2>3, <2>6, <2>7, QueueStep
<1> QED BY <1>2, <1>3, <1>4 DEF EListDst

LEMMA GatherKeeps == ASSUME EInd, EGather PROVE EInd'
<1>1. /\ EEarly(ework) /\ ework.pc = "gather" /\ ereq.op = "gather" /\ EKeep /\ ework \in ECalls
      /\ CanWriteTree(ereq.dir) /\ ETreeOk(etree) /\ ework.list \in Seq(EBelow)
  BY ReqFacts DEF EGather, EEarly, EAt, EInd, EWorkSound
<1>2. CASE EAnswer("exists")
  BY <1>1, <1>2, AnswerStep
<1>3. CASE EGo("act")
  BY <1>1, <1>3, GoStep
<1>4. CASE ework.queue # <<>> /\ ~EAnswer("exists") /\ ~EGo("act")
  <2>1. PICK p : p = Head(ework.queue)
    OBVIOUS
  <2>2. PICK tl : tl = Tail(ework.queue)
    OBVIOUS
  <2>3. p \in EBelow /\ tl \in Seq(EBelow) /\ \A s \in Seq(EBelow) : tl \o s \in Seq(EBelow)
    BY <1>1, <1>4, <2>1, <2>2, QueueIs
  <2>4. p \in EPaths /\ p # <<>> /\ Last(p) \in ENames
    BY <1>1, <2>3, BelowMay, FrontOf DEF EPaths
  <2>5. PICK w : w = [ework EXCEPT !.queue = tl]
    OBVIOUS
  <2>6. w = [ework EXCEPT !.queue = Tail(@)]
    BY <1>1, <2>2, <2>5 DEF ECalls
  <2>7. ASSUME NEW u \in Seq(EBelow), NEW seen \in SUBSET ENames, NEW l \in Seq(EBelow),
               ework' = [ework EXCEPT !.queue = u, !.pc = "gather", !.seen = seen, !.list = l], UNCHANGED etree
        PROVE  EInd'
    BY ZenonT(30), <1>1, <2>7, QueueStep
  <2>8. ework.seen \in SUBSET ENames
    BY <1>1 DEF ECalls
  <2>9. CASE ework' = w /\ UNCHANGED etree
    <3>1. ework' = [ework EXCEPT !.queue = tl, !.pc = "gather", !.seen = ework.seen, !.list = ework.list]
      BY <1>1, <2>5, <2>9 DEF ECalls
    <3> QED BY <1>1, <2>3, <2>7, <2>8, <2>9, <3>1
  <2>10. ASSUME NEW s \in EInSomeOrder(EListed(p)), ework' = [w EXCEPT !.queue = @ \o s], UNCHANGED etree PROVE EInd'
    <3>1. s \in Seq(EBelow)
      BY <2>3, <2>4, ListedBelow, SomeOrder
    <3>2. PICK u : u = tl \o s
      OBVIOUS
    <3>3. ework' = [ework EXCEPT !.queue = u, !.pc = "gather", !.seen = ework.seen, !.list = ework.list]
      BY <1>1, <2>5, <2>10, <3>2 DEF ECalls
    <3>4. u \in Seq(EBelow) /\ ework.list \in Seq(EBelow)
      BY <1>1, <2>3, <3>1, <3>2
    <3> QED BY <2>7, <2>8, <2>10, <3>3, <3>4
  <2>11. CASE ework' = [w EXCEPT !.seen = ETaken(Last(p)), !.list = Append(@, p)] /\ UNCHANGED etree
    <3>1. PICK seen : seen = ETaken(Last(p))
      OBVIOUS
    <3>2. PICK l : l = Append(ework.list, p)
      OBVIOUS
    <3>3. seen \in SUBSET ENames /\ l \in Seq(EBelow)
      BY <1>1, <2>3, <2>4, <2>8, <3>1, <3>2 DEF ETaken
    <3>4. ework' = [ework EXCEPT !.queue = tl, !.pc = "gather", !.seen = seen, !.list = l]
      BY <1>1, <2>5, <2>11, <3>1, <3>2 DEF ECalls
    <3> QED BY <2>3, <2>7, <2>11, <3>3, <3>4
  <2> QED BY <1>4, <2>1, <2>6, <2>9, <2>10, <2>11 DEF EGather
<1> QED BY <1>2, <1>3, <1>4 DEF EGather

LEMMA GatheredKeeps == ASSUME EInd, EGathered PROVE EInd'
<1>1. /\ ereq.op = "gather" /\ ework.pc = "act" /\ ~EAllDone /\ ework \in ECalls /\ ereq.dst \in EPaths
      /\ ework.list \in Seq(EBelow) /\ CanWriteTree(ereq.dir)
  BY ReqFacts DEF EGathered, EAt, EInd, EWorkSound
<1>2. PICK src : src = ework.list[ework.n]
  OBVIOUS
<1>3. PICK dst : dst = Append(ereq.dst, Last(src))
  OBVIOUS
<1>4. src \in EPaths /\ src # <<>> /\ CanWriteTree(src)
  BY <1>1, <1>2, TakenIs, BelowMay
<1>5. CASE EFailed
  BY <1>5, RefusalKeeps
<1>6. CASE EAnswer("denied") /\ EKeep
  BY <1>1, <1>6, AnswerStep
<1>7. CASE CanWriteTree(dst) /\ EMayLand(src, dst) /\ etree' = EMoved(src, dst) /\ ework' = ENextOne /\ EKeep
  <2>1. dst \in EPaths \ {<<>>}
    BY <1>1, <1>3, <1>4, FrontOf, PathOfName DEF EPaths
  <2>2. PICK w : w = ENextOne
    OBVIOUS
  <2>3. EWorkSound(w) /\ ~EEarly(w) /\ ~ERefusedBy(w)
    BY <1>1, <2>2, NextOneSound
  <2>4. ereq.op \notin {"renames", "regex"}
    BY <1>1
  <2> QED BY SMTT(30), <1>4, <1>7, <2>1, <2>2, <2>3, <2>4, MovedStep
<1> QED BY <1>2, <1>3, <1>5, <1>6, <1>7 DEF EGathered, ECall, EFails, EAnswer, EFailed, EKeep

LEMMA EmptyLookKeeps == ASSUME EInd, EEmptyLook PROVE EInd'
<1>1. /\ ework.pc = "look" /\ ereq.op = "empties" /\ EKeep /\ ework \in ECalls
      /\ CanWriteTree(ereq.dir) /\ ETreeOk(etree) /\ ework.list \in Seq(EBelow) /\ ework.seen \in SUBSET ENames
  BY ReqFacts DEF EEmptyLook, EAt, EInd, EWorkSound, ECalls
<1>2. CASE EAnswer("ok") \/ EAnswer("error")
  BY <1>1, <1>2, AnswerStep
<1>3. CASE ework.queue # <<>> /\ ~EAnswer("ok") /\ ~EAnswer("error")
  <2>1. PICK p : p = Head(ework.queue)
    OBVIOUS
  <2>2. PICK tl : tl = Tail(ework.queue)
    OBVIOUS
  <2>3. p \in EBelow /\ tl \in Seq(EBelow) /\ (\A s \in Seq(EBelow) : tl \o s \in Seq(EBelow)) /\ ework.queue \in Seq(EBelow)
    BY <1>1, <1>3, <2>1, <2>2, QueueIs
  <2>4. p \in EPaths
    BY <2>3 DEF EBelow
  <2>5. PICK w : w = [ework EXCEPT !.queue = tl]
    OBVIOUS
  <2>6. w = [ework EXCEPT !.queue = Tail(@)]
    BY <1>1, <2>2, <2>5 DEF ECalls
  <2>7. ASSUME NEW u \in Seq(EBelow), NEW c \in {"look", "remove"}, c = "remove" => u # <<>>,
               ework' = [ework EXCEPT !.queue = u, !.pc = c, !.seen = ework.seen, !.list = ework.list], UNCHANGED etree
        PROVE  EInd'
    <3>1. PICK seen : seen = ework.seen
      OBVIOUS
    <3>2. PICK l : l = ework.list
      OBVIOUS
    <3>3. ework' = [ework EXCEPT !.queue = u, !.pc = c, !.seen = seen, !.list = l] /\ seen \in SUBSET ENames /\ l \in Seq(EBelow)
      BY <1>1, <2>7, <3>1, <3>2
    <3> QED BY ZenonT(30), <1>1, <2>7, <3>3, QueueStep
  <2>8. CASE ework' = w /\ UNCHANGED etree
    <3>1. ework' = [ework EXCEPT !.queue = tl, !.pc = "look", !.seen = ework.seen, !.list = ework.list]
      BY <1>1, <2>5, <2>8 DEF ECalls
    <3> QED BY <2>3, <2>7, <2>8, <3>1
  <2>9. CASE ework' = [ework EXCEPT !.pc = "remove"] /\ UNCHANGED etree
    <3>1. ework' = [ework EXCEPT !.queue = ework.queue, !.pc = "remove", !.seen = ework.seen, !.list = ework.list]
      BY <1>1, <2>9 DEF ECalls
    <3> QED BY <1>3, <2>3, <2>7, <2>9, <3>1
  <2>10. ASSUME NEW s \in EInSomeOrder(ESubDirs(p)), ework' = [w EXCEPT !.queue = @ \o s], UNCHANGED etree PROVE EInd'
    <3>1. s \in Seq(EBelow)
      BY <2>3, <2>4, ListedBelow, SomeOrder
    <3>2. PICK u : u = tl \o s
      OBVIOUS
    <3>3. ework' = [ework EXCEPT !.queue = u, !.pc = "look", !.seen = ework.seen, !.list = ework.list]
      BY <1>1, <2>5, <2>10, <3>2 DEF ECalls
    <3> QED BY <2>3, <2>7, <2>10, <3>1, <3>2, <3>3
  <2> QED BY <1>3, <2>1, <2>6, <2>8, <2>9, <2>10 DEF EEmptyLook
<1> QED BY <1>2, <1>3 DEF EEmptyLook

LEMMA EmptyRemoveKeeps == ASSUME EInd, EEmptyRemove PROVE EInd'
<1>1. /\ ereq.op = "empties" /\ ework.pc = "remove" /\ ework \in ECalls /\ ereq.dir \in EPaths
      /\ CanWriteTree(ereq.dir) /\ ework.queue # <<>> /\ ework.list \in Seq(EBelow)
  BY ReqFacts DEF EEmptyRemove, EAt, EInd, EWorkSound
<1>2. PICK p : p = Head(ework.queue)
  OBVIOUS
<1>3. p \in EBelow /\ \A s \in Seq(EBelow) : Tail(ework.queue) \o s \in Seq(EBelow)
  BY <1>1, <1>2, QueueIs
<1>4. p \in EPaths /\ p # <<>> /\ CanWriteTree(p)
  BY <1>1, <1>3, BelowMay
<1>5. CASE EFailed
  BY <1>5, RefusalKeeps
<1>6. CASE etree' = ERemoved(p) /\ EKeep
           /\ ework' = [ework EXCEPT !.pc = "look", !.gone = @ \cup {p}, !.queue = Tail(@) \o ELookAgain(p)]
  <2>1. ELookAgain(p) \in Seq(EBelow)
    <3>1. CASE Front(p) = ereq.dir
      BY <3>1 DEF ELookAgain
    <3>2. CASE Front(p) # ereq.dir
      <4>1. Front(p) \in EPaths /\ IsPrefix(ereq.dir, Front(p))
        BY <1>1, <1>3, <1>4, FrontOf DEF EPaths, EBelow
      <4>2. Front(p) \in EBelow
        BY <3>2, <4>1 DEF EBelow, IsStrictPrefix
      <4> QED BY <3>2, <4>2 DEF ELookAgain
    <3> QED BY <3>1, <3>2
  <2>2. PICK u : u = Tail(ework.queue) \o ELookAgain(p)
    OBVIOUS
  <2>3. PICK g : g = ework.gone \cup {p}
    OBVIOUS
  <2>4. PICK w : w = [ework EXCEPT !.pc = "look", !.gone = g, !.queue = u]
    OBVIOUS
  <2>5. ework' = w
    BY <1>1, <1>6, <2>2, <2>3, <2>4 DEF ECalls
  <2>6. u \in Seq(EBelow) /\ u \in Seq(EPaths) /\ g \in SUBSET EPaths
    BY <1>1, <1>3, <1>4, <2>1, <2>2, <2>3 DEF EBelow, ECalls
  <2>7. w \in ECalls
    BY <1>1, <2>4, <2>6 DEF ECalls
  <2>8. w.pc = "look" /\ w.ans = ework.ans /\ w.queue = u /\ w.list = ework.list /\ ework.ans = "none"
    BY <1>1, <2>4, ReqFacts DEF ECalls
  <2>9. EWorkSound(w) /\ ~EEarly(w) /\ ~ERefusedBy(w)
    BY <1>1, <2>6, <2>7, <2>8 DEF EWorkSound, EEarly, ERefusedBy
  <2>10. ereq.op \notin {"renames", "regex"}
    BY <1>1
  <2> QED BY <1>4, <1>6, <2>5, <2>9, <2>10, RemovedStep
<1>7. CASE EHalf(ERemovedPartly(p))
  BY <1>1, <1>4, <1>7, RemovedHalf
<1> QED BY <1>2, <1>5, <1>6, <1>7 DEF EEmptyRemove, ECall, EFails, EAnswer, EFailed, EKeep

-----------------------------------------------------------------------------
(* FsBatchRename and FsRegexRename; other clients; all steps *)

LEMMA RenamesStartKeeps == ASSUME EInd, ERenamesStart \/ ERegexStart PROVE EInd'
<1>1. EEarly(ework) /\ ework.pc = "start" /\ ereq.op \in {"renames", "regex"} /\ EKeep /\ ework \in ECalls /\ ereq.renames \in Seq(ERenamesOf)
      /\ ETreeOk(etree)
  BY ReqFacts DEF ERenamesStart, ERegexStart, EEarly, EAt, EInd, ETyped, EReqOk, ERenamesOf
<1>2. CASE EAnswer("denied") \/ EAnswer("error")
  BY <1>1, <1>2, AnswerStep
<1>3. ASSUME NEW l \in Seq(ERenamesOf), ework' = [ework EXCEPT !.list = l, !.pc = "act"], UNCHANGED etree PROVE EInd'
  <2>1. PICK w : w = [ework EXCEPT !.list = l, !.pc = "act"]
    OBVIOUS
  <2>2. w \in ECalls
    BY <1>1, <2>1 DEF ECalls
  <2>3. w.pc = "act" /\ w.ans = "none" /\ w.list = l
    BY <1>1, <2>1, ReqFacts DEF ECalls
  <2>4. EWorkSound(w)
    BY <1>1, <2>2, <2>3 DEF EWorkSound
  <2> QED BY <1>1, <1>3, <2>1, <2>4, QuietStep
<1>4. CASE ERenamesStart /\ ~EAnswer("denied")
  BY <1>1, <1>3, <1>4 DEF ERenamesStart
<1>5. CASE ERegexStart /\ ~EAnswer("denied") /\ ~EAnswer("error")
  <2> DEFINE S == {q \in EListed(ereq.dir) : \E n \in DOMAIN ereq.renames : ereq.renames[n].from = Last(q)}
             L(s) == [n \in DOMAIN s |-> CHOOSE r \in ToSet(ereq.renames) : r.from = Last(s[n])]
  <2>1. PICK s \in EInSomeOrder(S) : ework' = [ework EXCEPT !.pc = "act", !.list = L(s)] /\ UNCHANGED etree
    BY <1>5 DEF ERegexStart
  <2>2. S \subseteq EPaths /\ IsFiniteSet(S)
    <3>1. S \subseteq DOMAIN etree
      BY DEF EListed, EMembers
    <3> QED BY <1>1, <3>1, FS_Subset DEF ETreeOk
  <2>3. \A q \in S : \E r \in ToSet(ereq.renames) : r.from = Last(q)
    BY DEF ToSet
  <2>4. ToSet(ereq.renames) \subseteq ERenamesOf
    BY <1>1 DEF ToSet
  <2> HIDE DEF S
  <2>5. s \in Seq(S)
    BY <2>2, SomeOrder
  <2>6. \A n \in DOMAIN s : s[n] \in S
    BY <2>5
  <2>7. \A n \in DOMAIN s : (CHOOSE r \in ToSet(ereq.renames) : r.from = Last(s[n])) \in ERenamesOf
    BY <2>3, <2>4, <2>6
  <2>8. L(s) \in [1..Len(s) -> ERenamesOf] /\ Len(s) \in Nat
    BY <2>5, <2>7
  <2>9. L(s) \in Seq(ERenamesOf)
    <3> HIDE DEF L
    <3> QED BY <2>8
  <2>10. PICK l : l = L(s)
    OBVIOUS
  <2>11. ework' = [ework EXCEPT !.list = l, !.pc = "act"]
    <3> HIDE DEF L
    <3> QED BY <1>1, <2>1, <2>10 DEF ECalls
  <2>12. l \in Seq(ERenamesOf)
    BY <2>9, <2>10
  <2> QED BY <1>3, <2>1, <2>11, <2>12
<1> QED BY <1>2, <1>4, <1>5

LEMMA RenameOneKeeps == ASSUME EInd, ERenameOne PROVE EInd'
<1>1. /\ ereq.op \in {"renames", "regex"} /\ ework.pc = "act" /\ ~EAllDone /\ ework \in ECalls /\ ereq.dir \in EPaths
      /\ ework.list \in Seq(ERenamesOf)
  BY ReqFacts DEF ERenameOne, EInd, EWorkSound
<1>2. PICK r : r = ework.list[ework.n]
  OBVIOUS
<1>9. r \in ERenamesOf
  BY <1>1, <1>2, TakenIs
<1>3. r.from \in ENames /\ r.to \in ENames
  BY <1>9 DEF ERenamesOf
<1>4. PICK src : src = Append(ereq.dir, r.from)
  OBVIOUS
<1>5. PICK dst : dst = Append(ereq.dir, r.to)
  OBVIOUS
<1>6. CASE EFailed
  BY <1>6, RefusalKeeps
<1>7. CASE EAnswer("denied") /\ EKeep
  BY <1>1, <1>7, AnswerStep
<1>8. CASE CanWriteTree(src) /\ CanWriteTree(dst) /\ EMayLand(src, dst) /\ etree' = EMoved(src, dst) /\ ework' = ENextOne /\ EKeep
  <2>1. src \in EPaths /\ dst \in EPaths \ {<<>>} /\ Len(src) = Len(dst)
    BY <1>1, <1>3, <1>4, <1>5, PathOfName DEF EPaths
  <2>2. PICK w : w = ENextOne
    OBVIOUS
  <2>3. EWorkSound(w) /\ ~EEarly(w) /\ ~ERefusedBy(w)
    BY <1>1, <2>2, NextOneSound
  <2> QED BY <1>8, <2>1, <2>2, <2>3, MovedStep
<1> QED BY <1>2, <1>4, <1>5, <1>6, <1>7, <1>8 DEF ERenameOne, ECall, EFails, EAnswer, EFailed, EKeep, ERefused

LEMMA UploadKeeps == ASSUME EInd, EAssumption, NEW p \in EUploads, EUpload(p) PROVE EInd'
<1>1. /\ p \in EPaths \ {<<>>} /\ p \notin DOMAIN etree /\ EIsDir(Front(p)) /\ eother.up = {} /\ ETreeOk(etree)
      /\ UNCHANGED <<eorig, emetas, ereq, ework>>
  BY ReqFacts DEF EAssumption, EUpload
<1>2. PICK t : t = [q \in DOMAIN etree \cup {p} |-> IF q = p THEN "other" ELSE etree[q]]
  OBVIOUS
<1>3. ETreeOk(t) /\ DOMAIN t = DOMAIN etree \cup {p} /\ t[p] = "other" /\ \A q \in DOMAIN etree : t[q] = etree[q]
  BY <1>1, <1>2, UploadedOk
<1>4. etree' = t
  BY <1>2 DEF EUpload
<1>5. eother' \in [up : SUBSET EPaths, faults : Nat] /\ eother'.up = {p}
  BY <1>1 DEF EUpload, EInd, ETyped
<1>6. EWorkSound(ework)'
  <2>1. PICK w : w = ework
    OBVIOUS
  <2>2. EWorkSound(w) /\ ework' = w
    BY <1>1, <2>1 DEF EInd
  <2> QED BY <1>1, <2>2, WorkStays
<1>7. ETyped'
  BY <1>1, <1>3, <1>4, <1>5 DEF EInd, ETyped
<1>8. EPast'
  <2>1. ASSUME EUntouched PROVE EUntouched'
    <3>1. DOMAIN etree = DOMAIN eorig /\ \A q \in DOMAIN eorig : etree[q] = eorig[q]
      BY <1>1, <2>1 DEF EUntouched
    <3>2. (DOMAIN etree \cup {p}) \ {p} = DOMAIN eorig
      BY <1>1, <3>1
    <3> QED BY <1>1, <1>3, <1>4, <1>5, <3>1, <3>2 DEF EUntouched
  <2> QED BY <1>1, <2>1 DEF EInd, EPast, EEarly, ERefusedBy
<1>9. EWithinRights'
  <2>1. \A q : CanWritePath(q)' <=> CanWritePath(q)
    BY <1>1 DEF CanWritePath, CanWriteBy, NearestMetas, MetaCoversPath
  <2>2. ASSUME NEW q \in (DOMAIN t \cup DOMAIN eorig) \ {p}
        PROVE  \/ q \in DOMAIN t /\ q \in DOMAIN eorig /\ t[q] = eorig[q]
               \/ EMayWrite(q)
    BY <1>1, <1>3, <2>2 DEF EInd, EWithinRights, EMayWrite
  <2> QED BY <1>1, <1>4, <1>5, <2>1, <2>2 DEF EWithinRights, EMayWrite
<1>10. ESameDepth'
  BY <1>1, <1>3, <1>4 DEF EInd, ESameDepth, EFrom
<1> QED BY <1>6, <1>7, <1>8, <1>9, <1>10 DEF EInd

LEMMA HandlerBegins == ASSUME EAssumption, EInit PROVE EInd
<1>1. /\ ETreeOk(etree) /\ ETreeOk(eorig) /\ EReqOk(ereq) /\ (\A m \in emetas : m.path \in EPaths) /\ eorig = etree
      /\ ework = EFresh /\ eother = ENoOther
  BY DEF EAssumption, EInit
<1>2. ETyped
  BY <1>1 DEF ETyped, ENoOther
<1>3. /\ ework \in ECalls /\ ework.pc = "start" /\ ework.ans = "none" /\ ework.list = <<>> /\ ework.queue = <<>>
  BY <1>1 DEF EFresh, ECalls
<1>4. EWorkSound(ework)
  BY <1>3 DEF EWorkSound
<1>5. EPast /\ EWithinRights /\ ESameDepth
  BY <1>1 DEF EPast, EUntouched, EWithinRights, ESameDepth, EFrom, ENoOther
<1> QED BY <1>2, <1>4, <1>5 DEF EInd

LEMMA HandlerSteps == ASSUME EAssumption, EInd, [ENext]_handlerVars PROVE EInd'
<1>1. CASE EMkdir \/ EUploadStart \/ EStream \/ EForm \/ EPut
  BY <1>1, MkdirKeeps, UploadStartKeeps, LookKeeps, PutKeeps
<1>2. CASE EMoveStart \/ EMoveCheck \/ EMove \/ ECopyStart \/ ECopyCheck \/ ECopy
  BY <1>2, MoveStartKeeps, ChecksKeep, MoveKeeps, CopyKeeps
<1>3. CASE ERename \/ ERenameAct \/ ERemoveStart \/ ERemoveCheck \/ ERemove \/ EFinish
  BY <1>3, RenameKeeps, RenameActKeeps, MoveStartKeeps, ChecksKeep, RemoveKeeps, FinishKeeps
<1>4. CASE EGatherStart \/ EListDst \/ EGather \/ EGathered
  BY <1>4, GatherStartKeeps, ListDstKeeps, GatherKeeps, GatheredKeeps
<1>5. CASE EEmptyStart \/ EEmptyLook \/ EEmptyRemove
  BY <1>5, GatherStartKeeps, EmptyLookKeeps, EmptyRemoveKeeps
<1>6. CASE ERenamesStart \/ ERegexStart \/ ERenameOne \/ ERegexFinish
  BY <1>6, RenamesStartKeeps, RenameOneKeeps, FinishKeeps
<1>7. CASE \E p \in EUploads : EUpload(p)
  BY <1>7, UploadKeeps
<1>8. CASE UNCHANGED handlerVars
  <2>1. PICK w : w = ework
    OBVIOUS
  <2>2. /\ EWorkSound(w) /\ ework' = w /\ UNCHANGED <<etree, eorig, emetas, ereq>> /\ eother' = eother
        /\ eother' \in [up : SUBSET EPaths, faults : Nat]
    BY <1>8, <2>1 DEF EInd, ETyped, handlerVars
  <2>3. CASE EEarly(w) \/ ~ERefusedBy(w)
    BY <2>1, <2>2, <2>3, QuietKeeps
  <2>4. CASE ERefusedBy(w) /\ ~EEarly(w)
    BY <1>8 DEF EInd, ETyped, EWorkSound, EPast, EUntouched, EEarly, ERefusedBy, EWithinRights, ESameDepth, EFrom, handlerVars,
                CanWritePath, CanWriteBy, NearestMetas, MetaCoversPath, CanWriteTree, EMovable, ECopyable, ERemovable, EBelow
  <2> QED BY <2>3, <2>4
<1> QED BY <1>1, <1>2, <1>3, <1>4, <1>5, <1>6, <1>7, <1>8 DEF ENext

LEMMA HandlerKeeps == EInd => EWithinRights /\ ERefusedUntouched /\ ERenamesStay
<1> SUFFICES ASSUME EInd PROVE ERefusedUntouched /\ ERenamesStay
  BY DEF EInd
<1>1. ETreeOk(etree) /\ ETreeOk(eorig)
  BY ReqFacts
<1>2. EUntouched => Restrict(etree, DOMAIN etree \ eother.up) = eorig
  BY <1>1 DEF EUntouched, Restrict, ETreeOk
<1>3. ERefusedUntouched
  BY <1>2 DEF EInd, EPast, ERefusedUntouched, ERefusedBy
<1>4. ERenamesStay
  BY DEF EInd, ESameDepth, EFrom, ERenamesStay
<1> QED BY <1>3, <1>4
-----------------------------------------------------------------------------
(* What each request has still to do, and what it has kept until then           *)

\* The listings of the request lead to p: p or what is above it waits to be looked at.
ELed(u, p) == \E k \in DOMAIN u : IsPrefix(u[k], p)
EEmptying == ereq.op = "empties" /\ eother.up = {} =>
  /\ \A q \in DOMAIN etree : q \in DOMAIN eorig /\ etree[q] = eorig[q]
  /\ ework.gone \cap DOMAIN etree = {}
  /\ ework.pc \in {"look", "remove"} =>
       \A p \in DOMAIN etree : etree[p] = "dir" /\ IsStrictPrefix(ereq.dir, p) /\ EShown(p) => EListed(p) # {} \/ ELed(ework.queue, p)
\* The destination has the name x, or the handler w is to move a file of that name.
EComes(w, x) == Append(ereq.dst, x) \in DOMAIN etree \/ \E k \in DOMAIN w.list : k >= w.n /\ Last(w.list[k]) = x
EFileBelow(p) == eorig[p] # "dir" /\ IsStrictPrefix(ereq.dir, p) /\ EShown(p)
ENamesCome(w) == w.n = 1 /\ \A x \in w.seen : EComes(w, x)
EFilesCome(w) == \A p \in DOMAIN eorig : EFileBelow(p) => ELed(w.queue, p) \/ EComes(w, Last(p))
ELeads(w) ==
  /\ w.pc \in {"start", "listdst", "gather"} => ENamesCome(w)
  /\ w.pc \in {"listdst", "gather", "act"} => EFilesCome(w)
  /\ w.pc = "act" => w.queue = <<>>
EGathersAll == ereq.op = "gather" => ELeads(ework)

\* A file that the request keeps.
ECounted(p) == p \in DOMAIN eorig /\ eorig[p] # "dir" /\ EShown(p) /\ ~EToRemove(p) /\ ~EUnseen(p)
ETo(p) == EBaseIn(ereq.dst, p)
EDirsAt(t) == {q \in DOMAIN t : t[q] = "dir"}
EShownAtDst == {Last(q) : q \in {x \in DOMAIN eorig : eorig[x] # "dir" /\ Front(x) = ereq.dst /\ EShown(x)}}
\* What is at q is not replaced by what the handler w has still to move.
ESafe(w, q) ==
  \A k \in DOMAIN w.list : k >= w.n /\ IsPrefix(ETo(w.list[k]), q) => ereq.op = "gather" /\ ETo(w.list[k]) \in EDirsAt(eorig)
EMoving(w) == \A p \in DOMAIN eorig : ECounted(p) => \E q \in DOMAIN etree : etree[q] = eorig[p] /\ ESafe(w, q)
EStays == \A p \in DOMAIN eorig : ECounted(p) => p \in DOMAIN etree /\ etree[p] = eorig[p]
ENamedOnes(w) == \A k \in DOMAIN w.list : \E m \in DOMAIN ereq.names : m < w.i /\ w.list[k] = EJoin(ereq.dir, ereq.names[m])
EApart(w) ==
  \A k \in DOMAIN w.list :
    /\ w.list[k] # <<>> /\ ETo(w.list[k]) \in (EPaths \ DOMAIN eorig) \cup ereq.blind
    /\ \A j \in DOMAIN w.list : ETo(w.list[j]) = ETo(w.list[k]) => j = k
EBare(w) == \A p \in DOMAIN eorig : ECounted(p) => ~IsPrefix(Head(w.queue), p)
\* What is gathered are files, whose names are not those of files that the destination shows.
EChosen(w) ==
  \A k \in DOMAIN w.list :
    /\ w.list[k] \notin EDirsAt(eorig) /\ Last(w.list[k]) \in w.seen \ EShownAtDst
    /\ \A j \in DOMAIN w.list : Last(w.list[j]) = Last(w.list[k]) => j = k
EStayNext(w) ==
  /\ ereq.op = "remove" => ENamedOnes(w)
  /\ ereq.op \in {"stream", "form"} /\ w.pc = "put" => ereq.path \in (EPaths \ DOMAIN eorig) \cup ereq.blind
  /\ ereq.op = "empties" /\ w.pc = "remove" => EBare(w)
EInPlace == {"mkdir", "copy", "remove", "empties", "stream", "form"}
EKeepsPlace(w) == ereq.op \in EInPlace => EStays /\ EStayNext(w)
EKeepsNamed(w) == ereq.op = "rename" /\ w.pc = "act" =>
  EUntouched /\ Append(Front(ereq.path), ereq.name) \in {ereq.path} \cup (EPaths \ DOMAIN eorig) \cup ereq.blind
EKeepsMoved(w) == ereq.op = "move" => ENamedOnes(w) /\ EApart(w) /\ (w.pc = "act" => EMoving(w))
EKeepsGathered(w) == ereq.op = "gather" =>
  /\ EDirsAt(etree) = EDirsAt(eorig) /\ EChosen(w)
  /\ w.pc \in {"start", "listdst"} => w.list = <<>>
  /\ w.pc = "gather" => EShownAtDst \subseteq w.seen
  /\ w.pc = "act" => EMoving(w)
EKeeping(w) == EKeepsPlace(w) /\ EKeepsNamed(w) /\ EKeepsMoved(w) /\ EKeepsGathered(w)
EKeptInd == EKept /\ (ework.pc # "done" /\ ~EMayReplace => EKeeping(ework))
EGoneInd == EEmptiesGone /\ EEmptying
EAllInd == EAllGathered /\ EGathersAll
EFilesInd == EInd /\ EKeptInd /\ EGoneInd /\ EAllInd
-----------------------------------------------------------------------------
(* What is on the way to a path of a tree                                       *)

\* A path above one of a tree is a directory of it.
LEMMA ClosedTree ==
  ASSUME NEW t, ETreeOk(t), NEW q \in EPaths \ {<<>>}, NEW p \in DOMAIN t, IsStrictPrefix(q, p)
  PROVE  q \in DOMAIN t /\ t[q] = "dir"
<1> DEFINE A == {a \in DOMAIN t : IsStrictPrefix(q, a)}
           T == {Len(a) : a \in A}
           R == OpToRel(<, Nat)
<1>1. DOMAIN t \subseteq EPaths \ {<<>>} /\ p \in A /\ q \in Seq(ENames)
  BY DEF ETreeOk, EPaths
<1>2. T \subseteq Nat /\ T # {}
  <2>1. \A a \in A : Len(a) \in Nat
    BY <1>1 DEF EPaths
  <2> QED BY <1>1, <2>1
<1>3. IsWellFoundedOn(R, T)
  BY <1>2, NatLessThanWellFounded, IsWellFoundedOnSubset
<1>4. PICK n \in T : \A k \in T : ~(<<k, n>> \in R)
  BY <1>2, <1>3, WFMin
<1>5. \A k \in T : ~(k < n)
  BY <1>2, <1>4 DEF OpToRel
<1>6. PICK a \in A : n = Len(a)
  BY <1>4
<1>7. a \in Seq(ENames) /\ a # <<>> /\ a \in DOMAIN t /\ IsStrictPrefix(q, a)
  BY <1>1 DEF EPaths
<1>8. /\ Front(a) \in Seq(ENames) /\ Len(Front(a)) = Len(a) - 1 /\ IsPrefix(q, Front(a)) /\ Len(a) \in Nat
  BY <1>1, <1>7, FrontOf
<1>9. Front(a) # <<>>
  BY <1>1, <1>8, PrefixLong
<1>10. Front(a) \in DOMAIN t /\ t[Front(a)] = "dir"
  BY <1>7, <1>9 DEF ETreeOk
<1>11. Len(Front(a)) \notin T
  BY <1>5, <1>6, <1>8
<1>12. ~IsStrictPrefix(q, Front(a))
  BY <1>10, <1>11
<1> QED BY <1>8, <1>10, <1>12 DEF IsStrictPrefix

\* The member of h on the way to a path below it.
LEMMA ChildOnWay ==
  ASSUME NEW t, ETreeOk(t), NEW h \in EPaths, NEW p \in DOMAIN t, IsStrictPrefix(h, p)
  PROVE  \E c \in DOMAIN t : /\ c # <<>> /\ Front(c) = h /\ IsStrictPrefix(h, c) /\ IsPrefix(c, p)
                             /\ c # p => IsStrictPrefix(c, p) /\ t[c] = "dir"
<1>1. p \in Seq(ENames) /\ h \in Seq(ENames) /\ p # <<>>
  BY DEF ETreeOk, EPaths
<1>2. IsPrefix(h, p) /\ h # p
  BY DEF IsStrictPrefix
<1>3. Len(h) \in Nat /\ Len(p) \in Nat /\ Len(h) < Len(p) /\ \A i \in 1..Len(h) : h[i] = p[i]
  BY <1>1, <1>2, PrefixLong, PrefixMeans
<1>4. PICK x \in ENames : x = p[Len(h) + 1]
  BY <1>1, <1>3
<1>5. PICK c : c = Append(h, x)
  OBVIOUS
<1>6. c \in Seq(ENames) /\ Len(c) = Len(h) + 1 /\ c # <<>> /\ Front(c) = h
  BY <1>1, <1>5, PathOfName
<1>7. IsStrictPrefix(h, c)
  BY <1>6, FrontOf
<1>8. \A i \in 1..Len(c) : c[i] = p[i]
  <2>1. ASSUME NEW i \in 1..Len(c) PROVE c[i] = p[i]
    <3>1. CASE i = Len(h) + 1
      BY <1>1, <1>3, <1>4, <1>5, <3>1
    <3>2. CASE i \in 1..Len(h)
      BY <1>1, <1>3, <1>5, <3>2
    <3> QED BY <1>3, <1>6, <3>1, <3>2
  <2> QED BY <2>1
<1>9. IsPrefix(c, p)
  BY <1>1, <1>3, <1>6, <1>8, PrefixMeans
<1>10. c # p => IsStrictPrefix(c, p)
  BY <1>9 DEF IsStrictPrefix
<1>11. c # p => c \in DOMAIN t /\ t[c] = "dir"
  BY <1>6, <1>10, ClosedTree DEF EPaths
<1> QED BY <1>6, <1>7, <1>9, <1>10, <1>11

\* What is at or below a file is the file.
LEMMA FileAlone ==
  ASSUME NEW t, ETreeOk(t), NEW q \in EPaths \ {<<>>}, ~(q \in DOMAIN t /\ t[q] = "dir"), NEW p \in DOMAIN t, IsPrefix(q, p)
  PROVE  p = q
BY ClosedTree DEF IsStrictPrefix

\* A list in some order has every element.
LEMMA EveryOne ==
  ASSUME NEW S, IsFiniteSet(S), NEW s \in EInSomeOrder(S), NEW x \in S
  PROVE  \E k \in DOMAIN s : s[k] = x
<1> DEFINE N == Cardinality(S)
<1>1. N \in Nat /\ s \in [1..N -> S]
  BY FS_CardinalityType DEF EInSomeOrder
<1>2. s \in Injection(1..N, S)
  BY <1>1 DEF EInSomeOrder, Injection, IsInjective
<1>3. Cardinality(1..N) = N
  BY <1>1, FS_Interval
<1>4. s \in Surjection(1..N, S)
  BY <1>2, <1>3, FS_Injection
<1> QED BY <1>1, <1>4 DEF Surjection

\* A listing shows what the user may see, see EShown.
LEMMA ShownIsListed ==
  ASSUME EInd, NEW h \in EPaths, h = ereq.dir \/ h \in EBelow, NEW p \in DOMAIN etree, IsStrictPrefix(h, p),
         p \in DOMAIN eorig, etree[p] = eorig[p], EShown(p)
  PROVE  \E c \in EListed(h) : /\ IsPrefix(c, p) /\ c \in DOMAIN etree /\ (c # p => etree[c] = "dir")
<1>1. ETreeOk(etree) /\ ereq.dir \in EPaths /\ h \in Seq(ENames) /\ p \in EPaths
  BY ReqFacts DEF ETreeOk, EPaths
<1>2. PICK c \in DOMAIN etree : /\ c # <<>> /\ Front(c) = h /\ IsStrictPrefix(h, c) /\ IsPrefix(c, p)
                                /\ c # p => IsStrictPrefix(c, p) /\ etree[c] = "dir"
  BY <1>1, ChildOnWay
<1>3. c \in EMembers(h) /\ c \in EPaths \ {<<>>}
  BY <1>1, <1>2 DEF EMembers, ETreeOk
<1>4. IsStrictPrefix(ereq.dir, c)
  <2>1. CASE h = ereq.dir
    BY <1>2, <2>1
  <2>2. CASE h \in EBelow
    <3>1. IsPrefix(ereq.dir, h) /\ ereq.dir # h /\ IsPrefix(h, c) /\ c # h
      BY <1>2, <2>2 DEF EBelow, IsStrictPrefix
    <3>2. IsPrefix(ereq.dir, c)
      BY <1>1, <1>3, <3>1, PrefixTrans DEF EPaths
    <3>3. Len(ereq.dir) < Len(h) /\ Len(h) <= Len(c) /\ Len(ereq.dir) \in Nat /\ Len(h) \in Nat
      <4>1. Len(ereq.dir) \in Nat /\ Len(h) \in Nat /\ Len(ereq.dir) <= Len(h) /\ Len(ereq.dir) # Len(h)
        BY <1>1, <3>1, PrefixLong DEF EPaths
      <4>2. Len(h) <= Len(c)
        BY <1>1, <1>3, <3>1, PrefixLong DEF EPaths
      <4> QED BY <4>1, <4>2
    <3>4. ereq.dir # c
      BY <3>3
    <3> QED BY <3>2, <3>4 DEF IsStrictPrefix
  <2> QED BY <2>1, <2>2
<1>5. CASE c = p
  BY <1>2, <1>3, <1>5 DEF EListed, EShown
<1>6. CASE c # p
  <2>1. c \in EAncestors(p) \ {p}
    BY <1>1, <1>2, <1>3, <1>6, AncestorsOf
  <2>2. CanReadPath(c)
    BY <1>4, <2>1 DEF EShown
  <2> QED BY <1>2, <1>3, <1>6, <2>2 DEF EListed
<1> QED BY <1>5, <1>6

-----------------------------------------------------------------------------
(* What a step leaves as it is                                                  *)

LEMMA SameJudged ==
  ASSUME UNCHANGED <<eorig, emetas, ereq>>
  PROVE  /\ \A p : EShown(p)' <=> EShown(p)
         /\ \A p : ECounted(p)' <=> ECounted(p)
         /\ (EMayReplace)' <=> EMayReplace
         /\ EDirsAt(eorig)' = EDirsAt(eorig) /\ EShownAtDst' = EShownAtDst
<1>1. \A p : CanReadPath(p)' <=> CanReadPath(p)
  BY DEF CanReadPath, CanReadBy, NearestMetas, MetaCoversPath
<1>2. \A p : CanReadBy(NearestMetas(ereq.dir), p)' <=> CanReadBy(NearestMetas(ereq.dir), p)
  BY DEF CanReadBy, NearestMetas, MetaCoversPath
<1>3. \A p : EShown(p)' <=> EShown(p)
  BY <1>1, <1>2 DEF EShown
<1>4. \A p : EToRemove(p)' <=> EToRemove(p)
  BY DEF EToRemove
<1>5. \A p : ECounted(p)' <=> ECounted(p)
  BY <1>3, <1>4 DEF ECounted, EUnseen
<1>6. (EMayReplace)' <=> EMayReplace
  BY DEF EMayReplace, EAlike
<1>7. EDirsAt(eorig)' = EDirsAt(eorig)
  BY DEF EDirsAt
<1>8. EShownAtDst' = EShownAtDst
  BY <1>3 DEF EShownAtDst
<1> QED BY <1>3, <1>5, <1>6, <1>7, <1>8

\* What a listing shows, and what is below it.
LEMMA SameListed ==
  ASSUME UNCHANGED <<etree, emetas, ereq>>
  PROVE  \A p : EListed(p)' = EListed(p)
<1>1. \A p : CanReadPath(p)' <=> CanReadPath(p)
  BY DEF CanReadPath, CanReadBy, NearestMetas, MetaCoversPath
<1>2. \A p : CanReadBy(NearestMetas(ereq.dir), p)' <=> CanReadBy(NearestMetas(ereq.dir), p)
  BY DEF CanReadBy, NearestMetas, MetaCoversPath
<1> QED BY <1>1, <1>2 DEF EListed, EMembers

\* The members of a sequence are its head and those of its tail.
LEMMA HeadOrTail ==
  ASSUME NEW S, NEW s \in Seq(S), s # <<>>
  PROVE  /\ \A k \in DOMAIN s : s[k] = Head(s) \/ \E j \in DOMAIN Tail(s) : Tail(s)[j] = s[k]
         /\ \A j \in DOMAIN Tail(s) : \E k \in DOMAIN s : s[k] = Tail(s)[j]
<1>1. Len(s) \in Nat /\ Len(s) > 0 /\ DOMAIN s = 1..Len(s) /\ Head(s) = s[1]
  OBVIOUS
<1>2. Tail(s) \in Seq(S) /\ Len(Tail(s)) = Len(s) - 1 /\ \A j \in 1..Len(Tail(s)) : Tail(s)[j] = s[j + 1]
  OBVIOUS
<1>3. DOMAIN Tail(s) = 1..(Len(s) - 1)
  BY <1>1, <1>2
<1>4. ASSUME NEW k \in DOMAIN s, k # 1 PROVE k - 1 \in DOMAIN Tail(s) /\ Tail(s)[k - 1] = s[k]
  BY <1>1, <1>2, <1>3, <1>4
<1>5. ASSUME NEW j \in DOMAIN Tail(s) PROVE j + 1 \in DOMAIN s /\ s[j + 1] = Tail(s)[j]
  BY <1>1, <1>2, <1>3, <1>5
<1> QED BY <1>1, <1>4, <1>5

EHasAll(u, s) == \A j \in DOMAIN s : \E k \in DOMAIN u : u[k] = s[j]
\* Two sequences after each other have the members of both.
LEMMA BothJoined ==
  ASSUME NEW S, NEW s \in Seq(S), NEW r \in Seq(S), NEW u, u = s \o r
  PROVE  EHasAll(u, s) /\ EHasAll(u, r)
<1>1. Len(s) \in Nat /\ Len(r) \in Nat /\ DOMAIN s = 1..Len(s) /\ DOMAIN r = 1..Len(r)
  OBVIOUS
<1>2. /\ u \in Seq(S) /\ Len(u) = Len(s) + Len(r)
      /\ \A i \in 1..Len(s) : u[i] = s[i]
      /\ \A i \in 1..Len(r) : u[Len(s) + i] = r[i]
  BY JoinedPath
<1>3. DOMAIN u = 1..(Len(s) + Len(r))
  BY <1>1, <1>2
<1>4. ASSUME NEW j \in DOMAIN s PROVE j \in DOMAIN u /\ u[j] = s[j]
  BY <1>1, <1>2, <1>3, <1>4
<1>5. ASSUME NEW j \in DOMAIN r PROVE Len(s) + j \in DOMAIN u /\ u[Len(s) + j] = r[j]
  BY <1>1, <1>2, <1>3, <1>5
<1> QED BY <1>4, <1>5 DEF EHasAll

LEMMA ImageSelf ==
  ASSUME NEW S, NEW p \in Seq(S), NEW q \in Seq(S)
  PROVE  EImage(p, p, q) = q
<1>1. PICK e : e = EImage(p, p, q)
  OBVIOUS
<1>2. IsPrefix(p, p)
  BY PrefixSelf
<1>3. e \in Seq(S) /\ IsPrefix(q, e) /\ Len(e) = Len(q) + (Len(p) - Len(p))
  BY <1>1, <1>2, ImageOf
<1>4. Len(p) \in Nat /\ Len(q) \in Nat
  OBVIOUS
<1>5. Len(e) = Len(q)
  BY <1>3, <1>4
<1> QED BY <1>1, <1>3, <1>5, PrefixLong

-----------------------------------------------------------------------------
(* FsRemoveEmptyDirectory looks at every directory again that may have become   *)
(* empty                                                                        *)

\* p is a directory of the tree that the request's listings show.
EDirShown(p) == etree[p] = "dir" /\ IsStrictPrefix(ereq.dir, p) /\ EShown(p)
\* p is not empty, or the queue u leads to it.
EFullOr(u, p) == EListed(p) # {} \/ ELed(u, p)

LEMMA OtherGone ==
  ASSUME EGoneInd, ereq.op # "empties", UNCHANGED ereq
  PROVE  EGoneInd'
BY DEF EGoneInd, EEmptiesGone, EEmptying

LEMMA EmptyQuiet ==
  ASSUME EGoneInd, UNCHANGED <<etree, eorig, emetas, ereq>>, eother'.up = eother.up,
         NEW w, ework' = w, w.gone = ework.gone, w.ans # "ok",
         ereq.op = "empties" /\ eother.up = {} /\ w.pc \in {"look", "remove"} =>
           \A p \in DOMAIN etree : EDirShown(p) => EFullOr(w.queue, p)
  PROVE  EGoneInd'
<1>1. EEmptiesGone'
  BY DEF EEmptiesGone
<1>2. \A p : (EListed(p)' = EListed(p)) /\ (EShown(p)' <=> EShown(p))
  BY SameListed, SameJudged
<1>3. EEmptying'
  BY <1>2 DEF EGoneInd, EEmptying, EDirShown, EFullOr
<1> QED BY <1>1, <1>3 DEF EGoneInd

LEMMA EmptyFails ==
  ASSUME EInd, EGoneInd, NEW a \in {"error", "denied"}, EAnswer(a), UNCHANGED <<eorig, emetas, ereq>>, eother'.up = eother.up
  PROVE  EGoneInd'
<1>1. PICK w : w = [ework EXCEPT !.pc = "done", !.ans = a]
  OBVIOUS
<1>2. ework \in ECalls
  BY ReqFacts
<1>3. w.pc = "done" /\ w.ans = a /\ w.gone = ework.gone
  BY <1>1, <1>2 DEF ECalls
<1>4. ework' = w /\ etree' = etree
  BY <1>1 DEF EAnswer
<1> QED BY <1>3, <1>4, EmptyQuiet

LEMMA UpStays == ASSUME EInd, EFailed PROVE eother'.up = eother.up
BY DEF EInd, ETyped, EFailed

\* The directories below h that are shown are below its members that are listed.
LEMMA DirsLed ==
  ASSUME EInd, EEmptying, ereq.op = "empties", eother.up = {}, NEW h \in EPaths, h = ereq.dir \/ h \in EBelow,
         NEW s \in EInSomeOrder(ESubDirs(h)), NEW p \in DOMAIN etree, EDirShown(p), IsStrictPrefix(h, p)
  PROVE  ELed(s, p)
<1>1. p \in DOMAIN eorig /\ etree[p] = eorig[p]
  BY DEF EEmptying
<1>2. EShown(p) /\ etree[p] = "dir"
  BY DEF EDirShown
<1>3. PICK c \in EListed(h) : /\ IsPrefix(c, p) /\ c \in DOMAIN etree /\ (c # p => etree[c] = "dir")
  BY <1>1, <1>2, ShownIsListed
<1>4. c \in ESubDirs(h) /\ IsFiniteSet(ESubDirs(h))
  BY <1>2, <1>3, ListedBelow DEF ESubDirs
<1>5. PICK k \in DOMAIN s : s[k] = c
  BY <1>4, EveryOne
<1> QED BY <1>3, <1>5 DEF ELed

LEMMA EmptyStartGone == ASSUME EInd, EGoneInd, EEmptyStart PROVE EGoneInd'
<1>1. EKeep /\ ework \in ECalls /\ ework.ans = "none" /\ ereq.op = "empties" /\ ework.pc = "start" /\ ereq.dir \in EPaths
  BY ReqFacts DEF EEmptyStart, EAt
<1>2. UNCHANGED <<eorig, emetas, ereq, eother>>
  BY <1>1 DEF EKeep
<1>3. CASE EAnswer("denied") \/ EAnswer("error")
  BY <1>2, <1>3, EmptyFails
<1>4. ASSUME NEW s \in EInSomeOrder(ESubDirs(ereq.dir)), ework' = [ework EXCEPT !.queue = s, !.pc = "look"], UNCHANGED etree
      PROVE  EGoneInd'
  <2>1. PICK w : w = [ework EXCEPT !.queue = s, !.pc = "look"]
    OBVIOUS
  <2>2. w.gone = ework.gone /\ w.ans # "ok" /\ w.queue = s
    BY <1>1, <2>1 DEF ECalls
  <2>3. ASSUME eother.up = {}, NEW p \in DOMAIN etree, EDirShown(p) PROVE EFullOr(w.queue, p)
    <3>1. IsStrictPrefix(ereq.dir, p)
      BY <2>3 DEF EDirShown
    <3> QED BY <1>1, <1>4, <2>2, <2>3, <3>1, DirsLed DEF EFullOr, EGoneInd
  <2> QED BY <1>2, <1>4, <2>1, <2>2, <2>3, EmptyQuiet
<1> QED BY <1>3, <1>4 DEF EEmptyStart

LEMMA EmptyLookGone == ASSUME EInd, EGoneInd, EEmptyLook PROVE EGoneInd'
<1>1. /\ EKeep /\ ework \in ECalls /\ ework.ans = "none" /\ ereq.op = "empties" /\ ework.pc = "look" /\ ETreeOk(etree)
      /\ ework.queue \in Seq(EBelow)
  BY ReqFacts DEF EEmptyLook, EAt, EInd, EWorkSound
<1>2. UNCHANGED <<eorig, emetas, ereq, eother>> /\ EEmptying
  BY <1>1 DEF EKeep, EGoneInd
<1>3. CASE EAnswer("error")
  BY <1>2, <1>3, EmptyFails
<1>4. CASE ework.queue = <<>> /\ EAnswer("ok")
  <2>1. etree' = etree /\ ework' = [ework EXCEPT !.pc = "done", !.ans = "ok"]
    BY <1>4 DEF EAnswer
  <2>2. ework'.gone = ework.gone /\ ework'.pc = "done"
    BY <1>1, <2>1 DEF ECalls
  <2>3. \A p : (EListed(p)' = EListed(p)) /\ (EShown(p)' <=> EShown(p))
    BY <1>2, <2>1, SameListed, SameJudged
  <2>4. EEmptying'
    BY <1>2, <2>1, <2>2 DEF EEmptying
  <2>5. EEmptiesGone'
    BY <1>1, <1>2, <1>4, <2>1, <2>3 DEF EEmptying, EEmptiesGone, ELed
  <2> QED BY <2>4, <2>5 DEF EGoneInd
<1>5. CASE ework.queue # <<>> /\ ~EAnswer("error")
  <2>1. PICK h : h = Head(ework.queue)
    OBVIOUS
  <2>2. PICK tl : tl = Tail(ework.queue)
    OBVIOUS
  <2>3. h \in EBelow /\ tl \in Seq(EBelow) /\ h \in EPaths /\ h \in Seq(ENames) /\ h # <<>>
    <3>1. h \in EBelow /\ tl \in Seq(EBelow)
      BY <1>1, <1>5, <2>1, <2>2, QueueIs
    <3>2. h \in EPaths /\ IsStrictPrefix(ereq.dir, h) /\ ereq.dir \in EPaths
      BY <3>1, ReqFacts DEF EBelow
    <3> QED BY <3>1, <3>2, PrefixLong DEF EPaths, IsStrictPrefix
  <2>4. \A k \in DOMAIN ework.queue : ework.queue[k] = h \/ \E j \in DOMAIN tl : tl[j] = ework.queue[k]
    BY <1>1, <1>5, <2>1, <2>2, HeadOrTail
  \* Only what was queued through h is to be led to anew.
  <2>5. ASSUME NEW u, \A j \in DOMAIN tl : \E k \in DOMAIN u : u[k] = tl[j],
               NEW w, w.gone = ework.gone, w.ans # "ok", w.queue = u, ework' = w, UNCHANGED etree,
               eother.up = {} => \A p \in DOMAIN etree : EDirShown(p) /\ IsPrefix(h, p) => EFullOr(u, p)
        PROVE  EGoneInd'
    <3>1. ASSUME eother.up = {}, NEW p \in DOMAIN etree, EDirShown(p) PROVE EFullOr(u, p)
      <4>1. CASE IsPrefix(h, p)
        BY <2>5, <3>1, <4>1
      <4>2. CASE ~IsPrefix(h, p)
        <5>1. EFullOr(ework.queue, p)
          BY <1>1, <1>2, <3>1 DEF EEmptying, EDirShown, EFullOr
        <5> QED BY <2>4, <2>5, <4>2, <5>1 DEF EFullOr, ELed
      <4> QED BY <4>1, <4>2
    <3> QED BY <1>2, <2>5, <3>1, EmptyQuiet
  <2>6. PICK v : v = [ework EXCEPT !.queue = tl]
    OBVIOUS
  <2>7. v = [ework EXCEPT !.queue = Tail(@)] /\ v.gone = ework.gone /\ v.ans # "ok" /\ v.queue = tl
    BY <1>1, <2>2, <2>6 DEF ECalls
  <2>8. CASE h \in ework.gone /\ ework' = v /\ UNCHANGED etree
    <3>1. ASSUME eother.up = {}, NEW p \in DOMAIN etree, EDirShown(p), IsPrefix(h, p) PROVE FALSE
      <4>1. h \notin DOMAIN etree
        BY <1>1, <1>2, <2>8, <3>1 DEF EEmptying
      <4>2. h # p
        BY <3>1, <4>1
      <4>3. IsStrictPrefix(h, p)
        BY <3>1, <4>2 DEF IsStrictPrefix
      <4>4. h \in EPaths \ {<<>>}
        BY <2>3
      <4> QED BY <1>1, <4>1, <4>3, <4>4, ClosedTree
    <3> QED BY <2>5, <2>7, <2>8, <3>1
  <2>9. CASE EListed(h) = {} /\ EIsDir(h) /\ ework' = [ework EXCEPT !.pc = "remove"] /\ UNCHANGED etree
    <3>1. PICK w : w = [ework EXCEPT !.pc = "remove"]
      OBVIOUS
    <3>2. w.gone = ework.gone /\ w.ans # "ok" /\ w.queue = ework.queue
      BY <1>1, <3>1 DEF ECalls
    <3>3. ASSUME eother.up = {}, NEW p \in DOMAIN etree, EDirShown(p) PROVE EFullOr(w.queue, p)
      BY <1>1, <1>2, <3>2, <3>3 DEF EEmptying, EDirShown, EFullOr
    <3> QED BY <1>2, <2>9, <3>1, <3>2, <3>3, EmptyQuiet
  <2>10. ASSUME EListed(h) # {}, NEW s \in EInSomeOrder(ESubDirs(h)), ework' = [v EXCEPT !.queue = @ \o s], UNCHANGED etree PROVE EGoneInd'
    <3>1. s \in Seq(EBelow)
      BY <2>3, ListedBelow, SomeOrder
    <3>2. PICK u : u = tl \o s
      OBVIOUS
    <3>3. PICK w : w = [v EXCEPT !.queue = @ \o s]
      OBVIOUS
    <3>4. w.gone = ework.gone /\ w.ans # "ok" /\ w.queue = u
      BY <1>1, <2>6, <3>2, <3>3 DEF ECalls
    <3>5. (\A j \in DOMAIN tl : \E k \in DOMAIN u : u[k] = tl[j]) /\ \A j \in DOMAIN s : \E k \in DOMAIN u : u[k] = s[j]
      <4>1. PICK S : S = EBelow
        OBVIOUS
      <4>2. tl \in Seq(S) /\ s \in Seq(S)
        BY <2>3, <3>1, <4>1
      <4>3. EHasAll(u, tl) /\ EHasAll(u, s)
        BY <3>2, <4>2, BothJoined
      <4> QED BY <4>3 DEF EHasAll
    <3>6. ASSUME eother.up = {}, NEW p \in DOMAIN etree, EDirShown(p), IsPrefix(h, p) PROVE EFullOr(u, p)
      <4>1. CASE h = p
        BY <2>10, <4>1 DEF EFullOr
      <4>2. CASE h # p
        <5>1. IsStrictPrefix(h, p)
          BY <3>6, <4>2 DEF IsStrictPrefix
        <5>2. ELed(s, p)
          BY <1>1, <1>2, <2>3, <2>10, <3>6, <5>1, DirsLed
        <5> QED BY <3>5, <5>2 DEF EFullOr, ELed
      <4> QED BY <4>1, <4>2
    <3> QED BY <2>5, <2>10, <3>3, <3>4, <3>5, <3>6
  <2> QED BY <1>5, <2>1, <2>7, <2>8, <2>9, <2>10 DEF EEmptyLook
<1> QED BY <1>3, <1>4, <1>5 DEF EEmptyLook

LEMMA EmptyRemoveGone == ASSUME EInd, EInd', EGoneInd, EEmptyRemove PROVE EGoneInd'
<1>1. /\ ereq.op = "empties" /\ ework.pc = "remove" /\ ework \in ECalls /\ ework.ans = "none" /\ ereq.dir \in EPaths
      /\ ework.queue # <<>> /\ ework.queue \in Seq(EBelow) /\ ETreeOk(etree)
  BY ReqFacts DEF EEmptyRemove, EAt, EInd, EWorkSound
<1>2. PICK h : h = Head(ework.queue)
  OBVIOUS
<1>3. PICK tl : tl = Tail(ework.queue)
  OBVIOUS
<1>4. h \in EBelow /\ tl \in Seq(EBelow) /\ h \in EPaths /\ h \in Seq(ENames) /\ h # <<>>
  <2>1. h \in EBelow /\ tl \in Seq(EBelow)
    BY <1>1, <1>2, <1>3, QueueIs
  <2>2. h \in EPaths /\ IsStrictPrefix(ereq.dir, h)
    BY <2>1 DEF EBelow
  <2> QED BY <1>1, <2>1, <2>2, PrefixLong DEF EPaths, IsStrictPrefix
<1>5. CASE EFailed
  <2>1. EAnswer("error") /\ UNCHANGED <<eorig, emetas, ereq>> /\ eother'.up = eother.up
    BY <1>5, UpStays DEF EFailed
  <2> QED BY <2>1, EmptyFails
<1>6. CASE etree' = ERemoved(h) /\ EKeep
           /\ ework' = [ework EXCEPT !.pc = "look", !.gone = @ \cup {h}, !.queue = Tail(@) \o ELookAgain(h)]
  <2>1. UNCHANGED <<eorig, emetas, ereq, eother>> /\ EEmptying
    BY <1>6 DEF EKeep, EGoneInd
  <2>2. PICK t : t = ERemoved(h)
    OBVIOUS
  <2>3. /\ DOMAIN t = {q \in DOMAIN etree : ~IsPrefix(h, q)} /\ \A q \in DOMAIN t : t[q] = etree[q]
    BY <1>1, <1>4, <2>2, RemovedOk
  <2>4. PICK r : r = ELookAgain(h)
    OBVIOUS
  <2>5. Front(h) \in EPaths /\ IsPrefix(ereq.dir, Front(h)) /\ Front(h) \in Seq(ENames)
    BY <1>1, <1>4, FrontOf DEF EPaths, EBelow
  <2>6. r \in Seq(EBelow) /\ (Front(h) # ereq.dir => \E k \in DOMAIN r : r[k] = Front(h))
    <3>1. CASE Front(h) = ereq.dir
      BY <2>4, <3>1 DEF ELookAgain
    <3>2. CASE Front(h) # ereq.dir
      <4>1. Front(h) \in EBelow
        BY <2>5, <3>2 DEF EBelow, IsStrictPrefix
      <4>2. r = <<Front(h)>>
        BY <2>4, <3>2 DEF ELookAgain
      <4>3. r \in Seq(EBelow) /\ 1 \in DOMAIN r /\ r[1] = Front(h)
        BY <4>1, <4>2
      <4> QED BY <4>3
    <3> QED BY <3>1, <3>2
  <2>7. PICK u : u = tl \o r
    OBVIOUS
  <2>8. (\A j \in DOMAIN tl : \E k \in DOMAIN u : u[k] = tl[j]) /\ \A j \in DOMAIN r : \E k \in DOMAIN u : u[k] = r[j]
    <3>1. PICK S : S = EBelow
      OBVIOUS
    <3>2. tl \in Seq(S) /\ r \in Seq(S)
      BY <1>4, <2>6, <3>1
    <3>3. EHasAll(u, tl) /\ EHasAll(u, r)
      BY <2>7, <3>2, BothJoined
    <3> QED BY <3>3 DEF EHasAll
  <2>9. ework'.pc = "look" /\ ework'.gone = ework.gone \cup {h} /\ ework'.queue = u /\ ework'.ans = "none"
    BY <1>1, <1>3, <1>6, <2>4, <2>7 DEF ECalls
  <2>10. etree' = t
    BY <1>6, <2>2
  <2>11. \A p : EShown(p)' <=> EShown(p)
    BY <2>1, SameJudged
  <2>12. \A p \in DOMAIN t : \A c \in EListed(p) : c \in DOMAIN t => c \in EListed(p)'
    <3>1. \A p : CanReadPath(p)' <=> CanReadPath(p)
      BY <2>1 DEF CanReadPath, CanReadBy, NearestMetas, MetaCoversPath
    <3>2. \A p : CanReadBy(NearestMetas(ereq.dir), p)' <=> CanReadBy(NearestMetas(ereq.dir), p)
      BY <2>1 DEF CanReadBy, NearestMetas, MetaCoversPath
    <3> QED BY <2>3, <2>10, <3>1, <3>2 DEF EListed, EMembers
  <2>13. ASSUME eother.up = {}, NEW p \in DOMAIN t, t[p] = "dir", IsStrictPrefix(ereq.dir, p), EShown(p)
         PROVE  EListed(p)' # {} \/ ELed(u, p)
    <3>1. p \in DOMAIN etree /\ ~IsPrefix(h, p) /\ etree[p] = "dir" /\ p \in EPaths /\ p \in Seq(ENames)
      BY <1>1, <2>3, <2>13 DEF ETreeOk, EPaths
    <3>2. CASE EListed(p) # {}
      <4>1. PICK c \in EListed(p) : TRUE
        BY <3>2
      <4>2. c \in DOMAIN etree /\ c # <<>> /\ Front(c) = p /\ c \in Seq(ENames)
        BY <1>1, <4>1 DEF EListed, EMembers, ETreeOk, EPaths
      <4>3. CASE c \in DOMAIN t
        BY <2>12, <4>1, <4>3
      <4>4. CASE c \notin DOMAIN t
        <5>1. IsPrefix(h, c)
          BY <2>3, <4>2, <4>4
        <5>2. c = h
          BY <1>4, <3>1, <4>2, <5>1, FrontOf DEF IsStrictPrefix
        <5>3. Front(h) = p /\ p # ereq.dir
          BY <2>13, <4>2, <5>2 DEF IsStrictPrefix
        <5>4. PICK k \in DOMAIN u : u[k] = p
          BY <2>6, <2>8, <5>3
        <5>5. IsPrefix(p, p)
          BY <3>1, PrefixSelf
        <5> QED BY <5>4, <5>5 DEF ELed
      <4> QED BY <4>3, <4>4
    <3>3. CASE EListed(p) = {}
      <4>1. PICK k \in DOMAIN ework.queue : IsPrefix(ework.queue[k], p)
        BY <1>1, <2>1, <2>13, <3>1, <3>3 DEF EEmptying, ELed
      <4>2. ework.queue[k] # h
        BY <3>1, <4>1
      <4>3. \E j \in DOMAIN tl : tl[j] = ework.queue[k]
        BY <1>1, <1>2, <1>3, <4>2, HeadOrTail
      <4>4. PICK j \in DOMAIN tl : tl[j] = ework.queue[k]
        BY <4>3
      <4> QED BY <2>8, <4>1, <4>4 DEF ELed
    <3> QED BY <3>2, <3>3
  <2>14. EEmptiesGone'
    BY <2>9 DEF EEmptiesGone
  <2>15. h \notin DOMAIN t
    BY <1>4, <2>3, PrefixSelf
  <2>16. EEmptying'
    <3>1. ASSUME eother.up = {} PROVE (\A q \in DOMAIN t : q \in DOMAIN eorig /\ t[q] = eorig[q]) /\ ework'.gone \cap DOMAIN t = {}
      BY <1>1, <2>1, <2>3, <2>9, <2>15, <3>1 DEF EEmptying
    <3> QED BY <2>1, <2>9, <2>10, <2>11, <2>13, <3>1 DEF EEmptying, ELed
  <2> QED BY <2>14, <2>16 DEF EGoneInd
<1>7. CASE EHalf(ERemovedPartly(h))
  <2>1. UNCHANGED <<eorig, emetas, ereq>> /\ eother'.up = eother.up /\ EEmptying
    BY <1>7 DEF EHalf, EFails, EGoneInd, EInd, ETyped
  <2>2. PICK t \in ERemovedPartly(h) : etree' = t
    BY <1>7 DEF EHalf
  <2>3. \A q \in DOMAIN t : q \in DOMAIN etree /\ t[q] = etree[q]
    BY <1>1, <1>4, <2>2, PartRemoved
  <2>4. ework'.pc = "done" /\ ework'.gone = ework.gone /\ ework'.ans = "error"
    BY <1>1, <1>7 DEF EHalf, EFails, ECalls
  <2>5. ASSUME eother.up = {} PROVE (\A q \in DOMAIN t : q \in DOMAIN eorig /\ t[q] = eorig[q]) /\ ework'.gone \cap DOMAIN t = {}
    BY <1>1, <2>1, <2>3, <2>4, <2>5 DEF EEmptying
  <2>6. EEmptying'
    BY <2>1, <2>2, <2>4, <2>5 DEF EEmptying
  <2>7. EEmptiesGone'
    BY <2>4 DEF EEmptiesGone
  <2> QED BY <2>6, <2>7 DEF EGoneInd
<1> QED BY <1>2, <1>5, <1>6, <1>7 DEF EHalf, EEmptyRemove, ECall, EFails, EAnswer, EFailed, EKeep

LEMMA GoneBegins == ASSUME EAssumption, EInit PROVE EGoneInd
<1>1. eorig = etree /\ ework = EFresh
  BY DEF EInit
<1>2. ework.pc = "start" /\ ework.gone = {} /\ ework.ans = "none"
  BY <1>1 DEF EFresh
<1> QED BY <1>1, <1>2 DEF EGoneInd, EEmptiesGone, EEmptying

LEMMA GoneSteps == ASSUME EInd, EInd', EGoneInd, [ENext]_handlerVars PROVE EGoneInd'
<1>1. CASE EMkdir \/ EUploadStart \/ EStream \/ EForm \/ EPut
  <2>1. ereq.op # "empties" /\ UNCHANGED ereq
    BY <1>1 DEF EMkdir, EUploadStart, EStream, EForm, EPut, ELook, EAt, EKeep, ECall, EHalf, EFails, EInd, EWorkSound
  <2> QED BY <2>1, OtherGone
<1>2. CASE EMoveStart \/ EMoveCheck \/ EMove \/ ECopyStart \/ ECopyCheck \/ ECopy
  <2>1. ereq.op # "empties" /\ UNCHANGED ereq
    BY <1>2 DEF EMoveStart, EMoveCheck, EMove, EMoveAct, ECopyStart, ECopyCheck, ECopy, EAt, EKeep, ECall, EHalf, EFails
  <2> QED BY <2>1, OtherGone
<1>3. CASE ERename \/ ERenameAct \/ ERemoveStart \/ ERemoveCheck \/ ERemove \/ EFinish
  <2>1. ereq.op # "empties" /\ UNCHANGED ereq
    BY <1>3 DEF ERename, ERenameAct, ERemoveStart, ERemoveCheck, ERemove, EFinish, EAt, EKeep, ECall, EHalf, EFails
  <2> QED BY <2>1, OtherGone
<1>4. CASE EGatherStart \/ EListDst \/ EGather \/ EGathered \/ ERenamesStart \/ ERegexStart \/ ERenameOne \/ ERegexFinish
  <2>1. ereq.op # "empties" /\ UNCHANGED ereq
    BY <1>4 DEF EGatherStart, EListDst, EGather, EGathered, ERenamesStart, ERegexStart, ERenameOne, ERegexFinish, EAt, EKeep, ECall, EHalf, EFails
  <2> QED BY <2>1, OtherGone
<1>5. CASE EEmptyStart \/ EEmptyLook \/ EEmptyRemove
  BY <1>5, EmptyStartGone, EmptyLookGone, EmptyRemoveGone
<1>6. CASE \E p \in EUploads : EUpload(p)
  <2>1. eother'.up # {} /\ ework.pc # "done" /\ ework' = ework /\ ereq' = ereq
    BY <1>6 DEF EUpload, EInd, ETyped
  <2> QED BY <2>1 DEF EGoneInd, EEmptiesGone, EEmptying
<1>7. CASE UNCHANGED handlerVars
  <2>1. UNCHANGED <<etree, eorig, emetas, ereq, ework, eother>>
    BY <1>7 DEF handlerVars
  <2>2. \A p : (EListed(p)' = EListed(p)) /\ (EShown(p)' <=> EShown(p))
    BY <2>1, SameListed, SameJudged
  <2> QED BY <2>1, <2>2 DEF EGoneInd, EEmptiesGone, EEmptying, ELed
<1> QED BY <1>1, <1>2, <1>3, <1>4, <1>5, <1>6, <1>7 DEF ENext

-----------------------------------------------------------------------------
(* FsRecursiveMove finds every file below the directory                         *)

LEMMA OtherAll ==
  ASSUME EAllInd, ereq.op # "gather", UNCHANGED ereq
  PROVE  EAllInd'
BY DEF EAllInd, EAllGathered, EGathersAll

LEMMA AllQuiet ==
  ASSUME EAllInd, UNCHANGED <<etree, eorig, emetas, ereq>>, NEW w, ework' = w, w.ans # "ok", ereq.op = "gather" => ELeads(w)
  PROVE  EAllInd'
<1>1. EAllGathered'
  BY DEF EAllGathered
<1>2. \A p : EShown(p)' <=> EShown(p)
  BY SameJudged
<1>3. ELeads(w) => ELeads(ework)'
  <2>1. \A x : EComes(w, x) => EComes(ework, x)'
    BY DEF EComes
  <2>2. \A p : EFileBelow(p)' => EFileBelow(p)
    BY <1>2 DEF EFileBelow
  <2>3. ENamesCome(w) => ENamesCome(ework)'
    BY <2>1 DEF ENamesCome
  <2>4. EFilesCome(w) => EFilesCome(ework)'
    BY <2>1, <2>2 DEF EFilesCome, ELed
  <2> QED BY <2>3, <2>4 DEF ELeads
<1>4. EGathersAll'
  BY <1>3 DEF EGathersAll
<1> QED BY <1>1, <1>4 DEF EAllInd

LEMMA AllFails ==
  ASSUME EInd, EAllInd, NEW a \in {"error", "denied", "exists"}, EAnswer(a), UNCHANGED <<eorig, emetas, ereq>>
  PROVE  EAllInd'
<1>1. PICK w : w = [ework EXCEPT !.pc = "done", !.ans = a]
  OBVIOUS
<1>2. ework \in ECalls
  BY ReqFacts
<1>3. w.pc = "done" /\ w.ans = a
  BY <1>1, <1>2 DEF ECalls
<1>4. ework' = w /\ etree' = etree
  BY <1>1 DEF EAnswer
<1>5. ELeads(w)
  BY <1>3 DEF ELeads
<1> QED BY <1>3, <1>4, <1>5, AllQuiet

\* The files below h that are shown are at or below its members that are listed.
LEMMA FilesLed ==
  ASSUME EInd, EUntouched, NEW h \in EPaths, h = ereq.dir \/ h \in EBelow,
         NEW s \in EInSomeOrder(EListed(h)), NEW p \in DOMAIN eorig, EFileBelow(p), IsStrictPrefix(h, p)
  PROVE  ELed(s, p)
<1>1. p \in DOMAIN etree /\ etree[p] = eorig[p]
  BY DEF EUntouched
<1>2. EShown(p)
  BY DEF EFileBelow
<1>3. PICK c \in EListed(h) : IsPrefix(c, p)
  BY <1>1, <1>2, ShownIsListed
<1>4. IsFiniteSet(EListed(h))
  BY ListedBelow
<1>5. PICK k \in DOMAIN s : s[k] = c
  BY <1>4, EveryOne
<1> QED BY <1>3, <1>5 DEF ELed

LEMMA GatherStartAll == ASSUME EInd, EAllInd, EGatherStart PROVE EAllInd'
<1>1. EKeep /\ ework \in ECalls /\ ework.ans = "none" /\ ereq.op = "gather" /\ ework.pc = "start" /\ ereq.dir \in EPaths
  BY ReqFacts DEF EGatherStart, EAt
<1>2. UNCHANGED <<eorig, emetas, ereq, eother>> /\ EUntouched /\ ENamesCome(ework)
  BY <1>1 DEF EKeep, EInd, EPast, EEarly, EAllInd, EGathersAll, ELeads
<1>3. CASE EAnswer("denied") \/ EAnswer("error")
  BY <1>2, <1>3, AllFails
<1>4. ASSUME NEW s \in EInSomeOrder(EListed(ereq.dir)), ework' = [ework EXCEPT !.queue = s, !.pc = "listdst"], UNCHANGED etree
      PROVE  EAllInd'
  <2>1. PICK w : w = [ework EXCEPT !.queue = s, !.pc = "listdst"]
    OBVIOUS
  <2>2. w.ans # "ok" /\ w.queue = s /\ w.pc = "listdst" /\ w.n = ework.n /\ w.seen = ework.seen /\ w.list = ework.list
    BY <1>1, <2>1 DEF ECalls
  <2>3. ENamesCome(w)
    BY <1>2, <2>2 DEF ENamesCome, EComes
  <2>4. ASSUME NEW p \in DOMAIN eorig, EFileBelow(p) PROVE ELed(s, p)
    <3>1. IsStrictPrefix(ereq.dir, p)
      BY <2>4 DEF EFileBelow
    <3> QED BY <1>1, <1>2, <1>4, <2>4, <3>1, FilesLed
  <2>5. ELeads(w)
    BY <2>2, <2>3, <2>4 DEF ELeads, EFilesCome
  <2> QED BY <1>2, <1>4, <2>1, <2>2, <2>5, AllQuiet
<1> QED BY <1>3, <1>4 DEF EGatherStart

LEMMA ListDstAll == ASSUME EInd, EAllInd, EListDst PROVE EAllInd'
<1>1. /\ EKeep /\ ework \in ECalls /\ ework.ans = "none" /\ ereq.op = "gather" /\ ework.pc = "listdst" /\ ereq.dst \in EPaths
      /\ ETreeOk(etree)
  BY ReqFacts DEF EListDst, EAt
<1>2. UNCHANGED <<eorig, emetas, ereq, eother>> /\ ENamesCome(ework) /\ EFilesCome(ework)
  BY <1>1 DEF EKeep, EAllInd, EGathersAll, ELeads
<1>3. CASE EAnswer("error")
  BY <1>2, <1>3, AllFails
<1>4. CASE EGo("gather")
  <2>1. PICK w : w = [ework EXCEPT !.pc = "gather"]
    OBVIOUS
  <2>2. w.ans # "ok" /\ w.queue = ework.queue /\ w.pc = "gather" /\ w.n = ework.n /\ w.seen = ework.seen /\ w.list = ework.list
    BY <1>1, <2>1 DEF ECalls
  <2>3. ELeads(w)
    BY <1>2, <2>2 DEF ELeads, ENamesCome, EFilesCome, EComes
  <2>4. ework' = w /\ etree' = etree
    BY <1>4, <2>1 DEF EGo
  <2> QED BY <1>2, <2>2, <2>3, <2>4, AllQuiet
<1>5. CASE ework' = [ework EXCEPT !.seen = {Last(q) : q \in EListed(ereq.dst)}, !.pc = "gather"] /\ UNCHANGED etree
  <2>1. PICK seen : seen = {Last(q) : q \in EListed(ereq.dst)}
    OBVIOUS
  <2>2. PICK w : w = [ework EXCEPT !.seen = seen, !.pc = "gather"]
    OBVIOUS
  <2>3. w.ans # "ok" /\ w.queue = ework.queue /\ w.pc = "gather" /\ w.n = ework.n /\ w.seen = seen /\ w.list = ework.list
    BY <1>1, <2>2 DEF ECalls
  <2>4. ASSUME NEW x \in seen PROVE EComes(w, x)
    <3>1. PICK q \in EListed(ereq.dst) : x = Last(q)
      BY <2>1
    <3>2. q \in DOMAIN etree /\ q # <<>> /\ Front(q) = ereq.dst /\ q \in Seq(ENames)
      BY <1>1, <3>1 DEF EListed, EMembers, ETreeOk, EPaths
    <3>3. q = Append(ereq.dst, x)
      BY <3>1, <3>2, FrontOf
    <3> QED BY <3>2, <3>3 DEF EComes
  <2>5. ELeads(w)
    BY <1>2, <2>3, <2>4 DEF ELeads, ENamesCome, EFilesCome, EComes
  <2>6. ework' = w
    BY <1>5, <2>1, <2>2
  <2> QED BY <1>2, <1>5, <2>3, <2>5, <2>6, AllQuiet
<1> QED BY <1>3, <1>4, <1>5 DEF EListDst

\* A name that comes still comes when the list grows.
LEMMA ComesLonger ==
  ASSUME NEW S, NEW w, NEW v, w.list \in Seq(S), NEW p \in S, v.list = Append(w.list, p), v.n = w.n, w.n = 1
  PROVE  (\A x : EComes(w, x) => EComes(v, x)) /\ EComes(v, Last(p))
<1>1. PICK l : l = w.list
  OBVIOUS
<1>2. PICK r : r = Append(l, p)
  OBVIOUS
<1>3. Len(l) \in Nat /\ DOMAIN l = 1..Len(l) /\ DOMAIN r = 1..(Len(l) + 1) /\ r[Len(l) + 1] = p /\ \A k \in 1..Len(l) : r[k] = l[k]
  BY <1>1, <1>2
<1>4. ASSUME NEW x, EComes(w, x) PROVE EComes(v, x)
  <2>1. CASE Append(ereq.dst, x) \in DOMAIN etree
    BY <2>1 DEF EComes
  <2>2. CASE \E k \in DOMAIN l : k >= w.n /\ Last(l[k]) = x
    <3>1. PICK k \in DOMAIN l : k >= w.n /\ Last(l[k]) = x
      BY <2>2
    <3>2. k \in DOMAIN r /\ r[k] = l[k]
      BY <1>3, <3>1
    <3>3. v.list = r /\ k >= v.n
      BY <1>1, <1>2, <3>1
    <3> QED BY <3>1, <3>2, <3>3 DEF EComes
  <2> QED BY <1>1, <1>4, <2>1, <2>2 DEF EComes
<1>5. EComes(v, Last(p))
  <2>1. Len(l) + 1 \in DOMAIN r /\ Len(l) + 1 >= v.n
    BY <1>3
  <2>2. v.list = r
    BY <1>1, <1>2
  <2> QED BY <1>3, <2>1, <2>2 DEF EComes
<1> QED BY <1>4, <1>5

LEMMA GatherAll == ASSUME EInd, EAllInd, EGather PROVE EAllInd'
<1>1. /\ EKeep /\ ework \in ECalls /\ ework.ans = "none" /\ ereq.op = "gather" /\ ework.pc = "gather" /\ ereq.dst \in EPaths
      /\ ETreeOk(etree) /\ ework.queue \in Seq(EBelow) /\ ework.list \in Seq(EBelow)
  BY ReqFacts DEF EGather, EAt, EInd, EWorkSound
<1>2. UNCHANGED <<eorig, emetas, ereq, eother>> /\ ENamesCome(ework) /\ EFilesCome(ework) /\ EUntouched
  BY <1>1 DEF EKeep, EAllInd, EGathersAll, ELeads, EInd, EPast, EEarly
<1>3. CASE EAnswer("exists")
  BY <1>2, <1>3, AllFails
<1>4. CASE ework.queue = <<>> /\ EGo("act")
  <2>1. PICK w : w = [ework EXCEPT !.pc = "act"]
    OBVIOUS
  <2>2. w.ans # "ok" /\ w.queue = ework.queue /\ w.pc = "act" /\ w.n = ework.n /\ w.list = ework.list
    BY <1>1, <2>1 DEF ECalls
  <2>3. ELeads(w)
    BY <1>2, <1>4, <2>2 DEF ELeads, EFilesCome, EComes
  <2>4. ework' = w /\ etree' = etree
    BY <1>4, <2>1 DEF EGo
  <2> QED BY <1>2, <2>2, <2>3, <2>4, AllQuiet
<1>5. CASE ework.queue # <<>> /\ ~EAnswer("exists")
  <2>1. PICK h : h = Head(ework.queue)
    OBVIOUS
  <2>2. PICK tl : tl = Tail(ework.queue)
    OBVIOUS
  <2>3. h \in EBelow /\ tl \in Seq(EBelow) /\ h \in EPaths /\ h \in Seq(ENames) /\ h # <<>>
    <3>1. h \in EBelow /\ tl \in Seq(EBelow)
      BY <1>1, <1>5, <2>1, <2>2, QueueIs
    <3>2. h \in EPaths /\ IsStrictPrefix(ereq.dir, h) /\ ereq.dir \in EPaths
      BY <3>1, ReqFacts DEF EBelow
    <3> QED BY <3>1, <3>2, PrefixLong DEF EPaths, IsStrictPrefix
  <2>4. \A k \in DOMAIN ework.queue : ework.queue[k] = h \/ \E j \in DOMAIN tl : tl[j] = ework.queue[k]
    BY <1>1, <1>5, <2>1, <2>2, HeadOrTail
  \* Only what was queued through h is to be led to anew.
  <2>5. ASSUME NEW w, w.ans # "ok", w.pc = "gather", ework' = w, UNCHANGED etree, EHasAll(w.queue, tl),
               ENamesCome(w), \A x : EComes(ework, x) => EComes(w, x),
               \A p \in DOMAIN eorig : EFileBelow(p) /\ IsPrefix(h, p) => ELed(w.queue, p) \/ EComes(w, Last(p))
        PROVE  EAllInd'
    <3>1. ASSUME NEW p \in DOMAIN eorig, EFileBelow(p) PROVE ELed(w.queue, p) \/ EComes(w, Last(p))
      <4>1. CASE IsPrefix(h, p)
        BY <2>5, <3>1, <4>1
      <4>2. CASE ~IsPrefix(h, p)
        <5>1. ELed(ework.queue, p) \/ EComes(ework, Last(p))
          BY <1>2, <3>1 DEF EFilesCome
        <5>2. CASE EComes(ework, Last(p))
          BY <2>5, <5>2
        <5>3. CASE ELed(ework.queue, p)
          BY <2>4, <2>5, <4>2, <5>3 DEF ELed, EHasAll
        <5> QED BY <5>1, <5>2, <5>3
      <4> QED BY <4>1, <4>2
    <3>2. ELeads(w)
      BY <2>5, <3>1 DEF ELeads, EFilesCome
    <3> QED BY <1>2, <2>5, <3>2, AllQuiet
  <2>6. PICK v : v = [ework EXCEPT !.queue = tl]
    OBVIOUS
  <2>7. /\ v = [ework EXCEPT !.queue = Tail(@)] /\ v.ans # "ok" /\ v.queue = tl /\ v.pc = "gather"
        /\ v.n = ework.n /\ v.seen = ework.seen /\ v.list = ework.list
    BY <1>1, <2>2, <2>6 DEF ECalls
  <2>8. EHasAll(tl, tl) /\ ENamesCome(v) /\ \A x : EComes(ework, x) => EComes(v, x)
    BY <1>2, <2>7 DEF EHasAll, ENamesCome, EComes
  \* Below what is no directory there is nothing but the file itself.
  <2>9. ASSUME ~EIsDir(h), NEW p \in DOMAIN eorig, EFileBelow(p), IsPrefix(h, p) PROVE p = h /\ p \in DOMAIN etree
    <3>1. p \in DOMAIN etree
      BY <1>2, <2>9 DEF EUntouched
    <3>2. h \in EPaths \ {<<>>} /\ ~(h \in DOMAIN etree /\ etree[h] = "dir")
      BY <2>3, <2>9 DEF EIsDir
    <3> QED BY <1>1, <2>9, <3>1, <3>2, FileAlone
  <2>10. CASE ~EIsDir(h) /\ Front(h) = ereq.dst /\ ework' = v /\ UNCHANGED etree
    <3>1. ASSUME NEW p \in DOMAIN eorig, EFileBelow(p), IsPrefix(h, p) PROVE EComes(v, Last(p))
      <4>1. p = h /\ p \in DOMAIN etree
        BY <2>9, <2>10, <3>1
      <4>2. h = Append(ereq.dst, Last(h))
        BY <2>3, <2>10, FrontOf
      <4>3. Append(ereq.dst, Last(p)) \in DOMAIN etree
        BY <4>1, <4>2
      <4> QED BY <4>3 DEF EComes
    <3> QED BY <2>5, <2>7, <2>8, <2>10, <3>1
  <2>11. CASE ~EIsDir(h) /\ Last(h) \in ework.seen /\ ework' = v /\ UNCHANGED etree
    <3>1. ASSUME NEW p \in DOMAIN eorig, EFileBelow(p), IsPrefix(h, p) PROVE EComes(v, Last(p))
      <4>1. p = h
        BY <2>9, <2>11, <3>1
      <4>2. EComes(ework, Last(h))
        BY <1>2, <2>11 DEF ENamesCome
      <4> QED BY <2>8, <4>1, <4>2
    <3> QED BY <2>5, <2>7, <2>8, <2>11, <3>1
  <2>12. CASE ~EIsDir(h) /\ ework' = [v EXCEPT !.seen = ETaken(Last(h)), !.list = Append(@, h)] /\ UNCHANGED etree
    <3>1. PICK w : w = [v EXCEPT !.seen = ETaken(Last(h)), !.list = Append(@, h)]
      OBVIOUS
    <3>2. /\ w.ans # "ok" /\ w.queue = tl /\ w.pc = "gather" /\ w.n = ework.n /\ w.seen = ETaken(Last(h))
          /\ w.list = Append(ework.list, h)
      BY <1>1, <2>6, <3>1 DEF ECalls
    <3>3. ework.n = 1
      BY <1>2 DEF ENamesCome
    <3>4. (\A x : EComes(ework, x) => EComes(w, x)) /\ EComes(w, Last(h))
      <4>1. PICK S : S = EBelow
        OBVIOUS
      <4>2. ework.list \in Seq(S) /\ h \in S
        BY <1>1, <2>3, <4>1
      <4> QED BY <3>2, <3>3, <4>2, ComesLonger
    <3>5. w.seen \subseteq ework.seen \cup {Last(h)}
      BY <3>2 DEF ETaken
    <3>6. ENamesCome(w)
      BY <1>2, <3>2, <3>3, <3>4, <3>5 DEF ENamesCome
    <3>7. ASSUME NEW p \in DOMAIN eorig, EFileBelow(p), IsPrefix(h, p) PROVE EComes(w, Last(p))
      <4>1. p = h
        BY <2>9, <2>12, <3>7
      <4> QED BY <3>4, <4>1
    <3> QED BY <2>5, <2>8, <2>12, <3>1, <3>2, <3>4, <3>6, <3>7
  <2>13. ASSUME EIsDir(h), NEW s \in EInSomeOrder(EListed(h)), ework' = [v EXCEPT !.queue = @ \o s], UNCHANGED etree PROVE EAllInd'
    <3>1. s \in Seq(EBelow)
      BY <2>3, ListedBelow, SomeOrder
    <3>2. PICK u : u = tl \o s
      OBVIOUS
    <3>3. PICK w : w = [v EXCEPT !.queue = @ \o s]
      OBVIOUS
    <3>4. /\ w.ans # "ok" /\ w.queue = u /\ w.pc = "gather" /\ w.n = ework.n /\ w.seen = ework.seen /\ w.list = ework.list
      BY <1>1, <2>6, <3>2, <3>3 DEF ECalls
    <3>5. EHasAll(u, tl) /\ EHasAll(u, s)
      <4>1. PICK S : S = EBelow
        OBVIOUS
      <4>2. tl \in Seq(S) /\ s \in Seq(S)
        BY <2>3, <3>1, <4>1
      <4> QED BY <3>2, <4>2, BothJoined
    <3>6. ENamesCome(w) /\ \A x : EComes(ework, x) => EComes(w, x)
      BY <1>2, <3>4 DEF ENamesCome, EComes
    <3>7. ASSUME NEW p \in DOMAIN eorig, EFileBelow(p), IsPrefix(h, p) PROVE ELed(u, p)
      <4>1. h # p
        BY <1>2, <2>3, <2>13, <3>7 DEF EFileBelow, EIsDir, EUntouched
      <4>2. IsStrictPrefix(h, p)
        BY <3>7, <4>1 DEF IsStrictPrefix
      <4>3. ELed(s, p)
        BY <1>2, <2>3, <2>13, <3>7, <4>2, FilesLed
      <4> QED BY <3>5, <4>3 DEF ELed, EHasAll
    <3> QED BY <2>5, <2>13, <3>3, <3>4, <3>5, <3>6, <3>7
  <2> QED BY <1>5, <2>1, <2>7, <2>10, <2>11, <2>12, <2>13 DEF EGather
<1> QED BY <1>3, <1>4, <1>5 DEF EGather

\* What a step may do to the names in the destination.
LEMMA AllMoves ==
  ASSUME EAllInd, ereq.op = "gather", UNCHANGED <<eorig, emetas, ereq>>, ework'.ans # "ok", ework'.queue = ework.queue,
         ework'.pc = ework.pc, ework'.seen = ework.seen,
         ework.pc \in {"start", "listdst", "gather"} => ework'.n = ework.n,
         \A x : EComes(ework, x) => EComes(ework, x)'
  PROVE  EAllInd'
<1>1. EAllGathered'
  BY DEF EAllGathered
<1>2. \A p : EShown(p)' <=> EShown(p)
  BY SameJudged
<1>3. \A p : EFileBelow(p)' => EFileBelow(p)
  BY <1>2 DEF EFileBelow
<1>4. ework.pc \in {"start", "listdst", "gather"} /\ ENamesCome(ework) => ENamesCome(ework)'
  BY DEF ENamesCome
<1>5. EFilesCome(ework) => EFilesCome(ework)'
  BY <1>3 DEF EFilesCome, ELed
<1>6. EGathersAll'
  BY <1>4, <1>5 DEF EAllInd, EGathersAll, ELeads
<1> QED BY <1>1, <1>6 DEF EAllInd

LEMMA GatheredAll == ASSUME EInd, EAllInd, EGathered PROVE EAllInd'
<1>1. /\ ereq.op = "gather" /\ ework.pc = "act" /\ ~EAllDone /\ ework \in ECalls /\ ework.ans = "none" /\ ereq.dst \in EPaths
      /\ ework.list \in Seq(EBelow) /\ ETreeOk(etree) /\ CanWriteTree(ereq.dir)
  BY ReqFacts DEF EGathered, EAt, EInd, EWorkSound
<1>2. PICK src : src = ework.list[ework.n]
  OBVIOUS
<1>3. PICK dst : dst = Append(ereq.dst, Last(src))
  OBVIOUS
<1>4. src \in EPaths /\ src # <<>> /\ src \in Seq(ENames) /\ ereq.dst \in Seq(ENames)
  BY <1>1, <1>2, TakenIs, BelowMay DEF EPaths
<1>5. CASE EFailed
  BY <1>5, AllFails DEF EFailed
<1>6. CASE EAnswer("denied") /\ EKeep
  BY <1>6, AllFails DEF EKeep
<1>7. CASE ereq.dst # Front(src) /\ EMayLand(src, dst) /\ etree' = EMoved(src, dst) /\ ework' = ENextOne /\ EKeep
  <2>1. dst \in EPaths \ {<<>>} /\ Front(dst) = ereq.dst /\ dst \in Seq(ENames) /\ Len(dst) = Len(ereq.dst) + 1
    BY <1>1, <1>3, <1>4, FrontOf, PathOfName DEF EPaths
  <2>2. PICK t : t = EMoved(src, dst)
    OBVIOUS
  <2>3. /\ \A q \in DOMAIN etree : ~IsPrefix(src, q) /\ ~IsPrefix(dst, q) => q \in DOMAIN t
        /\ \A q \in EUnder(src) : EImage(q, src, dst) \in DOMAIN t
    BY <1>1, <1>4, <1>7, <2>1, <2>2, MovedOk
  <2>4. dst \in DOMAIN t
    <3>1. src \in EUnder(src)
      BY <1>1, <1>4, <1>7, UnderOf DEF EMayLand
    <3>2. EImage(src, src, dst) = dst
      BY <1>4, <2>1, ImageSelf
    <3> QED BY <2>3, <3>1, <3>2
  <2>5. ASSUME NEW r \in DOMAIN etree, r # <<>>, Front(r) = ereq.dst PROVE r \in DOMAIN t
    <3>1. r \in Seq(ENames) /\ Len(r) = Len(ereq.dst) + 1 /\ Len(ereq.dst) \in Nat
      <4>1. r \in Seq(ENames)
        BY <1>1 DEF ETreeOk, EPaths
      <4>2. Len(Front(r)) = Len(r) - 1 /\ Len(r) \in Nat
        BY <2>5, <4>1, FrontOf
      <4>3. Len(ereq.dst) \in Nat
        BY <1>4
      <4> QED BY <2>5, <4>1, <4>2, <4>3
    <3>2. CASE r = dst
      BY <2>4, <3>2
    <3>3. CASE r # dst
      <4>1. ~IsPrefix(dst, r)
        BY <2>1, <3>1, <3>3, PrefixLong
      <4>2. ~IsPrefix(src, r)
        <5>1. SUFFICES ASSUME IsPrefix(src, r) PROVE FALSE
          OBVIOUS
        <5>2. src # r
          BY <1>7, <2>5
        <5>3. IsPrefix(src, ereq.dst)
          BY <1>4, <2>5, <3>1, <5>1, <5>2, FrontOf DEF IsStrictPrefix
        <5>4. IsPrefix(ereq.dst, dst) /\ ereq.dst # dst
          BY <2>1, FrontOf DEF IsStrictPrefix
        <5>5. IsPrefix(src, dst)
          BY <1>4, <2>1, <5>3, <5>4, PrefixTrans
        <5>6. src # dst
          BY <1>7, <2>1
        <5> QED BY <1>7, <5>5, <5>6 DEF EMayLand, IsStrictPrefix
      <4> QED BY <2>3, <4>1, <4>2
    <3> QED BY <3>2, <3>3
  <2>6. UNCHANGED <<eorig, emetas, ereq>> /\ etree' = t
    BY <1>7, <2>2 DEF EKeep
  <2>7. /\ ework'.ans # "ok" /\ ework'.queue = ework.queue /\ ework'.pc = ework.pc /\ ework'.seen = ework.seen
        /\ ework'.list = ework.list /\ ework'.n = ework.n + 1 /\ ework.n \in Nat
    BY <1>1, <1>7 DEF ENextOne, ECalls
  <2>8. ASSUME NEW x, EComes(ework, x) PROVE EComes(ework, x)'
    <3>1. CASE Append(ereq.dst, x) \in DOMAIN etree
      <4>1. Append(ereq.dst, x) \in Seq(ENames) /\ Append(ereq.dst, x) # <<>>
        BY <1>1, <3>1 DEF ETreeOk, EPaths
      <4>2. Front(Append(ereq.dst, x)) = ereq.dst
        <5>1. Len(Append(ereq.dst, x)) = Len(ereq.dst) + 1 /\ Append(ereq.dst, x)[Len(ereq.dst) + 1] = x /\ Len(ereq.dst) \in Nat
          BY <1>4
        <5>2. x \in ENames
          BY <4>1, <5>1
        <5> QED BY <1>4, <5>2, PathOfName
      <4>3. Append(ereq.dst, x) \in DOMAIN t
        BY <2>5, <3>1, <4>1, <4>2
      <4> QED BY <2>6, <4>3 DEF EComes
    <3>2. CASE \E k \in DOMAIN ework.list : k >= ework.n /\ Last(ework.list[k]) = x
      <4>1. PICK k \in DOMAIN ework.list : k >= ework.n /\ Last(ework.list[k]) = x
        BY <3>2
      <4>2. CASE k = ework.n
        BY <1>2, <1>3, <2>4, <2>6, <4>1, <4>2 DEF EComes
      <4>3. CASE k # ework.n
        <5>1. k \in Nat
          BY <1>1, <4>1
        <5>2. k >= ework'.n
          BY <2>7, <4>1, <4>3, <5>1
        <5> QED BY <2>7, <4>1, <5>2 DEF EComes
      <4> QED BY <4>2, <4>3
    <3> QED BY <2>8, <3>1, <3>2 DEF EComes
  <2> QED BY <1>1, <2>6, <2>7, <2>8, AllMoves
<1> QED BY <1>2, <1>3, <1>5, <1>6, <1>7 DEF EGathered, ECall, EFails, EAnswer, EFailed, EKeep

LEMMA FinishAll == ASSUME EInd, EAllInd, EFinish PROVE EAllInd'
<1>1. EAnswer("ok") /\ UNCHANGED <<etree, eorig, emetas, ereq>> /\ ework.pc = "act" /\ EAllDone /\ ework \in ECalls
  BY ReqFacts DEF EFinish, EKeep, EAnswer
<1>2. CASE ereq.op # "gather"
  BY <1>1, <1>2, OtherAll
<1>3. CASE ereq.op = "gather"
  <2>1. ework.list \in Seq(EBelow) /\ ework.n \in Nat /\ ework.n > Len(ework.list)
    BY <1>1, <1>3 DEF EInd, EWorkSound, EAllDone, ECalls
  <2>2. ework'.pc = "done"
    BY <1>1 DEF EAnswer, ECalls
  <2>3. EFilesCome(ework) /\ ework.queue = <<>>
    BY <1>1, <1>3 DEF EAllInd, EGathersAll, ELeads
  <2>4. ASSUME NEW p \in DOMAIN eorig, EFileBelow(p) PROVE Append(ereq.dst, Last(p)) \in DOMAIN etree
    <3>1. ~ELed(ework.queue, p)
      BY <2>3 DEF ELed
    <3>2. EComes(ework, Last(p))
      BY <2>3, <2>4, <3>1 DEF EFilesCome
    <3>3. \A k \in DOMAIN ework.list : ~(k >= ework.n)
      BY <2>1
    <3> QED BY <3>2, <3>3 DEF EComes
  <2>5. \A p : EShown(p)' <=> EShown(p)
    BY <1>1, SameJudged
  <2>6. EAllGathered'
    BY <1>1, <2>4, <2>5 DEF EAllGathered, EFileBelow
  <2>7. EGathersAll'
    BY <2>2 DEF EGathersAll, ELeads
  <2> QED BY <2>6, <2>7 DEF EAllInd
<1> QED BY <1>2, <1>3

LEMMA UploadAll == ASSUME EInd, EAssumption, EAllInd, NEW p \in EUploads, EUpload(p) PROVE EAllInd'
<1>1. UNCHANGED <<eorig, emetas, ereq, ework>> /\ DOMAIN etree \subseteq DOMAIN etree' /\ ework.ans # "ok"
  BY ReqFacts DEF EUpload
<1>2. CASE ereq.op # "gather"
  BY <1>1, <1>2, OtherAll
<1>3. CASE ereq.op = "gather"
  <2>1. ASSUME NEW x, EComes(ework, x) PROVE EComes(ework, x)'
    BY <1>1, <2>1 DEF EComes
  <2> QED BY <1>1, <1>3, <2>1, AllMoves
<1> QED BY <1>2, <1>3

LEMMA AllBegins == ASSUME EAssumption, EInit PROVE EAllInd
<1>1. eorig = etree /\ ework = EFresh
  BY DEF EInit
<1>2. ework.pc = "start" /\ ework.n = 1 /\ ework.seen = {} /\ ework.ans = "none"
  BY <1>1 DEF EFresh
<1> QED BY <1>1, <1>2 DEF EAllInd, EAllGathered, EGathersAll, ELeads, ENamesCome

LEMMA AllSteps == ASSUME EAssumption, EInd, EAllInd, [ENext]_handlerVars PROVE EAllInd'
<1>1. CASE EMkdir \/ EUploadStart \/ EStream \/ EForm \/ EPut
  <2>1. ereq.op # "gather" /\ UNCHANGED ereq
    BY <1>1 DEF EMkdir, EUploadStart, EStream, EForm, EPut, ELook, EAt, EKeep, ECall, EHalf, EFails, EInd, EWorkSound
  <2> QED BY <2>1, OtherAll
<1>2. CASE EMoveStart \/ EMoveCheck \/ EMove \/ ECopyStart \/ ECopyCheck \/ ECopy
  <2>1. ereq.op # "gather" /\ UNCHANGED ereq
    BY <1>2 DEF EMoveStart, EMoveCheck, EMove, EMoveAct, ECopyStart, ECopyCheck, ECopy, EAt, EKeep, ECall, EHalf, EFails
  <2> QED BY <2>1, OtherAll
<1>3. CASE ERename \/ ERenameAct \/ ERemoveStart \/ ERemoveCheck \/ ERemove \/ EEmptyStart \/ EEmptyLook \/ EEmptyRemove
  <2>1. ereq.op # "gather" /\ UNCHANGED ereq
    BY <1>3 DEF ERename, ERenameAct, ERemoveStart, ERemoveCheck, ERemove, EEmptyStart, EEmptyLook, EEmptyRemove, EAt, EKeep, ECall, EHalf, EFails
  <2> QED BY <2>1, OtherAll
<1>4. CASE ERenamesStart \/ ERegexStart \/ ERenameOne \/ ERegexFinish
  <2>1. ereq.op # "gather" /\ UNCHANGED ereq
    BY <1>4 DEF ERenamesStart, ERegexStart, ERenameOne, ERegexFinish, EAt, EKeep, ECall, EHalf, EFails
  <2> QED BY <2>1, OtherAll
<1>5. CASE EGatherStart \/ EListDst \/ EGather \/ EGathered \/ EFinish
  BY <1>5, GatherStartAll, ListDstAll, GatherAll, GatheredAll, FinishAll
<1>6. CASE \E p \in EUploads : EUpload(p)
  BY <1>6, UploadAll
<1>7. CASE UNCHANGED handlerVars
  <2>1. UNCHANGED <<etree, eorig, emetas, ereq, ework>>
    BY <1>7 DEF handlerVars
  <2>2. \A p : EShown(p)' <=> EShown(p)
    BY <2>1, SameJudged
  <2>3. \A p : EFileBelow(p)' <=> EFileBelow(p)
    BY <2>1, <2>2 DEF EFileBelow
  <2>4. EAllGathered'
    BY <2>1, <2>2 DEF EAllInd, EAllGathered
  <2>5. EGathersAll'
    BY <2>1, <2>3 DEF EAllInd, EGathersAll, ELeads, ENamesCome, EFilesCome, EComes, ELed
  <2> QED BY <2>4, <2>5 DEF EAllInd
<1> QED BY <1>1, <1>2, <1>3, <1>4, <1>5, <1>6, <1>7 DEF ENext

-----------------------------------------------------------------------------
(* The requests that leave every file where it is                               *)

LEMMA KeptEnds ==
  ASSUME EKeptInd, UNCHANGED <<etree, eorig, emetas, ereq>>, ework'.pc = "done"
  PROVE  EKeptInd'
<1>1. (\A p : ECounted(p)' <=> ECounted(p)) /\ ((EMayReplace)' <=> EMayReplace)
  BY SameJudged
<1>2. EKept <=> (~EMayReplace => \A p \in DOMAIN eorig : ECounted(p) => \E q \in DOMAIN etree : etree[q] = eorig[p])
  BY DEF EKept, ECounted
<1>3. EKept'
  BY <1>1, <1>2 DEF EKeptInd, EKept, ECounted
<1> QED BY <1>3 DEF EKeptInd

LEMMA KeptAnswers ==
  ASSUME EInd, EKeptInd, NEW a, EAnswer(a), UNCHANGED <<eorig, emetas, ereq>>
  PROVE  EKeptInd'
<1>1. ework'.pc = "done" /\ etree' = etree
  BY ReqFacts DEF EAnswer, ECalls
<1> QED BY <1>1, KeptEnds

LEMMA KeptReplaced ==
  ASSUME EMayReplace, UNCHANGED <<eorig, emetas, ereq>>
  PROVE  EKeptInd'
<1>1. (EMayReplace)'
  BY SameJudged
<1> QED BY <1>1 DEF EKeptInd, EKept

\* The tree t keeps what the tree has of the files that are counted.
EHolds(t) == \A p \in DOMAIN etree : ECounted(p) /\ etree[p] = eorig[p] => p \in DOMAIN t /\ t[p] = etree[p]

LEMMA StayStep ==
  ASSUME EKeptInd, ework.pc # "done", ereq.op \in EInPlace, UNCHANGED <<eorig, emetas, ereq>>,
         NEW t, etree' = t, NEW w, ework' = w, ~EMayReplace /\ EStays /\ EStayNext(ework) => EHolds(t) /\ EStayNext(w)
  PROVE  EKeptInd'
<1>1. CASE EMayReplace
  BY <1>1, KeptReplaced
<1>2. CASE ~EMayReplace
  <2>1. EStays /\ EStayNext(ework)
    BY <1>2 DEF EKeptInd, EKeeping, EKeepsPlace
  <2>2. EHolds(t) /\ EStayNext(w)
    BY <1>2, <2>1
  <2>3. (\A p : ECounted(p)' <=> ECounted(p)) /\ ((EMayReplace)' <=> EMayReplace)
    BY SameJudged
  <2>4. \A p \in DOMAIN eorig : ECounted(p) => p \in DOMAIN t /\ t[p] = eorig[p]
    BY <2>1, <2>2 DEF EStays, EHolds
  <2>5. EStays'
    BY <2>3, <2>4 DEF EStays
  <2>6. EStayNext(ework)'
    BY <2>2, <2>3 DEF EStayNext, ENamedOnes, EBare
  <2>7. EKept'
    BY <2>5 DEF EStays, EKept, ECounted
  <2>8. EKeeping(ework)'
    BY <2>5, <2>6 DEF EKeeping, EKeepsPlace, EKeepsNamed, EKeepsMoved, EKeepsGathered, EInPlace
  <2> QED BY <2>7, <2>8 DEF EKeptInd
<1> QED BY <1>1, <1>2

\* The handler looks, and what it has to keep is as before.
LEMMA StayLook ==
  ASSUME EKeptInd, ework.pc # "done", ereq.op \in EInPlace, UNCHANGED <<etree, eorig, emetas, ereq>>,
         NEW w, ework' = w, ~EMayReplace /\ EStays /\ EStayNext(ework) => EStayNext(w)
  PROVE  EKeptInd'
<1>1. PICK t : t = etree
  OBVIOUS
<1>2. EHolds(t)
  BY <1>1 DEF EHolds
<1> QED BY <1>1, <1>2, StayStep

LEMMA FailKept == ASSUME EInd, EKeptInd, EFailed PROVE EKeptInd'
BY KeptAnswers DEF EFailed

\* A change that stops half way, and holds what is counted.
LEMMA HalfKept ==
  ASSUME EInd, EKeptInd, EFails, ework.pc # "done", ereq.op \in EInPlace, NEW t, etree' = t,
         ~EMayReplace /\ EStayNext(ework) => EHolds(t)
  PROVE  EKeptInd'
<1>1. PICK w : w = [ework EXCEPT !.pc = "done", !.ans = "error"]
  OBVIOUS
<1>2. w.pc = "done" /\ w.list = ework.list /\ w.i = ework.i
  BY <1>1, ReqFacts DEF ECalls
<1>3. EStayNext(ework) => EStayNext(w)
  BY <1>2 DEF EStayNext, ENamedOnes
<1>4. ework' = w /\ UNCHANGED <<eorig, emetas, ereq>>
  BY <1>1 DEF EFails
<1> QED BY <1>3, <1>4, StayStep

LEMMA MkdirKept == ASSUME EInd, EKeptInd, EMkdir PROVE EKeptInd'
<1>1. ETreeOk(etree) /\ ereq.path \in EPaths /\ ework.pc = "start" /\ ereq.op = "mkdir" /\ ework \in ECalls
  BY ReqFacts DEF EMkdir, EAt
<1>2. CASE EAnswer("denied") /\ EKeep
  BY <1>2, KeptAnswers DEF EKeep
<1>3. CASE EFailed
  BY <1>3, FailKept
<1>4. CASE /\ EDirsOn(ereq.path) /\ etree' = EWithDirs(ereq.path)
           /\ ework' = [ework EXCEPT !.pc = "done", !.ans = "ok"] /\ EKeep
  <2>1. PICK t : t = EWithDirs(ereq.path)
    OBVIOUS
  <2>2. EHolds(t)
    BY <1>1, <1>4, <2>1, WithDirsOk DEF EHolds
  <2>3. PICK w : w = [ework EXCEPT !.pc = "done", !.ans = "ok"]
    OBVIOUS
  <2>4. EStayNext(w)
    BY <1>1 DEF EStayNext
  <2>5. UNCHANGED <<eorig, emetas, ereq>> /\ ereq.op \in EInPlace /\ etree' = t /\ ework' = w /\ ework.pc # "done"
    BY <1>1, <1>4, <2>1, <2>3 DEF EKeep, EInPlace
  <2> QED BY <2>2, <2>4, <2>5, StayStep
<1>5. ASSUME NEW t \in EPartOf(EWithDirs(ereq.path), DOMAIN etree), etree' = t, EFails, EDirsOn(ereq.path)
      PROVE  EKeptInd'
  <2>1. PICK u : u = EWithDirs(ereq.path)
    OBVIOUS
  <2>2. ETreeOk(u) /\ \A q \in DOMAIN etree : q \in DOMAIN u /\ u[q] = etree[q]
    BY <1>1, <1>5, <2>1, WithDirsOk
  <2>3. EHolds(t)
    BY <1>1, <1>5, <2>1, <2>2, PartAdded DEF EHolds
  <2> QED BY <1>1, <1>5, <2>3, HalfKept DEF EInPlace
<1> QED BY <1>2, <1>3, <1>4, <1>5 DEF EHalf, EMkdir, ECall, EFails, EAnswer, EFailed, EKeep

LEMMA UploadStartKept == ASSUME EInd, EKeptInd, EUploadStart PROVE EKeptInd'
<1>1. ereq.op \in {"stream", "form"} /\ ework.pc = "start" /\ UNCHANGED <<eorig, emetas, ereq>> /\ ework \in ECalls
  BY ReqFacts DEF EUploadStart, EKeep
<1>2. CASE EAnswer("denied")
  BY <1>1, <1>2, KeptAnswers
<1>3. CASE EGo("look")
  <2>1. PICK w : w = [ework EXCEPT !.pc = "look"]
    OBVIOUS
  <2>2. w.pc = "look"
    BY <1>1, <2>1 DEF ECalls
  <2>3. EStayNext(w)
    BY <1>1, <2>2 DEF EStayNext
  <2>4. UNCHANGED <<etree, eorig, emetas, ereq>> /\ ereq.op \in EInPlace /\ ework' = w /\ ework.pc # "done"
    BY <1>1, <1>3, <2>1 DEF EGo, EInPlace
  <2> QED BY <2>3, <2>4, StayLook
<1> QED BY <1>2, <1>3 DEF EUploadStart

LEMMA LookKept == ASSUME EInd, EKeptInd, EStream \/ EForm PROVE EKeptInd'
<1>1. ereq.op \in {"stream", "form"} /\ ework.pc = "look" /\ UNCHANGED <<eorig, emetas, ereq>> /\ ework \in ECalls
      /\ ereq.path \in EPaths
  BY ReqFacts DEF EStream, EForm, ELook, EAt, EKeep
<1>2. CASE EAnswer("exists") \/ EAnswer("bad")
  BY <1>1, <1>2, KeptAnswers
<1>3. CASE (ereq.over \/ ereq.path \notin DOMAIN etree \/ ereq.path \in ereq.blind) /\ EGo("put")
  <2>1. PICK w : w = [ework EXCEPT !.pc = "put"]
    OBVIOUS
  <2>2. EUntouched
    BY <1>1 DEF EInd, EPast, EEarly
  <2>3. ~EMayReplace => ereq.path \in (EPaths \ DOMAIN eorig) \cup ereq.blind
    BY <1>1, <1>3, <2>2 DEF EUntouched, EMayReplace
  <2>4. ~EMayReplace => EStayNext(w)
    BY <1>1, <2>3 DEF EStayNext
  <2>5. UNCHANGED <<etree, eorig, emetas, ereq>> /\ ereq.op \in EInPlace /\ ework' = w /\ ework.pc # "done"
    BY <1>1, <1>3, <2>1 DEF EGo, EInPlace
  <2> QED BY <2>4, <2>5, StayLook
<1> QED BY <1>2, <1>3 DEF EStream, EForm, ELook, EFound, EThere

LEMMA PutKept == ASSUME EInd, EKeptInd, EPut PROVE EKeptInd'
<1>1. /\ ETreeOk(etree) /\ ETreeOk(eorig) /\ ereq.path \in EPaths /\ ework.pc = "put" /\ ereq.op \in {"stream", "form"} /\ ework \in ECalls
  BY ReqFacts DEF EPut, EInd, EWorkSound
<1>2. CASE EFailed
  BY <1>2, FailKept
<1>3. PICK t : t = LET made == EWithDirs(Front(ereq.path))
                       kept == {q \in DOMAIN made : ~IsPrefix(ereq.path, q)}
                   IN  [q \in kept \cup {ereq.path} |-> IF q = ereq.path THEN "new" ELSE made[q]]
  OBVIOUS
<1>5. ASSUME EStayNext(ework), ereq.path # <<>>, NEW p \in DOMAIN etree, ECounted(p) PROVE ~IsPrefix(ereq.path, p)
  <2>1. CASE ereq.path \notin DOMAIN eorig
    BY <1>1, <1>5, <2>1, FileAlone DEF ECounted
  <2>2. CASE ereq.path \in ereq.blind
    BY <1>5, <2>2 DEF ECounted, EUnseen
  <2> QED BY <1>1, <1>5, <2>1, <2>2 DEF EStayNext
<1>4. CASE /\ ereq.path # <<>> /\ EDirsOn(Front(ereq.path)) /\ etree' = t
           /\ ework' = [ework EXCEPT !.pc = "done", !.ans = "ok"] /\ EKeep
  <2>1. ereq.path \in EPaths \ {<<>>}
    BY <1>1, <1>4
  <2>2. \A q \in DOMAIN etree : ~IsPrefix(ereq.path, q) => q \in DOMAIN t /\ t[q] = etree[q]
    BY <1>1, <1>3, <1>4, <2>1, PutOk
  <2>3. EStayNext(ework) => EHolds(t)
    BY <1>5, <2>1, <2>2 DEF EHolds
  <2>4. PICK w : w = [ework EXCEPT !.pc = "done", !.ans = "ok"]
    OBVIOUS
  <2>5. w.pc = "done"
    BY <1>1, <2>4 DEF ECalls
  <2>6. EStayNext(w)
    BY <1>1, <2>5 DEF EStayNext
  <2>7. UNCHANGED <<eorig, emetas, ereq>> /\ ereq.op \in EInPlace /\ etree' = t /\ ework' = w /\ ework.pc # "done"
    BY <1>1, <1>4, <2>4 DEF EKeep, EInPlace
  <2> QED BY <2>3, <2>6, <2>7, StayStep
<1>6. ASSUME NEW t2, etree' = t2, EFails, ereq.path # <<>>, EDirsOn(Front(ereq.path)),
             t2 \in ERemovedPartly(ereq.path) \/ t2 \in EPartOf(EWithDirs(Front(ereq.path)), DOMAIN etree)
      PROVE  EKeptInd'
  <2>1. \A q \in DOMAIN etree : ~IsPrefix(ereq.path, q) => q \in DOMAIN t2 /\ t2[q] = etree[q]
    <3>1. CASE t2 \in ERemovedPartly(ereq.path)
      BY <1>1, <3>1, PartRemoved
    <3>2. CASE t2 \in EPartOf(EWithDirs(Front(ereq.path)), DOMAIN etree)
      <4>1. Front(ereq.path) \in EPaths
        BY <1>1, <1>6, FrontOf DEF EPaths
      <4>2. PICK u : u = EWithDirs(Front(ereq.path))
        OBVIOUS
      <4>3. ETreeOk(u) /\ \A q \in DOMAIN etree : q \in DOMAIN u /\ u[q] = etree[q]
        BY <1>1, <1>6, <4>1, <4>2, WithDirsOk
      <4> QED BY <1>1, <3>2, <4>2, <4>3, PartAdded
    <3> QED BY <1>6, <3>1, <3>2
  <2>2. EStayNext(ework) => EHolds(t2)
    BY <1>5, <1>6, <2>1 DEF EHolds
  <2> QED BY <1>1, <1>6, <2>2, HalfKept DEF EInPlace
<1> QED BY <1>2, <1>3, <1>4, <1>6 DEF EHalf, EPut, ECall, EFails, EAnswer, EFailed, EKeep

\* The handler w looks, and the tree stays as it is.
LEMMA KeptLook ==
  ASSUME EKeptInd, ework.pc # "done", UNCHANGED <<etree, eorig, emetas, ereq>>, eother'.up = eother.up,
         NEW w, ework' = w, ~EMayReplace /\ EKeeping(ework) => EKeeping(w)
  PROVE  EKeptInd'
<1>1. CASE EMayReplace
  BY <1>1, KeptReplaced
<1>2. CASE ~EMayReplace
  <2>1. EKeeping(w)
    BY <1>2 DEF EKeptInd
  <2>2. /\ \A p : ECounted(p)' <=> ECounted(p)
        /\ EDirsAt(eorig)' = EDirsAt(eorig) /\ EShownAtDst' = EShownAtDst
    BY SameJudged
  <2>3. EDirsAt(etree)' = EDirsAt(etree)
    BY DEF EDirsAt
  <2>4. EKeepsPlace(ework)'
    BY <2>1, <2>2 DEF EKeeping, EKeepsPlace, EStays, EStayNext, ENamedOnes, EBare
  <2>5. EKeepsNamed(ework)'
    BY <2>1 DEF EKeeping, EKeepsNamed, EUntouched
  <2>6. EMoving(w) => EMoving(ework)'
    <3>1. \A q : ESafe(w, q) => ESafe(ework, q)'
      BY <2>2 DEF ESafe, ETo, EBaseIn
    <3> QED BY <2>2, <3>1 DEF EMoving
  <2>7. EKeepsMoved(ework)'
    BY <2>1, <2>6 DEF EKeeping, EKeepsMoved, ENamedOnes, EApart, ETo, EBaseIn
  <2>8. EKeepsGathered(ework)'
    BY <2>1, <2>2, <2>3, <2>6 DEF EKeeping, EKeepsGathered, EChosen
  <2>9. EKeeping(ework)'
    BY <2>4, <2>5, <2>7, <2>8 DEF EKeeping
  <2>10. EKept'
    <3>1. (EMayReplace)' <=> EMayReplace
      BY SameJudged
    <3>2. \A p \in DOMAIN eorig : ECounted(p) => \E q \in DOMAIN etree : etree[q] = eorig[p]
      BY <1>2 DEF EKeptInd, EKept, ECounted
    <3> QED BY <2>2, <3>2 DEF EKept, ECounted
  <2> QED BY <2>9, <2>10 DEF EKeptInd
<1> QED BY <1>1, <1>2

LEMMA StartKept == ASSUME EInd, EKeptInd, EMoveStart \/ ECopyStart \/ ERemoveStart PROVE EKeptInd'
<1>1. /\ ereq.op \in {"move", "copy", "remove"} /\ ework.pc = "start" /\ UNCHANGED <<eorig, emetas, ereq, eother>> /\ ework \in ECalls
  BY ReqFacts DEF EMoveStart, ECopyStart, ERemoveStart, EAt, EKeep
<1>2. CASE EAnswer("denied")
  BY <1>1, <1>2, KeptAnswers
<1>3. CASE EGo("check")
  <2>1. PICK w : w = [ework EXCEPT !.pc = "check"]
    OBVIOUS
  <2>2. w.pc = "check" /\ w.list = ework.list /\ w.i = ework.i
    BY <1>1, <2>1 DEF ECalls
  <2>3. EKeeping(ework) => EKeeping(w)
    BY <1>1, <2>2 DEF EKeeping, EKeepsPlace, EKeepsNamed, EKeepsMoved, EKeepsGathered, EStayNext, ENamedOnes, EApart
  <2> QED BY <1>1, <1>3, <2>1, <2>3, KeptLook DEF EGo
<1> QED BY <1>2, <1>3 DEF EMoveStart, ECopyStart, ERemoveStart

LEMMA NameIsOne ==
  ASSUME EInd, ~EAllSeen
  PROVE  ework.i \in DOMAIN ereq.names /\ ework.i \in Nat /\ ENamed = EJoin(ereq.dir, ereq.names[ework.i]) /\ DOMAIN ereq.names \subseteq Nat
<1>1. ereq.names \in Seq(Seq(ENames \cup {".", ".."})) /\ ework.i \in Nat \ {0}
  BY ReqFacts DEF EInd, ETyped, EReqOk, ECalls
<1>2. Len(ereq.names) \in Nat /\ DOMAIN ereq.names = 1..Len(ereq.names)
  BY <1>1
<1>3. ework.i <= Len(ereq.names)
  BY <1>1, <1>2 DEF EAllSeen
<1>4. ework.i \in 1..Len(ereq.names) /\ 1..Len(ereq.names) \subseteq Nat
  BY <1>1, <1>2, <1>3
<1> QED BY <1>1, <1>2, <1>4 DEF ENamed

\* The name that is looked at is put on the list.
LEMMA ListedOne ==
  ASSUME EInd, ~EAllSeen, ework.pc = "check", ereq.op \in {"move", "copy", "remove"}, NEW w, w = [ENextName EXCEPT !.list = Append(@, ENamed)]
  PROVE  /\ w.pc = "check" /\ w.i = ework.i + 1 /\ ework.list \in Seq(EPaths) /\ ENamed \in EPaths /\ w.list = Append(ework.list, ENamed)
         /\ w.list \in Seq(EPaths)
         /\ \A k \in DOMAIN w.list : (k \in DOMAIN ework.list /\ w.list[k] = ework.list[k]) \/ (k = Len(ework.list) + 1 /\ w.list[k] = ENamed)
         /\ ENamedOnes(ework) => ENamedOnes(w)
<1>1. ework \in ECalls /\ ENamed \in EPaths
  BY ReqFacts
<1>2. w.pc = "check" /\ w.i = ework.i + 1 /\ w.list = Append(ework.list, ENamed)
  BY <1>1 DEF ENextName, ECalls
<1>3. ework.list \in Seq(EPaths)
  BY DEF EInd, EWorkSound, EMovable, ECopyable, ERemovable
<1>4. PICK l : l = ework.list
  OBVIOUS
<1>5. PICK x : x = ENamed
  OBVIOUS
<1>6. PICK r : r = Append(l, x)
  OBVIOUS
<1>7. l \in Seq(EPaths) /\ x \in EPaths /\ w.list = r
  BY <1>1, <1>2, <1>3, <1>4, <1>5, <1>6
<1>8. /\ Len(l) \in Nat /\ DOMAIN l = 1..Len(l) /\ DOMAIN r = 1..(Len(l) + 1) /\ r[Len(l) + 1] = x
      /\ \A k \in 1..Len(l) : r[k] = l[k]
  BY <1>6, <1>7
<1>9. \A k \in DOMAIN r : (k \in DOMAIN l /\ r[k] = l[k]) \/ (k = Len(l) + 1 /\ r[k] = x)
  BY <1>8
<1>10. ASSUME ENamedOnes(ework) PROVE ENamedOnes(w)
  <2>1. ework.i \in DOMAIN ereq.names /\ ework.i \in Nat /\ x = EJoin(ereq.dir, ereq.names[ework.i]) /\ DOMAIN ereq.names \subseteq Nat
    BY <1>5, NameIsOne
  <2>2. ASSUME NEW k \in DOMAIN r PROVE \E m \in DOMAIN ereq.names : m < ework.i + 1 /\ r[k] = EJoin(ereq.dir, ereq.names[m])
    <3>1. CASE k \in DOMAIN l /\ r[k] = l[k]
      <4>1. PICK m \in DOMAIN ereq.names : m < ework.i /\ l[k] = EJoin(ereq.dir, ereq.names[m])
        BY <1>4, <1>10, <3>1 DEF ENamedOnes
      <4>2. m < ework.i + 1
        BY <2>1, <4>1
      <4> QED BY <3>1, <4>1, <4>2
    <3>2. CASE r[k] = x
      <4>1. ework.i < ework.i + 1
        BY <2>1
      <4> QED BY <2>1, <3>2, <4>1
    <3> QED BY <1>9, <2>2, <3>1, <3>2
  <2> QED BY <1>2, <1>7, <2>2 DEF ENamedOnes
<1>11. r \in Seq(EPaths)
  BY <1>6, <1>7
<1> QED BY <1>1, <1>2, <1>3, <1>4, <1>5, <1>6, <1>7, <1>9, <1>10, <1>11

LEMMA PassedOne ==
  ASSUME EInd, ework.pc = "check", NEW w, w = ENextName
  PROVE  w.pc = "check" /\ w.list = ework.list /\ (ENamedOnes(ework) => ENamedOnes(w))
<1>1. ework \in ECalls
  BY ReqFacts
<1>2. w.pc = "check" /\ w.list = ework.list /\ w.i = ework.i + 1 /\ ework.i \in Nat
  BY <1>1 DEF ENextName, ECalls
<1>3. ereq.names \in Seq(Seq(ENames \cup {".", ".."}))
  BY DEF EInd, ETyped, EReqOk
<1>4. \A m \in DOMAIN ereq.names : m \in Nat /\ (m < ework.i => m < ework.i + 1)
  BY <1>2, <1>3
<1> QED BY <1>2, <1>4 DEF ENamedOnes

LEMMA StayCheckKept == ASSUME EInd, EKeptInd, ECopyCheck \/ ERemoveCheck PROVE EKeptInd'
<1>1. /\ ereq.op \in {"copy", "remove"} /\ ework.pc = "check" /\ UNCHANGED <<eorig, emetas, ereq, eother>> /\ ework \in ECalls
      /\ ereq.op \in EInPlace
  BY ReqFacts DEF ECopyCheck, ERemoveCheck, EAt, EKeep, EInPlace
<1>2. CASE EAnswer("denied") \/ EAnswer("bad") \/ EAnswer("exists")
  BY <1>1, <1>2, KeptAnswers
<1>3. CASE EGo("act")
  <2>1. PICK w : w = [ework EXCEPT !.pc = "act"]
    OBVIOUS
  <2>2. w.list = ework.list /\ w.i = ework.i
    BY <1>1, <2>1 DEF ECalls
  <2>3. EStayNext(ework) => EStayNext(w)
    BY <1>1, <2>2 DEF EStayNext, ENamedOnes
  <2> QED BY <1>1, <1>3, <2>1, <2>3, StayLook DEF EGo
<1>4. CASE ework' = ENextName /\ UNCHANGED etree
  <2>1. PICK w : w = ENextName
    OBVIOUS
  <2>2. EStayNext(ework) => EStayNext(w)
    BY <1>1, <2>1, PassedOne DEF EStayNext
  <2> QED BY <1>1, <1>4, <2>1, <2>2, StayLook
<1>5. CASE ~EAllSeen /\ ework' = [ENextName EXCEPT !.list = Append(@, ENamed)] /\ UNCHANGED etree
  <2>1. PICK w : w = [ENextName EXCEPT !.list = Append(@, ENamed)]
    OBVIOUS
  <2>2. ENamedOnes(ework) => ENamedOnes(w)
    BY <1>1, <1>5, <2>1, ListedOne
  <2>3. EStayNext(ework) => EStayNext(w)
    BY <1>1, <2>2 DEF EStayNext
  <2> QED BY <1>1, <1>5, <2>1, <2>3, StayLook
<1> QED BY <1>2, <1>3, <1>4, <1>5 DEF ECopyCheck, ERemoveCheck

LEMMA NextOneFields ==
  ASSUME EInd, NEW w, w = ENextOne
  PROVE  /\ w.pc = ework.pc /\ w.list = ework.list /\ w.i = ework.i /\ w.n = ework.n + 1 /\ ework.n \in Nat /\ w.queue = ework.queue
         /\ w.seen = ework.seen
BY ReqFacts DEF ENextOne, ECalls

LEMMA CopyKept == ASSUME EInd, EKeptInd, ECopy PROVE EKeptInd'
<1>1. /\ ereq.op = "copy" /\ ework.pc = "act" /\ ~EAllDone /\ ework \in ECalls /\ ereq.dst \in EPaths
      /\ ework.list \in Seq(ECopyable) /\ ETreeOk(etree) /\ ereq.op \in EInPlace
  BY ReqFacts DEF ECopy, EAt, EInd, EWorkSound, EInPlace
<1>2. PICK src : src = ework.list[ework.n]
  OBVIOUS
<1>3. PICK dst : dst = EBaseIn(ereq.dst, src)
  OBVIOUS
<1>4. src \in EPaths /\ dst \in EPaths
  BY <1>1, <1>2, <1>3, TakenIs, BaseOf DEF ECopyable
<1>5. CASE EFailed
  BY <1>5, FailKept
<1>6. PICK w : w = ENextOne
  OBVIOUS
<1>7. EStayNext(w)
  BY <1>1 DEF EStayNext
<1>8. CASE etree' = etree /\ ework' = ENextOne /\ EKeep
  BY <1>1, <1>6, <1>7, <1>8, StayLook DEF EKeep
<1>9. ASSUME EThere(src), EIsDir(ereq.dst), ~IsPrefix(src, dst), EFree(src, dst),
             NEW t \in EPartOf(EPlaced(DOMAIN etree, src, dst), DOMAIN etree), etree' = t,
             (ework' = ENextOne /\ EKeep) \/ EFails
      PROVE  EKeptInd'
  <2>1. src # <<>>
    BY <1>4, <1>9, PrefixSelf DEF EPaths
  <2>2. src \in DOMAIN etree /\ dst \in EPaths \ {<<>>} /\ Front(dst) = ereq.dst
    BY <1>1, <1>3, <1>4, <1>9, <2>1, BaseOf DEF EThere
  <2>3. PICK u : u = EPlaced(DOMAIN etree, src, dst)
    OBVIOUS
  <2>4. ETreeOk(u) /\ \A q \in DOMAIN etree : q \in DOMAIN u /\ u[q] = etree[q]
    BY <1>1, <1>9, <2>2, <2>3, CopiedOk
  <2>5. EHolds(t)
    BY <1>1, <1>9, <2>3, <2>4, PartAdded DEF EHolds
  <2>6. CASE ework' = ENextOne /\ EKeep
    BY <1>1, <1>6, <1>7, <1>9, <2>5, <2>6, StayStep DEF EKeep
  <2>7. CASE EFails
    BY <1>1, <1>9, <2>5, <2>7, HalfKept
  <2> QED BY <1>9, <2>6, <2>7
<1>10. CASE \/ EFailed
            \/ etree' = etree /\ ework' = ENextOne /\ EKeep
            \/ /\ EThere(src) /\ EIsDir(ereq.dst) /\ ~IsPrefix(src, dst) /\ EFree(src, dst)
               /\ \E t \in EPartOf(EPlaced(DOMAIN etree, src, dst), DOMAIN etree) :
                    etree' = t /\ ((ework' = ENextOne /\ EKeep) \/ EFails)
  BY <1>5, <1>8, <1>9, <1>10
<1> QED BY <1>2, <1>3, <1>10 DEF ECopy, ECall, EHalf, EFails, EAnswer, EFailed, EKeep, EFree

LEMMA RemoveKept == ASSUME EInd, EKeptInd, ERemove PROVE EKeptInd'
<1>1. /\ ereq.op = "remove" /\ ework.pc = "act" /\ ~EAllDone /\ ework \in ECalls
      /\ ework.list \in Seq(ERemovable) /\ ETreeOk(etree) /\ ereq.op \in EInPlace
  BY ReqFacts DEF ERemove, EAt, EInd, EWorkSound, EInPlace
<1>2. PICK h : h = ework.list[ework.n]
  OBVIOUS
<1>3. h \in EPaths /\ ework.n \in DOMAIN ework.list
  BY <1>1, <1>2, TakenIs DEF ERemovable
<1>4. CASE EFailed
  BY <1>4, FailKept
<1>5. CASE etree' = ERemoved(h) /\ ework' = ENextOne /\ EKeep
  <2>1. PICK t : t = ERemoved(h)
    OBVIOUS
  <2>2. DOMAIN t = {q \in DOMAIN etree : ~IsPrefix(h, q)} /\ \A q \in DOMAIN t : t[q] = etree[q]
    BY <1>1, <1>3, <2>1, RemovedOk
  <2>3. ASSUME EStayNext(ework) PROVE EHolds(t)
    <3>1. PICK m \in DOMAIN ereq.names : h = EJoin(ereq.dir, ereq.names[m])
      BY <1>1, <1>2, <1>3, <2>3 DEF EStayNext, ENamedOnes
    <3>2. \A p : ECounted(p) => ~IsPrefix(h, p)
      BY <1>1, <3>1 DEF ECounted, EToRemove
    <3> QED BY <2>2, <3>2 DEF EHolds
  <2>4. PICK w : w = ENextOne
    OBVIOUS
  <2>5. EStayNext(ework) => EStayNext(w)
    BY <1>1, <2>4, NextOneFields DEF EStayNext, ENamedOnes
  <2> QED BY <1>1, <1>5, <2>1, <2>3, <2>4, <2>5, StayStep DEF EKeep
<1>6. CASE EHalf(ERemovedPartly(h))
  <2>1. PICK t \in ERemovedPartly(h) : etree' = t /\ EFails
    BY <1>6 DEF EHalf
  <2>2. \A q \in DOMAIN etree : ~IsPrefix(h, q) => q \in DOMAIN t /\ t[q] = etree[q]
    BY <1>1, <1>3, <2>1, PartRemoved
  <2>3. ASSUME EStayNext(ework) PROVE EHolds(t)
    <3>1. PICK m \in DOMAIN ereq.names : h = EJoin(ereq.dir, ereq.names[m])
      BY <1>1, <1>2, <1>3, <2>3 DEF EStayNext, ENamedOnes
    <3>2. \A p : ECounted(p) => ~IsPrefix(h, p)
      BY <1>1, <3>1 DEF ECounted, EToRemove
    <3> QED BY <2>2, <3>2 DEF EHolds
  <2> QED BY <1>1, <2>1, <2>3, HalfKept
<1> QED BY <1>2, <1>4, <1>5, <1>6 DEF EHalf, ERemove, ECall, EFails, EAnswer, EFailed, EKeep

LEMMA FinishKept == ASSUME EInd, EKeptInd, EFinish \/ ERegexFinish PROVE EKeptInd'
<1>1. EAnswer("ok") /\ UNCHANGED <<eorig, emetas, ereq>>
  BY DEF EFinish, ERegexFinish, EKeep
<1> QED BY <1>1, KeptAnswers

LEMMA EmptyStartKept == ASSUME EInd, EKeptInd, EEmptyStart PROVE EKeptInd'
<1>1. ereq.op = "empties" /\ ework.pc = "start" /\ UNCHANGED <<eorig, emetas, ereq, eother>> /\ ework \in ECalls /\ ereq.op \in EInPlace
  BY ReqFacts DEF EEmptyStart, EAt, EKeep, EInPlace
<1>2. CASE EAnswer("denied") \/ EAnswer("error")
  BY <1>1, <1>2, KeptAnswers
<1>3. ASSUME NEW s, ework' = [ework EXCEPT !.queue = s, !.pc = "look"], UNCHANGED etree PROVE EKeptInd'
  <2>1. PICK w : w = [ework EXCEPT !.queue = s, !.pc = "look"]
    OBVIOUS
  <2>2. w.pc = "look"
    BY <1>1, <2>1 DEF ECalls
  <2>3. EStayNext(w)
    BY <1>1, <2>2 DEF EStayNext
  <2> QED BY <1>1, <1>3, <2>1, <2>3, StayLook
<1> QED BY <1>2, <1>3 DEF EEmptyStart

LEMMA EmptyLookKept == ASSUME EInd, EKeptInd, EEmptyLook PROVE EKeptInd'
<1>1. /\ ereq.op = "empties" /\ ework.pc = "look" /\ UNCHANGED <<eorig, emetas, ereq, eother>> /\ ework \in ECalls /\ ereq.op \in EInPlace
  BY ReqFacts DEF EEmptyLook, EAt, EKeep, EInPlace
<1>2. CASE EAnswer("ok") \/ EAnswer("error")
  BY <1>1, <1>2, KeptAnswers
<1>3. ASSUME NEW w, ework' = w, w.pc = "look", UNCHANGED etree PROVE EKeptInd'
  <2>1. EStayNext(w)
    BY <1>1, <1>3 DEF EStayNext
  <2> QED BY <1>1, <1>3, <2>1, StayLook
<1>4. CASE ework.queue # <<>> /\ ~EAnswer("ok") /\ ~EAnswer("error")
  <2>1. PICK h : h = Head(ework.queue)
    OBVIOUS
  <2>2. h \in EBelow /\ h \in EPaths /\ h # <<>>
    <3>1. h \in EBelow
      BY <1>1, <1>4, <2>1, QueueIs
    <3>2. h \in EPaths /\ IsStrictPrefix(ereq.dir, h) /\ ereq.dir \in EPaths
      BY <3>1, ReqFacts DEF EBelow
    <3> QED BY <3>1, <3>2, PrefixLong DEF EPaths, IsStrictPrefix
  <2>3. CASE EIsDir(h) /\ EListed(h) = {} /\ ework' = [ework EXCEPT !.pc = "remove"] /\ UNCHANGED etree
    <3>1. PICK w : w = [ework EXCEPT !.pc = "remove"]
      OBVIOUS
    <3>2. w.queue = ework.queue /\ w.pc = "remove"
      BY <1>1, <3>1 DEF ECalls
    <3>3. ASSUME EStays, NEW p \in DOMAIN eorig, ECounted(p), IsPrefix(h, p) PROVE FALSE
      <4>1. p \in DOMAIN etree /\ etree[p] = eorig[p] /\ eorig[p] # "dir" /\ EShown(p)
        BY <3>3 DEF EStays, ECounted
      <4>2. h # p
        BY <2>2, <2>3, <4>1 DEF EIsDir
      <4>3. IsStrictPrefix(h, p)
        BY <3>3, <4>2 DEF IsStrictPrefix
      <4>4. \E c \in EListed(h) : IsPrefix(c, p)
        BY <2>2, <4>1, <4>3, ShownIsListed
      <4> QED BY <2>3, <4>4
    <3>4. EStays => EStayNext(w)
      BY <1>1, <2>1, <3>2, <3>3 DEF EStayNext, EBare
    <3> QED BY <1>1, <2>3, <3>1, <3>4, StayLook
  <2>4. PICK v : v = [ework EXCEPT !.queue = Tail(@)]
    OBVIOUS
  <2>5. v.pc = "look"
    BY <1>1, <2>4 DEF ECalls
  <2>6. ASSUME NEW s, ework' = [v EXCEPT !.queue = @ \o s], UNCHANGED etree PROVE EKeptInd'
    <3>1. PICK w : w = [v EXCEPT !.queue = @ \o s]
      OBVIOUS
    <3>2. w.pc = "look"
      BY <1>1, <2>4, <3>1 DEF ECalls
    <3> QED BY <1>3, <2>6, <3>1, <3>2
  <2> QED BY <1>3, <1>4, <2>1, <2>3, <2>4, <2>5, <2>6 DEF EEmptyLook
<1> QED BY <1>2, <1>4 DEF EEmptyLook

LEMMA EmptyRemoveKept == ASSUME EInd, EKeptInd, EEmptyRemove PROVE EKeptInd'
<1>1. /\ ereq.op = "empties" /\ ework.pc = "remove" /\ ework \in ECalls /\ ework.queue # <<>> /\ ETreeOk(etree) /\ ereq.op \in EInPlace
  BY ReqFacts DEF EEmptyRemove, EAt, EInd, EWorkSound, EInPlace
<1>2. PICK h : h = Head(ework.queue)
  OBVIOUS
<1>3. h \in EPaths
  BY <1>1, <1>2, QueueIs DEF EBelow
<1>4. CASE EFailed
  BY <1>4, FailKept
<1>5. PICK w : w = [ework EXCEPT !.pc = "look", !.gone = @ \cup {h}, !.queue = Tail(@) \o ELookAgain(h)]
  OBVIOUS
<1>6. CASE etree' = ERemoved(h) /\ EKeep /\ ework' = w
  <2>1. PICK t : t = ERemoved(h)
    OBVIOUS
  <2>2. DOMAIN t = {q \in DOMAIN etree : ~IsPrefix(h, q)} /\ \A q \in DOMAIN t : t[q] = etree[q]
    BY <1>1, <1>3, <2>1, RemovedOk
  <2>3. ASSUME EStayNext(ework) PROVE EHolds(t)
    <3>1. \A p : ECounted(p) => ~IsPrefix(h, p)
      BY <1>1, <1>2, <2>3 DEF EStayNext, EBare, ECounted
    <3> QED BY <2>2, <3>1 DEF EHolds
  <2>4. w.pc = "look"
    BY <1>1, <1>5 DEF ECalls
  <2>5. EStayNext(w)
    BY <1>1, <2>4 DEF EStayNext
  <2> QED BY <1>1, <1>6, <2>1, <2>3, <2>5, StayStep DEF EKeep
<1>7. CASE EHalf(ERemovedPartly(h))
  <2>1. PICK t \in ERemovedPartly(h) : etree' = t /\ EFails
    BY <1>7 DEF EHalf
  <2>2. \A q \in DOMAIN etree : ~IsPrefix(h, q) => q \in DOMAIN t /\ t[q] = etree[q]
    BY <1>1, <1>3, <2>1, PartRemoved
  <2>3. ASSUME EStayNext(ework) PROVE EHolds(t)
    <3>1. \A p : ECounted(p) => ~IsPrefix(h, p)
      BY <1>1, <1>2, <2>3 DEF EStayNext, EBare, ECounted
    <3> QED BY <2>2, <3>1 DEF EHolds
  <2> QED BY <1>1, <2>1, <2>3, HalfKept
<1> QED BY <1>2, <1>4, <1>5, <1>6, <1>7 DEF EHalf, EEmptyRemove, ECall, EFails, EAnswer, EFailed, EKeep

-----------------------------------------------------------------------------
(* Renames                                                                      *)

LEMMA RenamesKept == ASSUME EInd, EKeptInd, ERenamesStart \/ ERegexStart \/ ERenameOne PROVE EKeptInd'
<1>1. ereq.op \in {"renames", "regex"} /\ UNCHANGED <<eorig, emetas, ereq>>
  BY DEF ERenamesStart, ERegexStart, ERenameOne, EAt, EKeep, ECall, EFails, EAnswer
<1> QED BY <1>1, KeptReplaced DEF EMayReplace

LEMMA RenameKept == ASSUME EInd, EKeptInd, ERename PROVE EKeptInd'
<1>1. /\ ereq.op = "rename" /\ ework.pc = "start" /\ UNCHANGED <<eorig, emetas, ereq, eother>> /\ ework \in ECalls
      /\ ereq.path \in EPaths /\ ereq.name \in ENames
  BY ReqFacts DEF ERename, EAt, EKeep, EInd, ETyped, EReqOk
<1>2. CASE EAnswer("denied") \/ EAnswer("exists") \/ EAnswer("error")
  BY <1>1, <1>2, KeptAnswers
<1>3. PICK dst : dst = Append(Front(ereq.path), ereq.name)
  OBVIOUS
<1>4. CASE ereq.path # <<>> /\ (ereq.over \/ dst = ereq.path \/ ~EFound(dst)) /\ EGo("act")
  <2>1. PICK w : w = [ework EXCEPT !.pc = "act"]
    OBVIOUS
  <2>2. EUntouched
    BY <1>1 DEF EInd, EPast, EEarly
  <2>3. dst \in EPaths
    BY <1>1, <1>3, <1>4, FrontOf, PathOfName DEF EPaths
  <2>4. ~EMayReplace => dst \in {ereq.path} \cup (EPaths \ DOMAIN eorig) \cup ereq.blind
    BY <1>4, <2>2, <2>3 DEF EMayReplace, EFound, EThere, EUntouched
  <2>5. ~EMayReplace => EKeeping(w)
    BY <1>1, <1>3, <2>2, <2>4 DEF EKeeping, EKeepsPlace, EKeepsNamed, EKeepsMoved, EKeepsGathered, EInPlace
  <2> QED BY <1>1, <1>4, <2>1, <2>5, KeptLook DEF EGo
<1> QED BY <1>2, <1>3, <1>4 DEF ERename

LEMMA RenameActKept == ASSUME EInd, EKeptInd, ERenameAct PROVE EKeptInd'
<1>1. /\ ereq.op = "rename" /\ ework.pc = "act" /\ ework \in ECalls /\ ereq.path \in EPaths /\ ereq.name \in ENames
      /\ ETreeOk(etree) /\ ETreeOk(eorig) /\ ereq.path # <<>>
  BY ReqFacts DEF ERenameAct, EAt, EInd, ETyped, EReqOk, EWorkSound
<1>2. PICK src : src = ereq.path
  OBVIOUS
<1>3. PICK dst : dst = Append(Front(src), ereq.name)
  OBVIOUS
<1>4. dst \in EPaths \ {<<>>} /\ src \in EPaths /\ src # <<>>
  BY <1>1, <1>2, <1>3, FrontOf, PathOfName DEF EPaths
<1>5. CASE EFailed
  BY <1>5, FailKept
<1>6. CASE /\ EMayLand(src, dst) /\ etree' = EMoved(src, dst) /\ ework' = [ework EXCEPT !.pc = "done", !.ans = "ok"] /\ EKeep
  <2>1. UNCHANGED <<eorig, emetas, ereq>> /\ ework'.pc = "done"
    BY <1>1, <1>6 DEF EKeep, ECalls
  <2>2. PICK t : t = EMoved(src, dst)
    OBVIOUS
  <2>3. /\ \A q \in DOMAIN etree : ~IsPrefix(src, q) /\ ~IsPrefix(dst, q) => q \in DOMAIN t /\ t[q] = etree[q]
        /\ \A q \in EUnder(src) : EImage(q, src, dst) \in DOMAIN t /\ t[EImage(q, src, dst)] = etree[q]
    BY <1>1, <1>4, <1>6, <2>2, MovedOk
  <2>4. ASSUME ~EMayReplace, NEW p \in DOMAIN eorig, ECounted(p) PROVE \E q \in DOMAIN t : t[q] = eorig[p]
    <3>1. EUntouched /\ (dst = src \/ dst \notin DOMAIN eorig \/ dst \in ereq.blind)
      BY <1>1, <1>2, <1>3, <2>4 DEF EKeptInd, EKeeping, EKeepsNamed
    <3>2. p \in DOMAIN etree /\ etree[p] = eorig[p]
      BY <3>1 DEF EUntouched
    <3>3. CASE IsPrefix(src, p)
      <4>1. p \in EUnder(src)
        BY <1>1, <1>4, <3>2, <3>3, UnderOf
      <4> QED BY <2>3, <3>2, <4>1
    <3>4. CASE ~IsPrefix(src, p)
      <4>1. ~IsPrefix(dst, p)
        <5>1. CASE dst \in ereq.blind
          BY <2>4, <5>1 DEF ECounted, EUnseen
        <5>2. CASE dst \notin DOMAIN eorig
          BY <1>1, <1>4, <2>4, <5>2, FileAlone
        <5> QED BY <3>1, <3>4, <5>1, <5>2
      <4> QED BY <2>3, <3>2, <3>4, <4>1
    <3> QED BY <3>3, <3>4
  <2>5. ((EMayReplace)' <=> EMayReplace) /\ (\A p : ECounted(p)' <=> ECounted(p)) /\ etree' = t
    BY <1>6, <2>1, <2>2, SameJudged
  <2>6. EKept'
    BY <2>1, <2>4, <2>5 DEF EKept, ECounted
  <2> QED BY <2>1, <2>6 DEF EKeptInd
<1> QED BY <1>2, <1>3, <1>5, <1>6 DEF ERenameAct, ECall, EFails, EAnswer, EFailed, EKeep

-----------------------------------------------------------------------------
(* What is moved takes its files with it, and replaces none                     *)

LEMMA MoveCheckKept == ASSUME EInd, EKeptInd, EMoveCheck PROVE EKeptInd'
<1>1. /\ ereq.op = "move" /\ ework.pc = "check" /\ UNCHANGED <<eorig, emetas, ereq, eother>> /\ ework \in ECalls
      /\ ETreeOk(eorig) /\ EUntouched /\ ereq.dst \in EPaths
  BY ReqFacts DEF EMoveCheck, EAt, EKeep, EInd, EPast, EEarly
<1>2. CASE EAnswer("denied") \/ EAnswer("bad") \/ EAnswer("exists")
  BY <1>1, <1>2, KeptAnswers
<1>3. ASSUME NEW w, EKeeping(ework), ENamedOnes(w), EApart(w), w.pc = "act" => EMoving(w) PROVE EKeeping(w)
  BY <1>1, <1>3 DEF EKeeping, EKeepsPlace, EKeepsNamed, EKeepsMoved, EKeepsGathered, EInPlace
<1>4. CASE EGo("act")
  <2>1. PICK w : w = [ework EXCEPT !.pc = "act"]
    OBVIOUS
  <2>2. w.list = ework.list /\ w.i = ework.i /\ w.n = ework.n
    BY <1>1, <2>1 DEF ECalls
  <2>3. ASSUME EKeeping(ework) PROVE EKeeping(w)
    <3>1. ENamedOnes(w) /\ EApart(w)
      BY <1>1, <2>2, <2>3 DEF EKeeping, EKeepsMoved, ENamedOnes, EApart
    <3>2. ework.list \in Seq(EMovable)
      BY <1>1 DEF EInd, EWorkSound
    <3>3. ASSUME NEW p \in DOMAIN eorig, ECounted(p) PROVE ESafe(w, p)
      <4>1. ASSUME NEW k \in DOMAIN w.list, IsPrefix(ETo(w.list[k]), p) PROVE FALSE
        <5>4. ETo(w.list[k]) \notin ereq.blind
          BY <3>3, <4>1 DEF ECounted, EUnseen
        <5>1. w.list[k] \in EPaths /\ w.list[k] # <<>> /\ ETo(w.list[k]) \notin DOMAIN eorig
          BY <2>2, <3>1, <3>2, <4>1, <5>4 DEF EApart, EMovable
        <5>2. ETo(w.list[k]) \in EPaths \ {<<>>}
          BY <1>1, <5>1, BaseOf DEF ETo
        <5>3. p = ETo(w.list[k])
          BY <1>1, <4>1, <5>1, <5>2, FileAlone
        <5> QED BY <5>1, <5>3
      <4> QED BY <4>1 DEF ESafe
    <3>4. EMoving(w)
      BY <1>1, <3>3 DEF EMoving, EUntouched
    <3> QED BY <1>3, <2>3, <3>1, <3>4
  <2> QED BY <1>1, <1>4, <2>1, <2>3, KeptLook DEF EGo
<1>5. CASE ework' = ENextName /\ UNCHANGED etree
  <2>1. PICK w : w = ENextName
    OBVIOUS
  <2>2. w.pc = "check" /\ w.list = ework.list /\ (ENamedOnes(ework) => ENamedOnes(w))
    BY <1>1, <2>1, PassedOne
  <2>3. ASSUME EKeeping(ework) PROVE EKeeping(w)
    <3>1. ENamedOnes(w) /\ EApart(w)
      BY <1>1, <2>2, <2>3 DEF EKeeping, EKeepsMoved, EApart
    <3> QED BY <1>3, <2>2, <2>3, <3>1
  <2> QED BY <1>1, <1>5, <2>1, <2>3, KeptLook
<1>6. CASE /\ ~EAllSeen /\ (ereq.over \/ (ENamed # <<>> /\ ~EFound(ETarget)))
           /\ ework' = [ENextName EXCEPT !.list = Append(@, ENamed)] /\ UNCHANGED etree
  <2>1. PICK w : w = [ENextName EXCEPT !.list = Append(@, ENamed)]
    OBVIOUS
  <2>2. PICK x : x = ENamed
    OBVIOUS
  <2>3. /\ w.pc = "check" /\ (ENamedOnes(ework) => ENamedOnes(w)) /\ x \in EPaths
        /\ \A k \in DOMAIN w.list : (k \in DOMAIN ework.list /\ w.list[k] = ework.list[k]) \/ (k = Len(ework.list) + 1 /\ w.list[k] = x)
    BY <1>1, <1>6, <2>1, <2>2, ListedOne
  <2>4. ASSUME ~EMayReplace, EKeeping(ework) PROVE EKeeping(w)
    <3>1. ENamedOnes(ework) /\ EApart(ework)
      BY <1>1, <2>4 DEF EKeeping, EKeepsMoved
    <3>8. ETo(x) \in EPaths
      BY <1>1, <2>3, BaseOf DEF ETo
    <3>2. x # <<>> /\ ETo(x) \in (EPaths \ DOMAIN eorig) \cup ereq.blind
      BY <1>1, <1>6, <2>2, <2>4, <3>8 DEF EMayReplace, EFound, EThere, ETarget, ENamed, ETo, EUntouched
    <3>3. ASSUME NEW k \in DOMAIN ework.list, ETo(ework.list[k]) = ETo(x) PROVE FALSE
      <4>1. PICK m \in DOMAIN ereq.names : m < ework.i /\ ework.list[k] = EJoin(ereq.dir, ereq.names[m])
        BY <3>1, <3>3 DEF ENamedOnes
      <4>2. ework.i \in DOMAIN ereq.names /\ x = EJoin(ereq.dir, ereq.names[ework.i]) /\ m # ework.i
        BY <1>6, <2>2, <4>1, NameIsOne
      <4>3. EBaseIn(ereq.dst, EJoin(ereq.dir, ereq.names[m])) = EBaseIn(ereq.dst, EJoin(ereq.dir, ereq.names[ework.i]))
        BY <3>3, <4>1, <4>2 DEF ETo
      <4>4. EAlike
        BY <1>1, <4>1, <4>2, <4>3 DEF EAlike
      <4> QED BY <2>4, <4>4 DEF EMayReplace
    <3>4. ASSUME NEW k \in DOMAIN w.list, NEW j \in DOMAIN w.list, ETo(w.list[j]) = ETo(w.list[k]) PROVE j = k
      <4>1. CASE k \in DOMAIN ework.list /\ w.list[k] = ework.list[k] /\ j \in DOMAIN ework.list /\ w.list[j] = ework.list[j]
        BY <3>1, <3>4, <4>1 DEF EApart
      <4>2. CASE k \in DOMAIN ework.list /\ w.list[k] = ework.list[k] /\ w.list[j] = x
        BY <3>3, <3>4, <4>2
      <4>3. CASE j \in DOMAIN ework.list /\ w.list[j] = ework.list[j] /\ w.list[k] = x
        BY <3>3, <3>4, <4>3
      <4> QED BY <2>3, <3>4, <4>1, <4>2, <4>3
    <3>5. \A k \in DOMAIN w.list : w.list[k] # <<>> /\ ETo(w.list[k]) \in (EPaths \ DOMAIN eorig) \cup ereq.blind
      BY <2>3, <3>1, <3>2 DEF EApart
    <3>6. EApart(w)
      BY <3>4, <3>5 DEF EApart
    <3>7. ENamedOnes(w)
      BY <2>3, <3>1
    <3> QED BY <1>3, <2>3, <2>4, <3>6, <3>7
  <2> QED BY <1>1, <1>6, <2>1, <2>4, KeptLook
<1> QED BY <1>2, <1>4, <1>5, <1>6 DEF EMoveCheck

\* One move of several that go to one directory under different names.
LEMMA MovesOn ==
  ASSUME EInd, EMoving(ework), ework.list \in Seq(EPaths), ework.n \in DOMAIN ework.list, NEW src, src = ework.list[ework.n],
         NEW dst, dst = ETo(src), EMayLand(src, dst), ereq.op = "gather" => dst \notin EDirsAt(eorig),
         \A k \in DOMAIN ework.list : ework.list[k] # <<>> /\ (ETo(ework.list[k]) = dst => k = ework.n),
         NEW w, w.list = ework.list, w.n = ework.n + 1, NEW t, t = EMoved(src, dst),
         NEW p \in DOMAIN eorig, ECounted(p)
  PROVE  \E q \in DOMAIN t : t[q] = eorig[p] /\ ESafe(w, q)
<1>1. ETreeOk(etree) /\ ereq.dst \in EPaths /\ src \in EPaths /\ src # <<>> /\ ework.n \in Nat
  BY ReqFacts
<1>2. \A k \in DOMAIN ework.list : /\ ETo(ework.list[k]) \in Seq(ENames) /\ Front(ETo(ework.list[k])) = ereq.dst
                                   /\ ETo(ework.list[k]) # <<>> /\ k \in Nat
  <2>1. ASSUME NEW k \in DOMAIN ework.list, NEW d, d = ETo(ework.list[k])
        PROVE  d \in Seq(ENames) /\ Front(d) = ereq.dst /\ d # <<>> /\ k \in Nat
    <3>1. ework.list[k] \in EPaths /\ ework.list[k] # <<>> /\ k \in Nat
      BY <2>1
    <3>2. d \in EPaths /\ d # <<>> /\ Front(d) = ereq.dst
      BY <1>1, <2>1, <3>1, BaseOf DEF ETo
    <3> QED BY <3>1, <3>2 DEF EPaths
  <2> QED BY <2>1
<1>3. dst \in EPaths \ {<<>>}
  BY <1>2 DEF EPaths
<1>4. /\ \A q \in DOMAIN etree : ~IsPrefix(src, q) /\ ~IsPrefix(dst, q) => q \in DOMAIN t /\ t[q] = etree[q]
      /\ \A q \in EUnder(src) : EImage(q, src, dst) \in DOMAIN t /\ t[EImage(q, src, dst)] = etree[q]
  BY <1>1, <1>3, MovedOk
<1>5. PICK q \in DOMAIN etree : etree[q] = eorig[p] /\ ESafe(ework, q)
  BY DEF EMoving
<1>6. ~IsPrefix(dst, q)
  BY <1>1, <1>5 DEF ESafe
<1>7. q \in Seq(ENames) /\ q \in EPaths
  BY <1>1 DEF ETreeOk, EPaths
<1>8. CASE ~IsPrefix(src, q)
  <2>1. q \in DOMAIN t /\ t[q] = eorig[p]
    BY <1>4, <1>5, <1>6, <1>8
  <2>2. \A k \in DOMAIN w.list : k >= w.n => k >= ework.n
    BY <1>1, <1>2
  <2>3. ESafe(w, q)
    BY <1>5, <2>2 DEF ESafe
  <2> QED BY <2>1, <2>3
<1>9. CASE IsPrefix(src, q)
  <2>1. PICK e : e = EImage(q, src, dst)
    OBVIOUS
  <2>2. e \in DOMAIN t /\ t[e] = eorig[p]
    BY <1>1, <1>4, <1>5, <1>9, <2>1, UnderOf
  <2>3. e \in Seq(ENames) /\ IsPrefix(dst, e)
    BY <1>1, <1>3, <1>7, <1>9, <2>1, ImageOf DEF EPaths
  <2>4. ASSUME NEW k \in DOMAIN w.list, k >= w.n, IsPrefix(ETo(w.list[k]), e) PROVE FALSE
    <3>1. PICK d : d = ETo(w.list[k])
      OBVIOUS
    <3>2. d \in Seq(ENames) /\ d # <<>> /\ Front(d) = ereq.dst /\ dst \in Seq(ENames) /\ dst # <<>> /\ Front(dst) = ereq.dst
      BY <1>2, <2>4, <3>1
    <3>3. Len(Front(d)) = Len(d) - 1 /\ Len(Front(dst)) = Len(dst) - 1 /\ Len(d) \in Nat /\ Len(dst) \in Nat
      <4>1. Len(Front(d)) = Len(d) - 1 /\ Len(d) \in Nat
        BY <3>2, FrontShorter
      <4>2. Len(Front(dst)) = Len(dst) - 1 /\ Len(dst) \in Nat
        BY <3>2, FrontShorter
      <4> QED BY <4>1, <4>2
    <3>4. Len(d) = Len(dst)
      BY <3>2, <3>3
    <3>5. IsPrefix(d, dst)
      BY <2>3, <2>4, <3>1, <3>2, <3>3, <3>4, PrefixesNest
    <3>6. d = dst
      BY <3>2, <3>4, <3>5, PrefixLong
    <3>7. k = ework.n
      BY <2>4, <3>1, <3>6
    <3> QED BY <1>1, <2>4, <3>7
  <2>5. ESafe(w, e)
    BY <2>4 DEF ESafe
  <2> QED BY <2>2, <2>5
<1> QED BY <1>8, <1>9

\* The handler acts, and t keeps what is counted.
LEMMA MovedKept ==
  ASSUME EInd, EKeptInd, ereq.op \in {"move", "gather"}, ework.pc = "act", UNCHANGED <<eorig, emetas, ereq>>, NEW t, etree' = t,
         NEW w, ework' = w, w = ENextOne,
         ~EMayReplace /\ EKeeping(ework) =>
           /\ \A p \in DOMAIN eorig : ECounted(p) => \E q \in DOMAIN t : t[q] = eorig[p] /\ ESafe(w, q)
           /\ ereq.op = "gather" => EDirsAt(t) = EDirsAt(eorig)
  PROVE  EKeptInd'
<1>1. CASE EMayReplace
  BY <1>1, KeptReplaced
<1>2. CASE ~EMayReplace
  <2>1. EKeeping(ework)
    BY <1>2 DEF EKeptInd
  <2>2. /\ \A p : ECounted(p)' <=> ECounted(p)
        /\ EDirsAt(eorig)' = EDirsAt(eorig) /\ EShownAtDst' = EShownAtDst
        /\ (EMayReplace)' <=> EMayReplace
    BY SameJudged
  <2>3. w.pc = "act" /\ w.list = ework.list /\ w.i = ework.i /\ w.seen = ework.seen
    BY NextOneFields
  <2>4. \A p \in DOMAIN eorig : ECounted(p) => \E q \in DOMAIN t : t[q] = eorig[p] /\ ESafe(w, q)
    BY <1>2, <2>1
  <2>5. \A q : ESafe(w, q) => ESafe(ework, q)'
    BY <2>2 DEF ESafe, ETo, EBaseIn
  <2>6. EMoving(ework)'
    BY <2>2, <2>4, <2>5 DEF EMoving
  <2>7. EKept'
    BY <2>2, <2>4 DEF EKept, ECounted
  <2>8. EKeepsMoved(ework)'
    BY <2>1, <2>3, <2>6 DEF EKeeping, EKeepsMoved, ENamedOnes, EApart, ETo, EBaseIn
  <2>9. EKeepsGathered(ework)'
    <3>1. ereq.op = "gather" => EDirsAt(etree)' = EDirsAt(eorig)
      BY <1>2, <2>1 DEF EDirsAt
    <3>2. EChosen(ework) => EChosen(ework)'
      BY <2>2, <2>3 DEF EChosen
    <3> QED BY <2>1, <2>2, <2>3, <2>6, <3>1, <3>2 DEF EKeeping, EKeepsGathered
  <2>10. EKeeping(ework)'
    BY <2>8, <2>9 DEF EKeeping, EKeepsPlace, EKeepsNamed, EInPlace
  <2> QED BY <2>7, <2>10 DEF EKeptInd
<1> QED BY <1>1, <1>2

LEMMA MoveKept == ASSUME EInd, EKeptInd, EMove PROVE EKeptInd'
<1>1. /\ ereq.op = "move" /\ ework.pc = "act" /\ ~EAllDone /\ ework \in ECalls /\ ework.list \in Seq(EMovable)
  BY ReqFacts DEF EMove, EMoveAct, EAt, EInd, EWorkSound
<1>2. PICK src : src = ework.list[ework.n]
  OBVIOUS
<1>3. PICK dst : dst = ETo(src)
  OBVIOUS
<1>4. ework.list \in Seq(EPaths) /\ ework.n \in DOMAIN ework.list
  BY <1>1, TakenIs DEF EMovable
<1>5. CASE EFailed
  BY <1>5, FailKept
<1>6. CASE EMayLand(src, dst) /\ etree' = EMoved(src, dst) /\ ework' = ENextOne /\ EKeep
  <2>1. PICK t : t = EMoved(src, dst)
    OBVIOUS
  <2>2. PICK w : w = ENextOne
    OBVIOUS
  <2>3. w.list = ework.list /\ w.n = ework.n + 1
    BY <2>2, NextOneFields
  <2>4. ASSUME EKeeping(ework), NEW p \in DOMAIN eorig, ECounted(p) PROVE \E q \in DOMAIN t : t[q] = eorig[p] /\ ESafe(w, q)
    <3>1. EMoving(ework) /\ EApart(ework)
      BY <1>1, <2>4 DEF EKeeping, EKeepsMoved
    <3>2. ereq.op # "gather"
      BY <1>1
    <3>3. \A k \in DOMAIN ework.list : ework.list[k] # <<>> /\ (ETo(ework.list[k]) = dst => k = ework.n)
      BY <1>2, <1>3, <1>4, <3>1 DEF EApart
    <3> QED BY <1>2, <1>3, <1>4, <1>6, <2>1, <2>3, <2>4, <3>1, <3>2, <3>3, MovesOn
  <2> QED BY <1>1, <1>6, <2>1, <2>2, <2>4, MovedKept DEF EKeep
<1> QED BY <1>2, <1>3, <1>5, <1>6 DEF EMove, ECall, EFails, EAnswer, EFailed, EKeep, ETo

LEMMA GatherPremises ==
  ASSUME EInd, ereq.op = "gather"
  PROVE  /\ ETreeOk(etree) /\ ETreeOk(eorig) /\ ereq.dst \in EPaths /\ ework \in ECalls /\ ework.list \in Seq(EBelow)
         /\ ework.pc \in {"start", "listdst", "gather"} => EUntouched
         /\ \A w : EKeeping(ework) /\ EKeepsGathered(w) => EKeeping(w)
<1>1. ework.list \in Seq(EBelow)
  BY DEF EInd, EWorkSound
<1>2. ework.pc \in {"start", "listdst", "gather"} => EUntouched
  BY DEF EInd, EPast, EEarly
<1>3. \A w : EKeeping(ework) /\ EKeepsGathered(w) => EKeeping(w)
  BY DEF EKeeping, EKeepsPlace, EKeepsNamed, EKeepsMoved, EInPlace
<1> QED BY <1>1, <1>2, <1>3, ReqFacts

LEMMA GatherStartKept == ASSUME EInd, EKeptInd, EGatherStart PROVE EKeptInd'
<1>1. ereq.op = "gather" /\ ework.pc = "start" /\ UNCHANGED <<eorig, emetas, ereq, eother>> /\ ework \in ECalls
  BY ReqFacts DEF EGatherStart, EAt, EKeep
<1>2. CASE EAnswer("denied") \/ EAnswer("error")
  BY <1>1, <1>2, KeptAnswers
<1>3. ASSUME NEW s, ework' = [ework EXCEPT !.queue = s, !.pc = "listdst"], UNCHANGED etree PROVE EKeptInd'
  <2>1. PICK w : w = [ework EXCEPT !.queue = s, !.pc = "listdst"]
    OBVIOUS
  <2>2. w.pc = "listdst" /\ w.list = ework.list /\ w.seen = ework.seen
    BY <1>1, <2>1 DEF ECalls
  <2>3. ASSUME EKeeping(ework) PROVE EKeeping(w)
    <3>1. EKeepsGathered(w)
      BY <1>1, <2>2, <2>3 DEF EKeeping, EKeepsGathered, EChosen
    <3> QED BY <1>1, <2>3, <3>1, GatherPremises
  <2> QED BY <1>1, <1>3, <2>1, <2>3, KeptLook
<1> QED BY <1>2, <1>3 DEF EGatherStart

LEMMA ListDstKept == ASSUME EInd, EKeptInd, EListDst PROVE EKeptInd'
<1>1. /\ ereq.op = "gather" /\ ework.pc = "listdst" /\ UNCHANGED <<eorig, emetas, ereq, eother>> /\ ework \in ECalls
      /\ EUntouched /\ ETreeOk(eorig) /\ ETreeOk(etree)
  BY ReqFacts, GatherPremises DEF EListDst, EAt, EKeep
<1>2. CASE EAnswer("error")
  BY <1>1, <1>2, KeptAnswers
<1>3. CASE ereq.policy = "overwrite" /\ EGo("gather")
  <2>1. EMayReplace
    BY <1>1, <1>3 DEF EMayReplace
  <2> QED BY <1>1, <2>1, KeptReplaced
<1>4. CASE ework' = [ework EXCEPT !.seen = {Last(q) : q \in EListed(ereq.dst)}, !.pc = "gather"] /\ UNCHANGED etree
  <2>1. PICK seen : seen = {Last(q) : q \in EListed(ereq.dst)}
    OBVIOUS
  <2>2. PICK w : w = [ework EXCEPT !.seen = seen, !.pc = "gather"]
    OBVIOUS
  <2>3. w.pc = "gather" /\ w.list = ework.list /\ w.seen = seen
    BY <1>1, <2>2 DEF ECalls
  <2>4. EShownAtDst \subseteq seen
    <3>1. ASSUME NEW q \in DOMAIN eorig, eorig[q] # "dir", Front(q) = ereq.dst, EShown(q) PROVE q \in EListed(ereq.dst)
      <4>1. q \in DOMAIN etree /\ etree[q] = eorig[q] /\ q # <<>>
        BY <1>1, <3>1 DEF EUntouched, ETreeOk
      <4> QED BY <3>1, <4>1 DEF EListed, EMembers, EShown
    <3> QED BY <2>1, <3>1 DEF EShownAtDst
  <2>5. ASSUME EKeeping(ework) PROVE EKeeping(w)
    <3>1. w.list = <<>> /\ EDirsAt(etree) = EDirsAt(eorig)
      BY <1>1, <2>3, <2>5 DEF EKeeping, EKeepsGathered
    <3>2. EChosen(w)
      BY <3>1 DEF EChosen
    <3>3. EKeepsGathered(w)
      BY <2>3, <2>4, <3>1, <3>2 DEF EKeepsGathered
    <3> QED BY <1>1, <2>5, <3>3, GatherPremises
  <2>6. ework' = w
    BY <1>4, <2>1, <2>2
  <2> QED BY <1>1, <1>4, <2>5, <2>6, KeptLook
<1> QED BY <1>2, <1>3, <1>4 DEF EListDst

LEMMA GatherKept == ASSUME EInd, EKeptInd, EGather PROVE EKeptInd'
<1>1. /\ ereq.op = "gather" /\ ework.pc = "gather" /\ UNCHANGED <<eorig, emetas, ereq, eother>> /\ ework \in ECalls
      /\ EUntouched /\ ETreeOk(eorig) /\ ETreeOk(etree) /\ ereq.dst \in EPaths /\ ework.list \in Seq(EBelow)
  BY ReqFacts, GatherPremises DEF EGather, EAt, EKeep
<1>2. CASE EAnswer("exists")
  BY <1>1, <1>2, KeptAnswers
<1>3. ASSUME EKeeping(ework) PROVE EDirsAt(etree) = EDirsAt(eorig) /\ EChosen(ework) /\ EShownAtDst \subseteq ework.seen
  BY <1>1, <1>3 DEF EKeeping, EKeepsGathered
<1>4. CASE EGo("act")
  <2>1. PICK w : w = [ework EXCEPT !.pc = "act"]
    OBVIOUS
  <2>2. w.pc = "act" /\ w.list = ework.list /\ w.seen = ework.seen /\ w.n = ework.n
    BY <1>1, <2>1 DEF ECalls
  <2>3. ASSUME EKeeping(ework) PROVE EKeeping(w)
    <3>1. EChosen(w)
      BY <1>3, <2>2, <2>3 DEF EChosen
    <3>2. ASSUME NEW p \in DOMAIN eorig, ECounted(p) PROVE ESafe(w, p)
      <4>1. ASSUME NEW k \in DOMAIN w.list, IsPrefix(ETo(w.list[k]), p), ETo(w.list[k]) \notin EDirsAt(eorig) PROVE FALSE
        <5>1. PICK x : x = w.list[k]
          OBVIOUS
        <5>2. x \in EBelow
          BY <1>1, <2>2, <4>1, <5>1
        <5>3. x \in EPaths /\ x # <<>>
          <6>1. x \in EPaths /\ IsStrictPrefix(ereq.dir, x) /\ ereq.dir \in EPaths
            BY <5>2, ReqFacts DEF EBelow
          <6> QED BY <6>1, PrefixLong DEF EPaths, IsStrictPrefix
        <5>4. PICK d : d = ETo(x)
          OBVIOUS
        <5>5. d \in EPaths \ {<<>>} /\ Front(d) = ereq.dst /\ Last(d) = Last(x)
          BY <1>1, <5>3, <5>4, BaseOf DEF ETo
        <5>6. p = d
          BY <1>1, <4>1, <5>1, <5>4, <5>5, FileAlone DEF EDirsAt
        <5>7. Last(x) \in EShownAtDst
          BY <3>2, <5>5, <5>6 DEF ECounted, EShownAtDst
        <5> QED BY <3>1, <4>1, <5>1, <5>7 DEF EChosen
      <4> QED BY <1>1, <4>1 DEF ESafe
    <3>3. EMoving(w)
      BY <1>1, <3>2 DEF EMoving, EUntouched
    <3>4. EKeepsGathered(w)
      BY <1>3, <2>2, <2>3, <3>1, <3>3 DEF EKeepsGathered
    <3> QED BY <1>1, <2>3, <3>4, GatherPremises
  <2> QED BY <1>1, <1>4, <2>1, <2>3, KeptLook DEF EGo
<1>5. ASSUME NEW w, w.pc = "gather", w.list = ework.list, w.seen = ework.seen, ework' = w, UNCHANGED etree PROVE EKeptInd'
  <2>1. ASSUME EKeeping(ework) PROVE EKeeping(w)
    <3>1. EKeepsGathered(w)
      BY <1>3, <1>5, <2>1 DEF EKeepsGathered, EChosen
    <3> QED BY <1>1, <2>1, <3>1, GatherPremises
  <2> QED BY <1>1, <1>5, <2>1, KeptLook
<1>6. CASE ework.queue # <<>> /\ ~EAnswer("exists")
  <2>1. PICK h : h = Head(ework.queue)
    OBVIOUS
  <2>2. h \in EBelow
    BY <1>1, <1>6, <2>1, QueueIs
  <2>3. PICK v : v = [ework EXCEPT !.queue = Tail(@)]
    OBVIOUS
  <2>4. v.pc = "gather" /\ v.list = ework.list /\ v.seen = ework.seen
    BY <1>1, <2>3 DEF ECalls
  <2>5. ASSUME NEW s, ework' = [v EXCEPT !.queue = @ \o s], UNCHANGED etree PROVE EKeptInd'
    <3>1. PICK w : w = [v EXCEPT !.queue = @ \o s]
      OBVIOUS
    <3>2. w.pc = "gather" /\ w.list = ework.list /\ w.seen = ework.seen
      BY <1>1, <2>3, <3>1 DEF ECalls
    <3> QED BY <1>5, <2>5, <3>1, <3>2
  <2>6. CASE /\ ~EIsDir(h) /\ (Last(h) \in ework.seen => ereq.policy \notin {"cancel", "skip"})
             /\ ework' = [v EXCEPT !.seen = ETaken(Last(h)), !.list = Append(@, h)] /\ UNCHANGED etree
    <3>1. PICK w : w = [v EXCEPT !.seen = ETaken(Last(h)), !.list = Append(@, h)]
      OBVIOUS
    <3>2. PICK l : l = ework.list
      OBVIOUS
    <3>3. PICK r : r = Append(l, h)
      OBVIOUS
    <3>4. w.pc = "gather" /\ w.list = r /\ w.seen = ETaken(Last(h))
      BY <1>1, <2>3, <3>1, <3>2, <3>3 DEF ECalls
    <3>5. \A k \in DOMAIN r : (k \in DOMAIN l /\ r[k] = l[k]) \/ (k = Len(l) + 1 /\ r[k] = h)
      <4>1. PICK S : S = EBelow
        OBVIOUS
      <4>2. l \in Seq(S) /\ h \in S
        BY <1>1, <2>2, <3>2, <4>1
      <4>3. /\ Len(l) \in Nat /\ DOMAIN l = 1..Len(l) /\ DOMAIN r = 1..(Len(l) + 1) /\ r[Len(l) + 1] = h
            /\ \A k \in 1..Len(l) : r[k] = l[k]
        BY <3>3, <4>2
      <4> QED BY <4>3
    <3>6. ASSUME ~EMayReplace, EKeeping(ework) PROVE EKeeping(w)
      <4>1. ereq.policy \in {"cancel", "skip"}
        BY <1>1, <3>6 DEF EMayReplace
      <4>2. w.seen = ework.seen \cup {Last(h)} /\ Last(h) \notin ework.seen
        BY <2>6, <3>4, <4>1 DEF ETaken
      <4>3. EDirsAt(etree) = EDirsAt(eorig) /\ EChosen(ework) /\ EShownAtDst \subseteq ework.seen
        BY <1>3, <3>6
      <4>4. h \notin EDirsAt(eorig)
        BY <2>6, <4>3 DEF EDirsAt, EIsDir
      <4>5. \A k \in DOMAIN r : r[k] \notin EDirsAt(eorig) /\ Last(r[k]) \in w.seen \ EShownAtDst
        BY <3>2, <3>5, <4>2, <4>3, <4>4 DEF EChosen
      <4>6. ASSUME NEW k \in DOMAIN r, NEW j \in DOMAIN r, Last(r[j]) = Last(r[k]) PROVE j = k
        <5>1. CASE k \in DOMAIN l /\ r[k] = l[k] /\ j \in DOMAIN l /\ r[j] = l[j]
          BY <3>2, <4>3, <4>6, <5>1 DEF EChosen
        <5>2. CASE k \in DOMAIN l /\ r[k] = l[k] /\ r[j] = h
          BY <3>2, <4>2, <4>3, <4>6, <5>2 DEF EChosen
        <5>3. CASE j \in DOMAIN l /\ r[j] = l[j] /\ r[k] = h
          BY <3>2, <4>2, <4>3, <4>6, <5>3 DEF EChosen
        <5> QED BY <3>5, <4>6, <5>1, <5>2, <5>3
      <4>7. EChosen(w)
        BY <3>4, <4>5, <4>6 DEF EChosen
      <4>8. EKeepsGathered(w)
        BY <3>4, <4>2, <4>3, <4>7 DEF EKeepsGathered
      <4> QED BY <1>1, <3>6, <4>8, GatherPremises
    <3> QED BY <1>1, <2>6, <3>1, <3>6, KeptLook
  <2>7. CASE ework' = v /\ UNCHANGED etree
    BY <1>5, <2>4, <2>7
  <2> QED BY <1>6, <2>1, <2>3, <2>5, <2>6, <2>7 DEF EGather
<1> QED BY <1>2, <1>4, <1>6 DEF EGather

\* A file that is moved to a name that is no directory leaves the directories as they are.
LEMMA SameDirs ==
  ASSUME ETreeOk(etree), NEW src \in EPaths, NEW dst \in EPaths \ {<<>>}, EMayLand(src, dst), src \notin EDirsAt(etree),
         dst \notin EDirsAt(etree), NEW t, t = EMoved(src, dst)
  PROVE  EDirsAt(t) = EDirsAt(etree)
<1>1. src \in EPaths \ {<<>>} /\ src \in DOMAIN etree
  BY DEF EMayLand
<1>2. \A p \in DOMAIN etree : (IsPrefix(src, p) => p = src) /\ (IsPrefix(dst, p) => p = dst)
  BY <1>1, FileAlone DEF EDirsAt
<1>3. ASSUME NEW q \in EDirsAt(etree) PROVE q \in EDirsAt(t)
  <2>1. q \in DOMAIN etree /\ etree[q] = "dir" /\ q # src /\ q # dst
    BY <1>3 DEF EDirsAt
  <2>2. ~IsPrefix(src, q) /\ ~IsPrefix(dst, q)
    BY <1>2, <2>1
  <2>3. q \in DOMAIN t /\ t[q] = etree[q]
    BY <2>1, <2>2, MovedOk
  <2> QED BY <2>1, <2>3 DEF EDirsAt
<1>4. ASSUME NEW q \in EDirsAt(t) PROVE q \in EDirsAt(etree)
  <2>1. q \in DOMAIN t /\ t[q] = "dir"
    BY <1>4 DEF EDirsAt
  <2>2. CASE q \in DOMAIN etree /\ t[q] = etree[q]
    BY <2>1, <2>2 DEF EDirsAt
  <2>3. CASE ~(q \in DOMAIN etree /\ t[q] = etree[q])
    <3>1. PICK x : x = EImage(q, dst, src)
      OBVIOUS
    <3>2. x \in EUnder(src) /\ t[q] = etree[x]
      BY <2>1, <2>3, <3>1, MovedOk
    <3>3. x \in DOMAIN etree /\ IsPrefix(src, x)
      BY <3>2 DEF EUnder
    <3>4. x = src
      BY <1>2, <3>3
    <3> QED BY <1>1, <2>1, <3>2, <3>4 DEF EDirsAt
  <2> QED BY <2>2, <2>3
<1> QED BY <1>3, <1>4

LEMMA GatheredKept == ASSUME EInd, EKeptInd, EGathered PROVE EKeptInd'
<1>1. /\ ereq.op = "gather" /\ ework.pc = "act" /\ ~EAllDone /\ ework \in ECalls /\ ework.list \in Seq(EBelow) /\ ereq.dst \in EPaths
      /\ ETreeOk(etree)
  BY ReqFacts DEF EGathered, EAt, EInd, EWorkSound
<1>2. PICK src : src = ework.list[ework.n]
  OBVIOUS
<1>3. PICK dst : dst = ETo(src)
  OBVIOUS
<1>4. ework.n \in DOMAIN ework.list
  BY <1>1, TakenIs
<1>5. \A k \in DOMAIN ework.list : ework.list[k] \in EPaths /\ ework.list[k] # <<>> /\ ETo(ework.list[k]) \in EPaths \ {<<>>}
                                   /\ Last(ETo(ework.list[k])) = Last(ework.list[k])
  <2>1. ASSUME NEW x \in EBelow PROVE x \in EPaths /\ x # <<>> /\ ETo(x) \in EPaths \ {<<>>} /\ Last(ETo(x)) = Last(x)
    <3>1. x \in EPaths /\ IsStrictPrefix(ereq.dir, x) /\ ereq.dir \in EPaths
      BY <2>1, ReqFacts DEF EBelow
    <3>2. x # <<>>
      BY <3>1, PrefixLong DEF EPaths, IsStrictPrefix
    <3> QED BY <1>1, <3>1, <3>2, BaseOf DEF ETo
  <2> QED BY <1>1, <2>1
<1>6. src \in EPaths /\ src # <<>> /\ dst \in EPaths \ {<<>>} /\ dst = Append(ereq.dst, Last(src))
  <2>1. src \in EPaths /\ src # <<>> /\ dst \in EPaths \ {<<>>}
    BY <1>2, <1>3, <1>4, <1>5
  <2> QED BY <1>3, <2>1 DEF ETo, EBaseIn
<1>7. CASE EFailed
  BY <1>7, FailKept
<1>8. CASE EAnswer("denied") /\ EKeep
  BY <1>8, KeptAnswers DEF EKeep
<1>9. CASE ereq.dst # Front(src) /\ EMayLand(src, dst) /\ etree' = EMoved(src, dst) /\ ework' = ENextOne /\ EKeep
  <2>1. PICK t : t = EMoved(src, dst)
    OBVIOUS
  <2>2. PICK w : w = ENextOne
    OBVIOUS
  <2>3. w.list = ework.list /\ w.n = ework.n + 1
    BY <2>2, NextOneFields
  <2>4. ASSUME EKeeping(ework)
        PROVE  /\ EDirsAt(t) = EDirsAt(eorig)
               /\ \A p \in DOMAIN eorig : ECounted(p) => \E q \in DOMAIN t : t[q] = eorig[p] /\ ESafe(w, q)
    <3>1. EMoving(ework) /\ EChosen(ework) /\ EDirsAt(etree) = EDirsAt(eorig)
      BY <1>1, <2>4 DEF EKeeping, EKeepsGathered
    <3>2. src \notin EDirsAt(etree)
      BY <1>2, <1>4, <3>1 DEF EChosen
    <3>3. src # dst
      <4>1. Front(EBaseIn(ereq.dst, src)) = ereq.dst
        BY <1>1, <1>6, BaseOf
      <4>2. Front(dst) = ereq.dst
        BY <1>3, <4>1 DEF ETo
      <4> QED BY <1>9, <4>2
    <3>4. dst \notin EDirsAt(etree)
      <4>1. src \in DOMAIN etree /\ etree[src] # "dir"
        BY <1>9, <3>2 DEF EMayLand, EDirsAt
      <4>2. dst \in DOMAIN etree => etree[dst] # "dir"
        BY <1>9, <3>3, <4>1 DEF EMayLand
      <4> QED BY <4>2 DEF EDirsAt
    <3>5. EDirsAt(t) = EDirsAt(etree)
      BY <1>1, <1>6, <1>9, <2>1, <3>2, <3>4, SameDirs
    <3>6. \A k \in DOMAIN ework.list : ework.list[k] # <<>> /\ (ETo(ework.list[k]) = dst => k = ework.n)
      <4>1. ASSUME NEW k \in DOMAIN ework.list, ETo(ework.list[k]) = dst PROVE k = ework.n
        <5>1. Last(ework.list[k]) = Last(dst) /\ Last(ework.list[ework.n]) = Last(dst)
          BY <1>2, <1>3, <1>4, <1>5, <4>1
        <5> QED BY <1>4, <3>1, <4>1, <5>1 DEF EChosen
      <4> QED BY <1>5, <4>1
    <3>7. ework.list \in Seq(EPaths)
      BY <1>1 DEF EBelow
    <3>8. ASSUME NEW p \in DOMAIN eorig, ECounted(p) PROVE \E q \in DOMAIN t : t[q] = eorig[p] /\ ESafe(w, q)
      BY <1>2, <1>3, <1>4, <1>9, <2>1, <2>3, <3>1, <3>4, <3>6, <3>7, <3>8, MovesOn
    <3> QED BY <3>1, <3>5, <3>8
  <2> QED BY <1>1, <1>9, <2>1, <2>2, <2>4, MovedKept DEF EKeep
<1> QED BY <1>2, <1>6, <1>7, <1>8, <1>9 DEF EGathered, ECall, EFails, EAnswer, EFailed, EKeep

-----------------------------------------------------------------------------
(* Other clients; all steps                                                     *)

LEMMA UploadKept == ASSUME EInd, EKeptInd, EAssumption, NEW p \in EUploads, EUpload(p) PROVE EKeptInd'
<1>1. /\ p \in EPaths \ {<<>>} /\ p \notin DOMAIN etree /\ EIsDir(Front(p)) /\ eother.up = {} /\ ETreeOk(etree)
      /\ UNCHANGED <<eorig, emetas, ereq, ework>> /\ ework.pc # "done"
  BY ReqFacts DEF EAssumption, EUpload
<1>2. PICK t : t = [q \in DOMAIN etree \cup {p} |-> IF q = p THEN "other" ELSE etree[q]]
  OBVIOUS
<1>3. DOMAIN t = DOMAIN etree \cup {p} /\ t[p] = "other" /\ \A q \in DOMAIN etree : t[q] = etree[q]
  BY <1>1, <1>2, UploadedOk
<1>4. etree' = t /\ eother'.up = {p}
  BY <1>1, <1>2 DEF EUpload, EInd, ETyped
<1>5. CASE EMayReplace
  BY <1>1, <1>5, KeptReplaced
<1>6. CASE ~EMayReplace
  <2>1. EKeeping(ework)
    BY <1>1, <1>6 DEF EKeptInd
  <2>2. /\ \A q : ECounted(q)' <=> ECounted(q)
        /\ EDirsAt(eorig)' = EDirsAt(eorig) /\ EShownAtDst' = EShownAtDst
        /\ (EMayReplace)' <=> EMayReplace
    BY <1>1, SameJudged
  <2>3. EDirsAt(t) = EDirsAt(etree)
    BY <1>1, <1>3 DEF EDirsAt
  <2>4. EKept'
    <3>1. \A q \in DOMAIN eorig : ECounted(q) => \E x \in DOMAIN etree : etree[x] = eorig[q]
      BY <1>6 DEF EKeptInd, EKept, ECounted
    <3>2. \A q \in DOMAIN eorig : ECounted(q) => \E x \in DOMAIN t : t[x] = eorig[q]
      BY <1>3, <3>1
    <3> QED BY <1>1, <1>4, <2>2, <3>2 DEF EKept, ECounted
  <2>5. EKeepsPlace(ework)'
    <3>1. EStays => EStays'
      BY <1>1, <1>3, <1>4, <2>2 DEF EStays
    <3>2. EStayNext(ework) => EStayNext(ework)'
      BY <1>1, <2>2 DEF EStayNext, ENamedOnes, EBare
    <3> QED BY <1>1, <2>1, <3>1, <3>2 DEF EKeeping, EKeepsPlace
  <2>6. EKeepsNamed(ework)'
    <3>1. EUntouched => EUntouched'
      BY <1>1, <1>3, <1>4 DEF EUntouched
    <3> QED BY <1>1, <2>1, <3>1 DEF EKeeping, EKeepsNamed
  <2>7. EMoving(ework) => EMoving(ework)'
    <3>1. \A q : ESafe(ework, q) => ESafe(ework, q)'
      BY <1>1, <2>2 DEF ESafe, ETo, EBaseIn
    <3> QED BY <1>1, <1>3, <1>4, <2>2, <3>1 DEF EMoving
  <2>8. EKeepsMoved(ework)'
    BY <1>1, <2>1, <2>7 DEF EKeeping, EKeepsMoved, ENamedOnes, EApart, ETo, EBaseIn
  <2>9. EKeepsGathered(ework)'
    <3>1. EDirsAt(etree)' = EDirsAt(etree)
      BY <1>4, <2>3 DEF EDirsAt
    <3>2. EChosen(ework) => EChosen(ework)'
      BY <1>1, <2>2 DEF EChosen
    <3> QED BY <1>1, <2>1, <2>2, <2>7, <3>1, <3>2 DEF EKeeping, EKeepsGathered
  <2>10. EKeeping(ework)'
    BY <2>5, <2>6, <2>8, <2>9 DEF EKeeping
  <2> QED BY <2>4, <2>10 DEF EKeptInd
<1> QED BY <1>5, <1>6

LEMMA KeptBegins == ASSUME EAssumption, EInit PROVE EKeptInd
<1>1. eorig = etree /\ ework = EFresh
  BY DEF EInit
<1>2. ework.pc = "start" /\ ework.list = <<>>
  BY <1>1 DEF EFresh
<1>3. EKept
  BY <1>1 DEF EKept
<1>4. EKeepsPlace(ework)
  BY <1>1, <1>2 DEF EKeepsPlace, EStays, EStayNext, ENamedOnes, ECounted
<1>5. EKeepsNamed(ework) /\ EKeepsMoved(ework) /\ EKeepsGathered(ework)
  BY <1>1, <1>2 DEF EKeepsNamed, EKeepsMoved, EKeepsGathered, ENamedOnes, EApart, EChosen
<1> QED BY <1>3, <1>4, <1>5 DEF EKeptInd, EKeeping

LEMMA KeptSteps == ASSUME EAssumption, EInd, EKeptInd, [ENext]_handlerVars PROVE EKeptInd'
<1>1. CASE EMkdir \/ EUploadStart \/ EStream \/ EForm \/ EPut
  BY <1>1, MkdirKept, UploadStartKept, LookKept, PutKept
<1>2. CASE EMoveStart \/ EMoveCheck \/ EMove \/ ECopyStart \/ ECopyCheck \/ ECopy
  BY <1>2, StartKept, MoveCheckKept, StayCheckKept, MoveKept, CopyKept
<1>3. CASE ERename \/ ERenameAct \/ ERemoveStart \/ ERemoveCheck \/ ERemove \/ EFinish
  BY <1>3, RenameKept, RenameActKept, StartKept, StayCheckKept, RemoveKept, FinishKept
<1>4. CASE EGatherStart \/ EListDst \/ EGather \/ EGathered
  BY <1>4, GatherStartKept, ListDstKept, GatherKept, GatheredKept
<1>5. CASE EEmptyStart \/ EEmptyLook \/ EEmptyRemove
  BY <1>5, EmptyStartKept, EmptyLookKept, EmptyRemoveKept
<1>6. CASE ERenamesStart \/ ERegexStart \/ ERenameOne \/ ERegexFinish
  BY <1>6, RenamesKept, FinishKept
<1>7. CASE \E p \in EUploads : EUpload(p)
  BY <1>7, UploadKept
<1>8. CASE UNCHANGED handlerVars
  <2>1. UNCHANGED <<etree, eorig, emetas, ereq, ework, eother>>
    BY <1>8 DEF handlerVars
  <2>2. CASE ework.pc = "done"
    BY <2>1, <2>2, KeptEnds
  <2>3. CASE ework.pc # "done"
    <3>1. PICK w : w = ework
      OBVIOUS
    <3> QED BY <2>1, <2>3, <3>1, KeptLook
  <2> QED BY <2>2, <2>3
<1> QED BY <1>1, <1>2, <1>3, <1>4, <1>5, <1>6, <1>7, <1>8 DEF ENext

(* The requests of the HTTP API lose no file that they were not asked to        *)
(* replace, leave no empty directory that they were asked to remove, gather     *)
(* every file they were asked to, and stay within the rights of their user,     *)
(* whichever change fails, as a whole or half way, and whatever others upload   *)
(* (fsmanage.go, fsbatch.go, fsup.go).  A look that fails finds a name free:    *)
(* what is there, and below it, is not among the files that are kept.           *)
THEOREM FilesAreKept == ESpec => []FilesKept
<1>1. EInit => EFilesInd
  BY EAssumption, HandlerBegins, KeptBegins, GoneBegins, AllBegins DEF EFilesInd
<1>2. EFilesInd /\ [ENext]_handlerVars => EFilesInd'
  <2> SUFFICES ASSUME EFilesInd, [ENext]_handlerVars PROVE EFilesInd'
    OBVIOUS
  <2>1. EInd'
    BY EAssumption, HandlerSteps DEF EFilesInd
  <2> QED BY <2>1, EAssumption, KeptSteps, GoneSteps, AllSteps DEF EFilesInd
<1>3. EFilesInd => FilesKept
  BY HandlerKeeps DEF EFilesInd, EKeptInd, EGoneInd, EAllInd, FilesKept, RightsHeld
<1> QED BY <1>1, <1>2, <1>3, PTL DEF ESpec
=============================================================================
