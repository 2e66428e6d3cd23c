-------------------------------- MODULE Logins --------------------------------
(* Logins with a count of failures for each address, the tokens they give, and  *)
(* the requests made with one (server/handles/auth.go, server/common/auth.go,   *)
(* server/middlewares/auth.go, server/webdav.go).  There is one address and one *)
(* user; RowCaches is about the cache of users, here a user is read and written *)
(* in one step.  A password is a number; time is in seconds.                    *)
EXTENDS Integers, FiniteSets

CONSTANTS AProcs,      \* requests that run at the same time
          AMax,        \* DefaultMaxAuthRetries
          AStarts,     \* bound: requests
          AChanges,    \* bound: changes of the user
          ATime        \* bound: seconds

ASSUME AAssumption ==
  /\ IsFiniteSet(AProcs) /\ AMax \in Nat \ {0}
  /\ {AStarts, AChanges, ATime} \subseteq Nat

VARIABLES
  arow,      \* the user: [there, pwd, ts, argon, disabled, otp]
  acount,    \* LoginCache: failures (-1: no entry), and whether it will expire
  avalid,    \* validTokenCache: tokens [ts, at, pwd]
  aproc,     \* the requests
  aclock,    \* seconds, and the bounded counters
  aghost     \* for the properties, see below

loginVars == <<arow, acount, avalid, aproc, aclock, aghost>>

AIdle == [pc |-> "idle", kind |-> "", guess |-> 0, code |-> FALSE, count |-> 0, tok |-> 0, row |-> 0, out |-> FALSE]
ANoCount == [n |-> -1, ends |-> FALSE]

AInit ==
  /\ arow \in [there : {TRUE}, pwd : {1}, ts : {0}, argon : BOOLEAN, disabled : {FALSE}, otp : {FALSE}]
  /\ acount = ANoCount /\ avalid = {}
  /\ aproc = [p \in AProcs |-> AIdle]
  /\ aclock = [now |-> 1, starts |-> 0, changes |-> 0]
  \* failed: checks that failed since the count was reset; overlap: two attempts
  \* ran at the same time since; used: the timestamps of each password; edited:
  \* an administrator edited the user; out: tokens that were logged out.
  /\ aghost = [failed |-> 0, overlap |-> FALSE, used |-> {<<arow.ts, 1>>}, again |-> FALSE, edited |-> FALSE, out |-> {}]

-----------------------------------------------------------------------------
(* Attempts to log in: loginHash and WebDAVAuth *)

ATrying == {p \in AProcs : aproc[p].pc \in {"check", "rehash", "token"}}
\* Which of the idle ones a request is does not matter.
AFree(p) == aproc[p].pc = "idle" /\ p = CHOOSE q \in AProcs : aproc[q].pc = "idle"
AStart(p) == AFree(p) /\ aclock.starts < AStarts /\ aclock' = [aclock EXCEPT !.starts = @ + 1]
ALock == acount' = [acount EXCEPT !.ends = TRUE] /\ UNCHANGED aproc
ATry(p, kind, guess, code) ==
  /\ AStart(p)
  /\ IF acount.n >= AMax
     THEN ALock /\ UNCHANGED aghost
     ELSE /\ aproc' = [aproc EXCEPT ![p] = [AIdle EXCEPT !.pc = "check", !.kind = kind, !.guess = guess, !.code = code,
                                                         !.count = IF acount.n < 0 THEN 0 ELSE acount.n]]
          /\ aghost' = [aghost EXCEPT !.overlap = @ \/ ATrying # {}]
          /\ UNCHANGED acount
  /\ UNCHANGED <<arow, avalid>>

AEnd(p) == aproc' = [aproc EXCEPT ![p] = AIdle]
\* LoginCache.Set: also ends what Expire began.
ACountFailure(p) == acount' = [n |-> aproc[p].count + 1, ends |-> FALSE]
AFail(p) ==
  /\ ACountFailure(p) /\ AEnd(p)
  /\ aghost' = [aghost EXCEPT !.failed = @ + 1]
  /\ UNCHANGED <<arow, avalid, aclock>>

APasses(p) == arow.there /\ arow.pwd = aproc[p].guess
\* The row is kept as it was read.
APassed(p) ==
  aproc' = [aproc EXCEPT ![p] = [@ EXCEPT !.pc = IF arow.argon THEN "token" ELSE "rehash", !.row = arow,
                                          !.guess = 0, !.code = FALSE]]
\* The user, the password and the code.
ACheckLogin(p) ==
  /\ aproc[p].pc = "check" /\ aproc[p].kind = "login"
  /\ IF ~APasses(p) \/ arow.disabled \/ (arow.otp /\ ~aproc[p].code) THEN AFail(p)
     ELSE APassed(p) /\ UNCHANGED <<arow, acount, avalid, aclock, aghost>>
\* tryLogin asks for no code, and WebDAVAuth looks at Disabled last.
ACheckDav(p) ==
  /\ aproc[p].pc = "check" /\ aproc[p].kind = "dav"
  /\ IF ~APasses(p) THEN AFail(p)
     ELSE APassed(p) /\ UNCHANGED <<arow, acount, avalid, aclock, aghost>>

\* RehashPasswordStaticHash keeps the timestamp.  (Mutant: it is set as for a new password.)
ARehashed_Now(row) == [row EXCEPT !.argon = TRUE, !.ts = aclock.now]
ARehashed(row) == [row EXCEPT !.argon = TRUE]
\* UpdateUser saves the row as it was read; when that fails, loginHash ends, but
\* tryLogin reports a failed login.  A row that was deleted stays away.
ARehash(p) ==
  /\ aproc[p].pc = "rehash"
  /\ \/ /\ arow.there
        /\ arow' = ARehashed(aproc[p].row)
        /\ aproc' = [aproc EXCEPT ![p].pc = "token", ![p].row = ARehashed(@)]
        /\ UNCHANGED <<acount, avalid, aclock, aghost>>
     \/ ~arow.there /\ aproc[p].kind = "dav" /\ AFail(p)
     \/ ~arow.there /\ aproc[p].kind = "login" /\ AEnd(p) /\ UNCHANGED <<arow, acount, avalid, aclock, aghost>>
\* GenerateToken, or the request is let through; the count is deleted.
AGranted(p) ==
  /\ aproc[p].pc = "token"
  /\ acount' = ANoCount
  /\ LET tok == [ts |-> aproc[p].row.ts, at |-> aclock.now, pwd |-> aproc[p].row.pwd]
     IN  IF aproc[p].kind = "login"
         THEN /\ avalid' = avalid \cup {tok}
              /\ aghost' = [aghost EXCEPT !.failed = 0, !.overlap = Cardinality(ATrying) > 1, !.out = @ \ {tok}]
         ELSE /\ aghost' = [aghost EXCEPT !.failed = 0, !.overlap = Cardinality(ATrying) > 1]
              /\ UNCHANGED avalid
  /\ AEnd(p) /\ UNCHANGED <<arow, aclock>>
ALockEnds ==
  /\ acount.ends
  /\ acount' = ANoCount
  /\ aghost' = [aghost EXCEPT !.failed = 0, !.overlap = ATrying # {}]
  /\ UNCHANGED <<arow, avalid, aproc, aclock>>

-----------------------------------------------------------------------------
(* Requests with a token: ParseToken, then the user *)

ABearer(p, tok) ==
  /\ AStart(p)
  /\ IF tok \in avalid
     THEN aproc' = [aproc EXCEPT ![p] = [AIdle EXCEPT !.pc = "user", !.tok = tok, !.out = tok \in aghost.out]]
     ELSE UNCHANGED aproc
  /\ UNCHANGED <<arow, acount, avalid, aghost>>
AAdmits(row, tok) == row.there /\ row.ts = tok.ts /\ ~row.disabled
AAuth(p) ==
  /\ aproc[p].pc = "user"
  /\ IF AAdmits(arow, aproc[p].tok) THEN aproc' = [aproc EXCEPT ![p].pc = "in", ![p].row = arow] ELSE AEnd(p)
  /\ UNCHANGED <<arow, acount, avalid, aclock, aghost>>

\* The user's row becomes row, if it is still there.  When it takes a timestamp
\* that another password had, `again` says so.
AWrites(row) ==
  /\ arow' = row
  /\ aghost' = [aghost EXCEPT !.used = @ \cup {<<row.ts, row.pwd>>},
                              !.again = @ \/ \E u \in aghost.used : u[1] = row.ts /\ u[2] # row.pwd]
ANewPwd == 2 + aclock.changes
AChange == aclock.changes < AChanges /\ aclock' = [aclock EXCEPT !.changes = @ + 1]
ASetPassword(row) == [row EXCEPT !.pwd = ANewPwd, !.ts = aclock.now, !.argon = TRUE]
\* UpdateCurrent and Verify2FA, which write the row as Auth read it.
AUpdateCurrent(p) ==
  /\ aproc[p].pc = "in" /\ AChange
  /\ IF arow.there THEN AWrites(ASetPassword(aproc[p].row)) ELSE UNCHANGED <<arow, aghost>>
  /\ AEnd(p) /\ UNCHANGED <<acount, avalid>>
AVerify2FA(p) ==
  /\ aproc[p].pc = "in" /\ AChange
  /\ IF arow.there THEN AWrites([aproc[p].row EXCEPT !.otp = TRUE]) ELSE UNCHANGED <<arow, aghost>>
  /\ AEnd(p) /\ UNCHANGED <<acount, avalid>>
ALogOut(p) ==
  /\ aproc[p].pc = "in"
  /\ avalid' = avalid \ {aproc[p].tok}
  /\ aghost' = [aghost EXCEPT !.out = @ \cup {aproc[p].tok}]
  /\ AEnd(p) /\ UNCHANGED <<arow, acount, aclock>>
AServe(p) == aproc[p].pc = "in" /\ AEnd(p) /\ UNCHANGED <<arow, acount, avalid, aclock, aghost>>

\* UpdateUser of an administrator: without a password, the timestamp is not taken over.
AEdit(disabled, pwd) ==
  /\ arow.there /\ AChange
  /\ LET row == [arow EXCEPT !.disabled = disabled]
     IN  IF pwd THEN AWrites(ASetPassword(row))
         ELSE /\ arow' = [row EXCEPT !.ts = 0]
              /\ aghost' = [aghost EXCEPT !.edited = TRUE, !.used = @ \cup {<<0, row.pwd>>},
                                          !.again = @ \/ \E u \in aghost.used : u[1] = 0 /\ u[2] # row.pwd]
  /\ UNCHANGED <<acount, avalid, aproc>>
ACancel2FA == arow.there /\ AChange /\ AWrites([arow EXCEPT !.otp = FALSE]) /\ UNCHANGED <<acount, avalid, aproc>>
ADelete == arow.there /\ AChange /\ arow' = [arow EXCEPT !.there = FALSE] /\ UNCHANGED <<acount, avalid, aproc, aghost>>
ACreate ==
  /\ ~arow.there /\ AChange
  /\ AWrites([ASetPassword(arow) EXCEPT !.there = TRUE, !.disabled = FALSE, !.otp = FALSE])
  /\ UNCHANGED <<acount, avalid, aproc>>

ATick == aclock.now < ATime /\ aclock' = [aclock EXCEPT !.now = @ + 1] /\ UNCHANGED <<arow, acount, avalid, aproc, aghost>>
\* The process is started again: the caches in memory are gone, the row is not.
ARestart ==
  /\ AChange
  /\ acount' = ANoCount /\ avalid' = {} /\ aproc' = [p \in AProcs |-> AIdle]
  /\ aghost' = [aghost EXCEPT !.failed = 0, !.overlap = FALSE]
  /\ UNCHANGED arow

ANext ==
  \/ \E p \in AProcs :
       \/ \E guess \in {1, ANewPwd - 1}, code \in {FALSE, arow.otp} : ATry(p, "login", guess, code)
       \/ \E guess \in {1, ANewPwd - 1} : ATry(p, "dav", guess, FALSE)
       \/ ACheckLogin(p) \/ ACheckDav(p) \/ ARehash(p) \/ AGranted(p)
       \/ \E tok \in avalid \cup aghost.out : ABearer(p, tok)
       \/ AAuth(p) \/ AUpdateCurrent(p) \/ AVerify2FA(p) \/ ALogOut(p) \/ AServe(p)
  \/ \E disabled, pwd \in BOOLEAN : AEdit(disabled, pwd)
  \/ ACancel2FA \/ ADelete \/ ACreate \/ ATick \/ ARestart \/ ALockEnds

ASpec == AInit /\ [][ANext]_loginVars

-----------------------------------------------------------------------------
(* A request that is let in has a token that was not logged out before it began *)
(* and was given for the password that the user had when it was let in; unless  *)
(* a timestamp came back: two passwords within a second, or edits by the        *)
(* administrator, which reset it ("Password has been changed, login please").   *)
ATokenRight ==
  \A p \in AProcs : aproc[p].pc = "in" => ~aproc[p].out /\ (aghost.again \/ aproc[p].tok.pwd = aproc[p].row.pwd)

(* Nobody is logged out by the new hash that the first login after an upgrade   *)
(* writes: while the password is the one a token was given for and no           *)
(* administrator edited the user, the token's timestamp is the user's.          *)
ARehashKeeps ==
  ~aghost.edited /\ ~aghost.again => \A tok \in avalid : arow.there /\ tok.pwd = arow.pwd => tok.ts = arow.ts

(* As long as attempts come one at a time, no more than AMax passwords are      *)
(* tried in vain, by either door, until a login succeeds or the lock runs out.  *)
ALimited == ~aghost.overlap => aghost.failed <= AMax

(* A token lets in whom it was given to, as long as the password stays, and     *)
(* passwords cannot be tried without end (auth.go, webdav.go).                  *)
LoginsRight == ATokenRight /\ ARehashKeeps /\ ALimited
=============================================================================
