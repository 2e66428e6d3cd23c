----------------------------- MODULE LockTable -----------------------------
(***************************************************************************)
(* What the LockSystem interface of server/webdav/lock.go promises, with   *)
(* none of memLS's bookkeeping: a table of granted locks, each covering a  *)
(* region of the name space, that never overlap; and the locks a confirmed *)
(* request claims, which nobody else can claim and nothing can take away   *)
(* until they are released.                                                *)
(***************************************************************************)
EXTENDS Naturals

CONSTANTS Regions     \* the sets of resources a lock can cover

VARIABLES locks,      \* token -> the region that the lock covers
          claimed,    \* the tokens of the locks in use by confirmed requests
          issued      \* the tokens issued so far are 1..issued

tableVars == <<locks, claimed, issued>>

TableInit ==
    /\ locks = [t \in {} |-> {}]
    /\ claimed = {}
    /\ issued = 0

\* What is left when the locks in E are gone.  Every operation first drops the
\* locks whose time is over; a claimed one is not among them.
Without(E) == [t \in DOMAIN locks \ E |-> locks[t]]

Unclaimed == DOMAIN locks \ claimed

\* A grant needs a region that no remaining lock touches, and a new token.
Grant(E, region) ==
    /\ \A t \in DOMAIN locks \ E : locks[t] \cap region = {}
    /\ issued' = issued + 1
    /\ locks' = [t \in (DOMAIN locks \ E) \cup {issued'} |->
                    IF t = issued' THEN region ELSE locks[t]]
    /\ UNCHANGED claimed

Claim(E, T) ==
    /\ T \subseteq Unclaimed \ E
    /\ claimed' = claimed \cup T
    /\ locks' = Without(E)
    /\ UNCHANGED issued

Drop(E) ==
    /\ locks' = Without(E)
    /\ UNCHANGED <<claimed, issued>>

Return(T) ==
    /\ T \subseteq claimed
    /\ claimed' = claimed \ T
    /\ UNCHANGED <<locks, issued>>

TableNext ==
    \/ \E E \in SUBSET Unclaimed :
          \/ \E region \in Regions : Grant(E, region)
          \/ \E T \in SUBSET Unclaimed : Claim(E, T)
          \/ Drop(E)
    \/ \E T \in SUBSET claimed : Return(T)

TableSpec == TableInit /\ [][TableNext]_tableVars
=============================================================================
