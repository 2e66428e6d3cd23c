---------------------------- MODULE MCDavHeaders ----------------------------
(* Two small instances of DavRequests in one run; a behaviour is of one of     *)
(* them.  "locks": requests that write, with at most one token, and UNLOCK.    *)
(* "if": lists with tags and to fall back on, refreshes, and time that passes. *)
EXTENDS MCDavRequests

VARIABLE part

HeadersInit == part \in {"locks", "if"} /\ DavInit

\* The requests of a part.
Sent(r) ==
    IF part = "if" THEN r.method \in {"PUT", "LOCK", "REFRESH"}
    ELSE /\ r.method \in {"PUT", "COPY", "MOVE", "LOCK", "UNLOCK"}
         /\ r.duration = infiniteTimeout
         /\ r.lists \in OneToken(granted)

HeadersNext ==
    /\ UNCHANGED part
    /\ \/ part = "if" /\ DavTick
       \/ \E c \in Conns : ServeHTTP(c) /\ Sent(conn'[c])
       \/ \E c \in Conns : Handle(c)

HeadersSpec == HeadersInit /\ [][HeadersNext]_<<davVars, part>>
=============================================================================
