------------------------------ MODULE HttpServe ------------------------------
(* internal/net/serve.go and util.go, pkg/http_range and the range readers of   *)
(* internal/stream/util.go: how a request with preconditions and ranges is      *)
(* answered from a link.  A request is answered in one step; headers are parsed *)
(* values: a list of entity tags may contain "*" and text that is no tag, a     *)
(* Range header is a list of specs, an absent header an empty list.  Bytes are  *)
(* offsets in the file.                                                         *)
EXTENDS Integers, Sequences, FiniteSets, TLC, FiniteSetsExt, SequencesExt

CONSTANTS VSizes,      \* sizes of the file
          VSpecs,      \* specs of a Range header
          VTags,       \* entity tags: <<"weak" or "strong", version>>
          VModTimes    \* modification times in half seconds; 0 is no time

ASSUME VAssumption == VSizes \subseteq Nat /\ VModTimes \subseteq Nat

VARIABLES vreq, vresp
serveVars == <<vreq, vresp>>

None == -1
Junk == <<"junk", 0>>
Star == <<"star", 0>>
NoTag == <<"none", 0>>
condNone == "condNone"
condTrue == "condTrue"
condFalse == "condFalse"

-----------------------------------------------------------------------------
(* http_range.ParseRange: [from, to], [from, None] or [None, suffix length]    *)

\* A range, or one of these for a spec that is wrong or begins after the end.
Invalid == [start |-> 0, len |-> -1]
Beyond == [start |-> 0, len |-> -2]
\* The range of one spec.
LastByte(to, size) == IF to >= size THEN size - 1 ELSE to
ParseSpec(s, size) ==
  IF s.from = None
  THEN IF s.to = None THEN Invalid
       ELSE LET i == IF s.to > size THEN size ELSE s.to IN [start |-> size - i, len |-> i]
  ELSE IF s.from >= size THEN Beyond
  ELSE IF s.to = None THEN [start |-> s.from, len |-> size - s.from]
  ELSE IF s.from > s.to THEN Invalid
  ELSE [start |-> s.from, len |-> LastByte(s.to, size) - s.from + 1]

ParseRange(specs, size) ==
  LET parsed == [i \in DOMAIN specs |-> ParseSpec(specs[i], size)]
      ok == SelectSeq(parsed, LAMBDA r : r # Beyond)
  IN  IF \E i \in DOMAIN parsed : parsed[i] = Invalid THEN [err |-> "ErrInvalid", ranges |-> <<>>]
      ELSE IF ok = <<>> /\ specs # <<>> THEN [err |-> "ErrNoOverlap", ranges |-> <<>>]
      ELSE [err |-> "nil", ranges |-> ok]

SumRangesSize(ranges) == FoldSeq(LAMBDA r, n : n + r.len, 0, ranges)

-----------------------------------------------------------------------------
(* Preconditions *)

etagStrongMatch(a, b) == a = b /\ a[1] = "strong"
etagWeakMatch(a, b) == b # NoTag /\ a[2] = b[2]

\* The tags of a list up to the first text that is no tag.
Scanned(list) ==
  LET bad == {i \in DOMAIN list : list[i] = Junk}
  IN  IF bad = {} THEN list ELSE SubSeq(list, 1, Min(bad) - 1)
Matches(list, alike) ==
  \E i \in DOMAIN Scanned(list) : list[i] = Star \/ list[i] \in alike

checkIfMatch(r) ==
  IF r.im = <<>> THEN condNone
  ELSE IF Matches(r.im, {t \in VTags : etagStrongMatch(t, r.etag)}) THEN condTrue ELSE condFalse

checkIfNoneMatch(r) ==
  IF r.inm = <<>> THEN condNone
  ELSE IF Matches(r.inm, {t \in VTags : etagWeakMatch(t, r.etag)}) THEN condFalse ELSE condTrue

\* Dates have whole seconds.
Truncated(modtime) == modtime \div 2
NoDate(date, modtime) == date = None \/ modtime = 0 \/ date = -2

checkIfUnmodifiedSince(r) ==
  IF NoDate(r.ius, r.mod) THEN condNone
  ELSE IF Truncated(r.mod) <= r.ius THEN condTrue ELSE condFalse

checkIfModifiedSince(r) ==
  IF r.method \notin {"GET", "HEAD"} \/ NoDate(r.ims, r.mod) THEN condNone
  ELSE IF Truncated(r.mod) <= r.ims THEN condFalse ELSE condTrue

ifRangeTag(t, etag) == etagStrongMatch(t, etag)
checkIfRange(r) ==
  IF r.method \notin {"GET", "HEAD"} \/ r.ir = NoTag THEN condNone
  ELSE IF r.ir \in VTags THEN IF ifRangeTag(r.ir, r.etag) THEN condTrue ELSE condFalse
  ELSE IF r.mod # 0 /\ r.ir = <<"date", Truncated(r.mod)>> THEN condTrue ELSE condFalse

\* 412, 304 or None (go on).
checkPreconditions(r) ==
  LET first == IF checkIfMatch(r) = condNone THEN checkIfUnmodifiedSince(r) ELSE checkIfMatch(r)
  IN  IF first = condFalse THEN 412
      ELSE IF checkIfNoneMatch(r) = condFalse THEN IF r.method \in {"GET", "HEAD"} THEN 304 ELSE 412
      ELSE IF checkIfNoneMatch(r) = condNone /\ checkIfModifiedSince(r) = condFalse THEN 304
      ELSE None

RangeHeader(r) == IF checkIfRange(r) = condFalse THEN <<>> ELSE r.range

-----------------------------------------------------------------------------
(* The reader of a range of a link *)

VBytes(from, n) == [i \in 1 .. n |-> from + i - 1]

\* The answer of the remote server to "bytes=start-end": it honours ranges, it
\* ignores them, or it sends the range with status 200 (139 cloud).  An empty
\* range is no valid header and is ignored by all.
Upstream(kind, start, len, size) ==
  CASE kind = "error" -> [code |-> 503, at |-> None, body |-> <<>>]
    [] kind = "honours" /\ len > 0 -> [code |-> 206, at |-> start, body |-> VBytes(start, len)]
    [] kind = "hack" /\ len > 0 -> [code |-> 200, at |-> start, body |-> VBytes(start, len)]
    [] OTHER -> [code |-> 200, at |-> None, body |-> VBytes(0, size)]

\* checkContentRange: a header that cannot be parsed counts as a start of 0.
checkContentRange(at, start) == (IF at = None THEN 0 ELSE at) = start

\* GetRangedHttpReader: skip to the start.
GetRangedHttpReader(body, start, len) == SubSeq(body, start + 1, start + len)

Failed == <<-1>>
\* GetRangeReaderFromLink for a URL; GetRangeReaderFromMFile for an open file.
RangeReader(kind, ra, size) ==
  LET len == IF ra.len < 0 \/ ra.start + ra.len > size THEN size - ra.start ELSE ra.len
      up == Upstream(kind, ra.start, len, size)
  IN  IF kind = "file" THEN VBytes(ra.start, len)
      ELSE IF up.code >= 400 THEN Failed
      ELSE IF (ra.start = 0 /\ len = size) \/ up.code = 206 \/ checkContentRange(up.at, ra.start) THEN up.body
      ELSE GetRangedHttpReader(up.body, ra.start, len)

\* CopyWithBufferN of the announced size.
Sent(body, n) == SubSeq(body, 1, n)

ServeHTTP(r) ==
  LET pre == checkPreconditions(r)
      parsed == ParseRange(RangeHeader(r), r.size)
      refused == parsed.err = "ErrInvalid" \/ (parsed.err = "ErrNoOverlap" /\ r.size > 0)
      ranges == IF SumRangesSize(parsed.ranges) > r.size THEN <<>> ELSE parsed.ranges
      whole == RangeReader(r.link, [start |-> 0, len |-> -1], r.size)
      bodies == [i \in DOMAIN ranges |-> RangeReader(r.link, ranges[i], r.size)]
  IN  IF pre # None THEN [code |-> pre, parts |-> <<>>]
      ELSE IF refused THEN [code |-> 416, parts |-> <<>>]
      ELSE IF ranges = <<>>
      THEN IF whole = Failed THEN [code |-> 503, parts |-> <<>>]
           ELSE [code |-> 200, parts |-> <<Sent(whole, r.size)>>]
      ELSE IF Len(ranges) = 1 /\ bodies[1] = Failed THEN [code |-> 503, parts |-> <<>>]
      ELSE \* the writer of the parts stops at the first one that fails
           LET bad == {i \in DOMAIN bodies : bodies[i] = Failed}
               n == IF bad = {} THEN Len(bodies) ELSE Min(bad) - 1
           IN  [code |-> 206, parts |-> [i \in 1 .. n |-> Sent(bodies[i], ranges[i].len)]]

NoHeaders == [method |-> "GET", im |-> <<>>, ius |-> None, inm |-> <<>>, ims |-> None, ir |-> NoTag,
              range |-> <<>>, etag |-> NoTag, mod |-> 0, size |-> 0, link |-> "file"]
TagLists == {<<>>, <<Star>>} \cup {<<t>> : t \in VTags} \cup {<<Junk, CHOOSE t \in VTags : t[1] = "strong">>}
Dates == {None, -2, 1}

VInit == vreq = NoHeaders /\ vresp = [code |-> 0, parts |-> <<>>]

\* A request with ranges, to any kind of link.
RangeRequest(specs, size, link) ==
  /\ vresp.code = 0
  /\ vreq' = [NoHeaders EXCEPT !.range = specs, !.size = size, !.link = link]
  /\ vresp' = ServeHTTP(vreq')

\* A request for one byte, with preconditions or with If-Range.
Requests == [method : {"GET", "PUT"}, im : TagLists, inm : TagLists, ius : Dates, ims : Dates,
             ir : {NoTag}, etag : {NoTag} \cup VTags, mod : VModTimes]
            \cup
            [method : {"GET", "PUT"}, im : {<<>>}, inm : {<<>>}, ius : {None}, ims : {None},
             ir : {Junk, <<"date", 1>>} \cup VTags, etag : {NoTag} \cup VTags, mod : VModTimes]
ConditionalRequest(q) ==
  /\ vresp.code = 0
  /\ vreq' = q @@ [NoHeaders EXCEPT !.size = 3, !.range = <<[from |-> 1, to |-> 1]>>]
  /\ vresp' = ServeHTTP(vreq')

VNext ==
  \/ \E specs \in BoundedSeq(VSpecs, 2) \ {<<>>}, size \in VSizes,
        link \in {"file", "honours", "ignores", "hack", "error"} : RangeRequest(specs, size, link)
  \/ \E q \in Requests : ConditionalRequest(q)

-----------------------------------------------------------------------------
\* The bytes that a spec asks for, as RFC 7233 puts it.
Asked(s, size) ==
  IF s.from = None THEN {p \in 0 .. size - 1 : p >= size - s.to}
  ELSE {p \in 0 .. size - 1 : p >= s.from /\ (s.to = None \/ p <= s.to)}

(* What is sent is what was asked for: a 206 carries, spec by spec, exactly the *)
(* bytes of the ranges that overlap the file, and a 200 the whole file, whether *)
(* the remote server honours ranges, ignores them or mislabels them.            *)
VBodyExact ==
  LET asked == SelectSeq([i \in DOMAIN vreq.range |-> Asked(vreq.range[i], vreq.size)],
                         LAMBDA a : a # {})
  IN  /\ vresp.code = 206 /\ vreq.link # "error" =>
           SelectSeq(vresp.parts, LAMBDA p : p # <<>>) = [i \in DOMAIN asked |-> SetToSortSeq(asked[i], <)]
      /\ vresp.code = 200 => vresp.parts = <<VBytes(0, vreq.size)>>

(* A client never patches parts of two versions together: a part is sent under  *)
(* If-Range (GET and HEAD) only if the client's tag is strong and names the version that is    *)
(* served, and 304 is sent only to a client that has this version by its tag or *)
(* whose date is not before the modification (checkPreconditions).              *)
VVersionsApart ==
  /\ vresp.code = 206 /\ vreq.ir \in VTags /\ vreq.method \in {"GET", "HEAD"} =>
       vreq.ir = vreq.etag /\ vreq.ir[1] = "strong"
  /\ vresp.code = 304 =>
       IF vreq.inm # <<>>
       THEN \E i \in DOMAIN vreq.inm : vreq.inm[i] \in {Star} \cup {t \in VTags : t[2] = vreq.etag[2]}
       ELSE vreq.mod \div 2 <= vreq.ims
=============================================================================
