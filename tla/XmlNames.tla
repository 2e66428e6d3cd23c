------------------------------ MODULE XmlNames ------------------------------
(* server/webdav/internal/xml: the name spaces of the Decoder (xml.go) and of    *)
(* the Encoder (marshal.go), as the value of a property goes through them        *)
(* (xmlValue.UnmarshalXML in webdav/xml.go): the tokens of the client's body are *)
(* decoded and encoded again, so that the value declares what it uses.  Whoever  *)
(* reads the value is a second Decoder.  A step is one token, through all three. *)
(* Text and attribute values are in XmlText.                                     *)
EXTENDS Integers, Sequences, FiniteSets, SequencesExt

CONSTANTS XDeclared,  \* declarations of an element: sequences of [prefix, url]
          XPrefixes,  \* prefixes of names; <<>> is none
          XBase,      \* url -> the prefix that its last path element would be
          XLocals,    \* local names
          XAttrs,     \* prefixes of the attributes of an element: sequences
          XOuter,     \* declarations of the elements around the property
          XDepth,     \* bound: elements within one another in the value
          XSeq        \* bound: numbered prefixes

VARIABLES xin,    \* the Decoder of the body: [ns, stk, err]
          xenc,   \* the Encoder of the value
          xout,   \* a Decoder that reads the value
          xraw,   \* raw names of the elements that the client has open
          xname,  \* the name of the property: start.Name
          xat,    \* "body", "value", "read", "failed"
          xlast   \* the last token of the value: [sent, read]
xmlVars == <<xin, xenc, xout, xraw, xname, xat, xlast>>

XWith(f, k, v) == [x \in DOMAIN f \cup {k} |-> IF x = k THEN v ELSE f[x]]
XWithout(f, k) == [x \in DOMAIN f \ {k} |-> f[x]]
XGet(f, k, none) == IF k \in DOMAIN f THEN f[k] ELSE none
xmlURL == "XML"

-----------------------------------------------------------------------------
(* Decoder: d.ns and the stack of open elements and of what to undo *)

pushNs(d, decl) ==
  [d EXCEPT !.stk = Append(@, [kind |-> "ns", prefix |-> decl.prefix, url |-> XGet(d.ns, decl.prefix, ""),
                               ok |-> decl.prefix \in DOMAIN d.ns]),
            !.ns = XWith(@, decl.prefix, decl.url)]
pushElement(d, name) == [d EXCEPT !.stk = Append(@, [kind |-> "start", name |-> name])]

\* translate: a prefix that nobody declared is its own name space; a name without
\* prefix has the default one only when it is an element's.
translate(d, prefix, isElementName) ==
  IF prefix = <<"xml">> THEN xmlURL
  ELSE IF prefix = <<>> /\ ~isElementName THEN ""
  ELSE IF prefix \in DOMAIN d.ns THEN d.ns[prefix]
  ELSE IF prefix = <<>> THEN "" ELSE prefix[1]

\* Token of a start element: the declarations, then the names.
TokenStart(d, raw) ==
  LET e == FoldLeft(pushNs, d, raw.decls)
      name == [space |-> translate(e, raw.prefix, TRUE), local |-> raw.local]
  IN  [d |-> pushElement(e, name),
       tok |-> [name |-> name, decls |-> raw.decls,
                attrs |-> [i \in DOMAIN raw.attrs |-> translate(e, raw.attrs[i], FALSE)]]]

\* pushEOF: below the element that is open and what it declared.
pushEOF(d) ==
  LET n == Max({i \in DOMAIN d.stk : d.stk[i].kind = "start"})
      k == Max({0} \cup {i \in 1..(n - 1) : d.stk[i].kind # "ns"})
  IN  [d EXCEPT !.stk = SubSeq(@, 1, k) \o <<[kind |-> "eof"]>> \o SubSeq(@, k + 1, Len(@))]
atEOF(d) == d.stk # <<>> /\ Last(d.stk).kind = "eof"
popEOF(d) == IF atEOF(d) THEN [d EXCEPT !.stk = Front(@)] ELSE d

\* popElement: what the element declared is below it on the stack.
Undone(d, k) == (k + 1)..(Len(d.stk) - 1)
popElement(d, name) ==
  IF d.stk = <<>> \/ Last(d.stk).kind # "start" \/ Last(d.stk).name # name THEN [d EXCEPT !.err = TRUE]
  ELSE LET k == Max({0} \cup {i \in 1..(Len(d.stk) - 1) : d.stk[i].kind # "ns"})
           undo == [i \in 1..Cardinality(Undone(d, k)) |-> d.stk[Len(d.stk) - i]]
           Back(ns, s) == IF s.ok THEN XWith(ns, s.prefix, s.url) ELSE XWithout(ns, s.prefix)
       IN  [d EXCEPT !.stk = SubSeq(@, 1, k), !.ns = FoldLeft(Back, @, undo)]
TokenEnd(d, prefix, local) == popElement(d, [space |-> translate(d, prefix, TRUE), local |-> local])

-----------------------------------------------------------------------------
(* Encoder: the printer's maps between prefixes and name spaces *)

nsForPrefix(e, prefix) == IF prefix = <<>> THEN e.defaultNS ELSE XGet(e.attrNS, prefix, "")
setAttrPrefix(e, prefix, url) ==
  IF prefix = <<>> THEN [e EXCEPT !.defaultNS = url]
  ELSE LET less == XWithout(e.attrPrefix, nsForPrefix(e, prefix))
       IN  IF url = "" THEN [e EXCEPT !.attrPrefix = less, !.attrNS = XWithout(@, prefix)]
           ELSE [e EXCEPT !.attrPrefix = XWith(less, url, prefix), !.attrNS = XWith(@, prefix, url)]
pushPrefix(e, prefix, url) ==
  setAttrPrefix([e EXCEPT !.prefixes = Append(@, [prefix |-> prefix, url |-> nsForPrefix(e, prefix), mark |-> FALSE])],
                prefix, url)
markPrefix(e) == [e EXCEPT !.prefixes = Append(@, [prefix |-> <<>>, url |-> "", mark |-> TRUE])]
\* What the element that is open has defined, the last one first.
OfElement(e) ==
  LET n == Max({0} \cup {i \in DOMAIN e.prefixes : e.prefixes[i].mark})
  IN  Reverse(SubSeq(e.prefixes, n + 1, Len(e.prefixes)))
\* (Mutant: the undo records in the order in which they were made.)
UndoOrder_First(e) == Reverse(OfElement(e))
UndoOrder(e) == OfElement(e)
popPrefix(e) ==
  LET Back(f, r) == setAttrPrefix(f, r.prefix, r.url)
      n == Max({1} \cup {i \in DOMAIN e.prefixes : e.prefixes[i].mark})
  IN  [FoldLeft(Back, e, UndoOrder(e)) EXCEPT !.prefixes = SubSeq(@, 1, n - 1)]

\* A declaration in the attributes: kept unless its name space has a prefix already.
defineNS(e, decl, ignoreNonEmptyDefault) ==
  IF \/ decl.prefix # <<>> /\ (decl.url = "" \/ decl.url \in DOMAIN e.attrPrefix)
     \/ decl.prefix = <<>> /\ (decl.url = e.defaultNS \/ (decl.url # "" /\ ignoreNonEmptyDefault))
  THEN e ELSE pushPrefix(e, decl.prefix, decl.url)

BaseOf(url) == IF url \in DOMAIN XBase THEN XBase[url] ELSE <<url>>
createNSPrefix(e, url, isAttr) ==
  LET base == BaseOf(url)
      n == CHOOSE k \in 1..(XSeq + 2) :
             /\ k > e.seq /\ Append(base, k) \notin DOMAIN e.attrNS
             /\ \A j \in (e.seq + 1)..(k - 1) : Append(base, j) \in DOMAIN e.attrNS
  IN  IF url \in DOMAIN e.attrPrefix \/ (~isAttr /\ url = e.defaultNS) \/ url = xmlURL THEN e
      ELSE IF url = "" THEN IF e.defaultNS # "" THEN pushPrefix(e, <<>>, "") ELSE e
      ELSE IF base \in DOMAIN e.attrNS THEN pushPrefix([e EXCEPT !.seq = n], Append(base, n), url)
      ELSE pushPrefix(e, base, url)

prefixForNS(e, url, isAttr) ==
  IF url = xmlURL THEN <<"xml">>
  ELSE IF ~isAttr /\ url = e.defaultNS THEN <<>>
  ELSE XGet(e.attrPrefix, url, <<>>)

writeStart(e, tok) ==
  LET marked == markPrefix([e EXCEPT !.tags = Append(@, tok.name)])
      Declare(f, decl) == defineNS(f, decl, tok.name.space = "")
      Attribute(f, space) == IF space = "" THEN f ELSE createNSPrefix(f, space, TRUE)
      defined == FoldLeft(Attribute, FoldLeft(Declare, marked, tok.decls), tok.attrs)
  IN  createNSPrefix(defined, tok.name.space, FALSE)
\* What is written: the declarations are those of writeNamespaces.
Written(e, tok) ==
  [prefix |-> prefixForNS(e, tok.name.space, FALSE), local |-> tok.name.local,
   decls |-> [i \in DOMAIN OfElement(e) |-> [prefix |-> OfElement(e)[i].prefix, url |-> nsForPrefix(e, OfElement(e)[i].prefix)]],
   attrs |-> [i \in DOMAIN tok.attrs |-> prefixForNS(e, tok.attrs[i], TRUE)]]
writeEnd(e) == popPrefix([e EXCEPT !.tags = Front(@)])

-----------------------------------------------------------------------------
NewDecoder == [ns |-> <<>>, stk |-> <<>>, err |-> FALSE]
NewEncoder == [tags |-> <<>>, prefixes |-> <<>>, defaultNS |-> "", attrNS |-> <<>>, attrPrefix |-> <<>>, seq |-> 0]
XNone == [sent |-> <<>>, read |-> <<>>]
XProperty == [prefix |-> <<>>, local |-> "prop", attrs |-> <<>>, decls |-> <<>>]

XInit ==
  /\ xin = NewDecoder /\ xenc = NewEncoder /\ xout = NewDecoder
  /\ xraw = <<>> /\ xname = <<>> /\ xat = "body" /\ xlast = XNone

\* The elements around the property, and the property: unmarshalInterface calls
\* UnmarshalXML, which has an Encoder of its own.
XBegin(decls, prefix) ==
  /\ xat = "body" /\ Len(xin.stk) = 0
  /\ LET around == TokenStart(xin, [XProperty EXCEPT !.decls = decls, !.local = "around"]).d
         prop == TokenStart(around, [XProperty EXCEPT !.prefix = prefix])
     IN  xin' = pushEOF(prop.d) /\ xname' = prop.tok.name
  /\ xraw' = <<[prefix |-> prefix, local |-> "prop"]>>
  /\ xenc' = NewEncoder /\ xout' = NewDecoder /\ xlast' = XNone
  /\ xat' = "value"

\* A start tag in the value.
XStart(prefix, local, decls, attrs) ==
  LET raw == [prefix |-> prefix, local |-> local, decls |-> decls, attrs |-> attrs]
      tin == TokenStart(xin, raw)
      e == writeStart(xenc, tin.tok)
      tout == TokenStart(xout, Written(e, tin.tok))
  IN  /\ xat = "value" /\ Len(xraw) <= XDepth /\ xenc.seq < XSeq
      /\ xin' = tin.d /\ xenc' = e /\ xout' = tout.d
      /\ xraw' = Append(xraw, [prefix |-> prefix, local |-> local])
      /\ xlast' = [sent |-> tin.tok, read |-> tout.tok]
      /\ UNCHANGED <<xat, xname>>

\* An end tag: the value ends at the first one with the property's name, and
\* unmarshalInterface looks whether that was the property's own.
XEnd(prefix, local) ==
  LET name == [space |-> translate(xin, prefix, TRUE), local |-> local]
      d == popElement(xin, name)
      ends == name = xname
  IN  /\ xat = "value"
      /\ xin' = IF ~d.err /\ ends THEN popEOF(d) ELSE d
      /\ xraw' = Front(xraw) /\ UNCHANGED xname
      /\ IF d.err \/ (ends /\ ~atEOF(d))
         THEN xat' = "failed" /\ UNCHANGED <<xenc, xout, xlast>>
         ELSE IF ends THEN xat' = "read" /\ UNCHANGED <<xenc, xout, xlast>>
         ELSE /\ xout' = TokenEnd(xout, prefixForNS(xenc, name.space, FALSE), local)
              /\ xenc' = writeEnd(xenc)
              /\ xlast' = XNone /\ UNCHANGED <<xat, xname>>

XNext ==
  \/ \E decls \in XOuter, prefix \in XPrefixes : XBegin(decls, prefix)
  \/ \E prefix \in XPrefixes, local \in XLocals, decls \in XDeclared, attrs \in XAttrs : XStart(prefix, local, decls, attrs)
  \/ XEnd(Last(xraw).prefix, Last(xraw).local)
  \/ \E prefix \in XPrefixes, local \in XLocals \cup {"prop"} : XEnd(prefix, local)

-----------------------------------------------------------------------------
Meaning(tok) == [name |-> tok.name, attrs |-> tok.attrs]

(* Whoever reads the value of a property sees the names, with their name        *)
(* spaces, that the client sent, though the prefixes were declared around the   *)
(* property, are declared again within it, or were never declared               *)
(* (xmlValue.UnmarshalXML: "the unmarshalled value contains all required        *)
(* namespaces").                                                                *)
XSameNames ==
  /\ ~xout.err
  /\ xlast # XNone => Meaning(xlast.read) = Meaning(xlast.sent)

(* The maps of the Encoder stay inverse to each other, and a value that has     *)
(* ended leaves nothing in them (defineNS: "so attrNS and attrPrefix can remain *)
(* bijective").                                                                 *)
XInverse ==
  /\ \A p \in DOMAIN xenc.attrNS : XGet(xenc.attrPrefix, xenc.attrNS[p], <<>>) = p
  /\ \A u \in DOMAIN xenc.attrPrefix : XGet(xenc.attrNS, xenc.attrPrefix[u], "") = u
  /\ xat = "read" => xenc = [NewEncoder EXCEPT !.seq = xenc.seq]

(* After a property the Decoder has the name spaces of the elements around it,  *)
(* for the property that comes next (popElement, popEOF).                       *)
XRestored ==
  xat = "read" =>
    /\ Cardinality({i \in DOMAIN xin.stk : xin.stk[i].kind # "ns"}) = 1
    /\ \A i \in DOMAIN xin.stk : xin.stk[i].kind = "ns" => xin.stk[i].prefix \in DOMAIN xin.ns
    /\ Cardinality(DOMAIN xin.ns) = Cardinality({i \in DOMAIN xin.stk : xin.stk[i].kind = "ns"})
=============================================================================
