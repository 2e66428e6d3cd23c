------------------------------ MODULE DavProps ------------------------------
(* server/webdav: PROPFIND and PROPPATCH (webdav.go), the bodies they read and   *)
(* the multistatus they write (xml.go), the live properties (prop.go) and the    *)
(* walk of the tree (walkFS in file.go).  A request is answered from a buffer    *)
(* (ServeHTTP).  The tree and what the file system answers are given; the lock   *)
(* and the user of a request are in DavRequests.                                 *)
EXTENDS Integers, Sequences, FiniteSets, SequencesExt, TLC

CONSTANTS PTree,     \* node -> whether it is a directory; a node is its path below PRoot
          PBodies,   \* bodies of PROPFIND: [kind, allprop, propname, prop, include]
          PPatches   \* bodies of PROPPATCH: sequences of [op, items]

PRoot == <<>>
PNames == UNION {Range(n) : n \in DOMAIN PTree}

ASSUME PAssumption ==
  /\ IsFiniteSet(DOMAIN PTree) /\ DOMAIN PTree \subseteq Seq(PNames) /\ PRoot \in DOMAIN PTree
  /\ \A n \in DOMAIN PTree \ {PRoot} : Front(n) \in DOMAIN PTree /\ PTree[Front(n)]
  /\ \A b \in PBodies : b.kind = "empty" => b.prop = <<>>

VARIABLES preq,     \* the request: [method, body, depth]
          ppending, \* walkFS: the nodes to visit next, [node, depth]
          pmw,      \* multistatusWriter: "none", "open", "closed"
          pbuf,     \* responses in the buffer: [node, stats]
          preply    \* status of the reply; 0 while there is none
propVars == <<preq, ppending, pmw, pbuf, preply>>

Infinite == -1
\* liveProps: findFn is not nil; the property applies to directories.
LiveProp(find, dir) == [find |-> find, dir |-> dir]
liveProps ==
  [n \in {"resourcetype", "displayname", "getlastmodified", "creationdate", "supportedlock"} |-> LiveProp(TRUE, TRUE)]
  @@ [n \in {"getcontentlength", "getcontenttype", "getetag", "checksums"} |-> LiveProp(TRUE, FALSE)]
  @@ [n \in {"getcontentlanguage", "lockdiscovery"} |-> LiveProp(FALSE, FALSE)]
Applies(n, node) == n \in DOMAIN liveProps /\ liveProps[n].find /\ (liveProps[n].dir \/ ~PTree[node])

-----------------------------------------------------------------------------
(* Bodies: a property is [name, value], value when the element is not empty *)

\* propfindProps.UnmarshalXML: a property with a value, and a prop without any
\* (kind "bad" too), are errors.
UnmarshalOK(items) == \A i \in DOMAIN items : ~items[i].value
\* readPropfind: no body asks for everything.
readPropfind(b) ==
  \/ b.kind = "empty"
  \/ /\ b.kind = "doc" /\ UnmarshalOK(b.prop) /\ UnmarshalOK(b.include)
     /\ b.include # <<>> => b.allprop
     /\ b.allprop => b.prop = <<>> /\ ~b.propname
     /\ ~(b.prop # <<>> /\ b.propname)
     /\ b.propname \/ b.allprop \/ b.prop # <<>>
readProppatch(ops) ==
  \A i \in DOMAIN ops : \/ ops[i].op = "set"
                        \/ ops[i].op = "remove" /\ \A j \in DOMAIN ops[i].items : ~ops[i].items[j].value

-----------------------------------------------------------------------------
(* prop.go: a propstat is [status, names], the names at their places in the request *)

Pstat(status, names) == [status |-> status, names |-> names]
makePropstats(x, y) ==
  IF x.names = <<>> /\ y.names = <<>> THEN <<Pstat(200, <<>>)>>
  ELSE (IF x.names = <<>> THEN <<>> ELSE <<x>>) \o (IF y.names = <<>> THEN <<>> ELSE <<y>>)
Places(names, S) == {i \in DOMAIN names : names[i] \in S}
Split(st, names, S, other) ==
  makePropstats(Pstat(st, Restrict(names, Places(names, S))),
                Pstat(other, Restrict(names, DOMAIN names \ Places(names, S))))
Owned(node) == {n \in DOMAIN liveProps : Applies(n, node)}
props(node, names) == Split(200, names, Owned(node), 404)
LiveNames == <<"resourcetype", "displayname", "getlastmodified", "creationdate", "supportedlock",
               "getcontentlength", "getcontenttype", "getetag", "checksums">>
propnames(node) == Restrict(LiveNames, Places(LiveNames, Owned(node)))
allprop(node, include) ==
  LET names == LiveNames \o include
  IN  props(node, Restrict(names, DOMAIN propnames(node)
                                  \cup {i \in DOMAIN names \ DOMAIN LiveNames : names[i] \notin Owned(node)}))
\* patch: one property that is live stops all of them; nothing is ever stored.
\* (Mutant: the other properties are reported as done.)
patch_Partly(names) == Split(403, names, DOMAIN liveProps, 200)
patch(names) ==
  IF Places(names, DOMAIN liveProps) = {} THEN <<Pstat(403, names)>>
  ELSE Split(403, names, DOMAIN liveProps, 424)

-----------------------------------------------------------------------------
PNone == [method |-> "", body |-> <<>>, depth |-> 0]
PInit == preq = PNone /\ ppending = <<>> /\ pmw = "none" /\ pbuf = <<>> /\ preply = 0

\* multistatusWriter.write and close, into the buffer.
mwWrite(node, stats) == pmw' = "open" /\ pbuf' = Append(pbuf, [node |-> node, stats |-> stats])
mwClose == pmw' = (IF pmw = "none" THEN "none" ELSE "closed")

Names(items) == [i \in DOMAIN items |-> items[i].name]
Patched(ops) == [ij \in UNION {{i} \X DOMAIN ops[i].items : i \in DOMAIN ops} |-> ops[ij[1]].items[ij[2]].name]
\* Every error of PROPFIND is answered with 404 (ServeHTTP).
handlePropfind(body, depth) ==
  /\ preq = PNone
  /\ preq' = [method |-> "PROPFIND", body |-> body, depth |-> depth]
  /\ IF readPropfind(body) THEN ppending' = <<[node |-> PRoot, depth |-> depth]>> /\ UNCHANGED preply
     ELSE preply' = 404 /\ UNCHANGED ppending
  /\ UNCHANGED <<pmw, pbuf>>

\* walkFn: what is asked of one node.  allprop gets pf.Prop, which is then empty.
Asked(node) ==
  LET b == preq.body
  IN  IF b.propname THEN <<Pstat(200, propnames(node))>>
      ELSE IF b.kind = "empty" \/ b.allprop THEN allprop(node, Names(b.prop))
      ELSE props(node, Names(b.prop))
\* walkFS: a node, then its members.
walkFS ==
  LET at == Head(ppending)
      kids == SetToSeq({n \in DOMAIN PTree : n # PRoot /\ Front(n) = at.node})
      below == [i \in DOMAIN kids |-> [node |-> kids[i], depth |-> IF at.depth = 1 THEN 0 ELSE at.depth]]
  IN  /\ preq.method = "PROPFIND" /\ preply = 0 /\ ppending # <<>>
      /\ mwWrite(at.node, Asked(at.node))
      /\ ppending' = (IF PTree[at.node] /\ at.depth # 0 THEN below ELSE <<>>) \o Tail(ppending)
      /\ UNCHANGED <<preq, preply>>
\* A property that cannot be found, or the listing of the node before, ends it.
walkFails ==
  /\ preq.method = "PROPFIND" /\ preply = 0
  /\ preply' = 404 /\ ppending' = <<>> /\ mwClose
  /\ UNCHANGED <<preq, pbuf>>
walkEnds ==
  /\ preq.method = "PROPFIND" /\ preply = 0 /\ ppending = <<>>
  /\ preply' = 207 /\ mwClose /\ UNCHANGED <<preq, ppending, pbuf>>

handleProppatch(ops) ==
  /\ preq = PNone
  /\ preq' = [method |-> "PROPPATCH", body |-> ops, depth |-> 0]
  /\ IF readProppatch(ops)
     THEN /\ mwWrite(PRoot, patch(Patched(ops)))
          /\ preply' = 207
     ELSE preply' = 400 /\ UNCHANGED <<pmw, pbuf>>
  /\ UNCHANGED ppending

PNext ==
  \/ \E b \in PBodies, depth \in {0, 1, Infinite} : handlePropfind(b, depth)
  \/ walkFS \/ walkFails \/ walkEnds
  \/ \E ops \in PPatches : handleProppatch(ops)
PSpec == PInit /\ [][PNext]_propVars

-----------------------------------------------------------------------------
\* The names in the propstats with a status, and the propstats with a place of the request.
With(stats, st) == UNION {Range(stats[i].names) : i \in {j \in DOMAIN stats : stats[j].status = st}}
Holding(stats, k) == {i \in DOMAIN stats : k \in DOMAIN stats[i].names}

(* A multistatus is sent whole or not at all: every resource within the depth   *)
(* is answered once, no other is, and the document is closed, though a property *)
(* or a listing may fail when part of it is already written (ServeHTTP,         *)
(* bufferedResponseWriter, walkFS).                                             *)
PWhole ==
  preply = 207 /\ preq.method = "PROPFIND" =>
    /\ pmw = "closed"
    /\ {pbuf[i].node : i \in DOMAIN pbuf} = {n \in DOMAIN PTree : preq.depth = Infinite \/ Len(n) <= preq.depth}
    /\ \A i, j \in DOMAIN pbuf : pbuf[i].node = pbuf[j].node => i = j

(* Each property that was asked for is in one propstat, once for each time it   *)
(* was asked: in the one with 200 when the resource has it (props: "each        *)
(* property name will only be part of one Propstat element").                   *)
PEach ==
  preply = 207 /\ preq.method = "PROPFIND" /\ preq.body.prop # <<>> =>
    \A i \in DOMAIN pbuf :
      LET stats == pbuf[i].stats
          names == Names(preq.body.prop)
      IN  /\ With(stats, 200) = {n \in Range(names) : Applies(n, pbuf[i].node)}
          /\ With(stats, 404) = Range(names) \ With(stats, 200)
          /\ \A k \in DOMAIN names : \E j \in DOMAIN stats : Holding(stats, k) = {j} /\ stats[j].names[k] = names[k]

(* No property is changed, and none is reported as changed: one that is live    *)
(* makes the others fail with it, over all the parts of the body (patch:        *)
(* "Patching is atomic").                                                       *)
PPatchAtomic ==
  preply = 207 /\ preq.method = "PROPPATCH" =>
    LET names == Patched(preq.body)
        live == Range(names) \cap DOMAIN liveProps
        stats == pbuf[1].stats
    IN  /\ With(stats, 200) = {}
        /\ With(stats, 403) = (IF live = {} THEN Range(names) ELSE live)
        /\ With(stats, 424) = (IF live = {} THEN {} ELSE Range(names) \ live)

(* PROPFIND and PROPPATCH answer for every resource and property asked for,     *)
(* once, and change nothing (webdav.go, prop.go).                               *)
DavAnswers == PWhole /\ PEach /\ PPatchAtomic
=============================================================================
