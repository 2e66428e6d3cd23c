-------------------------------- MODULE MCApi --------------------------------
(* What the HTTP and WebDAV servers do around the file operations: storages,    *)
(* cached rows, XML and properties, the search index, the handlers of the API   *)
(* and logins.  They share no variable, so each behaviour is one of one part:   *)
(* `part` says which one takes the steps.                                       *)
EXTENDS StorageLife, RowCaches, XmlNames, XmlText, XmlStructs, DavProps,
        IndexBuild, SearchIndex, SearchPages, FsHandlers, Logins

VARIABLE part
apiVars == <<part, storageVars, rowVars, xmlVars, textVars, structVars, propVars,
             indexVars, updateVars, queueVars, pageVars, handlerVars, loginVars>>

-----------------------------------------------------------------------------
(* Storages and rows *)

MCSMounts == {[path |-> <<"a">>, bal |-> FALSE], [path |-> <<"a">>, bal |-> TRUE],
              [path |-> <<"a", "b">>, bal |-> FALSE]}
MCSPaths == {<<>>, <<"a">>, <<"a", "b">>, <<"c">>}
MCRKeys == {<<>>, <<"a">>}

-----------------------------------------------------------------------------
(* XML: declarations of the prefixes p and q and of the default name space, of  *)
(* which one is not declared or ends an outer one.                              *)

MCNs(p, u) == [prefix |-> p, url |-> u]
MCXDeclared ==
  {<<>>}
  \cup {<<d>> : d \in {MCNs(<<"p">>, "u"), MCNs(<<"q">>, "u"), MCNs(<<>>, "u"), MCNs(<<>>, ""), MCNs(<<"p">>, "")}}
  \cup {<<d, e>> : d \in {MCNs(<<"p">>, "v"), MCNs(<<"p">>, "u"), MCNs(<<>>, "u")},
                   e \in {MCNs(<<"q">>, "v")}}
MCXPrefixes == {<<>>, <<"p">>, <<"q">>}
MCXBase == "u" :> <<"p">> @@ "v" :> <<"_">>
MCXAttrs == {<<>>, <<<<"p">>>>}
MCXOuter == {<<>>, <<MCNs(<<"p">>, "u"), MCNs(<<>>, "v")>>}

\* Fields of structs: the paths of elements conflict, share parents, or neither.
MCField(path, ns, depth) ==
  [mode |-> "element", name |-> Last(path), parents |-> Front(path), xmlns |-> ns, depth |-> depth]
MCZFields ==
  {MCField(p, ns, 1) : p \in {<<"a">>, <<"a", "b">>, <<"a", "c">>, <<"b">>}, ns \in {"", "u"}}
  \cup {MCField(p, "v", 2) : p \in {<<"a">>, <<"a", "b">>}}
  \cup {[mode |-> "chardata", name |-> "", parents |-> <<>>, xmlns |-> "", depth |-> 1]}

MCPTree == <<>> :> TRUE @@ <<"a">> :> TRUE @@ <<"a", "f">> :> FALSE @@ <<"g">> :> FALSE
MCItem(n, v) == [name |-> n, value |-> v]
MCItems ==
  {<<>>} \cup {<<MCItem(n, v)>> : n \in {"displayname", "getetag", "other"}, v \in BOOLEAN}
  \cup {<<MCItem(n, FALSE), MCItem(k, FALSE)>> : n \in {"displayname", "getetag", "lockdiscovery"}, k \in {"other", "getetag"}}
MCPBodies ==
  [kind : {"empty", "bad"}, allprop : {FALSE}, propname : {FALSE}, prop : {<<>>}, include : {<<>>}]
  \cup [kind : {"doc"}, allprop : BOOLEAN, propname : BOOLEAN, prop : MCItems, include : {<<>>, <<MCItem("other", FALSE)>>}]
MCPPatches ==
  LET one == [op : {"set", "remove", "other"}, items : MCItems \ {<<>>}]
  IN  {<<o>> : o \in one} \cup {<<o, p>> : o, p \in {q \in one : Len(q.items) = 1}}

-----------------------------------------------------------------------------
(* The index: a tree with a directory that is not indexed, and two directories  *)
(* of which one holds the other, with a storage mounted beside it.              *)

MCITree == <<>> :> TRUE @@ <<"a">> :> TRUE @@ <<"a", "f">> :> FALSE @@ <<"h">> :> TRUE @@ <<"h", "k">> :> FALSE
MCIIgnored == {<<"h">>}
MCIUpdates == {<<"a">>}
MCDirs == {<<>>, <<"a">>}
MCMounts == {<<"b">>}
MCVReqs == [page : {1, 2}, per : {1, 2}]

-----------------------------------------------------------------------------
(* Requests of the API: the trees have a directory to move from and one to      *)
(* move to, with files of the same name in both and in subdirectories.          *)

MCReq(names) ==
  [op |-> "", dir |-> <<"s">>, dst |-> <<"d">>, path |-> <<>>, name |-> "",
   names |-> names, renames |-> <<>>, over |-> FALSE, skip |-> FALSE,
   merge |-> FALSE, policy |-> "", may |-> TRUE, content |-> TRUE,
   blind |-> {}]
MCENodes ==
  {<<"s", "a">>, <<"s", "a", "x">>, <<"s", "a", "b">>, <<"s", "a", "b", "c">>,
   <<"d", "x">>, <<"d", "a">>}
MCEId(p) ==
  CASE p = <<"s", "x">> -> "1" [] p = <<"s", "a", "x">> -> "2"
    [] p = <<"d", "x">> -> "3" [] p = <<"s", "a", "b", "c">> -> "4"
    [] OTHER -> "dir"
MCEShapes ==
  {S \in SUBSET MCENodes : /\ \A p \in S : Len(p) > 2 => Front(p) \in S
                           /\ <<"d", "a">> \in S => <<"s", "a">> \in S}
MCETrees == {[p \in S \cup {<<"s">>, <<"d">>, <<"s", "x">>} |-> MCEId(p)] : S \in MCEShapes}
MCEMeta(p) ==
  [path |-> p, nowrite |-> FALSE, wsub |-> FALSE, noread |-> FALSE,
   rsub |-> FALSE, open |-> FALSE, osub |-> FALSE]
MCEMetaSets ==
  {{}, {[MCEMeta(<<"s", "a">>) EXCEPT !.nowrite = TRUE, !.wsub = TRUE]},
   {[MCEMeta(<<"d", "x">>) EXCEPT !.nowrite = TRUE]},
   {[MCEMeta(<<"s", "a", "x">>) EXCEPT !.noread = TRUE, !.nowrite = TRUE]},
   {[MCEMeta(<<"s", "a", "b">>) EXCEPT !.noread = TRUE, !.rsub = TRUE]},
   {[MCEMeta(<<>>) EXCEPT !.nowrite = TRUE, !.wsub = TRUE],
    [MCEMeta(<<"s">>) EXCEPT !.open = TRUE, !.osub = TRUE], MCEMeta(<<"d">>)}}
MCENamesSets ==
  {<< <<"x">>, <<"a">> >>, << <<"..", "d", "x">>, <<"a", "b">> >>,
   << <<"x">>, <<"a", "x">> >>, << <<".">> >>}
MCRenames ==
  {<<[from |-> "x", to |-> "y"], [from |-> "a", to |-> "x"]>>,
   <<[from |-> "x", to |-> "a/b"]>>,
   <<[from |-> "a", to |-> "y"], [from |-> "x", to |-> "y"]>>}
MCRequests ==
  {[MCReq(n) EXCEPT !.op = o, !.over = v] :
     n \in MCENamesSets, o \in {"move", "copy"}, v \in BOOLEAN}
  \cup {[MCReq(<<<<"x">>, <<"a">>>>) EXCEPT !.op = "copy", !.skip = v, !.merge = ~v] : v \in BOOLEAN}
  \cup {[MCReq(<<<<"d">>, <<".">>>>) EXCEPT !.op = "move", !.dir = <<>>, !.dst = <<"s", "a">>, !.over = v] :
          v \in BOOLEAN}
  \cup {[MCReq(n) EXCEPT !.op = "remove"] : n \in MCENamesSets}
  \cup {[MCReq(<<>>) EXCEPT !.op = "gather", !.dst = e, !.policy = q] :
          e \in {<<"d">>, <<"s", "a">>}, q \in {"cancel", "skip", "overwrite", ""}}
  \cup {[MCReq(<<>>) EXCEPT !.op = "empties", !.dir = d] : d \in {<<>>, <<"s">>}}
  \cup {[MCReq(<<>>) EXCEPT !.op = o, !.over = v, !.path = p] :
          o \in {"stream", "form"}, v \in BOOLEAN,
          p \in {<<"d", "x">>, <<"s", "a", "b">>, <<"n", "m">>}}
  \cup {[MCReq(<<>>) EXCEPT !.op = "mkdir", !.path = p] :
          p \in {<<"d", "x">>, <<"s", "a", "b">>, <<"n", "m">>}}
  \cup {[MCReq(<<>>) EXCEPT !.op = "rename", !.over = v, !.path = p, !.name = n] :
          v \in BOOLEAN, p \in {<<"s", "a">>, <<"s", "x">>, <<"s", "a", "x">>}, n \in {"a", "b", "a/b"}}
  \cup {[MCReq(<<>>) EXCEPT !.op = o, !.renames = r] : o \in {"renames", "regex"}, r \in MCRenames}
MCEReqs ==
  MCRequests \cup {[r EXCEPT !.may = FALSE, !.content = FALSE] :
                     r \in {q \in MCRequests : q.op \in {"mkdir", "stream", "remove"}}}
             \cup {[r EXCEPT !.blind = {p}] :
                     r \in {q \in MCRequests : ~q.over /\ q.op \in {"move", "copy", "stream", "form", "rename"}},
                     p \in {<<"d", "x">>, <<"s", "a", "b">>}}
MCENames == {"s", "d", "a", "b", "c", "x", "y", "n", "m", "a/b"}
MCEUploads == {<<"d", "x">>, <<"s", "a", "b", "y">>}

-----------------------------------------------------------------------------
\* A part that takes no step starts in one way only.
ApiInit ==
  /\ part \in {"storage", "rows", "names", "text", "structs", "props", "build",
             "update", "queue", "pages", "files", "logins"}
  /\ SInitial /\ RInit /\ XInit /\ YInit /\ ZInit /\ PInit
  /\ IInit /\ UInit /\ QInit /\ VInit /\ AInit
  /\ part # "rows" => rkind = "user"
  /\ part # "text" => yend = "<"
  /\ part # "pages" => vkind = "pages" /\ vreq = [page |-> 1, per |-> 1] /\ vrows = {} /\ vshown = {}
  /\ part # "logins" => arow.argon
  /\ IF part = "files" THEN EInit
     ELSE /\ etree = <<>> /\ eorig = <<>> /\ emetas = {} /\ ereq = MCReq(<<>>)
          /\ ework = EFresh /\ eother = ENoOther

\* The other parts stay as they are.
Rest(p) ==
  /\ IF p = "storage" THEN TRUE ELSE UNCHANGED storageVars
  /\ IF p = "rows" THEN TRUE ELSE UNCHANGED rowVars
  /\ IF p = "names" THEN TRUE ELSE UNCHANGED xmlVars
  /\ IF p = "text" THEN TRUE ELSE UNCHANGED textVars
  /\ IF p = "structs" THEN TRUE ELSE UNCHANGED structVars
  /\ IF p = "props" THEN TRUE ELSE UNCHANGED propVars
  /\ IF p = "build" THEN TRUE ELSE UNCHANGED indexVars
  /\ IF p = "update" THEN TRUE ELSE UNCHANGED updateVars
  /\ IF p = "queue" THEN TRUE ELSE UNCHANGED queueVars
  /\ IF p = "pages" THEN TRUE ELSE UNCHANGED pageVars
  /\ IF p = "files" THEN TRUE ELSE UNCHANGED handlerVars
  /\ IF p = "logins" THEN TRUE ELSE UNCHANGED loginVars

ApiNext ==
  /\ UNCHANGED part
  /\ \/ part = "storage" /\ SNext /\ Rest("storage")
     \/ part = "rows" /\ RNext /\ Rest("rows")
     \/ part = "names" /\ XNext /\ Rest("names")
     \/ part = "text" /\ YNext /\ Rest("text")
     \/ part = "structs" /\ ZNext /\ Rest("structs")
     \/ part = "props" /\ PNext /\ Rest("props")
     \/ part = "build" /\ INext /\ Rest("build")
     \/ part = "update" /\ UNext /\ Rest("update")
     \/ part = "queue" /\ QNext /\ Rest("queue")
     \/ part = "pages" /\ VNext /\ Rest("pages")
     \/ part = "files" /\ ENext /\ Rest("files")
     \/ part = "logins" /\ ANext /\ Rest("logins")

ApiSpec == ApiInit /\ [][ApiNext]_apiVars

-----------------------------------------------------------------------------
(* What is written as XML is read back: names with their name spaces, text with *)
(* its line ends, and structs with their fields (webdav/internal/xml, xml.go).  *)
XmlRoundTrip ==
  XSameNames /\ XInverse /\ XRestored /\ YEscapedReadBack /\ YLineEnds /\ ZReadBack /\ ZWellFormed

(* What is looked up is found, and once: the storages of a path and the mounts  *)
(* below it, in whatever order the map is walked (op/storage.go:314-443), and   *)
(* the matches of a search, page by page (search/search.go:56-92).              *)
LookupsExact == SLongestMatch /\ SVirtualFiles /\ SearchExact
=============================================================================
