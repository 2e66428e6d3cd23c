----------------------------- MODULE XmlStructs -----------------------------
(* server/webdav/internal/xml: how a struct is written as XML and read again.   *)
(* The fields of a type are collected with addFieldInfo (typeinfo.go), which    *)
(* takes out or refuses fields whose paths conflict; marshalStruct writes the   *)
(* fields and opens and closes the elements of their paths (setParents,         *)
(* marshal.go); unmarshal and unmarshalPath read the tokens (read.go).  Fields  *)
(* are pointers to empty structs, as in lockInfo and propfind, and text.        *)
EXTENDS Integers, Sequences, FiniteSets, SequencesExt

CONSTANTS ZFields,   \* fields a type may have: [mode, name, parents, xmlns, depth]
          ZMax       \* bound: fields of a type

VARIABLES zfields,   \* fields of the type, each with whether the struct has a value for it
          zphase,    \* "type", "marshal", "unmarshal", "done", "refused", "failed"
          znext,     \* the field to write, or the token to read, next
          ztags,     \* names of the elements that are open: p.tags
          zparents,  \* those of the path of the last field: parentStack
          zwire,     \* tokens written
          zframes,   \* calls of unmarshal, unmarshalPath and Skip
          zread      \* fields that were read
structVars == <<zfields, zphase, znext, ztags, zparents, zwire, zframes, zread>>

ZInit ==
  /\ zfields = <<>> /\ zphase = "type" /\ znext = 1
  /\ ztags = <<>> /\ zparents = [path |-> <<>>, xmlns |-> ""] /\ zwire = <<>>
  /\ zframes = <<>> /\ zread = {}

-----------------------------------------------------------------------------
(* typeinfo.go *)

ZPath(f) == Append(f.parents, f.name)
\* A path conflicts with the paths it begins, in the same name space or in any.
Conflict(f, g) ==
  /\ f.mode = g.mode
  /\ f.xmlns = "" \/ g.xmlns = "" \/ f.xmlns = g.xmlns
  /\ IsPrefix(ZPath(f), ZPath(g)) \/ IsPrefix(ZPath(g), ZPath(f))

\* addFieldInfo: a field of an outer struct hides those of an embedded one.
addFieldInfo(f, value) ==
  LET clash == {i \in DOMAIN zfields : Conflict(zfields[i].f, f)}
      kept == SelectSeq(zfields, LAMBDA x : ~Conflict(x.f, f))
  IN  /\ zphase = "type" /\ Len(zfields) < ZMax
      /\ \/ /\ \E i \in clash : zfields[i].f.depth < f.depth
            /\ UNCHANGED <<zfields, zphase>>
         \/ /\ \A i \in clash : zfields[i].f.depth >= f.depth
            /\ \E i \in clash : zfields[i].f.depth = f.depth
            /\ zphase' = "refused" /\ UNCHANGED zfields
         \/ /\ \A i \in clash : zfields[i].f.depth > f.depth
            /\ zfields' = Append(kept, [f |-> f, value |-> value]) /\ UNCHANGED zphase
      /\ UNCHANGED <<znext, ztags, zparents, zwire, zframes, zread>>

-----------------------------------------------------------------------------
(* marshal.go: every element that is written sets the default name space *)

ZDefault(tags) == IF tags = <<>> THEN "" ELSE Last(tags).space
ZElem(space, local) == [space |-> space, local |-> local]
ZStart(n) == [kind |-> "start", name |-> n]
ZEnd(n) == [kind |-> "end", name |-> n]

\* setParents: the elements that stay open, those that are closed, those that are
\* opened; without a value nothing is opened.
Common(path, xmlns) ==
  IF xmlns # zparents.xmlns THEN 0
  ELSE Max({k \in 0..Min({Len(path), Len(zparents.path)}) : SubSeq(path, 1, k) = SubSeq(zparents.path, 1, k)})
setParents(path, fieldNS, value) ==
  LET xmlns == IF fieldNS = "" THEN ZDefault(ztags) ELSE fieldNS
      k == Common(path, xmlns)
      closed == Len(zparents.path) - k
      opened == IF value THEN SubSeq(path, k + 1, Len(path)) ELSE <<>>
      new == [i \in DOMAIN opened |-> ZElem(xmlns, opened[i])]
  IN  [tags |-> SubSeq(ztags, 1, Len(ztags) - closed) \o new,
       wire |-> [i \in 1..closed |-> ZEnd(ZElem(zparents.xmlns, zparents.path[Len(zparents.path) + 1 - i]))]
                \o [i \in DOMAIN new |-> ZStart(new[i])],
       parents |-> [path |-> SubSeq(path, 1, k) \o opened, xmlns |-> xmlns],
       \* writeEnd refuses another name than that of the element that is open
       ok |-> \A i \in 1..closed : ztags[Len(ztags) + 1 - i] = ZElem(zparents.xmlns, zparents.path[Len(zparents.path) + 1 - i])]

Marshal ==
  /\ zphase = "type" /\ zfields # <<>>
  /\ zphase' = "marshal" /\ ztags' = <<ZElem("", "root")>> /\ zwire' = <<ZStart(ZElem("", "root"))>>
  /\ UNCHANGED <<zfields, znext, zparents, zframes, zread>>

\* One field: the path, and the element of its value (marshalValue), or the text.
marshalField ==
  LET x == zfields[znext]
      s == setParents(x.f.parents, x.f.xmlns, x.value)
      elem == ZElem(IF x.f.xmlns = "" THEN ZDefault(s.tags) ELSE x.f.xmlns, x.f.name)
  IN  /\ zphase = "marshal" /\ znext <= Len(zfields)
      /\ zphase' = IF s.ok THEN zphase ELSE "failed"
      /\ ztags' = s.tags /\ zparents' = s.parents
      /\ zwire' = zwire \o s.wire \o (IF ~x.value THEN <<>>
                                      ELSE IF x.f.mode = "chardata" THEN <<[kind |-> "text", name |-> elem]>>
                                      ELSE <<ZStart(elem), ZEnd(elem)>>)
      /\ znext' = znext + 1
      /\ UNCHANGED <<zfields, zframes, zread>>
marshalEnd ==
  LET s == setParents(<<>>, "", FALSE)
  IN  /\ zphase = "marshal" /\ znext > Len(zfields)
      /\ zphase' = IF s.ok /\ Len(s.tags) = 1 THEN "unmarshal" ELSE "failed"
      /\ ztags' = <<>> /\ zparents' = s.parents
      /\ zwire' = zwire \o s.wire \o <<ZEnd(ZElem("", "root"))>>
      /\ znext' = 1
      /\ UNCHANGED <<zfields, zframes, zread>>

-----------------------------------------------------------------------------
(* read.go: frames are "struct" and "path" with the parents, "leaf" and "skip" *)

ZFrame(kind, parents) == [kind |-> kind, parents |-> parents]
\* unmarshalPath: the first field that the element is, or that it leads to.
MayMatch(f, parents, name) ==
  /\ f.mode = "element" /\ (f.xmlns = "" \/ f.xmlns = name.space)
  /\ Len(f.parents) >= Len(parents) /\ SubSeq(f.parents, 1, Len(parents)) = parents
  /\ \/ Len(f.parents) = Len(parents) /\ f.name = name.local
     \/ Len(f.parents) > Len(parents) /\ f.parents[Len(parents) + 1] = name.local
unmarshalPath(parents, name) == SelectInSeq(zfields, LAMBDA x : MayMatch(x.f, parents, name))

ZRead(frames, read) ==
  /\ zframes' = frames /\ zread' = read /\ znext' = znext + 1
  /\ zphase' = IF znext = Len(zwire) THEN "done" ELSE zphase
  /\ UNCHANGED <<zfields, ztags, zparents, zwire>>
ZToken(kind) == zphase = "unmarshal" /\ znext <= Len(zwire) /\ zwire[znext].kind = kind

\* unmarshal finds its start element.
unmarshal == ZToken("start") /\ zframes = <<>> /\ ZRead(<<ZFrame("struct", <<>>)>>, zread)
\* A start element in a struct or on a path; one that is not wanted is skipped.
unmarshalStart ==
  /\ ZToken("start") /\ zframes # <<>>
  /\ LET top == Last(zframes)
         i == unmarshalPath(top.parents, zwire[znext].name)
         f == zfields[i].f
     IN  IF top.kind \in {"skip", "leaf"} \/ i = 0 THEN ZRead(Append(zframes, ZFrame("skip", <<>>)), zread)
         ELSE IF Len(f.parents) = Len(top.parents) THEN ZRead(Append(zframes, ZFrame("leaf", <<>>)), zread \cup {i})
         ELSE ZRead(Append(zframes, ZFrame("path", SubSeq(f.parents, 1, Len(top.parents) + 1))), zread)
unmarshalEnd == ZToken("end") /\ ZRead(Front(zframes), zread)
\* Character data belongs to the struct when it is not within another element.
unmarshalText ==
  /\ ZToken("text")
  /\ ZRead(zframes, zread \cup {i \in DOMAIN zfields : zfields[i].f.mode = "chardata" /\ Last(zframes).kind = "struct"})

ZNext ==
  \/ \E f \in ZFields, value \in BOOLEAN : addFieldInfo(f, value)
  \/ Marshal \/ marshalField \/ marshalEnd
  \/ unmarshal \/ unmarshalStart \/ unmarshalEnd \/ unmarshalText

-----------------------------------------------------------------------------
(* A struct of any type that getTypeInfo accepts is read back as it was         *)
(* written: the fields with a value, and no others, whichever paths and name    *)
(* spaces the fields share and whichever of them have no value.                 *)
ZReadBack ==
  /\ zphase # "failed"
  /\ zphase = "done" => zread = {i \in DOMAIN zfields : zfields[i].value}

(* What is written is well formed: an end tag has the name of the element that  *)
(* is open, and every element is closed (setParents, writeEnd).                 *)
ZWellFormed ==
  \A j \in DOMAIN zwire : zwire[j].kind = "end" =>
    \E i \in 1..(j - 1) :
      /\ zwire[i] = ZStart(zwire[j].name)
      /\ LET between == SubSeq(zwire, i + 1, j - 1)
             Count(kind) == Len(SelectSeq(between, LAMBDA t : t.kind = kind))
         IN  Count("start") = Count("end")
=============================================================================
