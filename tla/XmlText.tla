------------------------------- MODULE XmlText -------------------------------
(* server/webdav/internal/xml: escapeText and EscapeString, and Decoder.text,   *)
(* which reads character data, quoted values and CDATA.  A character is a       *)
(* string; on the wire it is [ref |-> TRUE] when it is written as a reference.  *)
EXTENDS Integers, Sequences, SequencesExt

CONSTANTS YChars,    \* characters
          YIllegal,  \* those out of the character range
          YLen       \* bound: characters of a text

VARIABLES ywire,   \* characters as a client writes them: [c, ref]
          yend     \* how the text ends: "<", "quote" or "cdata"
textVars == <<ywire, yend>>

YRaw(c) == [c |-> c, ref |-> FALSE]
YRef(c) == [c |-> c, ref |-> TRUE]

isInCharacterRange(c) == c \notin YIllegal

\* escapeText: a character out of range becomes the replacement character.
Escaped(escapeNewline) == {"quot", "&", "<", ">", "CR"} \cup (IF escapeNewline THEN {"LF"} ELSE {})
escapeText(s, escapeNewline) ==
  [i \in DOMAIN s |-> IF ~isInCharacterRange(s[i]) THEN YRaw("FFFD")
                      ELSE IF s[i] \in Escaped(escapeNewline) THEN YRef(s[i]) ELSE YRaw(s[i])]
EscapeString(s) == escapeText(s, TRUE)

\* One character of text: b0 and b1 are the two before it, done when the text has
\* ended.  The end itself is not in the sequence, except as a character.
SkipsLF(st, w) == st.b1 = "CR" /\ w.c = "LF"
readChar(st, w) ==
  IF st.done \/ st.err THEN st
  ELSE IF ~w.ref /\ st.b0 = "]" /\ st.b1 = "]" /\ w.c = ">"
  THEN IF st.end = "cdata" THEN [st EXCEPT !.done = TRUE, !.buf = SubSeq(@, 1, Len(@) - 2)] ELSE [st EXCEPT !.err = TRUE]
  ELSE IF ~w.ref /\ w.c = "<" /\ st.end # "cdata"
  THEN IF st.end = "quote" THEN [st EXCEPT !.err = TRUE] ELSE [st EXCEPT !.done = TRUE]
  ELSE IF ~w.ref /\ w.c = "quot" /\ st.end = "quote" THEN [st EXCEPT !.done = TRUE]
  ELSE IF w.ref /\ st.end # "cdata" THEN [st EXCEPT !.buf = Append(@, w.c), !.b0 = "", !.b1 = ""]
  ELSE IF ~w.ref /\ w.c = "&" /\ st.end # "cdata" THEN [st EXCEPT !.err = TRUE]
  ELSE [st EXCEPT !.buf = IF w.c = "CR" THEN Append(@, "LF") ELSE IF SkipsLF(st, w) THEN @ ELSE Append(@, w.c),
                  !.b0 = st.b1, !.b1 = w.c]
YStart(end) == [buf |-> <<>>, b0 |-> "", b1 |-> "", err |-> FALSE, done |-> FALSE, end |-> end]
text(wire, end) ==
  LET st == FoldLeft(readChar, YStart(end), wire)
  IN  [buf |-> st.buf,
       err |-> st.err \/ (end = "cdata" /\ ~st.done) \/ \E i \in DOMAIN st.buf : ~isInCharacterRange(st.buf[i])]

-----------------------------------------------------------------------------
YInit == ywire = <<>> /\ yend \in {"<", "quote", "cdata"}
\* A client writes one more character; there are no references in CDATA.
YWrite(c, ref) ==
  /\ Len(ywire) < YLen /\ (yend = "cdata" => ~ref)
  /\ ywire' = Append(ywire, [c |-> c, ref |-> ref])
  /\ UNCHANGED yend
YNext == \E c \in YChars, ref \in BOOLEAN : YWrite(c, ref)

-----------------------------------------------------------------------------
\* The characters that ywire stands for.
YMeant == [i \in DOMAIN ywire |-> ywire[i].c]
YReplaced(s) == [i \in DOMAIN s |-> IF s[i] \in YIllegal THEN "FFFD" ELSE s[i]]

(* Any text that is escaped, as content or as an attribute, is read back as it  *)
(* was, with the replacement character for what is out of range: line ends and  *)
(* "]]>" included (escapeText, EscapeString, text).                             *)
YEscapedReadBack ==
  LET s == YMeant
  IN  /\ text(escapeText(s, FALSE), "<") = [buf |-> YReplaced(s), err |-> FALSE]
      /\ text(EscapeString(s), "quote") = [buf |-> YReplaced(s), err |-> FALSE]

(* What a client wrote without escaping is read with its line ends made line    *)
(* feeds: each CR, and each LF that no CR is directly before, gives one         *)
(* ("We must rewrite unescaped \r and \r\n into \n"), and nothing else changes. *)
YLineEnds ==
  LET stops == {YRaw("]")} \cup IF yend = "cdata" THEN {} ELSE {YRaw("<"), YRaw("quot"), YRaw("&")}
      tail == IF yend = "cdata" THEN <<YRaw("]"), YRaw("]"), YRaw(">")>> ELSE <<>>
      Gives(i) == CASE ywire[i] = YRaw("CR") -> <<"LF">>
                    [] ywire[i] = YRaw("LF") /\ i > 1 /\ ywire[i - 1] = YRaw("CR") -> <<>>
                    [] OTHER -> <<ywire[i].c>>
  IN  (\A i \in DOMAIN ywire : ywire[i] \notin stops /\ ywire[i].c \notin YIllegal) =>
        text(ywire \o tail, yend) = [buf |-> FlattenSeq([i \in DOMAIN ywire |-> Gives(i)]), err |-> FALSE]
=============================================================================
