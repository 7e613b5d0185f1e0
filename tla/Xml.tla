-------------------------------- MODULE Xml --------------------------------
(***************************************************************************)
(* The parser of src/frame/tinyxml2/tinyxml2.cpp, as functions of the      *)
(* text.  A text is a sequence of characters; "--", "]]" and "[CDATA["     *)
(* stand for themselves and count as one character each.  A position is an *)
(* index of the text, NoPlace is a NULL char*, and a read behind the text  *)
(* is the terminating zero.                                                *)
(*                                                                         *)
(* A node is [kind, value, attrs, kids]; attrs is a sequence of            *)
(* [name, value] and values are character sequences as GetStr gives them.  *)
(***************************************************************************)
EXTENDS Naturals, Sequences, FiniteSetsExt, SequencesExt

NoPlace == 0
NUL  == "NUL"
None == "XML_NO_ERROR"
CR   == "\r"
LF   == "\n"

Spaces     == {" ", CR, LF}
NameStart  == {"a", "b", "x"}
NameChars  == NameStart \cup {"1", "--"}

At(s, p) == IF p \in DOMAIN s THEN s[p] ELSE NUL
Matches(s, p, w) == p + Len(w) - 1 <= Len(s) /\ SubSeq(s, p, p + Len(w) - 1) = w
FirstFrom(s, p, S) == Min({q \in p .. Len(s) + 1 : At(s, q) \notin S})
SkipWhiteSpace(s, p) == FirstFrom(s, p, Spaces)

-----------------------------------------------------------------------------
(* StrPair: a value is cut out of the text when it is parsed and converted *)
(* in place when it is first read.                                         *)

EntityValue == [q |-> "\"", m |-> "&", p |-> "'", l |-> "<", g |-> ">"]
\* The five entities, under names of one letter.  Character references are
\* in XmlChars.
Entities == {[pattern |-> <<"&", name, ";">>, value |-> EntityValue[name]] :
                name \in DOMAIN EntityValue}

\* The loop of GetStr over the buffer: p reads, q writes, both in buf.  A
\* `&' that starts no entity moves both and writes nothing.
RECURSIVE Convert(_, _, _, _)
Convert(buf, p, q, entities) ==
    LET Put(c, step) == Convert([buf EXCEPT ![q] = c], p + step, q + 1, entities)
        known == {e \in Entities : Matches(buf, p, e.pattern)}
    IN  CASE p > Len(buf)   -> SubSeq(buf, 1, q - 1)
          [] At(buf, p) = CR -> Put(LF, IF At(buf, p + 1) = LF THEN 2 ELSE 1)
          [] At(buf, p) = LF -> Put(LF, IF At(buf, p + 1) = CR THEN 2 ELSE 1)
          [] entities /\ At(buf, p) = "&" ->
                IF known = {} THEN Convert(buf, p + 1, q + 1, entities)
                ELSE LET e == CHOOSE e \in known : TRUE IN Put(e.value, Len(e.pattern))
          [] OTHER -> Put(buf[p], 1)

\* CollapseWhitespace: no space at either end, one blank for every run.
CollapseWhitespace(s) ==
    LET keep == {i \in DOMAIN s : \/ s[i] \notin Spaces
                                  \/ /\ i > 1 /\ s[i - 1] \notin Spaces
                                     /\ \E j \in i .. Len(s) : s[j] \notin Spaces}
        at(k) == CHOOSE i \in keep : Cardinality({j \in keep : j < i}) = k - 1
    IN  [k \in 1 .. Cardinality(keep) |-> IF s[at(k)] \in Spaces THEN " " ELSE s[at(k)]]

\* What a kind of value has done to it: entities in texts and attribute
\* values, newlines in all, and the collapse in texts if the document asks.
GetStr(s, kind, collapse) ==
    LET text == Convert(s, 1, 1, kind \in {"text", "attribute"})
    IN  IF collapse /\ kind = "text" THEN CollapseWhitespace(text) ELSE text

ParseText(s, p, end) ==
    LET ends == {q \in p .. Len(s) : Matches(s, q, end)}
    IN  IF ends = {} THEN [p |-> NoPlace, value |-> <<>>]
        ELSE [p |-> Min(ends) + Len(end), value |-> SubSeq(s, p, Min(ends) - 1)]

ParseName(s, p) ==
    IF At(s, p) \notin NameStart THEN [p |-> NoPlace, value |-> <<>>]
    ELSE LET q == FirstFrom(s, p, NameChars)
         IN  [p |-> q, value |-> SubSeq(s, p, q - 1)]

-----------------------------------------------------------------------------
(* What comes next, and the nodes without children.                        *)

Headers == << [kind |-> "declaration", head |-> <<"<", "?">>],
              [kind |-> "comment",     head |-> <<"<", "!", "--">>],
              [kind |-> "cdata",       head |-> <<"<", "!", "[CDATA[">>],
              [kind |-> "unknown",     head |-> <<"<", "!">>],
              [kind |-> "element",     head |-> <<"<">>],
              [kind |-> "text",        head |-> <<>>] >>

\* A text starts where the white space before it starts.
Identify(s, p) ==
    LET q == SkipWhiteSpace(s, p)
        h == Headers[Min({i \in DOMAIN Headers : Matches(s, q, Headers[i].head)})]
    IN  IF At(s, q) = NUL THEN [kind |-> "nothing", p |-> q]
        ELSE [kind |-> h.kind, p |-> IF h.kind = "text" THEN p ELSE q + Len(h.head)]

Leaf(kind, value) == [kind |-> kind, value |-> value, attrs |-> <<>>, kids |-> <<>>]

\* What parsing a node gives: the position behind it, the node, the name of
\* the end tag that was met inside it, its closing type and the error.
Parsed(p, node, end, closing, err) ==
    [p |-> p, node |-> node, end |-> end, closing |-> closing, err |-> err]

\* A node that goes up to its own end mark, or sets its own error.
ParseUpTo(s, p, kind, end, error, collapse, err) ==
    LET t == ParseText(s, p, end)
    IN  Parsed(t.p, Leaf(kind, GetStr(t.value, kind, collapse)), <<>>, "OPEN",
               IF t.p = NoPlace THEN error ELSE err)

ParseComment(s, p, err) ==
    ParseUpTo(s, p, "comment", <<"--", ">">>, "XML_ERROR_PARSING_COMMENT", FALSE, err)
ParseDeclaration(s, p, err) ==
    ParseUpTo(s, p, "declaration", <<"?", ">">>, "XML_ERROR_PARSING_DECLARATION", FALSE, err)
ParseUnknown(s, p, err) ==
    ParseUpTo(s, p, "unknown", <<">">>, "XML_ERROR_PARSING_UNKNOWN", FALSE, err)

\* A text ends before its "<", and only if more than the "<" is left.
ParseXMLText(s, p, kind, collapse, err) ==
    LET t == ParseUpTo(s, p, kind, <<"<">>, "XML_ERROR_PARSING_TEXT", collapse, err)
    IN  IF kind = "cdata"
        THEN ParseUpTo(s, p, kind, <<"]]", ">">>, "XML_ERROR_PARSING_CDATA", FALSE, err)
        ELSE [t EXCEPT !.p = IF At(s, @) = NUL THEN NoPlace ELSE @ - 1]

-----------------------------------------------------------------------------
(* Attributes and elements.                                                *)

ParseAttribute(s, p) ==
    LET name  == ParseName(s, p)
        eq    == SkipWhiteSpace(s, name.p)
        quote == SkipWhiteSpace(s, eq + 1)
        value == ParseText(s, quote + 1, <<At(s, quote)>>)
        good  == name.p # NoPlace /\ At(s, eq) = "=" /\ At(s, quote) \in {"\"", "'"}
    IN  [p |-> IF good THEN value.p ELSE NoPlace, name |-> name.value,
         value |-> IF good THEN GetStr(value.value, "attribute", FALSE) ELSE <<>>]

RECURSIVE ParseAttributes(_, _, _, _)
ParseAttributes(s, p, attrs, err) ==
    LET q == SkipWhiteSpace(s, p)
        a == ParseAttribute(s, q)
        again == \E i \in DOMAIN attrs : attrs[i].name = a.name
        Stop(r, closed, e) == [p |-> r, attrs |-> attrs, closed |-> closed, err |-> e]
    IN  CASE At(s, q) \in NameStart ->
               IF a.p = NoPlace \/ again THEN Stop(NoPlace, FALSE, "XML_ERROR_PARSING_ATTRIBUTE")
               ELSE ParseAttributes(s, a.p, Append(attrs, [name |-> a.name, value |-> a.value]), err)
          [] Matches(s, q, <<"/", ">">>) -> Stop(q + 2, TRUE, err)
          [] At(s, q) = ">"              -> Stop(q + 1, FALSE, err)
          [] OTHER                       -> Stop(NoPlace, FALSE, "XML_ERROR_PARSING_ELEMENT")

\* Forward declaration of XMLNode::ParseDeep, which calls ParseElement.
RECURSIVE ParseDeep(_, _, _, _, _)

\* An element without a name fails and sets no error itself.  "/>" wins over
\* the "/" of a closing tag.
ParseElement(s, p, collapse, err) ==
    LET q     == SkipWhiteSpace(s, p)
        slash == At(s, q) = "/"
        Filled(node, inner) ==
            Parsed(inner.p, [node EXCEPT !.kids = inner.kids], inner.end, "OPEN", inner.err)
        Tagged(a, node) ==
            LET closing == IF a.closed THEN "CLOSED" ELSE IF slash THEN "CLOSING" ELSE "OPEN"
            IN  IF a.p = NoPlace \/ At(s, a.p) = NUL \/ closing # "OPEN"
                THEN Parsed(a.p, node, <<>>, closing, a.err)
                ELSE Filled(node, ParseDeep(s, a.p, <<>>, collapse, a.err))
        WithAttributes(name, a) == Tagged(a, [Leaf("element", name) EXCEPT !.attrs = a.attrs])
        Named(name) ==
            IF name.value = <<>> THEN Parsed(NoPlace, Leaf("element", <<>>), <<>>, "OPEN", err)
            ELSE WithAttributes(name.value, ParseAttributes(s, name.p, <<>>, err))
    IN  Named(ParseName(s, IF slash THEN q + 1 ELSE q))

\* An element that is open needs the end tag of its name, any other none.
Mismatch(closing, name, end) == IF closing = "OPEN" THEN end # name ELSE end # <<>>

\* The children of a node from p on, behind those already read.  A closing
\* tag ends them and its name goes to the caller; a child that fails ends
\* them and is deleted, with the error it set or XML_ERROR_PARSING.
ParseDeep(s, p, kids, collapse, err) ==
    LET Stop(q, end, e) == [p |-> q, kids |-> kids, end |-> end, err |-> e]
        Node(id) ==
            CASE id.kind = "element"     -> ParseElement(s, id.p, collapse, err)
              [] id.kind = "comment"     -> ParseComment(s, id.p, err)
              [] id.kind = "declaration" -> ParseDeclaration(s, id.p, err)
              [] id.kind = "unknown"     -> ParseUnknown(s, id.p, err)
              [] OTHER                   -> ParseXMLText(s, id.p, id.kind, collapse, err)
        Behind(n) ==
            CASE n.p = NoPlace -> Stop(NoPlace, <<>>, IF n.err = None THEN "XML_ERROR_PARSING" ELSE n.err)
              [] n.p # NoPlace /\ n.closing = "CLOSING" -> Stop(n.p, n.node.value, n.err)
              [] n.p # NoPlace /\ n.closing # "CLOSING" ->
                    IF n.node.kind = "element" /\ Mismatch(n.closing, n.node.value, n.end)
                    THEN Stop(NoPlace, <<>>, "XML_ERROR_MISMATCHED_ELEMENT")
                    ELSE ParseDeep(s, n.p, Append(kids, n.node), collapse, n.err)
        Read(id) == IF id.kind = "nothing" THEN Stop(NoPlace, <<>>, err) ELSE Behind(Node(id))
    IN  IF p = NoPlace \/ At(s, p) = NUL THEN Stop(NoPlace, <<>>, err) ELSE Read(Identify(s, p))

ReadBOM(s, p) == IF At(s, p) = "BOM" THEN p + 1 ELSE p
\* After an error nobody asks for the mark.
Cleared(err, bom) == [kids |-> <<>>, err |-> err, bom |-> bom]

\* XMLDocument::Parse: white space and a byte order mark are skipped.
Parse(s, collapse) ==
    LET p == SkipWhiteSpace(s, 1)
        q == ReadBOM(s, p)
        Read(r) == [kids |-> r.kids, err |-> r.err, bom |-> q > p]
    IN  IF At(s, q) = NUL THEN Cleared("XML_ERROR_EMPTY_DOCUMENT", q > p)
        ELSE Read(ParseDeep(s, q, <<>>, collapse, None))

\* XMLDocument::LoadFile, of a file that can be opened: it may still be
\* unreadable, or a directory.
LoadFile(s, bom) == {Cleared("XML_ERROR_FILE_READ_ERROR", bom), Parse(s, FALSE)}
=============================================================================
