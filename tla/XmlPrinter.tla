----------------------------- MODULE XmlPrinter -----------------------------
(***************************************************************************)
(* XMLPrinter of src/frame/tinyxml2/tinyxml2.cpp, printing to memory: what *)
(* Accept makes of a tree of Xml.  A printer pr holds what it wrote (out), *)
(* the depth, the depth at which text was met (-1: none, layout is free),  *)
(* whether the tag it wrote last is still open, and whether nothing came   *)
(* before; the four blanks of a level are one here.                        *)
(***************************************************************************)
EXTENDS Xml, Integers

NewPrinter(compact) ==
    [out |-> <<>>, stack |-> <<>>, depth |-> 0, textDepth |-> -1, opened |-> FALSE,
     first |-> TRUE, compact |-> compact]

Write(pr, s)   == [pr EXCEPT !.out = @ \o s]
PrintSpace(pr) == Write(pr, [i \in 1 .. pr.depth |-> " "])

\* Attribute values have all five entities escaped, texts only three.
PrintString(s, restricted) ==
    LET escaped == {e \in Entities : restricted => e.value \in {"&", "<", ">"}}
        Form(c) == IF \E e \in escaped : e.value = c
                   THEN (CHOOSE e \in escaped : e.value = c).pattern ELSE <<c>>
    IN  FlattenSeq([i \in DOMAIN s |-> Form(s[i])])

Sealed(pr) == IF pr.opened THEN [Write(pr, <<">">>) EXCEPT !.opened = FALSE] ELSE pr
FreeLayout(pr) == pr.textDepth < 0 /\ ~pr.compact

NewLine(pr) == IF FreeLayout(pr) /\ ~pr.first THEN Write(pr, <<LF>>) ELSE pr

OpenElement(pr, name) ==
    LET a == NewLine(Sealed(pr))
        b == IF a.compact THEN a ELSE PrintSpace(a)
    IN  [Write(b, <<"<">> \o name) EXCEPT !.opened = TRUE, !.first = FALSE,
                                          !.depth = @ + 1, !.stack = Append(@, name)]

PushAttribute(pr, a) == Write(pr, <<" ">> \o a.name \o <<"=", "\"">>
                                  \o PrintString(a.value, FALSE) \o <<"\"">>)

MutantCloseElement(pr) ==
    LET up == [pr EXCEPT !.depth = @ - 1, !.stack = Front(@)]
        a  == IF pr.opened THEN Write(up, <<"/", ">">>)
              ELSE Write(PrintSpace(Write(up, <<LF>>)), <<"<", "/">> \o Last(pr.stack) \o <<">">>)
    IN  [a EXCEPT !.opened = FALSE, !.textDepth = IF @ = a.depth THEN -1 ELSE @]

CloseElement(pr) ==
    LET up == [pr EXCEPT !.depth = @ - 1, !.stack = Front(@)]
        a  == IF pr.opened THEN Write(up, <<"/", ">">>)
              ELSE Write(IF FreeLayout(up) THEN PrintSpace(Write(up, <<LF>>)) ELSE up,
                         <<"<", "/">> \o Last(pr.stack) \o <<">">>)
        b  == IF a.depth = 0 /\ ~a.compact THEN Write(a, <<LF>>) ELSE a
    IN  [b EXCEPT !.opened = FALSE, !.textDepth = IF @ = b.depth THEN -1 ELSE @]

PushText(pr, node) ==
    LET a == Sealed([pr EXCEPT !.textDepth = pr.depth - 1])
    IN  IF node.kind = "cdata"
        THEN Write(a, <<"<", "!", "[CDATA[">> \o node.value \o <<"]]", ">">>)
        ELSE Write(a, PrintString(node.value, TRUE))

\* PushComment, PushDeclaration and PushUnknown: a line of their own, if the
\* layout is free.
PushMarkup(pr, node) ==
    LET a == Sealed(pr)
        b == IF FreeLayout(a) /\ ~a.first THEN PrintSpace(Write(a, <<LF>>)) ELSE a
        text == CASE node.kind = "comment"     -> <<"<", "!", "--">> \o node.value \o <<"--", ">">>
                  [] node.kind = "declaration" -> <<"<", "?">> \o node.value \o <<"?", ">">>
                  [] node.kind = "unknown"     -> <<"<", "!">> \o node.value \o <<">">>
    IN  [Write(b, text) EXCEPT !.first = FALSE]

RECURSIVE Accept(_, _)
InnerAccept(pr, kids) == FoldLeft(Accept, pr, kids)
Accept(pr, node) ==
    CASE node.kind = "element" ->
            CloseElement(InnerAccept(FoldLeft(PushAttribute, OpenElement(pr, node.value), node.attrs),
                                     node.kids))
      [] node.kind \in {"text", "cdata"} -> PushText(pr, node)
      [] OTHER -> PushMarkup(pr, node)

\* XMLDocument::Accept with its byte order mark.
PrintDocument(doc, compact) ==
    InnerAccept(IF doc.bom THEN Write(NewPrinter(compact), <<"BOM">>) ELSE NewPrinter(compact),
                doc.kids).out
=============================================================================
