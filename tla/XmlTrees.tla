------------------------------ MODULE XmlTrees ------------------------------
(***************************************************************************)
(* Configurations as they are written: a document grows by one node or     *)
(* attribute a step, is printed, cut, parsed and looked up.                *)
(***************************************************************************)
EXTENDS XmlPrinter

CONSTANT MaxNodes      \* bound on the nodes and attributes beside the root

C == INSTANCE XmlConfig WITH Files <- {}, Paths <- {}, MaxParses <- 0,
        xmldoc <- 0, root <- 0, status <- 0, error <- 0, answer <- 0

VARIABLES doc, size
vars == <<doc, size>>

NewNodes ==
    {Leaf("element", <<n>>) : n \in {"a", "b"}}
    \cup {Leaf("cdata", <<"<", "x">>), Leaf("comment", <<"&">>), Leaf("text", <<" ", "&", "<", "b">>)}

\* A node is put first or last under an element; two texts side by side
\* would be one text when they are read again.
Fits(kids, n) == n.kind = "text" /\ kids # <<>> => kids[Len(kids)].kind # "text"
RECURSIVE Grown(_, _)
Grown(ele, n) ==
    (IF Fits(ele.kids, n) THEN {[ele EXCEPT !.kids = Append(@, n)]} ELSE {})
    \cup UNION {{[ele EXCEPT !.kids[i] = k] : k \in Grown(ele.kids[i], n)} :
                    i \in {j \in DOMAIN ele.kids : ele.kids[j].kind = "element"}}
Named == [name |-> <<"a">>, value |-> <<"\"", "&", ">">>]
RECURSIVE WithAttribute(_)
WithAttribute(ele) ==
    (IF ele.attrs = <<>> THEN {[ele EXCEPT !.attrs = <<Named>>]} ELSE {})
    \cup UNION {{[ele EXCEPT !.kids[i] = k] : k \in WithAttribute(ele.kids[i])} :
                    i \in {j \in DOMAIN ele.kids : ele.kids[j].kind = "element"}}

Root(d) == d.kids[Len(d.kids)]
Init ==
    \E before \in {<<>>, <<Leaf("declaration", <<"x">>)>>} :
        /\ doc = [kids |-> before \o <<Leaf("element", <<"a">>)>>, err |-> None, bom |-> before # <<>>]
        /\ size = Len(before)
Grow ==
    /\ size < MaxNodes
    /\ size' = size + 1
    /\ \E r \in WithAttribute(Root(doc)) \cup UNION {Grown(Root(doc), n) : n \in NewNodes} :
          doc' = [doc EXCEPT !.kids[Len(doc.kids)] = r]
Next == Grow
Spec == Init /\ [][Next]_vars

-----------------------------------------------------------------------------

Printed == PrintDocument(doc, FALSE)

\* Printing indents an element even where it stands behind a text, and the
\* blanks become part of that text: such a document changes with each save.
RECURSIVE Settled(_)
Settled(kids) ==
    /\ \A i \in DOMAIN kids : Settled(kids[i].kids)
    /\ \A i \in 2 .. Len(kids) : ~(kids[i].kind = "element" /\ kids[i - 1].kind = "text")

\* A document printed without layout reads as the same document, whatever
\* it holds; with layout so does one that has no element behind a text.
RoundTrip ==
    \A compact \in BOOLEAN :
        compact \/ Settled(doc.kids) => Parse(PrintDocument(doc, compact), FALSE) = doc

\* A file that lost its end is refused or lacks nothing: there is no half
\* configuration.
NoHalfConfig ==
    \A whole \in {Printed} : \A read \in {Root(Parse(whole, FALSE))}, n \in 1 .. Len(whole) :
        \A cut \in {Parse(SubSeq(whole, 1, n), FALSE)} :
            cut.err = None /\ C!RootElements(cut) # <<>> => C!RootElements(cut)[1] = read

AskedFor == {<<<<"a">>>>, <<<<"b">>>>, <<<<"a">>, <<"b">>>>, <<<<"b">>, <<"b">>>>, <<<<>>, <<"b">>>>,
             <<<<"b">>, <<>>>>}

\* The two walks agree: GetParameter is the first of GetParameters.
FirstOfMany ==
    \A path \in AskedFor :
        LET all == C!GetParameters(Root(doc), path)
        IN  C!GetParameter(Root(doc), path) = IF all = <<>> THEN <<>> ELSE all[1]

\* A parameter's content, parsed by itself, holds the element's children,
\* unless text stands between elements, where printing adds line breaks.
Plain(kids) == \A i, j \in DOMAIN kids : kids[i].kind = "text" => kids[j].kind \in {"text", "cdata"}
DetailsKept ==
    \A path \in AskedFor :
    \A found \in {C!ElementsAt(Root(doc), path)} \ {<<>>},
       again \in {Parse(C!DetailBuffer(C!GetParameter(Root(doc), path)), FALSE)} :
        /\ again.err = None
        /\ Plain(found[1].kids) /\ Settled(found[1].kids) => C!RootElements(again)[1].kids = found[1].kids
=============================================================================
