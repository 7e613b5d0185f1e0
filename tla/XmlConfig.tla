----------------------------- MODULE XmlConfig ------------------------------
(***************************************************************************)
(* CXmlConfigParser (src/frame/common/xmlconfigparser.cc): parameters of a *)
(* configuration, named by the path of element names that leads to them.   *)
(* root_ points into the tree of the document, which every parse replaces: *)
(* it holds the number of the parse it comes from, so that a pointer into  *)
(* a deleted tree can be told from a good one.                             *)
(***************************************************************************)
EXTENDS XmlPrinter

CONSTANTS Files,       \* the texts that may be parsed
          Paths,       \* the paths that are asked for, sequences of keys
          MaxParses    \* bound on the parses of one object

ParsesAssumption == MaxParses \in Nat

VARIABLES
    xmldoc,   \* xmldoc_: [kids, err, bom], and parse: how often it was parsed
    root,     \* root_: the parse its tree is of (NoPlace: NULL), and the element
    status,   \* what the last parse returned
    error,    \* error_
    answer    \* the last lookup: the path and what was answered

vars == <<xmldoc, root, status, error, answer>>

ElementsOf(kids, key) == SelectSeq(kids, LAMBDA n : n.kind = "element" /\ n.value = key)

\* What NextSiblingElement leaves: the elements of that name, in order.
\* Every key but the last goes to the first element of its name; an empty
\* key, as in "/a" or "a/", finds nothing.
RECURSIVE ElementsAt(_, _)
ElementsAt(ele, path) ==
    LET found == IF path[1] = <<>> THEN <<>> ELSE ElementsOf(ele.kids, path[1])
    IN  IF Len(path) = 1 \/ found = <<>> THEN found ELSE ElementsAt(found[1], Tail(path))

Content(ele) == InnerAccept(NewPrinter(FALSE), ele.kids).out

GetParameters(ele, path) ==
    LET found == ElementsAt(ele, path) IN [i \in DOMAIN found |-> Content(found[i])]

\* The same walk, written a second time; of the elements at its end it takes
\* the first.
GetParameter(ele, path) ==
    LET found == ElementsAt(ele, path) IN IF found = <<>> THEN <<>> ELSE Content(found[1])

RootElements(doc) == SelectSeq(doc.kids, LAMBDA n : n.kind = "element")

DetailBuffer(s) ==
    <<"<", "?", "x", "?", ">", "<", "a", ">">> \o s \o <<"<", "/", "a", ">">>

-----------------------------------------------------------------------------

Init ==
    /\ xmldoc = [kids |-> <<>>, err |-> None, bom |-> FALSE, parse |-> 0]
    /\ root = [parse |-> NoPlace, ele |-> Leaf("element", <<>>)]
    /\ status = -1
    /\ error = ""
    /\ answer = <<>>

SetXmlError(err) == err

\* Whatever the outcome, the old tree is gone; root_ is set only if the
\* text was well formed, and then to NULL if it has no element.
MutantReplace(doc) ==
    /\ xmldoc' = [kids |-> doc.kids, err |-> doc.err, bom |-> doc.bom, parse |-> xmldoc.parse + 1]
    /\ IF doc.err # None \/ root.parse # NoPlace THEN UNCHANGED root
       ELSE root' = IF RootElements(doc) = <<>> THEN [root EXCEPT !.parse = NoPlace]
                    ELSE [parse |-> xmldoc.parse + 1, ele |-> RootElements(doc)[1]]
    /\ status' = IF doc.err = None /\ RootElements(doc) # <<>> THEN 0 ELSE -1
    /\ error' = IF doc.err # None THEN SetXmlError(doc.err)
                ELSE IF RootElements(doc) = <<>> THEN "no root node!" ELSE error
    /\ UNCHANGED answer
Replace(doc) ==
    /\ xmldoc' = [kids |-> doc.kids, err |-> doc.err, bom |-> doc.bom, parse |-> xmldoc.parse + 1]
    /\ IF doc.err # None THEN UNCHANGED root
       ELSE root' = IF RootElements(doc) = <<>> THEN [root EXCEPT !.parse = NoPlace]
                    ELSE [parse |-> xmldoc.parse + 1, ele |-> RootElements(doc)[1]]
    /\ status' = IF doc.err = None /\ RootElements(doc) # <<>> THEN 0 ELSE -1
    /\ error' = IF doc.err # None THEN SetXmlError(doc.err)
                ELSE IF RootElements(doc) = <<>> THEN "no root node!" ELSE error
    /\ UNCHANGED answer

ParseBuffer ==
    /\ xmldoc.parse < MaxParses
    /\ \E doc \in {Parse(s, FALSE) : s \in Files} : Replace(doc)

ParseFile ==
    /\ xmldoc.parse < MaxParses
    /\ \/ Replace(Cleared("XML_ERROR_FILE_NOT_FOUND", xmldoc.bom))
       \/ \E s \in Files : \E doc \in LoadFile(s, xmldoc.bom) : Replace(doc)

\* A parameter's content is parsed again, as ParseSosList does with it.
ParseDetailBuffer ==
    /\ xmldoc.parse < MaxParses
    /\ answer # <<>>
    /\ \E doc \in {Parse(DetailBuffer(answer), FALSE)} : Replace(doc)

\* main() and the tests look something up only after a parse that worked.
Lookup ==
    /\ status = 0
    /\ \E path \in Paths : answer' = GetParameter(root.ele, path)
    /\ UNCHANGED <<xmldoc, root, status, error>>

Next == ParseBuffer \/ ParseFile \/ ParseDetailBuffer \/ Lookup
Spec == Init /\ [][Next]_vars

-----------------------------------------------------------------------------

\* Whoever looks something up after a parse that worked reads the tree of
\* that parse, not one that a later parse has deleted.
LookupIsLive == status = 0 => root.parse = xmldoc.parse

\* A parse that failed leaves its own error to read, not an earlier one.
ErrorIsOfLastParse ==
    status = -1 /\ xmldoc.parse > 0 =>
        error = IF xmldoc.err # None THEN xmldoc.err ELSE "no root node!"

\* What a lookup gave can be parsed as a configuration of its own, also when
\* it holds escaped text, markup or nothing but text: ParseDetailBuffer never
\* fails on it.
DetailsParse == [][ParseDetailBuffer => status' = 0]_vars
=============================================================================
