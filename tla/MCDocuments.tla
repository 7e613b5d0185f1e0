---------------------------- MODULE MCDocuments -----------------------------
(***************************************************************************)
(* The XML a process is configured with, for TLC: trees that are printed    *)
(* and read again, texts of any pieces, the configuration's parser, the     *)
(* links between nodes and their attributes, character references and typed *)
(* values.  Each is checked by itself: which says which of them runs, and   *)
(* the others stay as they begin.                                           *)
(***************************************************************************)
EXTENDS XmlNodes, XmlValues, SequencesExt

CONSTANT Bearers    \* bound: the elements that are given attributes

VARIABLES which,
    doc, size,
    pieces,
    xmldoc, root, status, error, answer

X == INSTANCE Xml

\* Trees of five nodes and attributes.
Trees == INSTANCE XmlTrees WITH MaxNodes <- 4

\* Five tags, right or wrong, and five parts of a text.
Start(n) == <<"<", n, ">">>
End(n) == <<"<", "/", n, ">">>

Tags == INSTANCE XmlTexts WITH
    MaxPieces <- 5,
    Pieces <- {Start("a"), Start("b"), End("a"), End("b"), <<"<", "a", "/", ">">>,
               <<"<", "/", "b", " ", "/", ">">>, <<"<", "!", "x", ">">>}
Parts == INSTANCE XmlTexts WITH
    MaxPieces <- 5,
    Pieces <- {<<"<", "a">>, <<"<", "/", "a">>, <<">">>, <<"/", ">">>, <<" ", X!LF>>, <<"x">>, <<"&">>,
               <<"m", ";">>, <<" ", "b", "=", "'">>, <<"'">>, <<"<", "!">>, <<"--">>, <<X!CR>>}

\* Six texts: a configuration with nested, repeated and escaped parameters, one with text
\* between its elements, one that is cut off, one whose tags do not match, one with no
\* element, and none.
In(n, s) == Start(n) \o s \o End(n)
Nested == In("a", In("b", In("x", <<"1">>)) \o In("b", <<"&", "l", ";", "x">>)
                  \o In("x", In("b", <<"&", "m", ";">>) \o In("b", <<>>)))
Mixed  == In("a", In("x", <<" ", "x", " ">> \o In("b", <<"x">>) \o <<"x">>)
                  \o In("b", <<"<", "!", "[CDATA[", "<", "]]", ">">>))

Config == INSTANCE XmlConfig WITH
    MaxParses <- 3,
    Files <- {Nested, Mixed, SubSeq(Nested, 1, 20), Start("a") \o End("b"),
              <<"<", "!", "--", "x", "--", ">">>, <<>>},
    Paths <- {<<<<"b">>>>, <<<<"x">>>>, <<<<"x">>, <<"b">>>>, <<<<"b">>, <<"x">>>>, <<<<>>, <<"b">>>>}

\* Words, letters behind digits, and numbers at and over the limits of an int and of a long
\* (2 and 4 bits).
MCStrings == {Number(FALSE, NaN, w) : w \in {"true", "false", ""}}
             \cup {Number(FALSE, n, "apples") : n \in {0, 2}}
             \cup {Number(neg, n, "") : neg \in BOOLEAN, n \in {1, 2, 3, 4, 7, 8, 9, 15, 16, 17}}

ASSUME Config!ParsesAssumption /\ Bearers \subseteq Elements

\* The nodes of XmlNodes, all of them without attributes, or a few with them.
Linking == Next /\ dom'.attrs = dom.attrs
Naming  == Next /\ dom'.alive \subseteq Bearers /\ dom'.failures = 0

-----------------------------------------------------------------------------
treeVars   == <<doc, size>>
configVars == <<xmldoc, root, status, error, answer>>
all        == <<which, treeVars, pieces, configVars, vars, text, valueVars>>

MCInit ==
    /\ which \in {"trees", "tags", "parts", "config", "nodes", "attributes", "chars", "values"}
    /\ Trees!Init /\ (which # "trees" => ~doc.bom)
    /\ Tags!Init /\ Config!Init
    /\ Init
    /\ CharsInit /\ (which # "chars" => Len(text) = 2)
    /\ ValuesInit

MCNext ==
    \/ which = "trees" /\ Trees!Next /\ UNCHANGED <<which, pieces, configVars, vars, text, valueVars>>
    \/ which = "tags" /\ Tags!Next /\ UNCHANGED <<which, treeVars, configVars, vars, text, valueVars>>
    \/ which = "parts" /\ Parts!Next /\ UNCHANGED <<which, treeVars, configVars, vars, text, valueVars>>
    \/ which = "config" /\ Config!Next /\ UNCHANGED <<which, treeVars, pieces, vars, text, valueVars>>
    \/ which = "nodes" /\ Linking /\ UNCHANGED <<which, treeVars, pieces, configVars, text, valueVars>>
    \/ which = "attributes" /\ Naming
       /\ UNCHANGED <<which, treeVars, pieces, configVars, text, valueVars>>
    \/ which = "chars" /\ CharsNext /\ UNCHANGED <<which, treeVars, pieces, configVars, vars, valueVars>>
    \/ which = "values" /\ ValuesNext /\ UNCHANGED <<which, treeVars, pieces, configVars, vars, text>>

MCSpec == MCInit /\ [][MCNext]_all

-----------------------------------------------------------------------------
(* XMLDocument and XMLPrinter: what is printed reads as the same document, with layout if no
   element stands behind a text; what is read without an error and saved is read as the same
   again; and a text of tags is accepted exactly if they match. *)
ReadAsWritten ==
    /\ which = "trees" => Trees!RoundTrip
    /\ which = "tags" => Tags!TagsMatch
    /\ which = "parts" => Parts!SavedAsRead

(* CXmlConfigParser: a file that lost its end is refused or lacks nothing; GetParameter is
   the first of GetParameters, and a parameter parsed by itself holds what it held; a lookup
   behind a parse that worked reads the tree of that parse, and gives what can be parsed as a
   configuration; the error that can be read is the one of the last parse. *)
ConfigWhole ==
    /\ [](which = "trees" => Trees!NoHalfConfig /\ Trees!FirstOfMany /\ Trees!DetailsKept)
    /\ [](Config!LookupIsLive /\ Config!ErrorIsOfLastParse)
    /\ Config!DetailsParse
=============================================================================
