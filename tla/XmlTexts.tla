------------------------------ MODULE XmlTexts ------------------------------
(***************************************************************************)
(* Any text, right or wrong: it grows by one of Pieces a step, up to       *)
(* MaxPieces, and is parsed at every length.                               *)
(***************************************************************************)
EXTENDS XmlPrinter

CONSTANTS Pieces, MaxPieces

VARIABLES pieces
vars == <<pieces>>

text == FlattenSeq(pieces)

Init == pieces = <<>>
Next == Len(pieces) < MaxPieces /\ \E p \in Pieces : pieces' = Append(pieces, p)
Spec == Init /\ [][Next]_vars

-----------------------------------------------------------------------------

\* What is read without an error and saved is the same when it is read
\* again, in both modes of white space.  (A document may end in a text only
\* if a stray end tag stopped the parser; such a text cannot be saved.)
SavedAsRead ==
    \A collapse \in BOOLEAN : \A doc \in {Parse(text, collapse)} :
        doc.err = None /\ doc.kids # <<>> /\ Last(doc.kids).kind # "text" =>
            Parse(PrintDocument(doc, TRUE), collapse) = doc

\* A reference for texts made of tags: the names that are open, or "stray"
\* behind an end tag that nothing opened, where the parser stops without an
\* error, or "wrong".  "</b />" is taken for "<b />".
Step(open, tag) ==
    LET starts == tag[2] \in NameStart /\ tag[3] = ">"
        ends   == tag[2] = "/" /\ tag[4] = ">"
    IN  CASE open \in {<<"stray">>, <<"wrong">>} -> open
          [] open \notin {<<"stray">>, <<"wrong">>} /\ starts -> Append(open, tag[2])
          [] open \notin {<<"stray">>, <<"wrong">>} /\ ends ->
                IF open = <<>> THEN <<"stray">>
                ELSE IF Last(open) = tag[3] THEN Front(open) ELSE <<"wrong">>
          [] OTHER -> open

\* The parser accepts a text of tags exactly if every tag that opens an
\* element is closed by its own name, in order.
TagsMatch ==
    pieces # <<>> =>
        (Parse(text, FALSE).err = None <=> FoldLeft(Step, <<>>, pieces) \in {<<>>, <<"stray">>})
=============================================================================
