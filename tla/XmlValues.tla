----------------------------- MODULE XmlValues -----------------------------
(***************************************************************************)
(* Typed values of src/frame/tinyxml2: what SetAttribute and SetText write *)
(* for an int, unsigned, bool, double or float, and what QueryAttribute    *)
(* and the Query...Text calls read out of whatever text there is.          *)
(* One element with one attribute and some children.                       *)
(*                                                                         *)
(* A text is what sscanf looks at: an optional minus, the number its       *)
(* digits make (NaN: it has none), and what follows the digits.  A long    *)
(* has twice the bits of an int.  The character references of XmlChars,    *)
(* the other part of XMLUtil, go on beside this.                           *)
(***************************************************************************)
EXTENDS XmlChars

CONSTANTS IntLimit,       \* an int is from -IntLimit to IntLimit - 1
          Fractions,      \* what may follow the digits of a double
          Strings,        \* texts set as such
          MaxKids

ASSUME WidthAssumption == IntLimit \in Nat \ {0} /\ MaxKids \in Nat

VARIABLES
  attr,     \* the attribute: <<>> or its text
  kids,     \* the children, each an element or a text
  attrSet,  \* history: <<>> or the typed value the attribute was set to
  textSet,  \* history: the same for the first child
  out, err  \* the caller's variable and the result of its last query

valueVars == <<attr, kids, attrSet, textSet, out, err>>

UnsignedLimit == 2 * IntLimit
LongLimit     == UnsignedLimit * IntLimit
ULongLimit    == 2 * LongLimit

NaN    == -1
Number(neg, digits, tail) == [neg |-> neg, digits |-> digits, tail |-> tail]
Word(w) == Number(FALSE, NaN, w)

Signed(t) == IF t.neg THEN -t.digits ELSE t.digits

\* The typed values, each [type, num]; a Boolean is 0 or 1.  ".long" is a
\* fraction of more digits than "%.8g" writes, ".short" what it leaves.
Ints      == {Number(v < 0, IF v < 0 THEN -v ELSE v, "") : v \in -IntLimit .. IntLimit - 1}
Unsigneds == {Number(FALSE, v, "") : v \in 0 .. UnsignedLimit - 1}
Doubles   == {Number(neg, v, f) : neg \in BOOLEAN, v \in {1, UnsignedLimit}, f \in Fractions}
Typed == [type : {"int"}, num : Ints] \cup [type : {"unsigned"}, num : Unsigneds]
            \cup [type : {"bool"}, num : {Number(FALSE, v, "") : v \in {0, 1}}]
            \cup [type : {"double", "float"}, num : Doubles]
Types == {"int", "unsigned", "bool", "double", "float"}

\* XMLUtil::ToStr.
ToStr(v) == IF v.type = "float" /\ v.num.tail = ".long" THEN [v.num EXCEPT !.tail = ".short"]
            ELSE v.num

-----------------------------------------------------------------------------
(* XMLUtil::To...: sscanf with one conversion.  It stops at the first      *)
(* character it cannot use, and the text behind that is not looked at.     *)

Read(num)  == [ok |-> TRUE, num |-> num]
Unreadable == [ok |-> FALSE, num |-> Number(FALSE, 0, "")]
FromInt(v) == Number(v < 0, IF v < 0 THEN -v ELSE v, "")

\* "%d": strtol stays at the limits of a long, and the long is cut to an int.
ToInt(t) ==
    LET v == IF Signed(t) >= LongLimit THEN LongLimit - 1
             ELSE IF Signed(t) < -LongLimit THEN -LongLimit ELSE Signed(t)
    IN  IF t.digits = NaN THEN Unreadable
        ELSE Read(FromInt(((v + IntLimit) % UnsignedLimit) - IntLimit))

\* "%u": a minus is allowed and wraps around.
ToUnsigned(t) ==
    LET v == IF t.digits >= ULongLimit THEN ULongLimit - 1 ELSE Signed(t)
    IN  IF t.digits = NaN THEN Unreadable ELSE Read(FromInt(v % UnsignedLimit))

ToBool(t) == IF ToInt(t).ok THEN Read(FromInt(IF ToInt(t).num.digits = 0 THEN 0 ELSE 1))
             ELSE CASE t = Word("true")  -> Read(FromInt(1))
                    [] t = Word("false") -> Read(FromInt(0))
                    [] OTHER             -> Unreadable

\* "%f" and "%lf"; a fraction is read, letters are not.
ToDouble(t) == IF t.digits = NaN THEN Unreadable
               ELSE Read(IF t.tail \in Fractions \cup {".short"} THEN t ELSE Number(t.neg, t.digits, ""))

ReadAs(type, t) == CASE type = "int"      -> ToInt(t)
                     [] type = "unsigned" -> ToUnsigned(t)
                     [] type = "bool"     -> ToBool(t)
                     [] OTHER             -> ToDouble(t)

-----------------------------------------------------------------------------
Elem    == [kind |-> "element", text |-> Word("")]
Text(t) == [kind |-> "text", text |-> t]
HasText == kids # <<>> /\ Head(kids).kind = "text"

\* SetText: into the first child if that is a text, or before it.
WithText(t) == IF HasText THEN <<Text(t)>> \o Tail(kids) ELSE <<Text(t)>> \o kids

\* The result of a query of found (<<>>: there is no text).
Query(type, found, missing, wrong) ==
    LET r == ReadAs(type, found[1])
    IN  /\ err' = IF found = <<>> THEN missing ELSE IF r.ok THEN "XML_NO_ERROR" ELSE wrong
        /\ IF found # <<>> /\ r.ok THEN out' = r.num ELSE UNCHANGED out
        /\ UNCHANGED <<attr, kids, attrSet, textSet>>

ValuesInit ==
    /\ attr = <<>> /\ kids = <<>> /\ attrSet = <<>> /\ textSet = <<>>
    /\ out = Number(FALSE, 0, "") /\ err = "XML_NO_ERROR"

Forgotten == out' = Number(FALSE, 0, "") /\ err' = "XML_NO_ERROR"

SetTypedAttribute(v) ==
    /\ attr' = <<ToStr(v)>> /\ attrSet' = <<v>>
    /\ Forgotten /\ UNCHANGED <<kids, textSet>>

SetAttributeString(t) ==
    /\ attr' = <<t>> /\ attrSet' = <<>>
    /\ Forgotten /\ UNCHANGED <<kids, textSet>>

DropAttribute ==
    /\ attr # <<>> /\ attr' = <<>> /\ attrSet' = <<>>
    /\ Forgotten /\ UNCHANGED <<kids, textSet>>

SetTypedText(v) ==
    /\ Len(kids) < MaxKids \/ HasText
    /\ kids' = WithText(ToStr(v)) /\ textSet' = <<v>>
    /\ Forgotten /\ UNCHANGED <<attr, attrSet>>

\* InsertEndChild and InsertFirstChild of an element, and DeleteChild of the
\* first child.
InsertChild ==
    /\ Len(kids) < MaxKids
    /\ \/ kids' = Append(kids, Elem) /\ UNCHANGED textSet
       \/ kids' = <<Elem>> \o kids /\ textSet' = <<>>
    /\ Forgotten /\ UNCHANGED <<attr, attrSet>>

DeleteFirst ==
    /\ kids # <<>> /\ kids' = Tail(kids) /\ textSet' = <<>>
    /\ Forgotten /\ UNCHANGED <<attr, attrSet>>

QueryAttribute(type) == Query(type, attr, "XML_NO_ATTRIBUTE", "XML_WRONG_ATTRIBUTE_TYPE")
QueryText(type) == Query(type, IF HasText THEN <<Head(kids).text>> ELSE <<>>,
                         "XML_NO_TEXT_NODE", "XML_CAN_NOT_CONVERT_TEXT")

ValuesNext ==
    \/ \E v \in Typed : SetTypedAttribute(v) \/ SetTypedText(v)
    \/ \E t \in Strings : SetAttributeString(t)
    \/ DropAttribute \/ InsertChild \/ DeleteFirst
    \/ \E type \in Types : QueryAttribute(type) \/ QueryText(type)

ValuesSpec == ValuesInit /\ [][ValuesNext]_valueVars

-----------------------------------------------------------------------------
Same(v, num) == IF v.type = "float" /\ v.num.tail = ".long" THEN num = [v.num EXCEPT !.tail = ".short"]
                ELSE num = v.num
Value(v) == Signed(v.num)

\* What a program sets it reads back, in the type it set it in: from the
\* attribute, and from the text whatever was inserted behind it.  Only a float
\* loses digits.
ReadsBack ==
    /\ attrSet # <<>> => LET r == ReadAs(attrSet[1].type, attr[1])
                         IN  r.ok /\ Same(attrSet[1], r.num)
    /\ textSet # <<>> => HasText /\ LET r == ReadAs(textSet[1].type, Head(kids).text)
                                    IN  r.ok /\ Same(textSet[1], r.num)

\* An integer read in the other integer type is what a cast would make of it,
\* a double of it has the same value, and a bool of it is whether it is not 0.
ReadsAsCast ==
    attrSet # <<>> /\ attrSet[1].type \in {"int", "unsigned", "bool"} =>
        LET v == Value(attrSet[1]) IN
        /\ Signed(ReadAs("unsigned", attr[1]).num) = v % UnsignedLimit
        /\ Signed(ReadAs("int", attr[1]).num) \in {v, v - UnsignedLimit}
        /\ Signed(ReadAs("double", attr[1]).num) = v
        /\ (ReadAs("bool", attr[1]).num.digits = 1) <=> (v # 0)

(* XMLUtil: a character reference gives the bytes of its number, which fit where it stood; a
   value that is set is read back, in its type or a wider one, and in the other sign as its
   cast. *)
ValuesKept == ReferenceIsItsNumber /\ FitsInPlace /\ ReadsBack /\ ReadsAsCast
=============================================================================
