------------------------------ MODULE XmlChars ------------------------------
(***************************************************************************)
(* Numeric character references of src/frame/tinyxml2/tinyxml2.cpp: what   *)
(* GetCharacterRef reads behind a `&#', the number it computes from the    *)
(* right in 32-bit arithmetic, and its UTF-8 bytes, which GetStr writes    *)
(* over the reference.                                                     *)
(*                                                                         *)
(* The text grows by one character at a time, so that every text over the  *)
(* digits, finished or not, is a state.                                    *)
(***************************************************************************)
EXTENDS Integers, Sequences

CONSTANTS DecimalDigits, HexDigits,   \* the digits that follow `&#' and `&#x'
          MaxDecimal, MaxHex          \* and how many of them

VARIABLES
  text  \* the reference

Semicolon == ";"
At(s, p) == IF p \in DOMAIN s THEN s[p] ELSE "NUL"
IsHex(s) == At(s, 3) = "x"
Base(s)  == IF IsHex(s) THEN 16 ELSE 10

-----------------------------------------------------------------------------
(* The number.  An unsigned is two halves of 16 bits; what counts of ucs   *)
(* (64 bits wide) is min(ucs, Cap), since all from 2^21 are alike.         *)

Half == 65536
Cap  == 2097152
Times(w, k) == [hi |-> (w.hi * k + (w.lo * k) \div Half) % Half, lo |-> (w.lo * k) % Half]
Capped(w)   == IF w.hi >= Cap \div Half THEN Cap ELSE w.hi * Half + w.lo

Lower == <<"0","1","2","3","4","5","6","7","8","9","a","b","c","d","e","f">>
Upper == <<"0","1","2","3","4","5","6","7","8","9","A","B","C","D","E","F">>
DigitsOf(base)  == {Lower[i] : i \in 1 .. base} \cup {Upper[i] : i \in 1 .. base}
DigitValue(c)   == CHOOSE v \in 0 .. 15 : c \in {Lower[v + 1], Upper[v + 1]}

\* Of longer references the 32 bits of mult and of its products lose a part.
ASSUME DigitsAssumption ==
    /\ DecimalDigits \subseteq DigitsOf(10) /\ HexDigits \subseteq DigitsOf(16)
    /\ MaxDecimal \in 0 .. 9 /\ MaxHex \in 0 .. 8

\* mult is base ^ k, as an unsigned.
Mult(base) ==
    LET mult[k \in 0 .. 15] == IF k = 0 THEN [hi |-> 0, lo |-> 1] ELSE Times(mult[k - 1], base)
    IN  mult

\* What a digit adds to ucs, and ucs.
Added(digits, base, i) == Capped(Times(Mult(base)[Len(digits) - i], DigitValue(digits[i])))
Sums(digits, base) ==
    LET sum[i \in 0 .. Len(digits)] ==
            IF i = 0 THEN 0
            ELSE LET s == sum[i - 1] + Added(digits, base, i)
                 IN  IF s > Cap THEN Cap ELSE s
    IN  sum
Ucs(digits, base) == Sums(digits, base)[Len(digits)]

Utf8Length(n) ==
    IF n < 128 THEN 1 ELSE IF n < 2048 THEN 2 ELSE IF n < 65536 THEN 3 ELSE IF n < Cap THEN 4 ELSE 0

FirstByteMark == <<0, 192, 224, 240>>
Shift         == <<1, 64, 64 * 64, 64 * 64 * 64>>   \* six bits are shifted out at a time

MutantConvertUTF32ToUTF8(n) ==
    LET len == Utf8Length(n)
        Byte(i) == IF i = 1 THEN n \div Shift[len] + FirstByteMark[len]
                   ELSE 128 + ((n \div 64) % 64)
    IN  [i \in 1 .. len |-> Byte(i)]
ConvertUTF32ToUTF8(n) ==
    LET len == Utf8Length(n)
        Byte(i) == IF i = 1 THEN n \div Shift[len] + FirstByteMark[len]
                   ELSE 128 + ((n \div Shift[len - i + 1]) % 64)
    IN  [i \in 1 .. len |-> Byte(i)]

\* From the `&' at the start of s: where to read on (0: NULL), and the bytes.
GetCharacterRef(s) ==
    LET first == IF IsHex(s) THEN 4 ELSE 3
        ends  == {q \in first .. Len(s) : s[q] = Semicolon}
        q     == CHOOSE q \in ends : \A r \in ends : q <= r
        digits == SubSeq(s, first, q - 1)
    IN  IF At(s, 2) # "#" \/ At(s, 3) = "NUL" THEN [next |-> 2, bytes |-> <<>>]
        ELSE IF ends = {} \/ \E i \in DOMAIN digits : digits[i] \notin DigitsOf(Base(s))
        THEN [next |-> 0, bytes |-> <<>>]
        ELSE [next |-> q + 1, bytes |-> ConvertUTF32ToUTF8(Ucs(digits, Base(s)))]

-----------------------------------------------------------------------------
Finished == text[Len(text)] = Semicolon

CharsInit == text \in {<<"&", "#">>, <<"&", "#", "x">>}

Digit(c) ==
    /\ ~Finished
    /\ IF IsHex(text) THEN c \in HexDigits /\ Len(text) - 3 < MaxHex
                      ELSE c \in DecimalDigits /\ Len(text) - 2 < MaxDecimal
    /\ text' = Append(text, c)

EndRef == ~Finished /\ text' = Append(text, Semicolon)

CharsNext == (\E c \in HexDigits \cup DecimalDigits : Digit(c)) \/ EndRef

CharsSpec == CharsInit /\ [][CharsNext]_text

-----------------------------------------------------------------------------
Digits == SubSeq(text, IF IsHex(text) THEN 4 ELSE 3, Len(text) - 1)

\* The number that places are worth, read from the left.
FromLeft(places, base) ==
    LET value[i \in 0 .. Len(places)] == IF i = 0 THEN 0 ELSE value[i - 1] * base + places[i]
    IN  value
Worth(places, base) == FromLeft(places, base)[Len(places)]

\* What the digits mean, and what UTF-8 bytes do.
Meant == Worth([i \in DOMAIN Digits |-> DigitValue(Digits[i])], Base(text))
Decoded(bytes) ==
    Worth([i \in DOMAIN bytes |-> bytes[i] - IF i = 1 THEN FirstByteMark[Len(bytes)] ELSE 128], 64)

\* A finished reference to a number UTF-8 has a form for becomes bytes that
\* decode to that number; a larger number becomes nothing.
ReferenceIsItsNumber ==
    Finished =>
        LET bytes == GetCharacterRef(text).bytes
        IN  IF Meant < Cap THEN bytes # <<>> /\ Decoded(bytes) = Meant ELSE bytes = <<>>

\* GetStr writes the bytes where it reads: those of a finished reference
\* never reach the text that is still to be read.
FitsInPlace == Finished => Len(GetCharacterRef(text).bytes) < GetCharacterRef(text).next
=============================================================================
