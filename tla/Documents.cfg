SPECIFICATION MCSpec
CONSTANTS
    Elements = {e1, e2, e3, e4}
    Texts = {t1}
    Doc = doc
    Null = null
    Names = {id, ref}
    Values = {v, w}
    MaxFailures = 1
    Bearers = {e1, e2}
    DecimalDigits = {"0", "1", "2", "9"}
    HexDigits = {"0", "1", "7", "8", "f"}
    MaxDecimal = 7
    MaxHex = 6
    IntLimit = 2
    Fractions = {"", "e+20", ".long"}
    Strings <- MCStrings
    MaxKids = 2
INVARIANTS ReadAsWritten  ValuesKept
PROPERTY ConfigWhole
CHECK_DEADLOCK FALSE
