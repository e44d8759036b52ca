CONSTANTS
    Keys <- MCKeys
    Fields <- MCFields
    Nums <- MCNums
    Numeral <- MCNumeral
    Words <- MCWords
    Absent = Absent
    NotJson = NotJson
    Pointer <- MCPointer
    Unhash <- MCUnhash
    AscTokens = {"asc"}
    DescTokens = {"desc"}
    DbRefTokens = {"db:other"}
    SuspectTokens = {"x;"}
    Inputs <- MCInputs
SPECIFICATION Spec
PROPERTY SumAddsNumbers
CHECK_DEADLOCK FALSE
