SPECIFICATION Spec
CONSTANTS
    Relations = {r1, r2}
    Layouts <- RenameThenAlter
    Rows <- SomeRows
    Numbers <- SomeNumbers
    NonFinite <- NotANumber
    JsonOf <- SomeJson
    Spellings = {"prefixed", "terminated"}
    Misread = Misread
    Garbled = Garbled
    Missing = Missing
    Unchanged = Unchanged
    MaxTransactions = 2
SYMMETRY RelationSymmetry
INVARIANTS
    TypeOK
    FailuresExplained
    EventIsTrue
    ValuesShown
