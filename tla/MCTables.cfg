SPECIFICATION Spec
CONSTANTS
    Word = {ann, bob}
    Digits = {1}
INVARIANTS
    RowsAreThere
    TablesShowTheArrays
    NobodyTwice
CHECK_DEADLOCK FALSE
