SPECIFICATION Spec
CONSTANTS
    Word = {ann}
    Digits = {1, 5}
INVARIANT TeamsIsDictionary
CHECK_DEADLOCK FALSE
