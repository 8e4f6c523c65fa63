SPECIFICATION Spec
INVARIANTS
    BoardIsPrefix
    EveryPlaceHasItsFlag
CHECK_DEADLOCK FALSE
