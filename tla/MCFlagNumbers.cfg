SPECIFICATION Spec
INVARIANT FlagNumbersAgree
CHECK_DEADLOCK FALSE
