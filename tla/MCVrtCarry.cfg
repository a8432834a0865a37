SPECIFICATION Spec
CONSTANT Cases <- MCCarry
CHECK_DEADLOCK FALSE
INVARIANT ResultsRight
