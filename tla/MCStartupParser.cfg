CONSTANTS
    Tokens <- MCTokens
    Inputs <- MCInputs
    MSG_SIZE = 4096
    Length <- MCLength
SPECIFICATION Spec
INVARIANTS
    StringsAreParsed
CHECK_DEADLOCK FALSE
