CONSTANTS
    Tokens <- MCTokens
    Inputs <- MCInputs
    MSG_SIZE = 4096
    Length <- MCLength
SPECIFICATION Spec
INVARIANTS
    SettingsAsConfigured NeverServesItself ReportsNameTheirCause
    ErrorStackInside
PROPERTIES
    StartupEnds
CHECK_DEADLOCK FALSE
