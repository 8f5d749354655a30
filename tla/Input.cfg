CONSTANTS
    CharKeys <- OneChar
    OtherKeys = {}
    MaxSessions = 2
    MaxFingers = 3
    MaxCooling = 2
SPECIFICATION InputSpec
INVARIANTS
    ButtonsExplained
    KeysExplained
PROPERTIES
    TextExplained
