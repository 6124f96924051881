SPECIFICATION FairSpec

CONSTANTS
    MAX_PERMS = 3
    GroupIds = {0, 1, 2}
    hsmA = hsmA
    hsmB = hsmB
    plans = plans
    notes = notes
    Hsms = {hsmA, hsmB}
    Slots = {0, 1}
    SlotNumbers = {0, 1, 2}
    Files = {plans, notes}
    GroupOf <- MCGroupOf
    Permissions <- MCPermissions
    PIN_LENGTH = 2
    Pins <- MCPins
    HSM_PIN <- MCPin
    Coordinated = TRUE
    FlashErrors = FALSE
    MaxResets = 0
    Empty = Empty
    Damaged = Damaged

INVARIANTS
    TypeOK
    InStep

PROPERTIES
    RequesterAnswers
    ListenerAnswers
    ExchangeSpec
