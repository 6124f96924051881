SPECIFICATION Spec

CONSTANTS
    MAX_PERMS = 3
    GroupIds = {0, 1, 2}
    hsmA = hsmA
    hsmB = hsmB
    plans = plans
    notes = notes
    Hsms = {hsmA, hsmB}
    Slots = {0, 1}
    SlotNumbers = {0, 1, 2}
    Files = {plans}
    GroupOf <- MCGroupOfPlans
    Permissions <- MCPermissions
    PIN_LENGTH = 2
    Pins <- MCPins
    HSM_PIN <- MCPin
    Coordinated = FALSE
    FlashErrors = TRUE
    MaxResets = 1
    Empty = Empty
    Damaged = Damaged

PROPERTIES
    StoresUsed
    StoreChangesAllowed
    ExchangeSpec

VIEW AllButReply

CONSTRAINT SomeCommands

ACTION_CONSTRAINT OneAtATime

\* Two HSMs that ask at the same time, or listen, wait for each other forever.
CHECK_DEADLOCK FALSE
