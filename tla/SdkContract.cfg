\* Every input of MCSdkContract, answered by both SDKs in either order.
SPECIFICATION Spec
CONSTANTS
    units = units
    invoice = invoice
    milliunit = milliunit
    halala = halala
    whatsapp = whatsapp
    telephony = telephony
    Deliveries <- MCDeliveries
    Usages <- MCUsages
    Payments <- MCPayments
    Rails <- MCRails
    Units <- MCUnits
    Channels <- MCChannels
    Names <- MCNames
    MaxInt = 2500
    MaxId = 2
    MaxText = 3
    MaxKey = 1
    MaxEntries = 2
    Meta <- MCMeta
    Absent = Absent
    Malformed = Malformed
    Null = Null
    Empty = Empty
    Unhashable = Unhashable
    NoAck = NoAck
    Refused = Refused
    NotYet = NotYet
INVARIANTS
    TypeOK
    LedgerBalances
    SameAnswer
    AuthenticatedFirst
    UncalledErrorsRaise
    ExactQuantity
    ArgumentsStand
    SameRequest
CHECK_DEADLOCK FALSE
