CONSTANTS
    Senders = {s1, s2}
    Receivers = {r1, r2}
    Values = {a, b}
    InitialSize = 2
    MaxSends = 5
    MaxCloses = 2
SPECIFICATION FairSpec
INVARIANTS
    WokenReceiverFindsValue
    BufferFits
PROPERTIES
    ImplementsChannel
    NoReceiverSleepsOn
CHECK_DEADLOCK FALSE
