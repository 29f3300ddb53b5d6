\* Two gateways, two events; the scenarios share out starts, expiries, deliveries, faults.
CONSTANTS
    g1 = g1  g2 = g2  a = a  b = b
    Gateway = {g1, g2}
    Event = {a, b}
    Remembers = {g2}
    Budget <- Limits
    MaxFault = 2
    None = None
SPECIFICATION MCSpec
INVARIANTS
    TypeOK
    ForwardedOnce
    NothingForgotten
PROPERTIES
    CompletedIsFinal
    LeaseKept
    EventCompletes
