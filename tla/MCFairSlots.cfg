\* Four sessions of two agents, one of them a subagent, two slots, one reserved; and the
\* gate of one slot of the MC module.
CONSTANTS
    s1 = s1  s2 = s2  s3 = s3  s4 = s4  a1 = a1  a2 = a2
    Session = {s1, s2, s3, s4}
    Agent = {a1, a2}
    AgentOf <- TwoAgents
    Subagent = {s4}
    MaxConcurrency = 2
    Reserved = 1
SPECIFICATION MCSpec
INVARIANTS
    TypeOK
    SlotsExact
    NoLostWakeup
    WaitersEnrolled
PROPERTIES
    ImplementsPool
    LastSlotServed
