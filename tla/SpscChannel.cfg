SPECIFICATION Spec
CONSTANTS
    t1 = t1
    t2 = t2
    t3 = t3
    m1 = m1
    m2 = m2
    Tasks <- MC_Tasks
    Messages <- MC_Messages
    IPC_CHANNEL_SLOTS = 4
    CHANNEL_UNASSIGNED = CHANNEL_UNASSIGNED
    None = None
INVARIANTS
    TypeOK
    NoSlotRace
PROPERTY RefinesFifo
CHECK_DEADLOCK FALSE
