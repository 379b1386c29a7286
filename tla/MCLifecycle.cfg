SPECIFICATION LifeSpec
CONSTANTS
    t1 = t1
    t2 = t2
    t3 = t3
    t4 = t4
    Threads = {t1, t2, t3, t4}
    NoThread = NoThread
    NSlots = 2
    SlotOf <- MCSlotOf
INVARIANTS
    Inv
    NoCallMeetsChange
    FlusherWithin
PROPERTY
    ImplementsMountGate
    UnmountReturns
    KickServed
