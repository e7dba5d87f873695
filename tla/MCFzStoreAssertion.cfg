SPECIFICATION Spec
CONSTANTS
    t1 = t1
    t2 = t2
    k1 = k1
    k2 = k2
    k3 = k3
    a1 = a1
    a2 = a2
    b1 = b1
    b2 = b2
    c1 = c1
    NoVal = NoVal
    Threads <- MCThreads
    Keys <- MCKeys
    Vals <- MCVals
    Hashed <- MCHashed
    KeyOf <- MCKeyOf
    Weight <- MCWeight
    ImageOf <- MCImageOf
    Slot <- MCSlot
    Requests <- MCRequests
    LoadTenths = 3
    TableSize = 3
    MaxSize = 3
    Phases = 3
    Word = 8
    MaxKept = 2
SYMMETRY MCSymmetry
INVARIANT StoredIsNew
CHECK_DEADLOCK FALSE
