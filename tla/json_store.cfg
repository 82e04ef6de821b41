CONSTANTS
    a = a
    b = b
    m1 = m1
    m2 = m2
    m3 = m3
    NoMutation = NoMutation
    RecordKeys = {a, b}
    Mutations = {m1, m2, m3}
    MaxExpected = 1
SPECIFICATION Spec
SYMMETRY Interchangeable
PROPERTIES
    AtomicCompareAndSet
    DrainComplete
CHECK_DEADLOCK FALSE
