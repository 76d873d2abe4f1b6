SPECIFICATION Spec
CONSTANTS
    Mutations = {m1, m2, m3}
    Absent = Absent
    Torn = Torn
INVARIANTS StoreTypeOK MemoryFollowsDisk
PROPERTIES ImplementsAtomicStore
CHECK_DEADLOCK FALSE
