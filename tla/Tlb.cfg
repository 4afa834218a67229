CONSTANT Programs <- MCPrograms
SPECIFICATION Spec
INVARIANTS TypeOK NoOrphanMapping EntriesCached
PROPERTY FenceContract
CHECK_DEADLOCK FALSE
