\* Two threads on a table of one slot that can be used twice, so that the
\* slot retires and a third insertion finds it retired; the caps are reached
\* by two leases on one record.  No symmetry, for liveness is checked.
CONSTANTS
  Threads = {t1, t2}
  Objects = {o1, o2, o3}
  NoObject = NoObject
  Unused = Unused
  Closed = Closed
  NSlots = 1
  MaxGeneration = 2
  MaxReferences = 2
  MaxTracker = 4
SPECIFICATION FairSpec
INVARIANTS TypeOK NoUseAfterFree CountsExact CloneIsQuiescent
PROPERTIES TokensAreNeverReissued ImplementsStore ImplementsFairStore LockIsReleased
