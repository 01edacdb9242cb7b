CONSTANTS
  GuestKinds <- MCGuestKinds
  MaxStack = 6
  MaxDepth = 2
SPECIFICATION Spec
CHECK_DEADLOCK FALSE
INVARIANTS AbandonedFramesAreTerminated
