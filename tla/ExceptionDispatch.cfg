\* Two guest frames below a dispatch or an unwind, and a handler that raises
\* or unwinds again; walks of up to two frames.
CONSTANTS
  GuestKinds <- MCGuestKinds
  MaxStack = 6
  MaxDepth = 2
SPECIFICATION Spec
CHECK_DEADLOCK FALSE
INVARIANTS LinksAreLive WalksAreExact FlagsAreTruthful
PROPERTIES WalksEnd
