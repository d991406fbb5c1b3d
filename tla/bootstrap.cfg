SPECIFICATION BootSpec
CONSTANT MaxSet = 2
INVARIANTS BootTypeOK ConfigInForce WeakSetupIsAnnounced
CHECK_DEADLOCK FALSE
