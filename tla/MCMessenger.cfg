\* Messages from the shell, and from framework code inside the handlers.
CONSTANTS
  MaxMsgs = 3
  MaxGen = 3
  Capacities = {0, 1, 2}
  Nested = TRUE
SPECIFICATION FairSpec
INVARIANTS MessengerInv HandlerIsCurrent
PROPERTIES ListenedIsSettled
CHECK_DEADLOCK FALSE
