SPECIFICATION Spec
CONSTANTS
  Keys = {k1, k2, k3}
  Uses = {"setInterval", "close", "number", "refresh", "_repeat", "io"}
INVARIANTS TypeOK SleepersHaveHandles OneSleeper
PROPERTIES ClosedStaysSilent
CHECK_DEADLOCK FALSE
