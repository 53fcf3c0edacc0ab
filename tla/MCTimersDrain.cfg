SPECIFICATION FairSpec
CONSTANTS
  Keys = {k1, k2}
  Uses = {"setInterval", "close", "number", "unref", "ref", "io"}
INVARIANTS NoTimerInSnapshot
PROPERTIES  DrainEnds
CHECK_DEADLOCK FALSE
