CONSTANTS
 Templates <- MCTemplates
 Broken <- MCBroken
SPECIFICATION AllSpec
INVARIANTS ValuesExact DevicesExact CodeRead
CHECK_DEADLOCK FALSE
