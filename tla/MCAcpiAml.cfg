SPECIFICATION Spec
INVARIANTS ControlFollows HeldExact ObjectsSound
PROPERTY UnwindStops
CHECK_DEADLOCK FALSE
