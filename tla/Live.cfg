SPECIFICATION Spec
INVARIANTS
    WaitersAreSafe
PROPERTIES
    EverybodyIsServed
CHECK_DEADLOCK FALSE
