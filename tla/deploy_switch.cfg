CONSTANTS
    Runs = {1, 2}
SPECIFICATION Spec
INVARIANTS SwitchIsHonoured
CHECK_DEADLOCK FALSE
