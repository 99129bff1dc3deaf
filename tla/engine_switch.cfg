\* The question of the engine switch while something connects.
SPECIFICATION Spec
CONSTANT Clicks = 2
INVARIANT DisconnectingEnds
CHECK_DEADLOCK FALSE
