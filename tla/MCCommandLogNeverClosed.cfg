SPECIFICATION Spec
CONSTANT MaxSteps = 2
INVARIANT NeverClosedMidOperation
