SPECIFICATION Spec
CONSTANT MaxRevisions = 4
INVARIANT ConfirmedAgainByCorrection
CHECK_DEADLOCK FALSE
