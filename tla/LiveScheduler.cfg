\* Two acts of the developer after the activation, with what follows from them.
CONSTANT MaxEvents = 2
SPECIFICATION Spec
INVARIANTS TypeOK PaintIsCurrentOrLeft ManualIsAlone OwnCancelsAreOrdered
PROPERTY LatestIsShown
CHECK_DEADLOCK FALSE
