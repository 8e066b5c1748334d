\* The promise of the editor's feedback, in every mode.
CONSTANT MaxEvents = 1
SPECIFICATION Spec
INVARIANT PaintIsCurrent
CHECK_DEADLOCK FALSE
